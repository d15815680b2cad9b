------------------------- MODULE TestProgramProofs -------------------------
(***************************************************************************)
(* The test programs: the client of TCPtest never mixes images or shows    *)
(* a header as one, for any image size and any connection, and the UDP     *)
(* bandwidth test prints what the network lost, for any number of counters *)
(* and any delay that the counters can tell apart.                         *)
(***************************************************************************)
EXTENDS TcpStream, Bandwidth, SequenceTheorems, TLAPS
-----------------------------------------------------------------------------
(* The TCP stream.                                                         *)

\* A unit is the number of an image and a place in its message.
Unit == {0, 1} \X Nat

\* The units of a message are numbered 1 .. MsgLen, the images alternate.
MsgLen == Pieces + 3
Succ(u) == IF u[2] < MsgLen THEN <<u[1], u[2] + 1>> ELSE <<1 - u[1], 1>>

StreamTypes ==
    /\ program \in {"visensor", "writer"}
    /\ srv \in {"down", "listen", "send", "error"}
    /\ cl \in {"off", "header", "payload"}
    /\ image \in {0, 1} /\ at \in Nat
    /\ at <= (IF program = "visensor" THEN MsgLen ELSE Pieces)
    /\ wire \in Seq(Unit) /\ have \in Seq(Unit) /\ shown \in Seq(Unit)
    /\ asked \in Nat /\ ended \in BOOLEAN /\ short \in BOOLEAN

\* A short read has met the end, and a client whose server sends has not been left.
EndInv ==
    /\ short => AtEnd
    /\ cl # "off" => (srv = "send" <=> ~ended)

\* The unit the visensor server sends next.
NextSent == IF at < MsgLen THEN <<image, at + 1>> ELSE <<1 - image, 1>>

\* The unit after those of the present read, which is about image b.
NextRead(b) ==
    IF cl = "header" THEN <<b, Len(have) + 1>>
    ELSE IF Len(have) < Pieces THEN <<b, Len(have) + 4>> ELSE <<1 - b, 1>>

\* The read under way has got the beginning of its part of message b, and the stream goes on
\* where it stands: with the first unit on the wire, or with the one the server sends next.
Reading(b) ==
    /\ cl = "header" => Len(have) <= 3 /\ \A k \in 1 .. Len(have) : have[k] = <<b, k>>
    /\ cl = "payload" => /\ asked = Pieces /\ Len(have) <= Pieces
                         /\ \A k \in 1 .. Len(have) : have[k] = <<b, 3 + k>>
    /\ wire # <<>> => wire[1] = NextRead(b)
    /\ wire = <<>> /\ ~ended => NextSent = NextRead(b)

\* Each unit on the wire is followed by its successor, up to the server's next.
Line ==
    /\ \A k \in 1 .. Len(wire) - 1 : wire[k + 1] = Succ(wire[k])
    /\ wire # <<>> /\ ~ended => Succ(wire[Len(wire)]) = NextSent

VisensorInv == program = "visensor" /\ cl # "off" => Line /\ \E b \in {0, 1} : Reading(b)

\* The server without headers sends no unit that could be taken for one.
WriterInv ==
    program = "writer" =>
        /\ shown = <<>> /\ cl # "payload"
        /\ \A k \in 1 .. Len(wire) : wire[k][2] > 3
        /\ \A k \in 1 .. Len(have) : have[k][2] > 3

\* What is shown is the beginning of one image, cut off only by the end of a connection.
ShownInv ==
    /\ Len(shown) <= Pieces
    /\ \E b \in {0, 1} : \A k \in 1 .. Len(shown) : shown[k] = <<b, 3 + k>>
    /\ Len(shown) \in 1 .. Pieces - 1 => short

StreamInv == StreamTypes /\ EndInv /\ VisensorInv /\ WriterInv /\ ShownInv

\* The sizes, from the assumption on them.
LEMMA StreamConstants ==
    /\ Pieces \in Nat /\ Pieces >= 1
    /\ MsgLen \in Nat /\ MsgLen = Pieces + 3
BY StreamAssumption DEF MsgLen

\* What one send hands over: unit k of the visensor's message, or piece k of the writer's.
LEMMA MessageFacts ==
    ASSUME StreamTypes
    PROVE  /\ program = "visensor" =>
                /\ Len(Message) = MsgLen
                /\ \A k \in 1 .. MsgLen : Message[k] = <<image, k>>
           /\ program = "writer" =>
                /\ Len(Message) = Pieces
                /\ \A k \in 1 .. Pieces : Message[k] = <<image, 3 + k>>
<1> USE StreamConstants
<1> DEFINE h == HeaderUnits(image)
           p == ImageUnits(image)
           U == {image} \X Nat
<1>1. h \in Seq(U) /\ Len(h) = 3 /\ \A k \in 1 .. 3 : h[k] = <<image, k>>
  BY DEF HeaderUnits
<1>2. p \in Seq(U) /\ Len(p) = Pieces /\ \A k \in 1 .. Pieces : p[k] = <<image, 3 + k>>
  BY DEF ImageUnits
<1> HIDE DEF h, p, U
<1>3. /\ Len(h \o p) = Len(h) + Len(p)
      /\ \A k \in 1 .. Len(h) + Len(p) :
            (h \o p)[k] = IF k <= Len(h) THEN h[k] ELSE p[k - Len(h)]
  BY <1>1, <1>2, ConcatProperties
<1>4. Len(h \o p) = MsgLen
  BY <1>1, <1>2, <1>3
<1>5. ASSUME NEW k \in 1 .. MsgLen PROVE (h \o p)[k] = <<image, k>>
  <2>1. (h \o p)[k] = IF k <= 3 THEN h[k] ELSE p[k - 3]
    BY <1>1, <1>2, <1>3
  <2>2. CASE k <= 3
    BY <1>1, <2>1, <2>2
  <2>3. CASE ~(k <= 3)
    <3>1. k - 3 \in 1 .. Pieces /\ 3 + (k - 3) = k
      BY <2>3
    <3> QED BY <1>2, <2>1, <2>3, <3>1
  <2> QED BY <2>2, <2>3
<1> QED BY <1>2, <1>4, <1>5 DEF Message, h, p

\* Nothing is on the wire, read or shown at the start.
LEMMA InitStream == StreamInit => StreamInv
<1> SUFFICES ASSUME StreamInit PROVE StreamInv
  OBVIOUS
<1> USE StreamConstants DEF StreamInit
<1>1. StreamTypes
  <2>1. /\ program \in {"visensor", "writer"} /\ image \in {0, 1} /\ at \in Nat /\ asked \in Nat
        /\ at <= (IF program = "visensor" THEN MsgLen ELSE Pieces)
    OBVIOUS
  <2>2. /\ srv \in {"down", "listen", "send", "error"} /\ cl \in {"off", "header", "payload"}
        /\ ended \in BOOLEAN /\ short \in BOOLEAN
    OBVIOUS
  <2>3. \A S : <<>> \in Seq(S)
    OBVIOUS
  <2> QED BY <2>1, <2>2, <2>3, Zenon DEF StreamTypes
<1>0. EndInv
  BY DEF EndInv
<1>2. VisensorInv /\ WriterInv
  BY DEF VisensorInv, WriterInv
<1>3. ShownInv
  BY DEF ShownInv
<1> QED BY <1>0, <1>1, <1>2, <1>3 DEF StreamInv

\* Units, and sequences of units, as the steps handle them.
LEMMA UnitFacts ==
    /\ \A b \in {0, 1}, n \in Nat : <<b, n>> \in Unit /\ <<b, n>>[1] = b /\ <<b, n>>[2] = n
    /\ \A u \in Unit : u[1] \in {0, 1} /\ u[2] \in Nat /\ u = <<u[1], u[2]>>
    /\ <<>> \in Seq(Unit) /\ Len(<<>>) = 0
    /\ \A s \in Seq(Unit) : Len(s) \in Nat /\ (s # <<>> <=> Len(s) >= 1)
    /\ \A s \in Seq(Unit) : \A k \in 1 .. Len(s) : s[k] \in Unit
BY EmptySeq, LenProperties, ElementOfSeq DEF Unit

\* What a unit at the end of a sequence changes: write_some, and the buffer of a read.
LEMMA AppendUnit ==
    ASSUME NEW s \in Seq(Unit), NEW u \in Unit
    PROVE  /\ Append(s, u) \in Seq(Unit) /\ Len(Append(s, u)) = Len(s) + 1 /\ Append(s, u) # <<>>
           /\ \A k \in 1 .. Len(s) : Append(s, u)[k] = s[k]
           /\ Append(s, u)[Len(s) + 1] = u
BY AppendProperties

\* What is left when a read takes the first unit of the wire.
LEMMA TakeFirst ==
    ASSUME NEW s \in Seq(Unit), s # <<>>
    PROVE  /\ Head(s) = s[1] /\ Head(s) \in Unit
           /\ Tail(s) \in Seq(Unit) /\ Len(Tail(s)) = Len(s) - 1
           /\ \A k \in 1 .. Len(s) - 1 : Tail(s)[k] = s[k + 1]
BY HeadTailProperties

\* The unit that the socket takes next.
LEMMA UnitSent ==
    ASSUME StreamTypes, at < Len(Message)
    PROVE  /\ Message[at + 1] \in Unit
           /\ program = "visensor" => at + 1 <= MsgLen /\ Message[at + 1] = <<image, at + 1>>
           /\ program = "writer" => at + 1 <= Pieces /\ Message[at + 1] = <<image, 3 + (at + 1)>>
<1> USE StreamConstants
<1>1. at + 1 \in 1 .. Len(Message) /\ Len(Message) \in Nat
  BY MessageFacts DEF StreamTypes
<1>2. image \in {0, 1} /\ at + 1 \in Nat /\ 3 + (at + 1) \in Nat
  BY DEF StreamTypes
<1>3. program = "visensor" => at + 1 <= MsgLen /\ Message[at + 1] = <<image, at + 1>>
  BY <1>1, MessageFacts
<1>4. program = "writer" => at + 1 <= Pieces /\ Message[at + 1] = <<image, 3 + (at + 1)>>
  BY <1>1, MessageFacts
<1>5. program = "visensor" \/ program = "writer"
  BY DEF StreamTypes
<1>6. <<image, at + 1>> \in Unit /\ <<image, 3 + (at + 1)>> \in Unit
  BY <1>2, UnitFacts, Zenon
<1> QED BY <1>3, <1>4, <1>5, <1>6, Zenon

\* Each of the steps below is about one action; the first are about types and the ends of
\* the connection.
LEMMA StreamTypesStep ==
    ASSUME StreamInv, [StreamNext]_streamVars
    PROVE  StreamTypes'
<1> USE StreamConstants, UnitFacts DEF StreamInv, server, client
<1>1. CASE Accept
  <2>1. at' \in Nat /\ at' <= (IF program' = "visensor" THEN MsgLen ELSE Pieces)
    BY <1>1 DEF Accept
  <2> QED BY <1>1, <2>1 DEF Accept, StreamTypes
<1>2. CASE SendUnit
  <2>1. wire' \in Seq(Unit)
    BY <1>2, UnitSent, AppendUnit DEF SendUnit, StreamTypes
  <2>2. at' \in Nat /\ at' <= (IF program = "visensor" THEN MsgLen ELSE Pieces)
    BY <1>2, UnitSent DEF SendUnit, StreamTypes
  <2> QED BY <1>2, <2>1, <2>2 DEF SendUnit, StreamTypes
<1>3. CASE MessageSent
  BY <1>3 DEF MessageSent, StreamTypes
<1>4. CASE BackToAccept
  BY <1>4 DEF BackToAccept, StreamTypes
<1>5. CASE AcceptError \/ SendFails \/ ServerEnds \/ ServerStarts
  BY <1>5 DEF AcceptError, SendFails, ServerEnds, ServerStarts, StreamTypes
<1>6. CASE TakeUnit
  <2>1. wire' \in Seq(Unit) /\ have' \in Seq(Unit)
    BY <1>6, TakeFirst, AppendUnit DEF TakeUnit, StreamTypes
  <2> QED BY <1>6, <2>1 DEF TakeUnit, StreamTypes
<1>7. CASE HeaderRead
  <2>1. asked' \in Nat /\ cl' \in {"off", "header", "payload"}
    BY <1>7 DEF HeaderRead, StreamTypes, DataSize
  <2> QED BY <1>7, <2>1 DEF HeaderRead, StreamTypes
<1>8. CASE HeaderEnds \/ ClientEnds
  BY <1>8 DEF HeaderEnds, ClientEnds, StreamTypes
<1>9. CASE ShowImage
  BY <1>9 DEF ShowImage, StreamTypes
<1>10. CASE UNCHANGED streamVars
  BY <1>10 DEF streamVars, StreamTypes
<1> QED
  BY <1>1, <1>2, <1>3, <1>4, <1>5, <1>6, <1>7, <1>8, <1>9, <1>10 DEF StreamNext, ServerStep

\* Only the end of a connection makes a read short, and the server stops sending with it.
LEMMA EndStep ==
    ASSUME StreamInv, [StreamNext]_streamVars
    PROVE  EndInv'
<1> USE DEF StreamInv, server, client
<1>1. CASE Accept
  BY <1>1 DEF Accept, EndInv
<1>2. CASE SendUnit
  BY <1>2 DEF SendUnit, EndInv, AtEnd, StreamTypes
<1>3. CASE MessageSent \/ BackToAccept \/ AcceptError \/ SendFails \/ ServerEnds \/ ServerStarts
  BY <1>3 DEF MessageSent, BackToAccept, AcceptError, SendFails, ServerEnds, ServerStarts,
     EndInv, AtEnd, StreamTypes
<1>4. CASE TakeUnit
  BY <1>4 DEF TakeUnit, EndInv, AtEnd, StreamTypes
<1>5. CASE HeaderRead \/ HeaderEnds \/ ClientEnds
  BY <1>5 DEF HeaderRead, HeaderEnds, ClientEnds, EndInv, AtEnd, StreamTypes
<1>6. CASE ShowImage
  <2>1. asked \in Nat /\ (short' => Len(have) < asked)
    BY <1>6 DEF ShowImage, StreamTypes
  <2>2. short' => ended /\ wire = <<>>
    BY <1>6, <2>1 DEF ShowImage, AtEnd
  <2> QED BY <1>6, <2>2 DEF ShowImage, EndInv, AtEnd, StreamTypes
<1>7. CASE UNCHANGED streamVars
  BY <1>7 DEF streamVars, EndInv, AtEnd
<1> QED
  BY <1>1, <1>2, <1>3, <1>4, <1>5, <1>6, <1>7 DEF StreamNext, ServerStep

\* Without headers the client never gets past its header read.
LEMMA WriterStep ==
    ASSUME StreamInv, [StreamNext]_streamVars
    PROVE  WriterInv'
<1> SUFFICES ASSUME program' = "writer"
             PROVE  /\ shown' = <<>> /\ cl' # "payload"
                    /\ \A k \in 1 .. Len(wire') : wire'[k][2] > 3
                    /\ \A k \in 1 .. Len(have') : have'[k][2] > 3
  BY DEF WriterInv
<1> USE DEF server, client
<1>1. StreamTypes
  BY DEF StreamInv
<1>2. program = "writer"
  BY DEF StreamNext, ServerStep, Accept, AcceptError, SendUnit, MessageSent, SendFails, BackToAccept,
     ServerEnds, ServerStarts, TakeUnit, HeaderRead, HeaderEnds, ShowImage, ClientEnds, streamVars
<1>3. /\ shown = <<>> /\ cl # "payload"
      /\ \A k \in 1 .. Len(wire) : wire[k][2] > 3
      /\ \A k \in 1 .. Len(have) : have[k][2] > 3
  BY <1>2 DEF StreamInv, WriterInv
<1>4. CASE Accept
  BY <1>4, UnitFacts DEF Accept
<1>5. CASE SendUnit
  <2>1. CASE cl = "off"
    BY <1>3, <1>5, <2>1 DEF SendUnit
  <2>2. CASE cl # "off"
    <3> DEFINE u == Message[at + 1]
    <3>1. u \in Unit /\ u = <<image, 3 + (at + 1)>>
      BY <1>1, <1>2, <1>5, UnitSent DEF SendUnit
    <3>2. image \in {0, 1} /\ at \in Nat /\ 3 + (at + 1) \in Nat /\ wire \in Seq(Unit)
      BY <1>1 DEF StreamTypes
    <3>3. u[2] = 3 + (at + 1)
      <4>1. <<image, 3 + (at + 1)>>[2] = 3 + (at + 1)
        OBVIOUS
      <4> QED BY <3>1, <4>1
    <3>4. u[2] > 3
      BY <3>2, <3>3
    <3>5. wire' = Append(wire, u)
      BY <1>5, <2>2 DEF SendUnit
    <3> HIDE DEF u
    <3>6. \A k \in 1 .. Len(wire') : wire'[k][2] > 3
      BY <1>3, <3>1, <3>2, <3>4, <3>5, AppendUnit, UnitFacts
    <3> QED BY <1>3, <1>5, <3>6 DEF SendUnit
  <2> QED BY <2>1, <2>2
<1>6. CASE TakeUnit
  <2>1. wire \in Seq(Unit) /\ have \in Seq(Unit) /\ wire # <<>>
    BY <1>1, <1>6 DEF StreamTypes, TakeUnit
  <2>2. \A k \in 1 .. Len(wire') : wire'[k][2] > 3
    <3>1. /\ wire' = Tail(wire) /\ Len(wire') = Len(wire) - 1 /\ Len(wire) \in Nat
          /\ \A k \in 1 .. Len(wire) - 1 : wire'[k] = wire[k + 1]
      BY <1>6, <2>1, TakeFirst, UnitFacts DEF TakeUnit
    <3> SUFFICES ASSUME NEW k \in 1 .. Len(wire') PROVE wire'[k][2] > 3
      OBVIOUS
    <3>2. k + 1 \in 1 .. Len(wire) /\ wire'[k] = wire[k + 1]
      BY <3>1
    <3> QED BY <1>3, <3>2
  <2>3. Head(wire) \in Unit /\ Head(wire)[2] > 3
    BY <1>3, <2>1, TakeFirst, UnitFacts
  <2>4. \A k \in 1 .. Len(have') : have'[k][2] > 3
    BY <1>3, <1>6, <2>1, <2>3, AppendUnit, UnitFacts DEF TakeUnit
  <2> QED BY <1>3, <1>6, <2>2, <2>4 DEF TakeUnit
<1>7. CASE HeaderRead
  <2>1. have[3][2] > 3 /\ have[3][2] \in Nat
    <3>1. 3 \in 1 .. Len(have) /\ have \in Seq(Unit)
      BY <1>1, <1>7 DEF HeaderRead, StreamTypes
    <3> QED BY <1>3, <3>1, UnitFacts
  <2>2. ~Known(have[3])
    BY <2>1 DEF Known
  <2> QED BY <1>3, <1>7, <2>2, UnitFacts DEF HeaderRead
<1>8. CASE ShowImage
  BY <1>3, <1>8 DEF ShowImage
<1>9. CASE \/ MessageSent \/ BackToAccept \/ AcceptError \/ SendFails \/ ServerEnds \/ ServerStarts
           \/ HeaderEnds \/ ClientEnds \/ UNCHANGED streamVars
  BY <1>3, <1>9 DEF MessageSent, BackToAccept, AcceptError, SendFails, ServerEnds, ServerStarts,
     HeaderEnds, ClientEnds, streamVars
<1> QED
  BY <1>4, <1>5, <1>6, <1>7, <1>8, <1>9 DEF StreamNext, ServerStep

\* The picture changes only when a payload read ends, to what that read has got.
LEMMA ShownStep ==
    ASSUME StreamInv, [StreamNext]_streamVars
    PROVE  ShownInv'
<1> USE StreamConstants DEF server, client
<1>1. CASE Accept
  <2>1. shown' = <<>> /\ Len(shown') = 0
    BY <1>1, UnitFacts DEF Accept
  <2>2. \A k \in 1 .. Len(shown') : FALSE
    BY <2>1
  <2> QED BY <2>1, <2>2 DEF ShownInv
<1>2. CASE ShowImage
  <2>1. cl = "payload" /\ program = "visensor" /\ StreamTypes
    BY <1>2 DEF ShowImage, StreamInv, WriterInv, StreamTypes
  <2>2. PICK b \in {0, 1} : Reading(b)
    BY <2>1 DEF StreamInv, VisensorInv
  <2>3. /\ asked = Pieces /\ Len(have) <= Pieces /\ Len(have) \in Nat
        /\ \A k \in 1 .. Len(have) : have[k] = <<b, 3 + k>>
    BY <2>1, <2>2, UnitFacts DEF Reading, StreamTypes
  <2>4. shown' = have /\ (short' <=> Len(have) < asked)
    BY <1>2 DEF ShowImage
  <2> QED BY <2>3, <2>4 DEF ShownInv
<1>3. CASE UNCHANGED <<shown, short>>
  BY <1>3 DEF StreamInv, ShownInv
<1> QED
  BY <1>1, <1>2, <1>3 DEF StreamNext, ServerStep, AcceptError, SendUnit, MessageSent, SendFails,
     BackToAccept, ServerEnds, ServerStarts, TakeUnit, HeaderRead, HeaderEnds, ClientEnds, streamVars

\* A send of visensor-srv keeps the stream a sequence of successors.
LEMMA VisensorSends ==
    ASSUME StreamInv, SendUnit, program = "visensor", cl # "off"
    PROVE  VisensorInv'
<1> USE StreamConstants
<1> DEFINE u == Message[at + 1]
<1>1. /\ StreamTypes /\ Line /\ image \in {0, 1} /\ at \in Nat
      /\ wire \in Seq(Unit) /\ Len(wire) \in Nat /\ (wire # <<>> <=> Len(wire) >= 1)
  BY UnitFacts DEF StreamInv, VisensorInv, StreamTypes
<1>2. PICK b \in {0, 1} : Reading(b)
  BY DEF StreamInv, VisensorInv
<1>3. ~ended
  BY DEF StreamInv, EndInv, SendUnit
<1>4. /\ u \in Unit /\ u = <<image, at + 1>> /\ at + 1 <= MsgLen
  BY <1>1, UnitSent DEF SendUnit
<1>5. /\ wire' = Append(wire, u) /\ at' = at + 1
      /\ UNCHANGED <<program, image, ended, cl, have, asked>>
  BY DEF SendUnit, client
<1>6. NextSent = u
  BY <1>1, <1>4 DEF NextSent
<1>7. NextSent' = Succ(u)
  <2>1. u[1] = image /\ u[2] = at + 1
    BY <1>4
  <2>2. Succ(u) = IF at + 1 < MsgLen THEN <<image, (at + 1) + 1>> ELSE <<1 - image, 1>>
    BY <2>1 DEF Succ
  <2> QED BY <1>5, <2>2 DEF NextSent, MsgLen
<1> HIDE DEF u
<1>8. /\ wire' \in Seq(Unit) /\ Len(wire') = Len(wire) + 1 /\ wire' # <<>>
      /\ \A k \in 1 .. Len(wire) : wire'[k] = wire[k]
      /\ wire'[Len(wire) + 1] = u
  BY <1>1, <1>4, <1>5, AppendUnit
<1>9. Line'
  <2>1. Succ(wire'[Len(wire')])= Succ(u)
    BY <1>8
  <2>2. ASSUME NEW k \in 1 .. Len(wire') - 1 PROVE wire'[k + 1] = Succ(wire'[k])
    <3>1. CASE k = Len(wire)
      <4>1. wire # <<>> /\ Succ(wire[k]) = NextSent
        BY <1>1, <1>3, <3>1 DEF Line
      <4>2. wire'[k] = wire[k] /\ wire'[k + 1] = u
        BY <1>1, <1>8, <3>1
      <4> QED BY <1>6, <4>1, <4>2
    <3>2. CASE k # Len(wire)
      <4>1. k \in 1 .. Len(wire) - 1 /\ k \in 1 .. Len(wire) /\ k + 1 \in 1 .. Len(wire)
        BY <1>1, <1>8, <3>2
      <4>2. wire[k + 1] = Succ(wire[k])
        BY <1>1, <4>1 DEF Line
      <4> QED BY <1>8, <4>1, <4>2
    <3> QED BY <3>1, <3>2
  <2>3. Succ(wire'[Len(wire')]) = NextSent'
    BY <1>7, <2>1
  <2> QED BY <2>2, <2>3 DEF Line, Succ
<1>10. Reading(b)'
  <2>1. NextRead(b)' = NextRead(b)
    BY <1>5 DEF NextRead
  <2>2. wire'[1] = NextRead(b)
    <3>1. CASE wire = <<>>
      BY <1>1, <1>2, <1>3, <1>6, <1>8, <3>1 DEF Reading
    <3>2. CASE wire # <<>>
      BY <1>1, <1>2, <1>8, <3>2 DEF Reading
    <3> QED BY <3>1, <3>2
  <2>3. wire'[1] = NextRead(b)'
    BY <2>1, <2>2
  <2>4. /\ cl' = "header" => Len(have') <= 3 /\ \A k \in 1 .. Len(have') : have'[k] = <<b, k>>
        /\ cl' = "payload" => /\ asked' = Pieces /\ Len(have') <= Pieces
                              /\ \A k \in 1 .. Len(have') : have'[k] = <<b, 3 + k>>
    BY <1>2, <1>5 DEF Reading
  <2> QED BY <1>8, <2>3, <2>4 DEF Reading
<1> QED BY <1>9, <1>10 DEF VisensorInv

\* A partial read keeps the client in step with the stream.
LEMMA VisensorTakes ==
    ASSUME StreamInv, TakeUnit, program = "visensor"
    PROVE  VisensorInv'
<1> USE StreamConstants
<1>1. /\ StreamTypes /\ Line /\ cl \in {"header", "payload"} /\ ended \in BOOLEAN
      /\ wire \in Seq(Unit) /\ Len(wire) \in Nat /\ wire # <<>> /\ Len(wire) >= 1
      /\ have \in Seq(Unit) /\ Len(have) \in Nat
  BY UnitFacts DEF StreamInv, VisensorInv, StreamTypes, TakeUnit
<1>2. PICK b \in {0, 1} : Reading(b)
  BY <1>1 DEF StreamInv, VisensorInv
<1> DEFINE u == NextRead(b)
<1>3. /\ wire[1] = u /\ Head(wire) = u /\ u \in Unit
      /\ wire' \in Seq(Unit) /\ Len(wire') = Len(wire) - 1
      /\ \A k \in 1 .. Len(wire) - 1 : wire'[k] = wire[k + 1]
  BY <1>1, <1>2, TakeFirst DEF Reading, TakeUnit
<1>4. /\ have' = Append(have, u)
      /\ UNCHANGED <<program, image, at, ended, cl, asked>>
  BY <1>3 DEF TakeUnit, server
<1>5. /\ Len(have') = Len(have) + 1
      /\ \A k \in 1 .. Len(have) : have'[k] = have[k]
      /\ have'[Len(have) + 1] = u
  BY <1>1, <1>3, <1>4, AppendUnit
<1>6. NextSent' = NextSent
  BY <1>4 DEF NextSent
<1>7. /\ NextRead(b)' = Succ(u)
      /\ cl' = "header" => Len(have') <= 3 /\ \A k \in 1 .. Len(have') : have'[k] = <<b, k>>
      /\ cl' = "payload" => /\ asked' = Pieces /\ Len(have') <= Pieces
                            /\ \A k \in 1 .. Len(have') : have'[k] = <<b, 3 + k>>
  <2>1. CASE cl = "header"
    <3>1. Len(have) < 3 /\ u = <<b, Len(have) + 1>>
      BY <2>1 DEF TakeUnit, NextRead
    <3>2. u[1] = b /\ u[2] = Len(have) + 1
      BY <3>1
    <3>3. Succ(u) = <<b, (Len(have) + 1) + 1>>
      BY <1>1, <3>1, <3>2 DEF Succ
    <3>4. NextRead(b)' = Succ(u)
      BY <1>4, <1>5, <2>1, <3>3 DEF NextRead
    <3>5. Len(have') <= 3 /\ \A k \in 1 .. Len(have') : have'[k] = <<b, k>>
      BY <1>1, <1>2, <1>5, <2>1, <3>1 DEF Reading
    <3> QED BY <1>4, <2>1, <3>4, <3>5
  <2>2. CASE cl = "payload"
    <3>1. asked = Pieces /\ Len(have) < Pieces /\ u = <<b, Len(have) + 4>>
      BY <1>2, <2>2 DEF TakeUnit, NextRead, Reading
    <3>2. u[1] = b /\ u[2] = Len(have) + 4
      BY <3>1
    <3>3. Succ(u) = IF Len(have) + 4 < MsgLen THEN <<b, (Len(have) + 4) + 1>> ELSE <<1 - b, 1>>
      BY <3>2 DEF Succ
    <3>4. NextRead(b)' = IF Len(have) + 1 < Pieces THEN <<b, (Len(have) + 1) + 4>> ELSE <<1 - b, 1>>
      BY <1>4, <1>5, <2>2 DEF NextRead
    <3>5. Len(have') <= Pieces /\ \A k \in 1 .. Len(have') : have'[k] = <<b, 3 + k>>
      BY <1>1, <1>2, <1>5, <2>2, <3>1 DEF Reading
    <3>6. NextRead(b)' = Succ(u)
      BY <1>1, <3>3, <3>4
    <3> QED BY <1>4, <2>2, <3>1, <3>5, <3>6
  <2> QED BY <1>1, <2>1, <2>2
<1> HIDE DEF u
<1>8. Line'
  <2>1. ASSUME NEW k \in 1 .. Len(wire') - 1 PROVE wire'[k + 1] = Succ(wire'[k])
    <3>1. /\ k \in 1 .. Len(wire) - 1 /\ k + 1 \in 1 .. Len(wire) - 1
          /\ wire'[k] = wire[k + 1] /\ wire'[k + 1] = wire[(k + 1) + 1]
      BY <1>1, <1>3
    <3>2. wire[(k + 1) + 1] = Succ(wire[k + 1])
      BY <1>1, <3>1 DEF Line
    <3> QED BY <3>1, <3>2
  <2>2. ASSUME wire' # <<>>, ~ended PROVE Succ(wire'[Len(wire')]) = NextSent
    <3>1. Len(wire') >= 1 /\ Len(wire') \in 1 .. Len(wire) - 1 /\ Len(wire') + 1 = Len(wire)
      BY <1>1, <1>3, <2>2, UnitFacts
    <3>2. wire'[Len(wire')] = wire[Len(wire)]
      BY <1>3, <3>1
    <3> QED BY <1>1, <2>2, <3>2 DEF Line
  <2>3. wire' # <<>> /\ ~ended' => Succ(wire'[Len(wire')]) = NextSent'
    BY <1>4, <1>6, <2>2
  <2> QED BY <2>1, <2>3 DEF Line, Succ
<1>9. Reading(b)'
  <2>1. wire' # <<>> => wire'[1] = NextRead(b)'
    <3> SUFFICES ASSUME wire' # <<>> PROVE wire'[1] = NextRead(b)'
      OBVIOUS
    <3>1. 1 \in 1 .. Len(wire) - 1
      BY <1>1, <1>3, UnitFacts
    <3>2. wire'[1] = wire[1 + 1] /\ wire[1 + 1] = Succ(wire[1])
      BY <1>1, <1>3, <3>1 DEF Line
    <3> QED BY <1>3, <1>7, <3>2
  <2>2. wire' = <<>> /\ ~ended' => NextSent' = NextRead(b)'
    <3> SUFFICES ASSUME wire' = <<>>, ~ended' PROVE NextSent' = NextRead(b)'
      OBVIOUS
    <3>1. Len(wire) = 1 /\ ~ended
      BY <1>1, <1>3, <1>4, UnitFacts
    <3>2. Succ(wire[1]) = NextSent
      BY <1>1, <3>1 DEF Line
    <3> QED BY <1>3, <1>6, <1>7, <3>2
  <2> QED BY <1>7, <2>1, <2>2 DEF Reading
<1> QED BY <1>8, <1>9 DEF VisensorInv

\* The other steps of the client, and the beginning of a connection.
LEMMA VisensorStep ==
    ASSUME StreamInv, [StreamNext]_streamVars
    PROVE  VisensorInv'
<1> SUFFICES ASSUME program' = "visensor", cl' # "off" PROVE VisensorInv'
  BY DEF VisensorInv
<1> USE StreamConstants DEF server, client
<1>1. StreamTypes
  BY DEF StreamInv
<1>2. program = "visensor"
  BY DEF StreamNext, ServerStep, Accept, AcceptError, SendUnit, MessageSent, SendFails, BackToAccept,
     ServerEnds, ServerStarts, TakeUnit, HeaderRead, HeaderEnds, ShowImage, ClientEnds, streamVars
<1>3. cl # "off" => Line /\ \E b \in {0, 1} : Reading(b)
  BY <1>2 DEF StreamInv, VisensorInv
<1>4. CASE Accept
  <2>1. /\ wire' = <<>> /\ have' = <<>> /\ Len(wire') = 0 /\ Len(have') = 0
        /\ cl' = "header" /\ at' = 0 /\ image' = image /\ image \in {0, 1}
    BY <1>1, <1>4, UnitFacts DEF Accept, StreamTypes
  <2>2. Line'
    BY <2>1 DEF Line
  <2>3. NextSent' = <<image, 1>> /\ NextRead(image)' = <<image', 1>>
    BY <2>1 DEF NextSent, NextRead
  <2>4. Reading(image)'
    BY <2>1, <2>3 DEF Reading
  <2> QED BY <2>1, <2>2, <2>4 DEF VisensorInv
<1>5. CASE SendUnit
  BY <1>2, <1>5, VisensorSends DEF SendUnit
<1>6. CASE TakeUnit
  BY <1>2, <1>6, VisensorTakes
<1>7. CASE MessageSent
  <2>1. image \in {0, 1} /\ at = MsgLen /\ at' = 0 /\ image' = 1 - image
    BY <1>1, <1>2, <1>7, MessageFacts DEF MessageSent, StreamTypes
  <2>2. NextSent' = NextSent
    BY <2>1 DEF NextSent
  <2>3. UNCHANGED <<wire, ended, cl, have, asked>> /\ cl # "off"
    BY <1>7 DEF MessageSent
  <2> QED BY <1>3, <2>2, <2>3 DEF VisensorInv, Line, Reading, NextRead, Succ
<1>8. CASE HeaderRead
  <2>1. PICK b \in {0, 1} : Line /\ Reading(b)
    BY <1>3, <1>8 DEF HeaderRead
  <2>2. /\ cl = "header" /\ Len(have) = 3 /\ have[2] = <<b, 2>> /\ have[3] = <<b, 3>>
    BY <1>8, <2>1 DEF HeaderRead, Reading
  <2>3. Known(have[3]) /\ DataSize(have[2]) = Pieces
    BY <2>2 DEF Known, DataSize
  <2>4. /\ cl' = "payload" /\ asked' = Pieces /\ have' = <<>> /\ Len(have') = 0
        /\ UNCHANGED <<wire, ended, at, image>>
    BY <1>8, <2>3, UnitFacts DEF HeaderRead
  <2>5. NextRead(b)' = <<b, 0 + 4>> /\ NextRead(b) = <<b, 3 + 1>>
    BY <2>2, <2>4 DEF NextRead
  <2>6. NextRead(b)' = NextRead(b) /\ NextSent' = NextSent
    BY <2>4, <2>5 DEF NextSent
  <2>7. Reading(b)'
    <3>1. wire' # <<>> => wire'[1] = NextRead(b)'
      BY <2>1, <2>4, <2>6 DEF Reading
    <3>2. wire' = <<>> /\ ~ended' => NextSent' = NextRead(b)'
      BY <2>1, <2>4, <2>6 DEF Reading
    <3> QED BY <2>4, <3>1, <3>2 DEF Reading
  <2>8. Line'
    BY <2>1, <2>4, <2>6 DEF Line, Succ
  <2> QED BY <2>7, <2>8 DEF VisensorInv
<1>9. CASE ShowImage
  <2>1. PICK b \in {0, 1} : Line /\ Reading(b)
    BY <1>3, <1>9 DEF ShowImage
  <2>2. /\ cl = "payload" /\ asked = Pieces /\ (Len(have) = Pieces \/ (ended /\ wire = <<>>))
        /\ cl' = "header" /\ have' = <<>> /\ Len(have') = 0
        /\ UNCHANGED <<wire, ended, at, image>>
    BY <1>9, <2>1, UnitFacts DEF ShowImage, Reading, AtEnd
  <2>3. NextSent' = NextSent
    BY <2>2 DEF NextSent
  <2>4. Line'
    BY <2>1, <2>2, <2>3 DEF Line, Succ
  <2>5. PICK c \in {0, 1} : c = 1 - b
    OBVIOUS
  <2>6. NextRead(c)' = <<1 - b, 0 + 1>> /\ (Len(have) = Pieces => NextRead(b) = <<1 - b, 1>>)
    BY <2>2, <2>5 DEF NextRead
  <2>7. Reading(c)'
    <3>1. wire' # <<>> => wire'[1] = NextRead(c)'
      BY <2>1, <2>2, <2>6 DEF Reading
    <3>2. wire' = <<>> /\ ~ended' => NextSent' = NextRead(c)'
      BY <2>1, <2>2, <2>3, <2>6 DEF Reading
    <3> QED BY <2>2, <3>1, <3>2 DEF Reading
  <2> QED BY <2>4, <2>7 DEF VisensorInv
<1>10. CASE ServerEnds
  <2>1. ended' /\ cl # "off" /\ UNCHANGED <<wire, cl, have, asked>>
    BY <1>10 DEF ServerEnds
  <2> QED BY <1>3, <2>1 DEF VisensorInv, Line, Reading, NextRead, Succ
<1>11. CASE BackToAccept
  <2>1. ended /\ cl # "off" /\ UNCHANGED <<wire, ended, cl, have, asked>>
    BY <1>1, <1>11 DEF BackToAccept, StreamInv, EndInv, StreamTypes
  <2> QED BY <1>3, <2>1 DEF VisensorInv, Line, Reading, NextRead, Succ
<1>12. CASE AcceptError \/ SendFails \/ ServerStarts \/ UNCHANGED streamVars
  <2>1. cl # "off" /\ UNCHANGED <<image, at, wire, ended, cl, have, asked>>
    BY <1>12 DEF AcceptError, SendFails, ServerStarts, streamVars
  <2> QED BY <1>3, <2>1 DEF VisensorInv, Line, Reading, NextRead, NextSent, Succ
<1>13. CASE HeaderEnds \/ ClientEnds
  BY <1>13 DEF HeaderEnds, ClientEnds
<1> QED
  BY <1>4, <1>5, <1>6, <1>7, <1>8, <1>9, <1>10, <1>11, <1>12, <1>13 DEF StreamNext, ServerStep

\* Every step keeps the whole invariant.
LEMMA StreamStep == StreamInv /\ [StreamNext]_streamVars => StreamInv'
BY StreamTypesStep, EndStep, VisensorStep, WriterStep, ShownStep DEF StreamInv

\* What the invariant says of shown, as InStep says it.
LEMMA ShownIsImage == StreamInv => InStep
<1> SUFFICES ASSUME StreamInv PROVE InStep
  OBVIOUS
<1>1. StreamTypes /\ EndInv /\ WriterInv
  BY DEF StreamInv
<1>2. /\ shown \in Seq(Unit) /\ Len(shown) \in Nat /\ (shown # <<>> <=> Len(shown) >= 1)
      /\ Len(shown) <= Pieces /\ (Len(shown) \in 1 .. Pieces - 1 => short)
  BY <1>1, UnitFacts DEF StreamTypes, StreamInv, ShownInv
<1>3. PICK b \in {0, 1} : \A k \in 1 .. Len(shown) : shown[k] = <<b, 3 + k>>
  BY DEF StreamInv, ShownInv
<1> DEFINE p == ImageUnits(b)
           s == SubSeq(p, 1, Len(shown))
<1>4. p \in Seq(Unit) /\ Len(p) = Pieces /\ \A k \in 1 .. Pieces : p[k] = <<b, 3 + k>>
  BY StreamConstants DEF ImageUnits, Unit
<1> HIDE DEF p
<1>5. s \in Seq(Unit) /\ Len(s) = Len(shown) /\ \A k \in 1 .. Len(shown) : s[k] = p[k]
  BY <1>2, <1>4, StreamConstants, SubSeqProperties
<1>6. shown = s
  <2>1. \A k \in 1 .. Len(shown) : shown[k] = s[k]
    <3> HIDE DEF s
    <3> SUFFICES ASSUME NEW k \in 1 .. Len(shown) PROVE shown[k] = s[k]
      OBVIOUS
    <3>1. k \in 1 .. Pieces
      BY <1>2, StreamConstants
    <3> QED BY <1>3, <1>4, <1>5, <3>1
  <2> HIDE DEF s
  <2> QED BY <1>2, <1>5, <2>1, SeqEqual
<1>7. shown # <<>> => program = "visensor"
  BY <1>1 DEF WriterInv, StreamTypes
<1>8. shown # <<>> => (Len(shown) < Pieces => short)
  BY <1>2, StreamConstants
<1>9. \E img \in {0, 1} : shown = SubSeq(ImageUnits(img), 1, Len(shown))
  BY <1>6 DEF p, s
<1> QED BY <1>1, <1>7, <1>8, <1>9 DEF InStep, EndInv

\* What the client on port 13777 shows is always one image, whole unless the connection
\* ended in it; from the server without headers it shows nothing.
THEOREM AlwaysInStep == StreamSpec => []InStep
BY InitStream, StreamStep, ShownIsImage, PTL DEF StreamSpec
-----------------------------------------------------------------------------
(* The bandwidth test.                                                     *)

\* The newest message of which a package has been sent, and how many have been of message m.
Newest == IF i = 0 THEN message - 1 ELSE message
SentOf(m) == IF m < message THEN PerMessage ELSE IF m = message THEN i ELSE 0
One(p) == IF p THEN 1 ELSE 0

\* A package on the way is one that was sent, at most MaxDelay messages ago.
NetInv ==
    /\ message = 0 => i = PerMessage
    /\ since <= message
    /\ held # 0 => held <= Newest /\ message <= held + MaxDelay
    /\ arrived # 0 => arrived <= Newest /\ Newest <= arrived + MaxDelay /\ since <= arrived + MaxDelay
    /\ \A m \in Messages : m > Newest => lost[m] = 0

\* Message m has had its counter to itself since the counters were cleared.
Alone(m) == since + MaxDelay < m /\ m - Slots < since - MaxDelay /\ Newest < m + Slots

\* How many packages of message m the client has counted.
Arrived(m) == SentOf(m) - lost[m] - One(held = m) - One(arrived = m)

\* A counter that one message has to itself counts that message.
CountInv == \A m \in Messages : Alone(m) => package_counter[m % Slots] = Arrived(m)

BandwidthInv == TypeOK /\ NetInv /\ CountInv

\* The sizes, from the assumption on them.
LEMMA BandwidthConstants ==
    /\ Slots \in Nat /\ Back \in Nat /\ Guard \in Nat /\ Expected \in Nat /\ PerMessage \in Nat
    /\ MaxDelay \in Nat /\ MaxMessages \in Nat
    /\ Slots >= 1 /\ PerMessage >= 1 /\ Guard < Back /\ MaxDelay <= Guard /\ Back + MaxDelay < Slots
BY BandwidthAssumption

\* Two numbers that fall on one counter are Slots apart.
LEMMA SlotsApart ==
    ASSUME NEW a \in Nat, NEW b \in Nat, a < b, a % Slots = b % Slots
    PROVE  a + Slots <= b
<1> USE BandwidthConstants
<1> DEFINE p == a \div Slots
           q == b \div Slots
<1>1. /\ p \in Int /\ q \in Int /\ a = Slots * p + (a % Slots) /\ b = Slots * q + (b % Slots)
  OBVIOUS
<1>2. Slots * (q - p) = b - a
  BY <1>1
<1>3. q - p >= 1
  BY <1>2
<1>4. Slots * (q - p) >= Slots
  BY <1>1, <1>3
<1> QED BY <1>2, <1>4

\* A number's counter exists.
LEMMA SlotExists ==
    ASSUME NEW a \in Nat
    PROVE  a % Slots \in 0 .. Slots - 1
BY BandwidthConstants

\* Nothing is sent, lost or counted at the start.
LEMMA InitBandwidth == Init => BandwidthInv
<1> SUFFICES ASSUME Init PROVE BandwidthInv
  OBVIOUS
<1> USE BandwidthConstants DEF Init
<1>1. TypeOK
  BY DEF TypeOK, NoCount
<1>2. NetInv
  BY DEF NetInv, Newest, Messages
<1>3. ASSUME NEW m \in Messages PROVE package_counter[m % Slots] = Arrived(m)
  <2>0. m \in Nat /\ m >= 1 /\ lost[m] = 0
    BY DEF Messages
  <2>1. package_counter[m % Slots] = 0
    BY <2>0, SlotExists DEF NoCount
  <2> QED BY <2>0, <2>1 DEF Arrived, SentOf, One
<1> QED BY <1>1, <1>2, <1>3 DEF BandwidthInv, CountInv

\* The message whose packages are being sent has a number.
LEMMA MessageNumber ==
    ASSUME TypeOK, NetInv, i < PerMessage
    PROVE  message \in Messages
BY BandwidthConstants DEF TypeOK, NetInv, Messages

\* Counters stay counts and message numbers stay below their bound.
LEMMA TypesStep ==
    ASSUME BandwidthInv, [Next]_vars
    PROVE  TypeOK'
<1> USE BandwidthConstants DEF BandwidthInv, TypeOK
<1>1. CASE NextMessage
  BY <1>1 DEF NextMessage
<1>2. CASE SendTo
  <2>1. message \in Messages
    BY <1>2, MessageNumber DEF SendTo
  <2>2. lost' \in [Messages -> Nat]
    BY <1>2, <2>1 DEF SendTo
  <2> QED BY <1>2, <2>2 DEF SendTo
<1>3. CASE LateArrival
  BY <1>3 DEF LateArrival
<1>4. CASE Receive
  <2>1. Counted \in [0 .. Slots - 1 -> Nat]
    <3>1. arrived \in Nat
      OBVIOUS
    <3>2. arrived % Slots \in 0 .. Slots - 1
      BY <3>1, SlotExists
    <3> QED BY <3>2 DEF Counted
  <2> QED BY <1>4, <2>1 DEF Receive, net
<1>5. CASE Report
  <2>1. NoCount \in [0 .. Slots - 1 -> Nat]
    BY DEF NoCount
  <2> QED BY <1>5, <2>1 DEF Report, net
<1>6. CASE UNCHANGED vars
  BY <1>6 DEF vars
<1> QED BY <1>1, <1>2, <1>3, <1>4, <1>5, <1>6 DEF Next

\* No step ages a package beyond MaxDelay.
LEMMA NetStep ==
    ASSUME BandwidthInv, [Next]_vars
    PROVE  NetInv'
<1> USE BandwidthConstants DEF BandwidthInv, TypeOK, NetInv, Newest, Messages
<1>1. CASE NextMessage
  BY <1>1 DEF NextMessage
<1>2. CASE SendTo
  <2>1. message \in Messages
    BY <1>2, MessageNumber DEF SendTo
  <2>2. i' = i + 1 /\ message' = message /\ since' = since /\ message > 0
    BY <1>2, <2>1 DEF SendTo
  <2>3. \A m \in Messages : m > message => lost'[m] = 0
    BY <1>2, <2>1 DEF SendTo
  <2> QED BY <1>2, <2>2, <2>3 DEF SendTo
<1>3. CASE LateArrival
  <2>1. /\ arrived' = held /\ held' = 0 /\ held # 0 /\ held <= Newest /\ message <= held + MaxDelay
        /\ UNCHANGED <<message, i, since, lost>>
    BY <1>3 DEF LateArrival
  <2>2. Newest <= held + MaxDelay /\ since <= held + MaxDelay
    BY <2>1
  <2> QED BY <2>1, <2>2
<1>4. CASE Receive \/ Report
  <2>1. arrived' = 0 /\ since' \in {since, arrived} /\ arrived # 0 /\ UNCHANGED <<message, i, held, lost>>
    BY <1>4 DEF Receive, Report, net
  <2>2. since' <= message
    BY <2>1
  <2> QED BY <2>1, <2>2
<1>5. CASE UNCHANGED vars
  BY <1>5 DEF vars
<1> QED BY <1>1, <1>2, <1>3, <1>4, <1>5 DEF Next

\* A package raises its own counter only, and a report clears them all: no step makes a counter
\* wrong about a message that has it to itself.
LEMMA CountStep ==
    ASSUME BandwidthInv, [Next]_vars
    PROVE  CountInv'
<1> SUFFICES ASSUME NEW m \in Messages, Alone(m)'
             PROVE  package_counter'[m % Slots] = Arrived(m)'
  BY DEF CountInv
<1> USE BandwidthConstants DEF One
<1>0. TypeOK /\ NetInv /\ m \in Nat /\ m >= 1 /\ lost[m] \in Nat
  BY DEF BandwidthInv, TypeOK, Messages
<1>1. /\ TypeOK /\ NetInv /\ m \in Nat /\ m >= 1 /\ lost[m] \in Nat
      /\ m % Slots \in 0 .. Slots - 1
  BY <1>0, SlotExists
<1>2. Alone(m) => package_counter[m % Slots] = Arrived(m)
  BY DEF BandwidthInv, CountInv
<1>3. CASE NextMessage
  <2>1. Alone(m)
    BY <1>1, <1>3 DEF NextMessage, Alone, Newest, TypeOK
  <2>2. SentOf(m)' = SentOf(m)
    BY <1>1, <1>3 DEF NextMessage, SentOf, TypeOK
  <2> QED BY <1>2, <1>3, <2>1, <2>2 DEF NextMessage, Arrived
<1>4. CASE SendTo
  <2>1. Alone(m)
    BY <1>1, <1>4 DEF SendTo, Alone, Newest, TypeOK
  <2>2. message \in Messages /\ message # 0 /\ arrived = 0
    BY <1>1, <1>4, MessageNumber DEF SendTo, Messages
  <2>3. CASE m # message
    <3>1. SentOf(m)' = SentOf(m)
      BY <1>4, <2>3 DEF SendTo, SentOf
    <3>2. lost'[m] = lost[m] /\ One(held = m)' = One(held = m) /\ One(arrived = m)' = One(arrived = m)
      BY <1>1, <1>4, <2>2, <2>3 DEF SendTo, TypeOK
    <3> QED BY <1>2, <1>4, <2>1, <3>1, <3>2 DEF SendTo, Arrived
  <2>4. CASE m = message
    <3>1. SentOf(m)' = SentOf(m) + 1 /\ SentOf(m) \in Nat
      BY <1>1, <1>4, <2>4 DEF SendTo, SentOf, TypeOK
    <3>2. Arrived(m)' = Arrived(m)
      BY <1>1, <1>4, <2>2, <2>4, <3>1 DEF SendTo, Arrived, TypeOK
    <3> QED BY <1>2, <1>4, <2>1, <3>2 DEF SendTo
  <2> QED BY <2>3, <2>4
<1>5. CASE LateArrival
  <2>1. Alone(m)
    BY <1>5 DEF LateArrival, Alone, Newest
  <2>2. SentOf(m)' = SentOf(m) /\ SentOf(m) \in Nat
    BY <1>1, <1>5 DEF LateArrival, SentOf, TypeOK
  <2> QED BY <1>1, <1>2, <1>5, <2>1, <2>2 DEF LateArrival, Arrived
<1>6. CASE Receive
  <2>1. Alone(m)
    BY <1>6 DEF Receive, Alone, Newest
  <2>2. SentOf(m)' = SentOf(m) /\ SentOf(m) \in Nat
    BY <1>1, <1>6 DEF Receive, SentOf, TypeOK
  <2>3. arrived \in Nat /\ arrived # 0 /\ arrived % Slots \in 0 .. Slots - 1
    <3>1. arrived \in Nat /\ arrived # 0
      BY <1>1, <1>6 DEF Receive, TypeOK
    <3> QED BY <3>1, SlotExists
  <2>4. CASE m = arrived
    <3>1. package_counter'[m % Slots] = package_counter[m % Slots] + 1
      BY <1>1, <1>6, <2>4 DEF Receive, Counted, TypeOK
    <3> QED BY <1>1, <1>2, <1>6, <2>1, <2>2, <2>4, <3>1 DEF Receive, Arrived, net
  <2>5. CASE m # arrived
    <3>1. arrived <= Newest /\ since <= arrived + MaxDelay /\ Newest \in Int /\ since \in Nat
      BY <1>1, <2>3 DEF NetInv, TypeOK, Newest
    <3>2. ~(arrived + Slots <= m) /\ ~(m + Slots <= arrived)
      BY <1>1, <2>1, <2>3, <3>1 DEF Alone
    <3>3. arrived % Slots # m % Slots
      <4>1. CASE arrived < m
        BY <1>1, <2>3, <3>2, <4>1, SlotsApart
      <4>2. CASE m < arrived
        BY <1>1, <2>3, <3>2, <4>2, SlotsApart
      <4> QED BY <1>1, <2>3, <2>5, <4>1, <4>2
    <3>4. package_counter'[m % Slots] = package_counter[m % Slots]
      BY <1>1, <1>6, <2>3, <3>3 DEF Receive, Counted, TypeOK
    <3> QED BY <1>1, <1>2, <1>6, <2>1, <2>2, <2>5, <3>4 DEF Receive, Arrived, net
  <2> QED BY <2>4, <2>5
<1>7. CASE Report
  <2>1. /\ arrived \in Nat /\ arrived # 0 /\ since' = arrived
        /\ UNCHANGED <<message, i, held, lost>> /\ arrived' = 0
    BY <1>1, <1>7 DEF Report, TypeOK, net
  <2>2. arrived + MaxDelay < m /\ Newest <= arrived + MaxDelay /\ Newest \in Int
    BY <1>1, <2>1 DEF Alone, NetInv, TypeOK, Newest
  <2>3. m > Newest
    BY <1>1, <2>1, <2>2
  <2>4. lost[m] = 0 /\ held # m
    BY <1>1, <2>2, <2>3 DEF NetInv, TypeOK
  <2>5. SentOf(m)' = 0
    BY <1>1, <2>1, <2>3 DEF SentOf, Newest, TypeOK
  <2>6. package_counter'[m % Slots] = 0
    BY <1>1, <1>7 DEF Report, NoCount
  <2>7. Arrived(m)' = SentOf(m)' - lost'[m] - One(held' = m) - One(arrived' = m)
    BY DEF Arrived
  <2> QED BY <1>1, <2>1, <2>4, <2>5, <2>6, <2>7
<1>8. CASE UNCHANGED vars
  BY <1>2, <1>8 DEF vars, Alone, Newest, Arrived, SentOf
<1> QED BY <1>3, <1>4, <1>5, <1>6, <1>7, <1>8 DEF Next

\* Every step keeps the whole invariant.
LEMMA BandwidthStep == BandwidthInv /\ [Next]_vars => BandwidthInv'
BY TypesStep, NetStep, CountStep DEF BandwidthInv

\* The sum printed is the sum of what the network lost, term by term.
LEMMA ReportExact ==
    ASSUME BandwidthInv, Report, since > 0,
           since \in arrived - Slots - Guard + MaxDelay .. arrived - Back - 1 - MaxDelay
    PROVE  printed' = Total([m \in arrived - Back .. arrived - Guard - 1 |->
                                lost[m] + Expected - PerMessage])
<1> USE BandwidthConstants
<1>1. /\ TypeOK /\ NetInv /\ CountInv /\ message \in Nat /\ i \in Nat
      /\ arrived \in Nat /\ since \in Nat /\ held \in Nat /\ arrived # 0 /\ arrived > Back
      /\ since + MaxDelay < arrived - Back /\ arrived - Guard - Slots <= since - MaxDelay
  BY DEF BandwidthInv, TypeOK, Report
<1>2. /\ arrived <= Newest /\ Newest <= arrived + MaxDelay /\ Newest \in Int
      /\ Newest <= message /\ message <= MaxMessages
      /\ held # 0 => held + MaxDelay >= message
  BY <1>1 DEF NetInv, Newest, TypeOK
<1> DEFINE R == arrived - Back .. arrived - Guard - 1
<1>3. Reported = R /\ ~(arrived < Guard)
  BY <1>1 DEF Reported
<1>4. ASSUME NEW j \in R PROVE Expected - Counted[j % Slots] = lost[j] + Expected - PerMessage
  <2>1. /\ j \in Nat /\ j \in Messages /\ arrived - Back <= j /\ j < arrived - Guard
        /\ j < arrived /\ j < message
    BY <1>1, <1>2 DEF Messages
  <2>2. Alone(j)
    BY <1>1, <1>2, <2>1 DEF Alone
  <2>3. held # j /\ arrived # j
    BY <1>1, <1>2, <2>1
  <2>4. SentOf(j) = PerMessage /\ One(held = j) = 0 /\ One(arrived = j) = 0 /\ lost[j] \in Nat
    BY <1>1, <2>1, <2>3 DEF SentOf, One, TypeOK
  <2>5. package_counter[j % Slots] = PerMessage - lost[j]
    BY <1>1, <2>1, <2>2, <2>4 DEF CountInv, Arrived
  <2>6. j % Slots \in 0 .. Slots - 1 /\ arrived % Slots \in 0 .. Slots - 1
    BY <1>1, <2>1, SlotExists
  <2>7. j % Slots # arrived % Slots
    <3>1. ~(j + Slots <= arrived)
      BY <1>1, <2>1
    <3> QED BY <1>1, <2>1, <3>1, SlotsApart
  <2>8. Counted[j % Slots] = package_counter[j % Slots]
    BY <1>1, <2>6, <2>7 DEF Counted, TypeOK
  <2> QED BY <2>4, <2>5, <2>8
<1>5. [j \in R |-> Expected - Counted[j % Slots]] = [j \in R |-> lost[j] + Expected - PerMessage]
  BY <1>4, Zenon
<1>6. printed' = PackagesLost(Counted)
  BY <1>3 DEF Report
<1>7. PackagesLost(Counted) = Total([j \in R |-> Expected - Counted[j % Slots]])
  BY <1>3, Zenon DEF PackagesLost
<1> QED BY <1>5, <1>6, <1>7, Zenon

\* What the client prints as lost is what the network lost, for any number of counters,
\* any window and any delay that stay clear of each other.
THEOREM LossAlwaysExact == Spec => LossExact
<1>1. BandwidthInv /\ [Next]_vars =>
        [(/\ Report /\ since > 0
          /\ since \in arrived - Slots - Guard + MaxDelay .. arrived - Back - 1 - MaxDelay) =>
           printed' = Total([m \in arrived - Back .. arrived - Guard - 1 |->
                                lost[m] + Expected - PerMessage])]_vars
  BY ReportExact
<1> QED BY <1>1, InitBandwidth, BandwidthStep, PTL DEF Spec, LossExact
=============================================================================
