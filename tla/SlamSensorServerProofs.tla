----------------------- MODULE SlamSensorServerProofs -----------------------
(***************************************************************************)
(* slam_sensor_server: types of its main loop, and that it sends nothing   *)
(* twice, for any number of cameras and any image size; and that           *)
(* UdpServer::send_data() cuts an image into the right pieces, for every   *)
(* image size and packet size and whatever the network does to them.       *)
(***************************************************************************)
EXTENDS SlamSensorServer, UdpImage, SequenceTheorems, FiniteSetTheorems, TLAPS
-----------------------------------------------------------------------------
(* The main loop and the ready bytes.                                      *)

\* A ready byte that is set, and is not the one whose send main() has begun and not yet
\* cleared (or never will, when the send ends the process), has been set since the last send of its area began.
FlagFresh ==
    \A x \in Areas : flag[x] /\ ~(pc \in {"send", "clear", "ended"} /\ area = x) => fresh[x]

SlamInv == SlamTypeOK /\ FlagFresh

\* The areas that main() and the handlers name exist.
LEMMA AreaFacts ==
    /\ 0 \in Areas /\ 1 \in Areas /\ Imu \in Areas /\ Config \in Areas
    /\ Cameras \subseteq Areas /\ Areas \subseteq Nat
    /\ NumCams \in Nat /\ NumCams >= 2 /\ MaxAccepts \in Nat /\ MaxAccepts >= 1
BY SlamAssumption DEF Areas, Imu, Config, Cameras

\* The byte that Fill may overwrite stays a Boolean.
LEMMA OverrunType ==
    ASSUME NEW b \in BOOLEAN
    PROVE  Overrun(b) \in BOOLEAN
BY DEF Overrun

\* Everything may be in the ready bytes at the start; fresh begins with the same.
LEMMA SlamInitInv == SlamInit => SlamInv
BY AreaFacts DEF SlamInit, SlamInv, SlamTypeOK, FlagFresh

\* Advance leaves the loop's camera and the area where the next test needs them.
LEMMA AdvanceType ==
    ASSUME SlamTypeOK, Advance, pc \in {"test", "clear"}
    PROVE  /\ pc' \in {"test", "loop"}
           /\ i' \in 0 .. NumCams /\ area' \in Areas
           /\ pc' = "test" => i' \in Cameras /\ area' \in {i', Imu, Config}
BY AreaFacts DEF Advance, SlamTypeOK, Areas, Imu, Config, Cameras

\* Only a send's begin makes a set byte old, and only for its own area.
LEMMA SlamStepInv == SlamInv /\ [SlamNext]_slamVars => SlamInv'
<1> SUFFICES ASSUME SlamInv, [SlamNext]_slamVars PROVE SlamInv'
  OBVIOUS
<1> USE AreaFacts DEF SlamInv
<1>1. CASE Fill
  <2>1. Overrun(flag[1]) \in BOOLEAN /\ Overrun(fresh[1]) \in BOOLEAN
    BY OverrunType DEF SlamTypeOK
  <2>2. SlamTypeOK'
    BY <1>1, <2>1 DEF Fill, SlamTypeOK, main, tcp
  <2>3. flag[1] => fresh[1]
    BY <1>1 DEF Fill, FlagFresh
  <2>4. Overrun(flag[1]) => Overrun(fresh[1])
    BY <2>3 DEF Overrun
  <2>5. FlagFresh'
    BY <1>1, <2>4 DEF Fill, SlamTypeOK, FlagFresh, main, tcp
  <2> QED BY <2>2, <2>5
<1>2. CASE SeeConnection \/ Endpoint
  BY <1>2 DEF SeeConnection, Endpoint, SlamTypeOK, FlagFresh, tcp, Cameras
<1>3. CASE NotReady
  <2>1. /\ pc' \in {"test", "loop"}
        /\ i' \in 0 .. NumCams /\ area' \in Areas
        /\ pc' = "test" => i' \in Cameras /\ area' \in {i', Imu, Config}
    BY <1>3, AdvanceType DEF NotReady
  <2> QED BY <1>3, <2>1 DEF NotReady, SlamTypeOK, FlagFresh, tcp
<1>4. CASE BeginSend
  BY <1>4 DEF BeginSend, SlamTypeOK, FlagFresh, tcp
<1>5. CASE UdpSend
  BY <1>5 DEF UdpSend, SlamTypeOK, FlagFresh, tcp
<1>6. CASE TcpSend \/ TcpSendThrows
  BY <1>6 DEF TcpSend, TcpSendThrows, SlamTypeOK, FlagFresh, tcp
<1>7. CASE Clear
  <2>1. /\ pc' \in {"test", "loop"}
        /\ i' \in 0 .. NumCams /\ area' \in Areas
        /\ pc' = "test" => i' \in Cameras /\ area' \in {i', Imu, Config}
    BY <1>7, AdvanceType DEF Clear
  <2>2. SlamTypeOK'
    BY <1>7, <2>1 DEF Clear, SlamTypeOK, tcp
  <2>3. FlagFresh'
    BY <1>7, <2>1 DEF Clear, SlamTypeOK, FlagFresh, tcp
  <2> QED BY <2>2, <2>3
<1>8. CASE Cam \/ ImuFaker
  BY <1>8 DEF Cam, CamFaker0, CamFaker1, ImuFaker, SetReady, SlamTypeOK, FlagFresh, main, tcp
<1>9. CASE Accept \/ AcceptThrows \/ ClientLeaves
  BY <1>9 DEF Accept, AcceptThrows, ClientLeaves, SlamTypeOK, FlagFresh, main, tcp
<1>10. CASE UNCHANGED slamVars
  BY <1>10 DEF slamVars, main, tcp, SlamTypeOK, FlagFresh
<1> QED
  BY <1>1, <1>2, <1>3, <1>4, <1>5, <1>6, <1>7, <1>8, <1>9, <1>10 DEF SlamNext, Main

\* Main loop, handlers and accepts keep the types, and the camera of the loop and the area
\* under test stay in step.
THEOREM SlamTypeCorrect == SlamSpec => []SlamTypeOK
BY SlamInitInv, SlamStepInv, PTL DEF SlamSpec, SlamInv

\* main() begins a send only for data that was made ready since the last send of the same
\* area began, however handlers and main() interleave and whatever the sends do.
THEOREM NeverRepeats == SlamSpec => NoRepeat
<1>1. SlamInv /\ [SlamNext]_slamVars => [pc = "test" /\ pc' = "send" => fresh[area]]_slamVars
  <2> SUFFICES ASSUME SlamInv, SlamNext, pc = "test", pc' = "send" PROVE fresh[area]
    BY DEF slamVars, main
  <2>1. BeginSend
    BY AdvanceType DEF SlamNext, Main, Cam, Fill, SeeConnection, Endpoint, NotReady, UdpSend, TcpSend,
       TcpSendThrows, Clear, CamFaker0, CamFaker1, ImuFaker, Accept, AcceptThrows,
       ClientLeaves, main, SlamInv
  <2> QED BY <2>1, AreaFacts DEF BeginSend, SlamInv, SlamTypeOK, FlagFresh
<1> QED BY <1>1, SlamInitInv, SlamStepInv, PTL DEF SlamSpec, NoRepeat
-----------------------------------------------------------------------------
(* The datagrams of an image.                                              *)

\* d is the piece of an image that its number says.
Piece(d) ==
    /\ d \in Datagram
    /\ d.pos = d.number * MaxPacket
    /\ d.len = Smaller(MaxPacket, Size - d.pos)
    /\ (d.pos + d.len = Size) <=> (d.number = LastPackage)

Pieces(s) == \A n \in 1 .. Len(s) : Piece(s[n])

\* The loop's variables agree: header[1] counts the full packets sent so far.
SenderInv ==
    /\ up \in BOOLEAN /\ sending \in BOOLEAN /\ img \in 0 .. MaxImages
    /\ curpos \in 0 .. Size /\ remlen \in 0 .. Size
    /\ header \in (Cams \cup {0}) \X Nat
    /\ sending => /\ remlen > 0 /\ curpos + remlen = Size
                  /\ header[1] \in Cams /\ header[2] \in Nat
                  /\ curpos = header[2] * MaxPacket

\* What the client keeps: a counter, datagrams, and its last message.
ClientTypes ==
    /\ counter \in [Cams -> Nat]
    /\ got \in [Cams -> Seq(Datagram)]
    /\ shown \in [Cams -> [alarm : BOOLEAN, got : Seq(Datagram)]]

Inv == SenderInv /\ net \in Seq(Datagram) /\ Pieces(net) /\ ClientTypes

\* The quotient is the number of the piece in which the last byte lies.
LEMMA LastPiece ==
    ASSUME NEW n \in Nat, NEW p \in Nat, p = n * MaxPacket, p < Size
    PROVE  n <= LastPackage /\ ((Size - p <= MaxPacket) <=> (n = LastPackage))
<1> DEFINE q == (Size - 1) \div MaxPacket
           r == (Size - 1) % MaxPacket
<1>1. /\ q \in Nat /\ r \in 0 .. MaxPacket - 1 /\ Size - 1 = MaxPacket * q + r
  BY UdpAssumption
<1>2. LastPackage = q /\ MaxPacket \in Nat /\ MaxPacket >= 1 /\ Size \in Nat
  BY UdpAssumption
<1> HIDE DEF q, r
<1>3. CASE n = q
  <2>1. p = MaxPacket * q
    BY <1>1, <1>2, <1>3
  <2> QED BY <2>1, <1>1, <1>2, <1>3
<1>4. CASE n < q
  <2>1. PICK k \in Nat : q = n + 1 + k
    <3>1. q - n - 1 \in Nat /\ q = n + 1 + (q - n - 1)
      BY <1>1, <1>4
    <3> QED BY <3>1
  <2>2. MaxPacket * q = p + MaxPacket + MaxPacket * k
    BY <2>1, <1>2
  <2>3. MaxPacket * k \in Nat
    BY <1>2, <2>1
  <2> QED BY <2>2, <2>3, <1>1, <1>2, <1>4
<1>5. CASE n > q
  <2>1. PICK k \in Nat : n = q + 1 + k
    <3>1. n - q - 1 \in Nat /\ n = q + 1 + (n - q - 1)
      BY <1>1, <1>5
    <3> QED BY <3>1
  <2>2. p = MaxPacket * q + MaxPacket + MaxPacket * k
    BY <2>1, <1>1, <1>2
  <2>3. MaxPacket * k \in Nat
    BY <1>2, <2>1
  <2> QED BY <2>2, <2>3, <1>1, <1>2, <1>5
<1> QED BY <1>1, <1>2, <1>3, <1>4, <1>5

\* The numbers of an image end with LastPackage.
LEMMA PieceNumber ==
    ASSUME NEW d, Piece(d)
    PROVE  d.number \in 0 .. LastPackage
<1>1. /\ d.number \in Nat /\ d.pos \in Nat /\ d.len \in Nat
      /\ d.pos = d.number * MaxPacket
      /\ d.len = Smaller(MaxPacket, Size - d.pos)
      /\ (d.pos + d.len = Size) <=> (d.number = LastPackage)
  BY DEF Piece, Datagram
<1>2. MaxPacket \in Nat /\ MaxPacket >= 1 /\ Size \in Nat /\ LastPackage \in Nat
  BY UdpAssumption
<1>3. CASE d.pos < Size
  <2>1. \A n \in Nat, p \in Nat : p = n * MaxPacket /\ p < Size => n <= LastPackage
    BY LastPiece
  <2>2. d.number <= LastPackage
    BY <1>1, <1>3, <2>1
  <2> QED BY <1>1, <1>2, <2>2
<1>4. CASE d.pos >= Size
  BY <1>1, <1>2, <1>4 DEF Smaller
<1> QED BY <1>1, <1>2, <1>3, <1>4

\* What the network makes of a datagram contains nothing but the old ones and that one.
LEMMA CarryPieces ==
    ASSUME NEW d \in Datagram, Piece(d), net \in Seq(Datagram), Pieces(net), Carry(d)
    PROVE  net' \in Seq(Datagram) /\ Pieces(net')
<1>1. CASE net' = Append(net, d)
  <2>1. \A n \in 1 .. Len(net') : net'[n] = d \/ (n \in 1 .. Len(net) /\ net'[n] = net[n])
    BY <1>1
  <2> QED BY <1>1, <2>1 DEF Pieces
<1>2. CASE net' = net
  BY <1>2 DEF Pieces
<1>3. CASE net' = net \o <<d, d>>
  <2>1. <<d, d>> \in Seq(Datagram) /\ Len(<<d, d>>) = 2
    OBVIOUS
  <2>2. \A n \in 1 .. Len(net') : net'[n] = d \/ (n \in 1 .. Len(net) /\ net'[n] = net[n])
    BY <1>3, <2>1
  <2> QED BY <1>3, <2>1, <2>2 DEF Pieces
<1> QED BY <1>1, <1>2, <1>3 DEF Carry

\* Taking one datagram out moves the ones behind it up.
LEMMA WithoutFacts ==
    ASSUME NEW s \in Seq(Datagram), NEW n \in 1 .. Len(s)
    PROVE  /\ Without(s, n) \in Seq(Datagram) /\ Len(Without(s, n)) = Len(s) - 1
           /\ \A m \in 1 .. Len(s) - 1 : Without(s, n)[m] = s[IF m < n THEN m ELSE m + 1]
<1> DEFINE a == SubSeq(s, 1, n - 1)
           b == SubSeq(s, n + 1, Len(s))
<1>1. /\ a \in Seq(Datagram) /\ Len(a) = n - 1
      /\ \A m \in 1 .. n - 1 : a[m] = s[m]
  OBVIOUS
<1>2. /\ b \in Seq(Datagram) /\ Len(b) = Len(s) - n
      /\ \A m \in 1 .. Len(s) - n : b[m] = s[m + n]
  <2>1. CASE n = Len(s)
    <3>1. b = <<>>
      BY <2>1
    <3> QED BY <2>1, <3>1
  <2>2. CASE n < Len(s)
    BY <2>2
  <2> QED BY <2>1, <2>2
<1>3. Without(s, n) = a \o b
  BY DEF Without
<1> HIDE DEF a, b
<1>4. a \o b \in Seq(Datagram) /\ Len(a \o b) = Len(s) - 1
  <2>1. a \in Seq(Datagram) /\ b \in Seq(Datagram)
    BY <1>1, <1>2
  <2>2. a \o b \in Seq(Datagram) /\ Len(a \o b) = Len(a) + Len(b)
    BY <2>1
  <2>3. Len(a) = n - 1 /\ Len(b) = Len(s) - n /\ Len(s) \in Nat
    BY <1>1, <1>2
  <2> QED BY <2>2, <2>3
<1>5. ASSUME NEW m \in 1 .. Len(s) - 1
      PROVE  (a \o b)[m] = s[IF m < n THEN m ELSE m + 1]
  <2>1. a \in Seq(Datagram) /\ b \in Seq(Datagram) /\ Len(a) = n - 1
    BY <1>1, <1>2
  <2>2. m \in 1 .. Len(a) + Len(b)
    BY <1>4, <2>1, ConcatProperties
  <2>3. (a \o b)[m] = IF m <= Len(a) THEN a[m] ELSE b[m - Len(a)]
    BY <2>1, <2>2, ConcatProperties
  <2>4. CASE m < n
    <3>1. m \in 1 .. n - 1 /\ m <= n - 1
      BY <2>4
    <3> QED BY <1>1, <2>1, <2>3, <2>4, <3>1, Zenon
  <2>5. CASE ~(m < n)
    <3>1. m - (n - 1) \in 1 .. Len(s) - n /\ m - (n - 1) + n = m + 1 /\ ~(m <= n - 1)
      BY <2>5
    <3> QED BY <1>2, <2>1, <2>3, <2>5, <3>1, Zenon
  <2> QED BY <2>4, <2>5
<1> QED BY <1>3, <1>4, <1>5

\* What is left after a loss or an arrival are still pieces.
LEMMA WithoutPieces ==
    ASSUME NEW s \in Seq(Datagram), Pieces(s), NEW n \in 1 .. Len(s)
    PROVE  Without(s, n) \in Seq(Datagram) /\ Pieces(Without(s, n))
<1>1. /\ Without(s, n) \in Seq(Datagram) /\ Len(Without(s, n)) = Len(s) - 1
      /\ \A m \in 1 .. Len(s) - 1 : Without(s, n)[m] = s[IF m < n THEN m ELSE m + 1]
  BY WithoutFacts
<1>2. \A m \in 1 .. Len(s) - 1 : m \in 1 .. Len(s) /\ m + 1 \in 1 .. Len(s)
  OBVIOUS
<1> QED BY <1>1, <1>2 DEF Pieces

\* Nothing is sent at the start.
LEMMA InitInv == Init => Inv
<1> SUFFICES ASSUME Init PROVE Inv
  OBVIOUS
<1>1. SenderInv
  <2>1. 0 \in 0 .. MaxImages /\ 0 \in 0 .. Size
    BY UdpAssumption
  <2>2. header \in (Cams \cup {0}) \X Nat
    BY DEF Init
  <2> QED BY <2>1, <2>2 DEF Init, SenderInv
<1>2. net \in Seq(Datagram) /\ Pieces(net)
  BY DEF Init, Pieces
<1>3. ClientTypes
  <2>1. [alarm |-> FALSE, got |-> <<>>] \in [alarm : BOOLEAN, got : Seq(Datagram)]
    OBVIOUS
  <2> QED BY <2>1 DEF Init, ClientTypes
<1> QED BY <1>1, <1>2, <1>3 DEF Inv

\* The datagram that the loop sends in this round.
Cut == [cam |-> header[1], number |-> header[2], img |-> img,
        pos |-> curpos, len |-> Smaller(remlen, MaxPacket)]

\* One round of the loop sends the piece that header[1] says, and the loop ends with the last.
LEMMA SendToFacts ==
    ASSUME Inv, SendTo
    PROVE  /\ Cut \in Datagram /\ Piece(Cut) /\ Carry(Cut) /\ sending
           /\ header[1] \in Cams /\ header[2] \in 0 .. LastPackage /\ img \in Nat
           /\ header'[1] = header[1] /\ header'[2] = header[2] + 1
           /\ sending' <=> header[2] # LastPackage
           /\ UNCHANGED <<up, img, faults, counter, got, shown>>
<1> DEFINE len == Smaller(remlen, MaxPacket)
<1>1. /\ MaxPacket \in Nat /\ MaxPacket >= 1 /\ Size \in Nat /\ Size >= 1 /\ MaxImages \in Nat
      /\ remlen \in Nat /\ curpos \in Nat /\ remlen > 0 /\ curpos + remlen = Size
      /\ header[1] \in Cams /\ header[2] \in Nat /\ img \in Nat
      /\ curpos = header[2] * MaxPacket
  BY UdpAssumption DEF Inv, SenderInv, SendTo
<1>2. len \in Nat /\ len >= 1 /\ len <= remlen /\ len <= MaxPacket
  BY <1>1 DEF Smaller
<1>3. Cut \in Datagram
  BY <1>1, <1>2 DEF Datagram, Cut
<1>4. (curpos + len = Size) <=> (header[2] = LastPackage)
  <2>1. (curpos + len = Size) <=> (Size - curpos <= MaxPacket)
    BY <1>1 DEF Smaller
  <2> QED BY <1>1, <2>1, LastPiece
<1>5. Piece(Cut)
  <2>1. len = Smaller(MaxPacket, Size - curpos)
    BY <1>1 DEF Smaller
  <2> QED BY <1>1, <1>3, <1>4, <2>1 DEF Piece, Cut
<1>6. Carry(Cut)
  BY DEF SendTo, Cut
<1>7. header'[1] = header[1] /\ header'[2] = header[2] + 1
  BY DEF SendTo, Inv, SenderInv
<1>8. sending' <=> header[2] # LastPackage
  <2>1. sending' = (remlen' > 0) /\ remlen' = remlen - len
    BY DEF SendTo
  <2>2. remlen - len > 0 <=> header[2] # LastPackage
    BY <1>1, <1>2, <1>4
  <2> QED BY <2>1, <2>2, Zenon
<1>9. header[2] \in 0 .. LastPackage
  BY <1>1, <1>5, PieceNumber DEF Cut
<1>10. sending /\ UNCHANGED <<up, img, faults, counter, got, shown>>
  BY DEF SendTo, client
<1> QED BY <1>1, <1>3, <1>5, <1>6, <1>7, <1>8, <1>9, <1>10

\* One round of the loop in send_data().
LEMMA SendToInv == Inv /\ SendTo => Inv'
<1> SUFFICES ASSUME Inv, SendTo PROVE Inv'
  OBVIOUS
<1> DEFINE len == Smaller(remlen, MaxPacket)
<1>1. /\ MaxPacket \in Nat /\ MaxPacket >= 1 /\ Size \in Nat
      /\ remlen \in Nat /\ curpos \in Nat /\ remlen > 0 /\ curpos + remlen = Size
      /\ header[1] \in Cams /\ header[2] \in Nat
      /\ curpos = header[2] * MaxPacket
  BY UdpAssumption DEF Inv, SenderInv, SendTo
<1>2. len \in Nat /\ len >= 1 /\ len <= remlen
  BY <1>1 DEF Smaller
<1>3. net' \in Seq(Datagram) /\ Pieces(net')
  BY SendToFacts, CarryPieces DEF Inv
<1>4. SenderInv'
  <2>1. /\ curpos' = curpos + len /\ remlen' = remlen - len /\ sending' = (remlen' > 0)
        /\ header' = [header EXCEPT ![2] = @ + 1] /\ up' = up /\ img' = img
    BY DEF SendTo
  <2>2. curpos' \in 0 .. Size /\ remlen' \in 0 .. Size /\ curpos' + remlen' = Size
    BY <1>1, <1>2, <2>1
  <2>3. remlen' > 0 => len = MaxPacket
    BY <1>1, <2>1 DEF Smaller
  <2>4. header'[1] = header[1] /\ header'[2] = header[2] + 1
    BY SendToFacts
  <2>5. remlen' > 0 => curpos' = header'[2] * MaxPacket
    BY <1>1, <2>1, <2>3, <2>4
  <2>6. header' \in (Cams \cup {0}) \X Nat
    BY <2>1 DEF Inv, SenderInv
  <2>7. up' \in BOOLEAN /\ img' \in 0 .. MaxImages
    BY <2>1 DEF Inv, SenderInv
  <2>8. sending' \in BOOLEAN
    <3>1. (remlen' > 0) \in BOOLEAN
      BY <2>2
    <3> QED BY <2>1, <3>1, Zenon
  <2>9. sending' => remlen' > 0
    BY <2>1, Zenon
  <2>10. header'[1] \in Cams /\ header'[2] \in Nat
    BY <1>1, <2>4
  <2> QED BY <2>2, <2>5, <2>6, <2>7, <2>8, <2>9, <2>10, Zenon DEF SenderInv
<1>5. ClientTypes'
  BY DEF Inv, ClientTypes, SendTo, client
<1> QED BY <1>3, <1>4, <1>5 DEF Inv

\* send_data() begins with the first byte and number 0.
LEMMA SendDataInv == ASSUME Inv, NEW c \in Cams, SendData(c) PROVE Inv'
<1>1. /\ Size \in Nat /\ Size >= 1 /\ MaxPacket \in Nat /\ MaxImages \in Nat
  BY UdpAssumption
<1>2. /\ up' = up /\ sending' = TRUE /\ img' = img + 1 /\ img < MaxImages
      /\ header' = <<c, 0>> /\ curpos' = 0 /\ remlen' = Size
      /\ net' = net /\ UNCHANGED client
  BY DEF SendData
<1>3. SenderInv'
  <2>1. header' \in (Cams \cup {0}) \X Nat /\ header'[1] \in Cams /\ header'[2] = 0
    BY <1>2
  <2>2. up' \in BOOLEAN /\ sending' \in BOOLEAN /\ img' \in 0 .. MaxImages
    BY <1>1, <1>2 DEF Inv, SenderInv
  <2>3. curpos' \in 0 .. Size /\ remlen' \in 0 .. Size /\ remlen' > 0 /\ curpos' + remlen' = Size
    BY <1>1, <1>2
  <2>4. header'[2] \in Nat /\ curpos' = header'[2] * MaxPacket
    BY <1>1, <1>2, <2>1
  <2> QED BY <2>1, <2>2, <2>3, <2>4, Zenon DEF SenderInv
<1> QED BY <1>2, <1>3 DEF Inv, Pieces, ClientTypes, client

\* A send_to() that throws ends the process.
LEMMA SendToThrowsInv == Inv /\ SendToThrows => Inv'
  BY DEF Inv, SenderInv, SendToThrows, Pieces, ClientTypes, client

\* The client takes a datagram out of the network and counts.
LEMMA ReceiveInv == Inv /\ Receive => Inv'
<1> SUFFICES ASSUME Inv, Receive PROVE Inv'
  OBVIOUS
<1>1. PICK n \in 1 .. Len(net) :
        /\ Arrives(net[n]) /\ net' = Without(net, n) /\ UNCHANGED <<sender, faults>>
  BY DEF Receive
<1>2. net' \in Seq(Datagram) /\ Pieces(net')
  BY <1>1, WithoutPieces DEF Inv
<1>3. SenderInv'
  BY <1>1 DEF Inv, SenderInv, sender
<1>4. ClientTypes'
  <2> DEFINE d == net[n]
             c == d.cam
             all == Append(got[c], d)
  <2>1. d \in Datagram /\ c \in Cams
    <3>1. net[n] \in Datagram
      BY DEF Inv
    <3> QED BY <3>1 DEF Datagram
  <2>2. ClientTypes
    BY DEF Inv
  <2>3. /\ counter' = [counter EXCEPT ![c] = Counted(c, d)]
        /\ got' = [got EXCEPT ![c] = IF d.number >= LastPackage THEN <<>> ELSE all]
        /\ shown' = shown \/ shown' = [shown EXCEPT ![c] = [alarm |-> Alarm(c, d), got |-> all]]
    BY <1>1 DEF Arrives
  <2> HIDE DEF d, c
  <2>4. counter[c] \in Nat /\ Counted(c, d) \in Nat
    BY <2>1, <2>2 DEF Counted, ClientTypes
  <2>5. all \in Seq(Datagram)
    BY <2>1, <2>2 DEF ClientTypes
  <2>6. Alarm(c, d) \in BOOLEAN
    BY DEF Alarm
  <2> HIDE DEF all
  <2>7. [alarm |-> Alarm(c, d), got |-> all] \in [alarm : BOOLEAN, got : Seq(Datagram)]
    BY <2>5, <2>6
  <2>8. counter' \in [Cams -> Nat]
    BY <2>1, <2>2, <2>3, <2>4 DEF ClientTypes
  <2>9. got' \in [Cams -> Seq(Datagram)]
    <3>1. <<>> \in Seq(Datagram)
      OBVIOUS
    <3> QED BY <2>1, <2>2, <2>3, <2>5, <3>1 DEF ClientTypes
  <2>10. shown' \in [Cams -> [alarm : BOOLEAN, got : Seq(Datagram)]]
    <3> DEFINE M == [alarm : BOOLEAN, got : Seq(Datagram)]
    <3>1. shown \in [Cams -> M] /\ [alarm |-> Alarm(c, d), got |-> all] \in M
      BY <2>2, <2>7 DEF ClientTypes
    <3> HIDE DEF M
    <3>2. shown' \in [Cams -> M]
      BY <2>1, <2>3, <3>1
    <3> QED BY <3>2 DEF M
  <2> QED BY <2>8, <2>9, <2>10 DEF ClientTypes
<1> QED BY <1>2, <1>3, <1>4 DEF Inv

\* Every step keeps the invariant.
LEMMA StepInv == Inv /\ [Next]_vars => Inv'
<1> SUFFICES ASSUME Inv, [Next]_vars PROVE Inv'
  OBVIOUS
<1>1. ASSUME NEW c \in Cams, SendData(c) PROVE Inv'
  BY <1>1, SendDataInv
<1>2. CASE SendTo
  BY <1>2, SendToInv
<1>3. CASE SendToThrows
  BY <1>3, SendToThrowsInv
<1>4. CASE Receive
  BY <1>4, ReceiveInv
<1>5. CASE UNCHANGED vars
  BY <1>5 DEF Inv, SenderInv, Pieces, ClientTypes, vars, sender, client
<1> QED BY <1>1, <1>2, <1>3, <1>4, <1>5 DEF Next

\* The invariant holds always.
LEMMA Always == Spec => []Inv
<1> QED BY InitInv, StepInv, PTL DEF Spec

\* The loop of send_data() stays within the image: curpos and remlen never leave it, and it
\* ends with the rest at zero, for every Size, MaxPacket and network.
THEOREM UdpTypeCorrect == Spec => []TypeOK
<1>1. Inv => TypeOK
  BY DEF Inv, SenderInv, Pieces, Piece, ClientTypes, TypeOK
<1> QED BY <1>1, Always, PTL

\* Every datagram under way carries the piece that its number says, and the last piece, and
\* no other, has the number by which the client knows it.
THEOREM PiecesAlwaysExact == Spec => []PiecesExact
<1>1. Inv => PiecesExact
  BY DEF Inv, Pieces, Piece, PiecesExact
<1> QED BY <1>1, Always, PTL
-----------------------------------------------------------------------------
(* A reliable network: the numbers arrive as the client counts them.       *)

\* The client is in the middle of an image of camera c and at the start of the others'.
Expects(c, n) == /\ counter[c] = n
                 /\ \A e \in Cams : e # c => counter[e] = 0

\* What send_data() sends after datagram d: the next piece, or the first of an image.
Follows(d, c, n) == IF d.number = LastPackage THEN n = 0 ELSE c = d.cam /\ n = d.number + 1

\* From the client's counters through the network to the sender, each number follows.
ClientInv == net # <<>> => Expects(net[1].cam, net[1].number)
QueueInv  == \A k \in 1 .. Len(net) - 1 : Follows(net[k], net[k + 1].cam, net[k + 1].number)
HeaderInv == sending => IF net = <<>> THEN Expects(header[1], header[2])
                        ELSE Follows(net[Len(net)], header[1], header[2])
PauseInv  == up /\ ~sending => IF net = <<>> THEN \A c \in Cams : counter[c] = 0
                               ELSE net[Len(net)].number = LastPackage
LineInv   == ClientInv /\ QueueInv /\ HeaderInv /\ PauseInv /\ (\A c \in Cams : ~shown[c].alarm)

\* A new datagram goes to the end of the line.
LEMMA SendToLine ==
    ASSUME Inv, faults = {}, LineInv, SendTo
    PROVE  LineInv'
<1> DEFINE d == Cut
<1>1. /\ d \in Datagram /\ d.cam = header[1] /\ d.number = header[2]
      /\ net \in Seq(Datagram) /\ sending
      /\ header[2] \in 0 .. LastPackage
      /\ header'[1] = header[1] /\ header'[2] = header[2] + 1
      /\ sending' <=> header[2] # LastPackage
      /\ counter' = counter /\ shown' = shown
  BY SendToFacts DEF Inv, Cut
<1>2. net' = Append(net, d)
  BY SendToFacts DEF Carry
<1> HIDE DEF d
<1>3. /\ Len(net) \in Nat /\ Len(net') = Len(net) + 1 /\ net'[Len(net) + 1] = d
      /\ net' # <<>>
      /\ \A k \in 1 .. Len(net) : net'[k] = net[k]
  BY <1>1, <1>2
<1>4. ClientInv'
  <2>1. CASE net = <<>>
    <3>1. net'[1] = d
      BY <1>3, <2>1
    <3> QED BY <1>1, <2>1, <3>1 DEF LineInv, HeaderInv, ClientInv, Expects
  <2>2. CASE net # <<>>
    <3>1. net'[1] = net[1]
      BY <1>1, <1>3, <2>2
    <3> QED BY <1>1, <2>2, <3>1 DEF LineInv, ClientInv, Expects
  <2> QED BY <2>1, <2>2
<1>5. QueueInv'
  <2> SUFFICES ASSUME NEW k \in 1 .. Len(net) PROVE Follows(net[k], net'[k + 1].cam, net'[k + 1].number)
    BY <1>3 DEF QueueInv, Follows
  <2>1. CASE k = Len(net)
    <3>1. net # <<>> /\ net'[k + 1] = d
      BY <1>3, <2>1
    <3> QED BY <1>1, <2>1, <3>1 DEF LineInv, HeaderInv
  <2>2. CASE k # Len(net)
    <3>1. k \in 1 .. Len(net) - 1 /\ k + 1 \in 1 .. Len(net)
      BY <1>3, <2>2
    <3> QED BY <1>3, <3>1 DEF LineInv, QueueInv
  <2> QED BY <2>1, <2>2
<1>6. HeaderInv'
  BY <1>1, <1>3 DEF HeaderInv, Follows
<1>7. PauseInv'
  BY <1>1, <1>3 DEF PauseInv
<1> QED BY <1>1, <1>4, <1>5, <1>6, <1>7 DEF LineInv

\* The client finds the number it expects at the head of the line.
LEMMA ReceiveLine ==
    ASSUME Inv, faults = {}, LineInv, Receive
    PROVE  LineInv'
<1> DEFINE d == net[1]
<1>1. PICK n \in 1 .. Len(net) :
        /\ n = 1 /\ Arrives(net[n]) /\ net' = Without(net, n) /\ UNCHANGED <<sender, faults>>
  BY DEF Receive
<1>2. /\ net \in Seq(Datagram) /\ Len(net) \in Nat /\ Len(net) >= 1
      /\ counter \in [Cams -> Nat]
      /\ shown \in [Cams -> [alarm : BOOLEAN, got : Seq(Datagram)]]
  BY <1>1 DEF Inv, ClientTypes
<1>3. /\ net' \in Seq(Datagram) /\ Len(net') = Len(net) - 1
      /\ \A m \in 1 .. Len(net) - 1 : net'[m] = net[m + 1]
  <2>1. \A m \in 1 .. Len(net) - 1 : ~(m < 1)
    BY <1>2
  <2> QED BY <1>1, <1>2, <2>1, WithoutFacts
<1>4. d \in Datagram /\ d.cam \in Cams /\ d.number \in 0 .. LastPackage
  <2>1. Piece(d)
    BY <1>2 DEF Inv, Pieces
  <2> QED BY <2>1, PieceNumber DEF Piece, Datagram
<1>5. Expects(d.cam, d.number)
  BY <1>2 DEF LineInv, ClientInv
<1> HIDE DEF d
<1>6. /\ counter' = [counter EXCEPT ![d.cam] = Counted(d.cam, d)]
      /\ shown' = shown \/ \E all : shown' = [shown EXCEPT ![d.cam] = [alarm |-> FALSE, got |-> all]]
      /\ up' = up /\ sending' = sending /\ header' = header
  BY <1>1, <1>4, <1>5 DEF Arrives, Alarm, Expects, sender, d
<1>7. \A c \in Cams : ~shown'[c].alarm
  <2>1. \A c \in Cams : ~shown[c].alarm
    BY DEF LineInv
  <2>2. CASE shown' = shown
    BY <2>1, <2>2
  <2>3. ASSUME NEW all, shown' = [shown EXCEPT ![d.cam] = [alarm |-> FALSE, got |-> all]]
        PROVE  \A c \in Cams : ~shown'[c].alarm
    <3>1. \A c \in Cams : shown'[c] = IF c = d.cam THEN [alarm |-> FALSE, got |-> all] ELSE shown[c]
      BY <1>2, <2>3
    <3>2. [alarm |-> FALSE, got |-> all].alarm = FALSE
      OBVIOUS
    <3> QED BY <2>1, <3>1, <3>2, Zenon
  <2> QED BY <1>6, <2>2, <2>3
<1>8. \A c \in Cams, k \in Nat : Follows(d, c, k) => Expects(c, k)'
  <2> SUFFICES ASSUME NEW c \in Cams, NEW k \in Nat, Follows(d, c, k) PROVE Expects(c, k)'
    OBVIOUS
  <2>0. LastPackage \in Nat
    BY UdpAssumption
  <2>1. CASE d.number = LastPackage
    <3>1. Counted(d.cam, d) = 0
      BY <1>4, <2>0, <2>1 DEF Counted
    <3> QED BY <1>2, <1>4, <1>5, <1>6, <2>1, <3>1 DEF Expects, Follows
  <2>2. CASE d.number # LastPackage
    <3>1. Counted(d.cam, d) = d.number + 1
      BY <1>4, <1>5, <2>0, <2>2 DEF Counted, Expects
    <3> QED BY <1>2, <1>4, <1>5, <1>6, <2>2, <3>1 DEF Expects, Follows
  <2> QED BY <2>1, <2>2
<1>9. ClientInv'
  <2> SUFFICES ASSUME net' # <<>>
               PROVE  /\ counter'[net'[1].cam] = net'[1].number
                      /\ \A e \in Cams : e # net'[1].cam => counter'[e] = 0
    BY DEF ClientInv, Expects
  <2>1. 1 \in 1 .. Len(net) - 1 /\ net'[1] = net[2] /\ net'[1] \in Datagram
    BY <1>2, <1>3
  <2>2. Follows(d, net[2].cam, net[2].number)
    BY <2>1 DEF LineInv, QueueInv, d
  <2>3. net'[1].cam \in Cams /\ net'[1].number \in Nat
    BY <2>1 DEF Datagram
  <2> QED BY <1>8, <2>1, <2>2, <2>3 DEF Expects
<1>10. QueueInv'
  <2> SUFFICES ASSUME NEW k \in 1 .. Len(net') - 1
               PROVE  Follows(net'[k], net'[k + 1].cam, net'[k + 1].number)
    BY DEF QueueInv, Follows
  <2>1. /\ k \in 1 .. Len(net) - 1 /\ k + 1 \in 1 .. Len(net) - 1
    BY <1>2, <1>3
  <2> QED BY <1>3, <2>1 DEF LineInv, QueueInv
<1>11. /\ net' # <<>> => net'[Len(net')] = net[Len(net)]
       /\ net' = <<>> => net[Len(net)] = d
       /\ net # <<>>
  BY <1>2, <1>3 DEF d
<1>12. HeaderInv'
  <2> SUFFICES ASSUME sending
               PROVE  IF net' = <<>> THEN Expects(header[1], header[2])'
                      ELSE Follows(net'[Len(net')], header[1], header[2])
    BY <1>6 DEF HeaderInv, Follows, Expects
  <2>1. Follows(net[Len(net)], header[1], header[2]) /\ header[1] \in Cams /\ header[2] \in Nat
    BY <1>11 DEF LineInv, HeaderInv, Inv, SenderInv
  <2>2. header'[1] = header[1] /\ header'[2] = header[2]
    BY <1>6
  <2>3. CASE net' = <<>>
    <3>1. Follows(d, header[1], header[2])
      BY <1>11, <2>1, <2>3
    <3>2. counter'[header[1]] = header[2] /\ \A e \in Cams : e # header[1] => counter'[e] = 0
      BY <1>8, <2>1, <3>1 DEF Expects
    <3> QED BY <2>2, <2>3, <3>2 DEF Expects
  <2>4. CASE net' # <<>>
    BY <1>11, <2>1, <2>4
  <2> QED BY <2>3, <2>4
<1>13. PauseInv'
  <2> SUFFICES ASSUME up, ~sending
               PROVE  IF net' = <<>> THEN \A c \in Cams : counter'[c] = 0
                      ELSE net'[Len(net')].number = LastPackage
    BY <1>6 DEF PauseInv
  <2>1. net[Len(net)].number = LastPackage
    BY <1>11 DEF LineInv, PauseInv
  <2>2. CASE net' = <<>>
    <3>1. \A c \in Cams : Follows(d, c, 0)
      BY <1>11, <2>1, <2>2 DEF Follows
    <3> QED BY <1>8, <2>2, <3>1 DEF Expects
  <2> QED BY <1>11, <2>1, <2>2
<1> QED BY <1>7, <1>9, <1>10, <1>12, <1>13 DEF LineInv

\* On a faultless network no step breaks the line of numbers.
LEMMA StepLine == Inv /\ (faults = {} => LineInv) /\ [Next]_vars => (faults = {} => LineInv)'
<1> SUFFICES ASSUME Inv, faults = {} => LineInv, [Next]_vars, faults' = {} PROVE LineInv'
  OBVIOUS
<1>0. faults' = faults
  BY DEF Next, SendData, SendTo, SendToThrows, Receive, vars
<1>1. ASSUME NEW c \in Cams, SendData(c) PROVE LineInv'
  <2>1. /\ up /\ ~sending /\ sending' /\ header'[1] = c /\ header'[2] = 0
        /\ UNCHANGED <<net, counter, shown>>
    BY <1>1 DEF SendData, client
  <2>2. ClientInv' /\ QueueInv' /\ \A e \in Cams : ~shown'[e].alarm
    BY <1>0, <2>1 DEF LineInv, ClientInv, QueueInv, Follows, Expects
  <2>3. HeaderInv'
    BY <1>0, <1>1, <2>1 DEF LineInv, PauseInv, HeaderInv, Expects, Follows
  <2>4. PauseInv'
    BY <2>1 DEF PauseInv
  <2> QED BY <2>2, <2>3, <2>4 DEF LineInv
<1>2. CASE SendTo
  BY <1>0, <1>2, SendToLine
<1>3. CASE SendToThrows
  BY <1>0, <1>3 DEF SendToThrows, client, LineInv, ClientInv, QueueInv, HeaderInv, PauseInv, Follows, Expects
<1>4. CASE Receive
  BY <1>0, <1>4, ReceiveLine
<1>5. CASE UNCHANGED vars
  BY <1>0, <1>5 DEF vars, sender, client, LineInv, ClientInv, QueueInv, HeaderInv, PauseInv, Follows, Expects
<1> QED BY <1>1, <1>2, <1>3, <1>4, <1>5 DEF Next

\* On a network that loses, reorders and duplicates nothing the test client never warns, for
\* every number of cameras and images and every size, also when the server ends amid an image.
THEOREM NeverFalseAlarm == Spec => []NoFalseAlarm
<1>1. Init => LineInv
  BY DEF Init, LineInv, ClientInv, QueueInv, HeaderInv, PauseInv
<1>2. LineInv => NoFalseAlarm
  BY DEF LineInv, NoFalseAlarm
<1>3. (faults = {} => LineInv) => NoFalseAlarm
  BY <1>2 DEF NoFalseAlarm
<1> QED BY <1>1, <1>3, StepLine, Always, PTL DEF Spec

\* The datagrams s are the first Len(s) of image n, in order.
FirstOf(s, n) == \A k \in 1 .. Len(s) : s[k].number = k - 1 /\ s[k].img = n

\* Such a network also keeps the images apart: what the client has of the image under way is
\* its beginning (ClientGot, HeaderGot if nothing is on the way), and until the last
\* datagram of an image the line goes on with the same image (QueueGot, HeaderGot).
GotLine    == \A c \in Cams : Len(got[c]) = counter[c]
ClientGot  == net # <<>> => FirstOf(got[net[1].cam], net[1].img)
QueueGot   == \A k \in 1 .. Len(net) - 1 : net[k].number # LastPackage => net[k + 1].img = net[k].img
HeaderGot  == sending => IF net = <<>> THEN FirstOf(got[header[1]], img)
                         ELSE net[Len(net)].number # LastPackage => net[Len(net)].img = img
ShownGot   == \A c \in Cams : Shown(c) => /\ Len(shown[c].got) = LastPackage + 1
                                          /\ \E n \in Nat : FirstOf(shown[c].got, n)
WholeInv   == GotLine /\ ClientGot /\ QueueGot /\ HeaderGot /\ ShownGot

\* A datagram of the image under way joins the end of the line.
LEMMA SendToWhole ==
    ASSUME Inv, faults = {}, LineInv, WholeInv, SendTo
    PROVE  WholeInv'
<1> DEFINE d == Cut
<1>1. /\ d \in Datagram /\ d.cam = header[1] /\ d.number = header[2] /\ d.img = img
      /\ net \in Seq(Datagram) /\ sending /\ header'[1] = header[1]
      /\ sending' <=> header[2] # LastPackage
      /\ UNCHANGED <<img, counter, got, shown>>
  BY SendToFacts DEF Inv, Cut
<1>2. net' = Append(net, d)
  BY SendToFacts DEF Carry
<1> HIDE DEF d
<1>3. /\ Len(net) \in Nat /\ Len(net') = Len(net) + 1 /\ net'[Len(net) + 1] = d
      /\ net' # <<>>
      /\ \A k \in 1 .. Len(net) : net'[k] = net[k]
  BY <1>1, <1>2
<1>4. GotLine' /\ ShownGot'
  BY <1>1 DEF WholeInv, GotLine, ShownGot, Shown, FirstOf
<1>5. ClientGot'
  <2>1. CASE net = <<>>
    <3>1. net'[1] = d
      BY <1>3, <2>1
    <3>2. FirstOf(got[header[1]], img)
      BY <1>1, <2>1 DEF WholeInv, HeaderGot
    <3>3. FirstOf(got'[net'[1].cam], net'[1].img)
      BY <1>1, <3>1, <3>2
    <3> QED BY <3>3 DEF ClientGot, FirstOf
  <2>2. CASE net # <<>>
    <3>1. net'[1] = net[1]
      BY <1>1, <1>3, <2>2
    <3>2. FirstOf(got'[net'[1].cam], net'[1].img)
      BY <1>1, <2>2, <3>1 DEF WholeInv, ClientGot
    <3> QED BY <3>2 DEF ClientGot, FirstOf
  <2> QED BY <2>1, <2>2
<1>6. QueueGot'
  <2> SUFFICES ASSUME NEW k \in 1 .. Len(net), net'[k].number # LastPackage
               PROVE  net'[k + 1].img = net'[k].img
    BY <1>3 DEF QueueGot
  <2>1. CASE k = Len(net)
    <3>1. net # <<>> /\ net'[k + 1] = d /\ net'[k] = net[Len(net)]
      BY <1>3, <2>1
    <3> QED BY <1>1, <3>1 DEF WholeInv, HeaderGot
  <2>2. CASE k # Len(net)
    <3>1. k \in 1 .. Len(net) - 1 /\ k + 1 \in 1 .. Len(net)
      BY <1>3, <2>2
    <3> QED BY <1>3, <3>1 DEF WholeInv, QueueGot
  <2> QED BY <2>1, <2>2
<1>7. HeaderGot'
  BY <1>1, <1>3 DEF HeaderGot
<1> QED BY <1>4, <1>5, <1>6, <1>7 DEF WholeInv

\* The client takes the datagram that continues what it has.
LEMMA ReceiveWhole ==
    ASSUME Inv, faults = {}, LineInv, LineInv', WholeInv, Receive
    PROVE  WholeInv'
<1> DEFINE d == net[1]
           c == d.cam
           all == Append(got[c], d)
<1>0. LastPackage \in Nat
  BY UdpAssumption
<1>1. PICK n \in 1 .. Len(net) :
        /\ n = 1 /\ Arrives(net[n]) /\ net' = Without(net, n) /\ UNCHANGED <<sender, faults>>
  BY DEF Receive
<1>2. /\ net \in Seq(Datagram) /\ Len(net) \in Nat /\ Len(net) >= 1 /\ net # <<>>
      /\ counter \in [Cams -> Nat] /\ got \in [Cams -> Seq(Datagram)]
      /\ shown \in [Cams -> [alarm : BOOLEAN, got : Seq(Datagram)]]
  BY <1>1 DEF Inv, ClientTypes
<1>3. /\ net' \in Seq(Datagram) /\ Len(net') = Len(net) - 1
      /\ \A m \in 1 .. Len(net) - 1 : net'[m] = net[m + 1]
  <2>1. \A m \in 1 .. Len(net) - 1 : ~(m < 1)
    BY <1>2
  <2> QED BY <1>1, <1>2, <2>1, WithoutFacts
<1>4. d \in Datagram /\ c \in Cams /\ d.number \in 0 .. LastPackage /\ d.img \in Nat
  <2>1. Piece(d)
    BY <1>2 DEF Inv, Pieces
  <2> QED BY <2>1, PieceNumber DEF Piece, Datagram
<1>5. counter[c] = d.number /\ Len(got[c]) = d.number /\ FirstOf(got[c], d.img) /\ got[c] \in Seq(Datagram)
  BY <1>2, <1>4 DEF LineInv, ClientInv, Expects, WholeInv, GotLine, ClientGot
<1>6. /\ all \in Seq(Datagram) /\ all # <<>> /\ Len(all) = d.number + 1 /\ FirstOf(all, d.img)
  <2>1. /\ all \in Seq(Datagram) /\ all # <<>> /\ Len(all) = d.number + 1
        /\ \A k \in 1 .. d.number : all[k] = got[c][k]
        /\ all[d.number + 1] = d
    BY <1>4, <1>5, AppendProperties
  <2> HIDE DEF all, c
  <2>2. \A k \in 1 .. d.number + 1 : all[k].number = k - 1 /\ all[k].img = d.img
    <3> SUFFICES ASSUME NEW k \in 1 .. d.number + 1 PROVE all[k].number = k - 1 /\ all[k].img = d.img
      OBVIOUS
    <3>1. CASE k = d.number + 1
      BY <1>4, <2>1, <3>1
    <3>2. CASE k # d.number + 1
      <4>1. k \in 1 .. d.number
        BY <1>4, <3>2
      <4> QED BY <1>5, <2>1, <4>1 DEF FirstOf
    <3> QED BY <3>1, <3>2
  <2> QED BY <2>1, <2>2 DEF FirstOf
<1>7. /\ counter' = [counter EXCEPT ![c] = Counted(c, d)]
      /\ got' = [got EXCEPT ![c] = IF d.number >= LastPackage THEN <<>> ELSE all]
      /\ shown' = IF d.number >= LastPackage
                    THEN [shown EXCEPT ![c] = [alarm |-> Alarm(c, d), got |-> all]] ELSE shown
      /\ sending' = sending /\ header' = header /\ img' = img
  BY <1>1 DEF Arrives, sender
<1>8. net # <<>> => /\ net' # <<>> => net'[Len(net')] = net[Len(net)]
                    /\ net' = <<>> => net[Len(net)] = d
  BY <1>2, <1>3
<1> HIDE DEF d, c, all
<1>9. \A e \in Cams : got'[e] = IF e # c THEN got[e] ELSE IF d.number = LastPackage THEN <<>> ELSE all
  BY <1>0, <1>2, <1>4, <1>7
<1>10. GotLine'
  <2> SUFFICES ASSUME NEW e \in Cams PROVE Len(got'[e]) = counter'[e]
    BY DEF GotLine
  <2>1. CASE e # c
    BY <1>2, <1>4, <1>7, <1>9, <2>1 DEF WholeInv, GotLine
  <2>2. CASE e = c /\ d.number = LastPackage
    <3>1. counter'[e] = 0 /\ got'[e] = <<>>
      BY <1>0, <1>2, <1>4, <1>7, <1>9, <2>2 DEF Counted
    <3> QED BY <3>1
  <2>3. CASE e = c /\ d.number # LastPackage
    <3>1. counter'[e] = d.number + 1 /\ got'[e] = all
      BY <1>0, <1>2, <1>4, <1>5, <1>7, <1>9, <2>3 DEF Counted
    <3> QED BY <1>6, <3>1
  <2> QED BY <2>1, <2>2, <2>3
<1>11. ASSUME NEW e \in Cams, NEW m \in Nat, d.number # LastPackage => e = c /\ m = d.img,
              counter'[e] = 0 \/ d.number # LastPackage
       PROVE  FirstOf(got'[e], m)
  <2>1. CASE d.number # LastPackage
    BY <1>6, <1>9, <1>11, <2>1
  <2>2. CASE d.number = LastPackage
    <3>1. Len(got'[e]) = 0
      BY <1>10, <1>11, <2>2 DEF GotLine
    <3> QED BY <3>1 DEF FirstOf
  <2> QED BY <2>1, <2>2
<1>12. ClientGot'
  <2> SUFFICES ASSUME net' # <<>> PROVE FirstOf(got'[net'[1].cam], net'[1].img)
    BY DEF ClientGot, FirstOf
  <2>1. 1 \in 1 .. Len(net) - 1 /\ net'[1] = net[1 + 1] /\ net'[1] \in Datagram
    BY <1>2, <1>3
  <2>2. net'[1].cam \in Cams /\ net'[1].img \in Nat
    BY <2>1 DEF Datagram
  <2>3. Follows(d, net'[1].cam, net'[1].number) /\ (d.number # LastPackage => net'[1].img = d.img)
    BY <2>1 DEF LineInv, QueueInv, WholeInv, QueueGot, d
  <2>4. counter'[net'[1].cam] = net'[1].number
    BY DEF LineInv, ClientInv, Expects
  <2> QED BY <1>11, <2>2, <2>3, <2>4 DEF Follows, c
<1>13. QueueGot'
  <2> SUFFICES ASSUME NEW k \in 1 .. Len(net') - 1, net'[k].number # LastPackage
               PROVE  net'[k + 1].img = net'[k].img
    BY DEF QueueGot
  <2>1. k \in 1 .. Len(net) - 1 /\ k + 1 \in 1 .. Len(net) - 1
    BY <1>2, <1>3
  <2> QED BY <1>3, <2>1 DEF WholeInv, QueueGot
<1>14. HeaderGot'
  <2> SUFFICES ASSUME sending
               PROVE  IF net' = <<>> THEN FirstOf(got'[header[1]], img)
                      ELSE net'[Len(net')].number # LastPackage => net'[Len(net')].img = img
    BY <1>7 DEF HeaderGot, FirstOf
  <2>1. header[1] \in Cams /\ header[2] \in Nat /\ img \in Nat
    BY DEF Inv, SenderInv
  <2>2. CASE net' # <<>>
    BY <1>2, <1>8, <2>2 DEF WholeInv, HeaderGot
  <2>3. CASE net' = <<>>
    <3>1. Follows(d, header[1], header[2]) /\ (d.number # LastPackage => d.img = img)
      BY <1>2, <1>8, <2>3 DEF LineInv, HeaderInv, WholeInv, HeaderGot
    <3>2. counter'[header[1]] = header[2]
      BY <1>7, <2>3 DEF LineInv, HeaderInv, Expects
    <3>3. FirstOf(got'[header[1]], img)
      BY <1>11, <2>1, <3>1, <3>2 DEF Follows, c
    <3> QED BY <2>3, <3>3
  <2> QED BY <2>2, <2>3
<1>15. ShownGot'
  <2> SUFFICES ASSUME NEW e \in Cams, shown'[e].got # <<>>
               PROVE  Len(shown'[e].got) = LastPackage + 1 /\ \E m \in Nat : FirstOf(shown'[e].got, m)
    BY DEF ShownGot, Shown, FirstOf
  <2>1. CASE shown'[e] = shown[e]
    BY <2>1 DEF WholeInv, ShownGot, Shown
  <2>2. CASE shown'[e] # shown[e]
    <3>1. d.number = LastPackage /\ e = c /\ shown'[e] = [alarm |-> Alarm(c, d), got |-> all]
      BY <1>0, <1>2, <1>4, <1>7, <2>2
    <3>2. shown'[e].got = all
      BY <3>1
    <3> QED BY <1>4, <1>6, <3>1, <3>2
  <2> QED BY <2>1, <2>2
<1> QED BY <1>10, <1>12, <1>13, <1>14, <1>15 DEF WholeInv

\* The other steps keep what client and line hold; an image begins after the last datagram of another.
LEMMA StepWhole ==
    ASSUME Inv, faults = {} => LineInv /\ WholeInv, [Next]_vars, faults' = {}
    PROVE  (LineInv /\ WholeInv)'
<1>0. faults' = faults /\ LineInv /\ WholeInv
  BY DEF Next, SendData, SendTo, SendToThrows, Receive, vars
<1>1. LineInv'
  BY <1>0, StepLine
<1>2. ASSUME NEW e \in Cams, SendData(e) PROVE WholeInv'
  <2>1. /\ up /\ ~sending /\ sending' /\ header'[1] = e /\ UNCHANGED <<net, counter, got, shown>>
        /\ net \in Seq(Datagram) /\ got \in [Cams -> Seq(Datagram)]
    BY <1>2 DEF SendData, client, Inv, ClientTypes
  <2>2. GotLine' /\ ClientGot' /\ QueueGot' /\ ShownGot'
    BY <1>0, <2>1 DEF WholeInv, GotLine, ClientGot, QueueGot, ShownGot, Shown, FirstOf
  <2>3. CASE net = <<>>
    <3>1. Len(got'[e]) = 0
      BY <1>0, <2>1, <2>3 DEF LineInv, PauseInv, WholeInv, GotLine
    <3>2. FirstOf(got'[header'[1]], img')
      BY <2>1, <3>1 DEF FirstOf
    <3>3. HeaderGot'
      BY <2>1, <2>3, <3>2 DEF HeaderGot, FirstOf
    <3> QED BY <2>2, <3>3 DEF WholeInv
  <2>4. CASE net # <<>>
    <3>1. HeaderGot'
      BY <1>0, <2>1, <2>4 DEF LineInv, PauseInv, HeaderGot
    <3> QED BY <2>2, <3>1 DEF WholeInv
  <2> QED BY <2>3, <2>4
<1>3. ASSUME SendTo PROVE WholeInv'
  BY <1>0, <1>3, SendToWhole
<1>4. ASSUME SendToThrows PROVE WholeInv'
  BY <1>0, <1>4 DEF SendToThrows, client, WholeInv, GotLine, ClientGot, QueueGot, HeaderGot, ShownGot,
     Shown, FirstOf
<1>5. ASSUME Receive PROVE WholeInv'
  BY <1>0, <1>1, <1>5, ReceiveWhole
<1>6. ASSUME UNCHANGED vars PROVE WholeInv'
  BY <1>0, <1>6 DEF vars, sender, client, WholeInv, GotLine, ClientGot, QueueGot, HeaderGot, ShownGot,
     Shown, FirstOf
<1> QED BY <1>1, <1>2, <1>3, <1>4, <1>5, <1>6 DEF Next

\* What the client calls complete on such a network is one image, all its datagrams in order:
\* the statement that loss refutes (SilentMeansAll) holds without loss.
THEOREM ReliableMeansAll == Spec => [](faults = {} => SilentMeansAll)
<1>1. Init => (faults = {} => LineInv /\ WholeInv)
  BY DEF Init, LineInv, ClientInv, QueueInv, HeaderInv, PauseInv, WholeInv, GotLine, ClientGot, QueueGot,
     HeaderGot, ShownGot, Shown
<1>2. Inv /\ (faults = {} => LineInv /\ WholeInv) /\ [Next]_vars => (faults = {} => LineInv /\ WholeInv)'
  BY StepWhole
<1>3. Inv /\ WholeInv => SilentMeansAll
  <2> SUFFICES ASSUME Inv, WholeInv, NEW c \in Cams, Shown(c)
               PROVE  /\ OneImage(shown[c].got) /\ Complete(shown[c].got)
                      /\ \A a \in 1 .. Len(shown[c].got) : shown[c].got[a].number = a - 1
    BY DEF SilentMeansAll
  <2>1. PICK n \in Nat : FirstOf(shown[c].got, n)
    BY DEF WholeInv, ShownGot
  <2>2. Len(shown[c].got) = LastPackage + 1 /\ LastPackage \in Nat
    BY UdpAssumption DEF WholeInv, ShownGot
  <2>3. \A num \in 0 .. LastPackage : num + 1 \in 1 .. Len(shown[c].got) /\ shown[c].got[num + 1].number = num
    BY <2>1, <2>2 DEF FirstOf
  <2> QED BY <2>1, <2>3 DEF FirstOf, OneImage, Complete
<1> QED BY <1>1, <1>2, <1>3, Always, PTL DEF Spec
-----------------------------------------------------------------------------
(* A network that loses and reorders: no datagram is counted twice.        *)

Same(d, e) == d.img = e.img /\ d.number = e.number

AllDiffer(s) == \A k, j \in 1 .. Len(s) : Same(s[k], s[j]) => k = j

NotIn(d, s) == \A k \in 1 .. Len(s) : ~Same(s[k], d)

\* d has been sent: the piece that is sent next is another one.
Sent(d) == /\ d.img <= img /\ d.number <= LastPackage
           /\ d.img = img /\ sending => d.number < header[2]

AllSent(s) == \A k \in 1 .. Len(s) : Sent(s[k])

NetInv == AllDiffer(net) /\ AllSent(net)

GotInv(c) ==
    /\ counter[c] = Len(got[c])
    /\ AllSent(got[c]) /\ AllDiffer(got[c])
    /\ \A n \in 1 .. Len(net) : NotIn(net[n], got[c])

\* A message without a warning came after as many datagrams as an image has.
Full(s, alarm) ==
    /\ AllDiffer(s)
    /\ \A k \in 1 .. Len(s) : s[k].number <= LastPackage
    /\ s # <<>> /\ ~alarm => Len(s) = LastPackage + 1

LossInv == NetInv /\ \A c \in Cams : GotInv(c) /\ Full(shown[c].got, shown[c].alarm)

\* A new datagram keeps a sequence free of repetitions.
LEMMA AppendDiffer ==
    ASSUME NEW s \in Seq(Datagram), NEW d \in Datagram, AllDiffer(s), NotIn(d, s)
    PROVE  AllDiffer(Append(s, d))
<1> DEFINE t == Append(s, d)
<1>1. /\ Len(s) \in Nat /\ Len(t) = Len(s) + 1 /\ t[Len(s) + 1] = d
      /\ \A k \in 1 .. Len(s) : t[k] = s[k]
  OBVIOUS
<1>2. \A k \in 1 .. Len(t) : k \in 1 .. Len(s) \/ k = Len(s) + 1
  BY <1>1
<1> HIDE DEF t
<1>3. \A k \in 1 .. Len(s) : ~Same(s[k], d) /\ ~Same(d, s[k])
  BY DEF NotIn, Same
<1>4. AllDiffer(t)
  BY <1>1, <1>2, <1>3 DEF AllDiffer
<1> QED BY <1>4 DEF t

\* What is taken out is not among the rest.
LEMMA WithoutDiffer ==
    ASSUME NEW s \in Seq(Datagram), NEW n \in 1 .. Len(s), AllDiffer(s)
    PROVE  AllDiffer(Without(s, n)) /\ NotIn(s[n], Without(s, n))
<1> DEFINE t == Without(s, n)
           at(m) == IF m < n THEN m ELSE m + 1
<1>1. Len(t) = Len(s) - 1 /\ Len(s) \in Nat /\ \A m \in 1 .. Len(t) : t[m] = s[at(m)]
  BY WithoutFacts
<1> HIDE DEF t
<1>2. \A m \in 1 .. Len(t) : at(m) \in 1 .. Len(s) /\ at(m) # n
  BY <1>1
<1>3. \A k, j \in 1 .. Len(t) : at(k) = at(j) => k = j
  BY <1>1
<1> HIDE DEF at
<1>4. AllDiffer(t)
  BY <1>1, <1>2, <1>3 DEF AllDiffer
<1>5. NotIn(s[n], t)
  BY <1>1, <1>2 DEF NotIn, AllDiffer
<1> QED BY <1>4, <1>5 DEF t

\* The round of the loop that sends a piece makes it one of those that were sent.
LEMMA SendToLoss ==
    ASSUME Inv, "duplicate" \notin faults, LossInv, SendTo
    PROVE  LossInv'
<1>0. PICK d \in Datagram : d = Cut
  BY SendToFacts
<1>1. /\ d.img = img /\ d.number = header[2] /\ img \in Nat
      /\ net \in Seq(Datagram) /\ sending
      /\ header[2] \in 0 .. LastPackage
      /\ header'[2] = header[2] + 1 /\ img' = img
      /\ UNCHANGED <<counter, got, shown>>
  BY <1>0, SendToFacts DEF Inv, Cut
<1>2. net' = Append(net, d) \/ net' = net
  BY <1>0, SendToFacts DEF Carry
<1>3. \A e \in Datagram : Sent(e) => ~Same(e, d) /\ Sent(e)'
  BY <1>1 DEF Sent, Same, Datagram
<1>4. Sent(d)'
  BY <1>1 DEF Sent
<1>5. \A c \in Cams : got[c] \in Seq(Datagram)
  BY DEF Inv, ClientTypes
<1>6. \A t \in Seq(Datagram) : AllSent(t) => NotIn(d, t) /\ AllSent(t)'
  BY <1>3 DEF AllSent, NotIn
<1>7. AllDiffer(net')
  BY <1>1, <1>2, <1>6, AppendDiffer DEF LossInv, NetInv
<1>8. \A n \in 1 .. Len(net') : net'[n] = d \/ \E m \in 1 .. Len(net) : net'[n] = net[m]
  BY <1>1, <1>2
<1>9. AllSent(net)'
  BY <1>1, <1>3, <1>4, <1>8 DEF LossInv, NetInv, AllSent
<1>10. ASSUME NEW c \in Cams PROVE GotInv(c)'
  <2>1. GotInv(c) /\ got'[c] = got[c] /\ counter'[c] = counter[c]
    BY <1>1 DEF LossInv
  <2>2. AllSent(got[c])' /\ NotIn(d, got[c])
    BY <1>5, <1>6, <2>1 DEF GotInv
  <2>3. \A n \in 1 .. Len(net') : NotIn(net'[n], got[c])
    BY <1>8, <2>1, <2>2 DEF GotInv
  <2> QED BY <2>1, <2>2, <2>3 DEF GotInv
<1> QED BY <1>1, <1>7, <1>9, <1>10 DEF LossInv, NetInv

\* What the client counts it has not counted before.
LEMMA ReceiveLoss ==
    ASSUME Inv, LossInv, Receive
    PROVE  LossInv'
<1>1. PICK n \in 1 .. Len(net) :
        /\ Arrives(net[n]) /\ net' = Without(net, n) /\ UNCHANGED <<sender, faults>>
  BY DEF Receive
<1> DEFINE d == net[n]
           c == d.cam
<1>0. PICK all : all = Append(got[c], d)
  OBVIOUS
<1>2. /\ net \in Seq(Datagram) /\ Len(net) \in Nat /\ counter \in [Cams -> Nat]
      /\ got \in [Cams -> Seq(Datagram)]
      /\ shown \in [Cams -> [alarm : BOOLEAN, got : Seq(Datagram)]]
  BY DEF Inv, ClientTypes
<1>3. d \in Datagram /\ c \in Cams /\ d.number \in 0 .. LastPackage
  <2>1. Piece(d)
    BY <1>2 DEF Inv, Pieces
  <2> QED BY <2>1, PieceNumber DEF Piece, Datagram
<1>4. /\ Len(net') = Len(net) - 1 /\ AllDiffer(net') /\ NotIn(d, net')
      /\ \A m \in 1 .. Len(net') : net'[m] = net[IF m < n THEN m ELSE m + 1]
  BY <1>1, <1>2, WithoutFacts, WithoutDiffer DEF LossInv, NetInv
<1>5. \A m \in 1 .. Len(net') : \E k \in 1 .. Len(net) : net'[m] = net[k]
  <2>1. \A m \in 1 .. Len(net') : m \in 1 .. Len(net) /\ m + 1 \in 1 .. Len(net)
    BY <1>2, <1>4
  <2> QED BY <1>4, <2>1
<1>6. /\ counter' = [counter EXCEPT ![c] = Counted(c, d)]
      /\ got' = [got EXCEPT ![c] = IF d.number >= LastPackage THEN <<>> ELSE all]
      /\ shown' = IF d.number >= LastPackage
                  THEN [shown EXCEPT ![c] = [alarm |-> Alarm(c, d), got |-> all]] ELSE shown
      /\ img' = img /\ sending' = sending /\ header' = header
  BY <1>0, <1>1 DEF Arrives, sender
<1> HIDE DEF d, c
<1>7. \A t : AllSent(t) => AllSent(t)'
  BY <1>6 DEF AllSent, Sent
<1>8. NetInv'
  <2>1. AllSent(net')
    BY <1>5 DEF LossInv, NetInv, AllSent
  <2> QED BY <1>4, <1>6, <2>1 DEF NetInv, AllSent, Sent
<1>9. GotInv(c) /\ Sent(d) /\ NotIn(d, got[c])
  BY <1>3 DEF LossInv, NetInv, AllSent, GotInv, d
<1>10. /\ all \in Seq(Datagram) /\ Len(all) = Len(got[c]) + 1 /\ AllDiffer(all) /\ AllSent(all)
       /\ \A m \in 1 .. Len(net') : NotIn(net'[m], all)
  <2>1. /\ got[c] \in Seq(Datagram) /\ all \in Seq(Datagram) /\ Len(all) = Len(got[c]) + 1
        /\ \A k \in 1 .. Len(all) : all[k] = d \/ \E j \in 1 .. Len(got[c]) : all[k] = got[c][j]
    BY <1>0, <1>2, <1>3
  <2>2. AllDiffer(all)
    BY <1>0, <1>3, <1>9, <2>1, AppendDiffer DEF GotInv
  <2>3. AllSent(all)
    BY <1>9, <2>1 DEF GotInv, AllSent
  <2>4. ASSUME NEW m \in 1 .. Len(net') PROVE NotIn(net'[m], all)
    <3>1. NotIn(net'[m], got[c])
      BY <1>5, <1>9 DEF GotInv
    <3>2. ~Same(d, net'[m])
      BY <1>4 DEF NotIn, Same
    <3> QED BY <2>1, <3>1, <3>2 DEF NotIn
  <2> QED BY <2>1, <2>2, <2>3, <2>4
<1>11. LastPackage \in Nat /\ counter[c] = Len(got[c]) /\ Len(got[c]) \in Nat
  BY <1>2, <1>3, <1>9, UdpAssumption DEF GotInv
<1>12. ASSUME NEW e \in Cams PROVE GotInv(e)'
  <2>1. CASE e # c
    <3>1. GotInv(e) /\ got'[e] = got[e] /\ counter'[e] = counter[e]
      BY <1>2, <1>6, <2>1 DEF LossInv
    <3>2. \A m \in 1 .. Len(net') : NotIn(net'[m], got[e])
      BY <1>5, <3>1 DEF GotInv
    <3> QED BY <1>7, <3>1, <3>2 DEF GotInv
  <2>2. CASE e = c /\ d.number >= LastPackage
    <3>1. got'[e] = <<>> /\ counter'[e] = 0
      BY <1>2, <1>3, <1>6, <2>2 DEF Counted
    <3> QED BY <3>1 DEF GotInv, AllSent, AllDiffer, NotIn
  <2>3. CASE e = c /\ ~(d.number >= LastPackage)
    <3>1. got'[e] = all /\ counter'[e] = counter[c] + 1
      BY <1>2, <1>3, <1>6, <2>3 DEF Counted
    <3>2. AllSent(all)'
      BY <1>6, <1>10 DEF AllSent, Sent
    <3> QED BY <1>10, <1>11, <3>1, <3>2 DEF GotInv
  <2> QED BY <2>1, <2>2, <2>3
<1>13. ASSUME NEW e \in Cams PROVE Full(shown'[e].got, shown'[e].alarm)
  <2>1. CASE e # c \/ ~(d.number >= LastPackage)
    <3>1. shown'[e] = shown[e]
      BY <1>2, <1>6, <2>1
    <3> QED BY <3>1 DEF LossInv
  <2>2. CASE e = c /\ d.number >= LastPackage
    <3>1. shown'[e] = [alarm |-> Alarm(c, d), got |-> all]
      BY <1>2, <1>6, <2>2
    <3>2. shown'[e].got = all /\ shown'[e].alarm = Alarm(c, d)
      BY <3>1
    <3>3. ~Alarm(c, d) => Len(all) = LastPackage + 1
      BY <1>3, <1>10, <1>11, <2>2 DEF Alarm
    <3>4. \A k \in 1 .. Len(all) : all[k].number <= LastPackage
      BY <1>10 DEF AllSent, Sent
    <3> QED BY <1>10, <3>2, <3>3, <3>4 DEF Full
  <2> QED BY <2>1, <2>2
<1> QED BY <1>8, <1>12, <1>13 DEF LossInv

\* Without duplicates no step counts a datagram twice.
LEMMA StepLoss ==
    Inv /\ ("duplicate" \notin faults => LossInv) /\ [Next]_vars
        => ("duplicate" \notin faults => LossInv)'
<1> SUFFICES ASSUME Inv, "duplicate" \notin faults => LossInv, [Next]_vars,
                    "duplicate" \notin faults'
             PROVE  LossInv'
  OBVIOUS
<1>0. faults' = faults
  BY DEF Next, SendData, SendTo, SendToThrows, Receive, vars
<1>1. ASSUME UNCHANGED <<net, client>>, \A t \in Seq(Datagram) : AllSent(t) => AllSent(t)' PROVE LossInv'
  <2>1. \A c \in Cams : got[c] \in Seq(Datagram)
    BY DEF Inv, ClientTypes
  <2>2. NetInv'
    BY <1>0, <1>1 DEF LossInv, NetInv, Inv
  <2>3. \A c \in Cams : GotInv(c)'
    BY <1>0, <1>1, <2>1 DEF LossInv, GotInv, client
  <2> QED BY <1>0, <1>1, <2>2, <2>3 DEF LossInv, client
<1>2. ASSUME NEW c \in Cams, SendData(c) PROVE LossInv'
  <2>1. img' = img + 1 /\ img \in Nat /\ UNCHANGED <<net, client>>
    BY <1>2, UdpAssumption DEF SendData, Inv, SenderInv
  <2>2. \A e \in Datagram : Sent(e) => Sent(e)'
    BY <2>1 DEF Sent, Datagram
  <2> QED BY <1>1, <2>1, <2>2 DEF AllSent
<1>3. CASE SendTo
  BY <1>0, <1>3, SendToLoss
<1>4. CASE SendToThrows
  BY <1>1, <1>4 DEF SendToThrows, AllSent, Sent
<1>5. CASE Receive
  BY <1>0, <1>5, ReceiveLoss
<1>6. CASE UNCHANGED vars
  BY <1>1, <1>6 DEF vars, sender, AllSent, Sent
<1> QED BY <1>2, <1>3, <1>4, <1>5, <1>6 DEF Next

\* As many different numbers of one image as an image has are all its numbers.
LEMMA FullIsComplete ==
    ASSUME NEW s \in Seq(Datagram), AllDiffer(s), OneImage(s), Len(s) = LastPackage + 1,
           \A k \in 1 .. Len(s) : s[k].number <= LastPackage
    PROVE  Complete(s)
<1> DEFINE S == 1 .. Len(s)
           T == 0 .. LastPackage
           f == [k \in S |-> s[k].number]
<1>0. LastPackage \in Nat
  BY UdpAssumption
<1>1. f \in [S -> T]
  <2>1. \A k \in S : s[k] \in Datagram
    OBVIOUS
  <2>2. \A k \in S : s[k].number \in Nat /\ s[k].number <= LastPackage
    BY <2>1 DEF Datagram
  <2>3. \A k \in S : s[k].number \in T
    BY <1>0, <2>2
  <2> QED BY <2>3
<1>2. \A k, j \in S : f[k] = f[j] => k = j
  BY DEF AllDiffer, OneImage, Same
<1>3. f \in Injection(S, T)
  BY <1>1, <1>2 DEF Injection, IsInjective
<1>4. IsFiniteSet(T) /\ Cardinality(T) = LastPackage + 1
  BY <1>0, FS_Interval
<1>5. Cardinality(S) = LastPackage + 1
  BY <1>0, FS_Interval
<1>6. f \in Surjection(S, T)
  BY <1>3, <1>4, <1>5, FS_Injection
<1>7. \A num \in T : \E k \in S : f[k] = num
  BY <1>6 DEF Surjection
<1> QED BY <1>7 DEF Complete

\* The test client's count is good enough for loss and reordering: without a warning every
\* number of the image arrived, if what arrived is of one image, for every size.
THEOREM LossAlwaysReported == Spec => []LossReported
<1>1. Init => LossInv
  BY DEF Init, LossInv, NetInv, GotInv, Full, AllSent, AllDiffer, NotIn
<1>2. Inv /\ ("duplicate" \notin faults => LossInv) => LossReported
  <2> SUFFICES ASSUME Inv, LossInv, NEW c \in Cams,
                      OneImage(shown[c].got), Shown(c), ~shown[c].alarm
               PROVE  Complete(shown[c].got)
    BY DEF LossReported
  <2>1. shown[c].got \in Seq(Datagram)
    BY DEF Inv, ClientTypes
  <2>2. Full(shown[c].got, shown[c].alarm) /\ shown[c].got # <<>>
    BY DEF LossInv, Shown
  <2> QED BY <2>1, <2>2, FullIsComplete DEF Full
<1> QED BY <1>1, <1>2, StepLoss, Always, PTL DEF Spec
=============================================================================
