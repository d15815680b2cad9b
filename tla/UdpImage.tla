------------------------------ MODULE UdpImage ------------------------------
(***************************************************************************)
(* The images of slam_sensor_server on their way: UdpServer::send_data()   *)
(* cuts an image into numbered datagrams, and the test client counts them  *)
(* and takes the image for complete when it sees the last number.          *)
(*                                                                         *)
(* The network keeps order and loses nothing, except for the faults that   *)
(* are chosen at the start.  The bytes themselves are left out: the client *)
(* copies every datagram to the start of its buffer and looks at none.     *)
(***************************************************************************)
EXTENDS Naturals, Sequences

CONSTANTS Cams,        \* camera numbers
          Size,        \* bytes of an image
          MaxPacket,   \* MAX_PAKET_SIZE
          LastPackage, \* the number by which the client knows the last datagram
          FaultSets,   \* what the network may do: sets of "lose", "reorder", "duplicate"
          MaxImages    \* bound: images sent

ASSUME UdpAssumption ==
    /\ Size \in Nat \ {0} /\ MaxPacket \in Nat \ {0} /\ MaxImages \in Nat
    /\ LastPackage = (Size - 1) \div MaxPacket

VARIABLES
    up,       \* the server has not ended
    sending,  \* in send_data()
    img,      \* images begun so far; the image being sent
    header,   \* <<cam, number>> of the next datagram
    curpos, remlen,
    faults,   \* what the network may do in this run
    net,      \* datagrams on their way
    counter,  \* image_package_counter
    got,      \* datagrams since the last complete image, with the one that completed it
    shown     \* the client's last message about a camera: with a warning, and after what

sender == <<up, sending, img, header, curpos, remlen>>
client == <<counter, got, shown>>
vars == <<sender, faults, net, client>>

Datagram == [cam : Cams, number : Nat, img : Nat, pos : Nat, len : Nat]
Smaller(a, b) == IF a <= b THEN a ELSE b

Init ==
    /\ up = TRUE /\ sending = FALSE /\ img = 0
    /\ header = <<0, 0>> /\ curpos = 0 /\ remlen = 0 /\ net = <<>>
    /\ faults \in FaultSets
    /\ counter = [c \in Cams |-> 0]
    /\ got = [c \in Cams |-> <<>>]
    /\ shown = [c \in Cams |-> [alarm |-> FALSE, got |-> <<>>]]
-----------------------------------------------------------------------------
(* UdpServer::send_data().                                                 *)

SendData(c) ==
    /\ up /\ ~sending /\ img < MaxImages
    /\ sending' = TRUE /\ img' = img + 1
    /\ header' = <<c, 0>> /\ curpos' = 0 /\ remlen' = Size
    /\ UNCHANGED <<up, faults, net, client>>

\* What may become of datagram d.
Carry(d) ==
    \/ net' = Append(net, d)
    \/ "lose" \in faults /\ net' = net
    \/ "duplicate" \in faults /\ net' = net \o <<d, d>>

\* Mutant: the rest is computed from the length with the header.
SendToNoHeader ==
    /\ sending
    /\ LET sendlen == Smaller(remlen, MaxPacket) IN
         /\ Carry([cam |-> header[1], number |-> header[2], img |-> img,
                   pos |-> curpos, len |-> sendlen])
         /\ curpos' = curpos + sendlen + 1
         /\ remlen' = IF remlen > sendlen + 1 THEN remlen - sendlen - 1 ELSE 0
    /\ header' = [header EXCEPT ![2] = @ + 1]
    /\ sending' = (remlen' > 0)
    /\ UNCHANGED <<up, img, faults, client>>

\* Mutant: the datagrams are numbered from 1.
SendToFromOne ==
    /\ sending
    /\ LET sendlen == Smaller(remlen, MaxPacket) IN
         /\ Carry([cam |-> header[1], number |-> header[2] + 1, img |-> img,
                   pos |-> curpos, len |-> sendlen])
         /\ curpos' = curpos + sendlen
         /\ remlen' = remlen - sendlen
    /\ header' = [header EXCEPT ![2] = @ + 1]
    /\ sending' = (remlen' > 0)
    /\ UNCHANGED <<up, img, faults, client>>

\* Mutant: header[1] is not counted up.
SendToNoCount ==
    /\ sending
    /\ LET sendlen == Smaller(remlen, MaxPacket) IN
         /\ Carry([cam |-> header[1], number |-> header[2], img |-> img,
                   pos |-> curpos, len |-> sendlen])
         /\ curpos' = curpos + sendlen
         /\ remlen' = remlen - sendlen
    /\ sending' = (remlen' > 0)
    /\ UNCHANGED <<up, img, header, faults, client>>

\* One round of the loop.
SendTo ==
    /\ sending
    /\ LET sendlen == Smaller(remlen, MaxPacket) IN
         /\ Carry([cam |-> header[1], number |-> header[2], img |-> img,
                   pos |-> curpos, len |-> sendlen])
         /\ curpos' = curpos + sendlen
         /\ remlen' = remlen - sendlen
    /\ header' = [header EXCEPT ![2] = @ + 1]
    /\ sending' = (remlen' > 0)
    /\ UNCHANGED <<up, img, faults, client>>

\* send_to() does not return -1 but throws; the exception ends main()'s loop.
SendToThrows ==
    /\ sending
    /\ up' = FALSE /\ sending' = FALSE
    /\ UNCHANGED <<img, header, curpos, remlen, faults, net, client>>
-----------------------------------------------------------------------------
(* The loop of the test client.                                            *)

Counted(c, d) == IF d.number >= LastPackage THEN 0 ELSE counter[c] + 1

\* Mutant: the message is left out if only a few are missing.
AlarmTolerant(c, d) == counter[c] + 1 < d.number

\* "One or more packages lost or not in order".
Alarm(c, d) == counter[c] # d.number

Arrives(d) ==
    LET c == d.cam
        done == d.number >= LastPackage
        all == Append(got[c], d)
    IN  /\ counter' = [counter EXCEPT ![c] = Counted(c, d)]
        /\ got' = [got EXCEPT ![c] = IF done THEN <<>> ELSE all]
        /\ shown' = IF done THEN [shown EXCEPT ![c] = [alarm |-> Alarm(c, d), got |-> all]]
                    ELSE shown

Without(s, n) == SubSeq(s, 1, n - 1) \o SubSeq(s, n + 1, Len(s))

Receive ==
    \E n \in 1 .. Len(net) :
        /\ n = 1 \/ "reorder" \in faults
        /\ Arrives(net[n])
        /\ net' = Without(net, n)
        /\ UNCHANGED <<sender, faults>>

Next == (\E c \in Cams : SendData(c)) \/ SendTo \/ SendToThrows \/ Receive

Spec == Init /\ [][Next]_vars
FairSpec == Spec /\ WF_vars(SendTo) /\ WF_vars(Receive)
-----------------------------------------------------------------------------
\* Types; a rest of zero bytes and the end of send_data() go together.
TypeOK ==
    /\ up \in BOOLEAN /\ sending \in BOOLEAN
    /\ img \in 0 .. MaxImages
    /\ curpos \in 0 .. Size /\ remlen \in 0 .. Size
    /\ sending => remlen > 0
    /\ \A n \in 1 .. Len(net) : net[n] \in Datagram
    /\ counter \in [Cams -> Nat]

\* The number of a datagram is the place of its bytes: datagram n carries the n-th piece
\* of the image, the pieces cover it, and the one with number LastPackage is the last.
PiecesExact ==
    \A n \in 1 .. Len(net) : LET d == net[n] IN
        /\ d.pos = d.number * MaxPacket
        /\ d.len = Smaller(MaxPacket, Size - d.pos)
        /\ (d.pos + d.len = Size) <=> (d.number = LastPackage)

\* The client has called an image of camera c complete.
Shown(c) == shown[c].got # <<>>

\* If the network is reliable and the server goes on, no message of the client says that
\* datagrams were lost.
NoFalseAlarm ==
    faults = {} => \A c \in Cams : Shown(c) => ~shown[c].alarm

OneImage(s) == \A a, b \in 1 .. Len(s) : s[a].img = s[b].img
Complete(s) == \A num \in 0 .. LastPackage : \E a \in 1 .. Len(s) : s[a].number = num

\* If datagrams may be lost and reordered, but the client had seen the last datagram of the
\* image before, an image is not called complete without a warning unless all arrived.
LossReported ==
    "duplicate" \notin faults =>
        \A c \in Cams : OneImage(shown[c].got) /\ Shown(c) /\ ~shown[c].alarm =>
            Complete(shown[c].got)

\* Every image begun is called complete by a client with a reliable network, unless the server ends.
EveryImageShown ==
    \A n \in 1 .. MaxImages :
        (img = n /\ faults = {}) ~> (~up \/ \E c \in Cams : Shown(c) /\ shown[c].got[1].img >= n)

\* The client's message is "One or more packages lost or not in order": without it the
\* datagrams since the last complete image are those of one image, all of them, in order.
SilentMeansAll ==
    \A c \in Cams : Shown(c) /\ ~shown[c].alarm =>
        /\ OneImage(shown[c].got) /\ Complete(shown[c].got)
        /\ \A a \in 1 .. Len(shown[c].got) : shown[c].got[a].number = a - 1
=============================================================================
