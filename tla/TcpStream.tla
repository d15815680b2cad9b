----------------------------- MODULE TcpStream -----------------------------
(***************************************************************************)
(* What travels on port 13777, and how TCPtest/client.cpp takes it apart.  *)
(* Two programs listen there:                                              *)
(*   "visensor"  visensor-srv, whose send_data() sends a header of three   *)
(*               words and the image                                       *)
(*   "writer"    TCPtest/server.cpp, whose asynchronous writes send the    *)
(*               image alone, again and again                              *)
(*                                                                         *)
(* The stream is a sequence of units <<image, k>>: k = 1, 2, 3 are the     *)
(* words of the header, larger k the pieces of the image.  The network     *)
(* keeps them in order and holds at most Window of them; a connection may  *)
(* end between any two.                                                    *)
(***************************************************************************)
EXTENDS Naturals, Sequences

CONSTANTS Pieces,  \* pieces of an image
          Window   \* units the connection holds

ASSUME StreamAssumption == Pieces \in Nat \ {0} /\ Window \in Nat \ {0}

VARIABLES
    program,  \* which server runs
    srv,      \* "down", "listen", "send", "error" (the send has failed)
    image,    \* the image being sent
    at,       \* units of the present message handed to the socket
    wire,     \* units on their way
    ended,    \* the server's side of the connection has ended
    cl,       \* client: "off", "header" or "payload" (what it reads)
    have,     \* units of the present read
    asked,    \* length of the payload read
    shown,    \* the image shown last on this connection
    short     \* the payload read failed

server == <<program, srv, image, at>>
client == <<cl, have, asked, shown, short>>
streamVars == <<server, wire, ended, client>>

StreamInit ==
    /\ program \in {"visensor", "writer"}
    /\ srv = "listen" /\ image = 0 /\ at = 0
    /\ wire = <<>> /\ ended = FALSE
    /\ cl = "off" /\ have = <<>> /\ asked = 0 /\ shown = <<>> /\ short = FALSE
-----------------------------------------------------------------------------
(* The servers.                                                            *)

ImageUnits(i) == [k \in 1 .. Pieces |-> <<i, 3 + k>>]
HeaderUnits(i) == [k \in 1 .. 3 |-> <<i, k>>]

\* One send: header and image gathered by send_data(), the image by write().
Message == IF program = "visensor" THEN HeaderUnits(image) \o ImageUnits(image)
                                   ELSE ImageUnits(image)

\* A client is accepted, handle_accept() lets the sending begin.
Accept ==
    /\ srv = "listen" /\ cl = "off"
    /\ srv' = "send" /\ at' = 0
    /\ wire' = <<>> /\ ended' = FALSE
    /\ cl' = "header" /\ have' = <<>> /\ shown' = <<>> /\ short' = FALSE
    /\ UNCHANGED <<program, image, asked>>

\* tcp_writer::handle_accept() returns early: no operation is left, io_service.run() and
\* main() return.
AcceptError ==
    /\ program = "writer" /\ srv = "listen"
    /\ srv' = "down"
    /\ UNCHANGED <<program, image, at, wire, ended, client>>

\* The socket takes one more unit.  What is sent to a client that has left is dropped.
SendUnit ==
    /\ srv = "send" /\ at < Len(Message)
    /\ cl = "off" \/ Len(wire) < Window
    /\ at' = at + 1
    /\ wire' = IF cl = "off" THEN wire ELSE Append(wire, Message[at + 1])
    /\ UNCHANGED <<program, srv, image, ended, client>>

\* Mutant: the next image is begun before the last unit of this one has been sent.
MessageSentEarly ==
    /\ srv = "send" /\ at >= Len(Message) - 1
    /\ at' = 0
    /\ image' = 1 - image
    /\ UNCHANGED <<program, srv, wire, ended, client>>

\* The whole message has gone: movePointer() and the next image, or handle_writer() and
\* write() with the same data.
MessageSent ==
    /\ srv = "send" /\ at = Len(Message)
    /\ at' = 0
    /\ image' = IF program = "visensor" THEN 1 - image ELSE image
    /\ UNCHANGED <<program, srv, wire, ended, client>>

\* The client's reset arrives: send() throws, or handle_writer() gets an error.
SendFails ==
    /\ srv = "send" /\ cl = "off"
    /\ srv' = "error"
    /\ UNCHANGED <<program, image, at, wire, ended, client>>

\* Mutant: an error of the write is answered with the next write.
BackToAcceptNot ==
    /\ srv = "error" /\ srv' = "send" /\ at' = 0
    /\ UNCHANGED <<program, image, wire, ended, client>>

\* accept_connection(): the socket is closed and the next client awaited.
BackToAccept ==
    /\ srv = "error" /\ srv' = "listen"
    /\ image' = IF program = "visensor" THEN 1 - image ELSE image
    /\ UNCHANGED <<program, at, wire, ended, client>>

\* The server process ends, wherever it is; what is on the wire still arrives.
ServerEnds ==
    /\ srv # "down" /\ srv' = "down"
    /\ ended' = TRUE
    /\ UNCHANGED <<program, image, at, wire, client>>

ServerStarts ==
    /\ srv = "down" /\ srv' = "listen"
    /\ UNCHANGED <<program, image, at, wire, ended, client>>
-----------------------------------------------------------------------------
(* The client.  boost::asio::read() returns when it has all, or an error.  *)

\* data_size and data_id as the client decodes them.  Of an image's pieces none is a
\* known identifier.
DataSize(unit) == IF unit[2] = 2 THEN Pieces ELSE 0
Known(unit) == unit[2] = 3

TakeUnit ==
    /\ cl \in {"header", "payload"} /\ wire # <<>>
    /\ Len(have) < (IF cl = "header" THEN 3 ELSE asked)
    /\ have' = Append(have, Head(wire))
    /\ wire' = Tail(wire)
    /\ UNCHANGED <<server, ended, cl, asked, shown, short>>

\* An unknown identifier: the next unit is taken for a header again.
HeaderRead ==
    /\ cl = "header" /\ Len(have) = 3
    /\ have' = <<>>
    /\ IF Known(have[3])
         THEN cl' = "payload" /\ asked' = DataSize(have[2])
         ELSE UNCHANGED <<cl, asked>>
    /\ UNCHANGED <<server, wire, ended, shown, short>>

\* The connection has ended and all of it is read.
AtEnd == ended /\ wire = <<>>

\* eof: the loop is left; any other error: an exception leaves it.
HeaderEnds ==
    /\ cl = "header" /\ Len(have) < 3 /\ AtEnd
    /\ cl' = "off"
    /\ UNCHANGED <<server, wire, ended, have, asked, shown, short>>

\* imshow() of what was read; the error of the payload read is not looked at.
ShowImage ==
    /\ cl = "payload" /\ (Len(have) = asked \/ AtEnd)
    /\ cl' = "header" /\ have' = <<>>
    /\ shown' = have /\ short' = (Len(have) < asked)
    /\ UNCHANGED <<server, wire, ended, asked>>

\* The client is closed by its user.
ClientEnds ==
    /\ cl # "off" /\ cl' = "off"
    /\ UNCHANGED <<server, wire, ended, have, asked, shown, short>>
-----------------------------------------------------------------------------
ServerStep == SendUnit \/ MessageSent \/ BackToAccept

StreamNext ==
    \/ Accept \/ AcceptError \/ ServerStep \/ SendFails \/ ServerEnds \/ ServerStarts
    \/ TakeUnit \/ HeaderRead \/ HeaderEnds \/ ShowImage \/ ClientEnds

StreamSpec == StreamInit /\ [][StreamNext]_streamVars

\* The server's thread runs, and the network delivers the reset of a client that has left.
StreamFairSpec == StreamSpec /\ WF_streamVars(BackToAccept) /\ WF_streamVars(SendFails)
-----------------------------------------------------------------------------
\* The client stays in step with the stream: what it shows is one whole image, and the
\* only exception is a last one that the end of the connection cut short, after which
\* nothing is shown any more.  From the server without headers it shows nothing, although
\* the bytes are read as headers.
InStep ==
    /\ shown # <<>> =>
         /\ program = "visensor"
         /\ \E i \in {0, 1} : shown = SubSeq(ImageUnits(i), 1, Len(shown))
         /\ Len(shown) < Pieces => short
    /\ short => AtEnd

\* "On error, go back to listening for a new connection": when its client has left, a
\* server that lives on waits for the next one.
BackToListening == (srv \in {"send", "error"} /\ cl = "off") ~> (srv \in {"listen", "down"})
=============================================================================
