----------------------------- MODULE TcpServer -----------------------------
(***************************************************************************)
(* Class TcpServer: one listening port that serves one client at a time.   *)
(* Two threads share its members without a lock:                           *)
(*   the io thread runs the completion of async_accept (handle_accept),    *)
(*   the owner's thread tests has_connection(), calls send_data(), and, if *)
(*   the send throws, accept_connection().                                 *)
(* has_connection_ is a plain bool that both write; each access is one     *)
(* step here (an aligned byte is read and written in one piece).           *)
(*                                                                         *)
(* accept_connection() is run statement by statement.  The two programs of *)
(* the repository that have this class order its statements differently;   *)
(* the order is the constant AcceptNext.                                   *)
(*                                                                         *)
(* The network is external: a client connects, closes (FIN) or resets its  *)
(* connection; data sent to a client that has closed is answered by a      *)
(* reset; a connection that is reset in the backlog is still accepted.     *)
(***************************************************************************)
EXTENDS Naturals, Sequences

CONSTANTS Servers,     \* TcpServer objects of one io_service
          Senders,     \* the servers whose owner calls send_data()
          Clients,     \* client connections
          Target,      \* the server each client connects to
          AcceptNext,  \* the statement after each one, from the throwing send on
          NoOne        \* socket_ is closed

Statements == {"flag", "close", "arm"}

\* visensor-srv clears the flag first, slam_sensor_server clears it last.
VisensorOrder == [send |-> "flag", flag |-> "close", close |-> "arm", arm |-> "idle"]
SlamOrder     == [send |-> "close", close |-> "arm", arm |-> "flag", flag |-> "idle"]

ASSUME TcpAssumption ==
    /\ Senders \subseteq Servers
    /\ Target \in [Clients -> Servers]
    /\ NoOne \notin Clients
    /\ AcceptNext \in [Statements \cup {"send"} -> Statements \cup {"idle"}]

VARIABLES
    up,              \* the process runs and its servers are constructed
    has_connection,  \* has_connection_
    accepting,       \* async_accept: "no", "armed" (pending), "open" (given a socket that
                     \* was still open), "done" (accepted, handle_accept queued)
    sock,            \* the client that socket_ is connected to
    call,            \* what the owner's thread is in: "idle", "send" or a statement
    peer,            \* each client: "idle", "open", "fin" (closed), "finsent" (closed and
                     \* sent to), "rst" (connection lost)
    backlog,         \* connections completed by the kernel, not yet accepted
    failed           \* servers whose async_accept ended with an error of the system

vars == <<up, has_connection, accepting, sock, call, peer, backlog, failed>>
server == <<has_connection, accepting, sock, call, failed>>

Gone == {"fin", "finsent", "rst"}

AllServers(v) == [s \in Servers |-> v]

Init ==
    /\ up = FALSE
    /\ has_connection = AllServers(FALSE) /\ accepting = AllServers("no")
    /\ sock = AllServers(NoOne) /\ call = AllServers("idle")
    /\ peer = [c \in Clients |-> "idle"]
    /\ backlog = AllServers(<<>>)
    /\ failed = {}
-----------------------------------------------------------------------------
(* The process.                                                            *)

\* The constructors: the ports are bound and accept_connection() runs before the io thread.
Start ==
    /\ ~up
    /\ up' = TRUE
    /\ accepting' = AllServers("armed")
    /\ UNCHANGED <<has_connection, sock, call, peer, backlog, failed>>

\* The process ends and the kernel closes every connection.
ProcessEnds ==
    /\ up' = FALSE
    /\ has_connection' = AllServers(FALSE) /\ accepting' = AllServers("no")
    /\ sock' = AllServers(NoOne) /\ call' = AllServers("idle")
    /\ peer' = [c \in Clients |-> "idle"]
    /\ backlog' = AllServers(<<>>)
    /\ failed' = {}

Stop == up /\ ProcessEnds
-----------------------------------------------------------------------------
(* The network and the clients.                                            *)

Connect(c) ==
    /\ up /\ peer[c] = "idle"
    /\ peer' = [peer EXCEPT ![c] = "open"]
    /\ backlog' = [backlog EXCEPT ![Target[c]] = Append(@, c)]
    /\ UNCHANGED <<up, server>>

Fin(c) ==
    /\ peer[c] = "open"
    /\ peer' = [peer EXCEPT ![c] = "fin"]
    /\ UNCHANGED <<up, server, backlog>>

Rst(c) ==
    /\ peer[c] = "open"
    /\ peer' = [peer EXCEPT ![c] = "rst"]
    /\ UNCHANGED <<up, server, backlog>>

\* A client that has closed answers data with a reset.
RstArrives(c) ==
    /\ peer[c] = "finsent"
    /\ peer' = [peer EXCEPT ![c] = "rst"]
    /\ UNCHANGED <<up, server, backlog>>
-----------------------------------------------------------------------------
(* The io thread.                                                          *)

\* The pending async_accept takes the first connection of the backlog into socket_.
AcceptDone(s) ==
    /\ accepting[s] = "armed" /\ backlog[s] # <<>>
    /\ accepting' = [accepting EXCEPT ![s] = "done"]
    /\ sock' = [sock EXCEPT ![s] = Head(backlog[s])]
    /\ backlog' = [backlog EXCEPT ![s] = Tail(@)]
    /\ UNCHANGED <<up, has_connection, call, peer, failed>>

\* handle_accept(error): returns early, nothing accepts on the port any more.
AcceptError(s) ==
    /\ accepting[s] \in {"armed", "open"}
    /\ accepting' = [accepting EXCEPT ![s] = "no"]
    /\ failed' = IF accepting[s] = "armed" THEN failed \cup {s} ELSE failed
    /\ UNCHANGED <<up, has_connection, sock, call, peer, backlog>>

RemoteEndpointThrows(s) == IF sock[s] = NoOne THEN TRUE ELSE peer[sock[s]] = "rst"

\* Mutant: the flag is not set.
HandleAcceptNoFlag(s) ==
    /\ accepting[s] = "done"
    /\ ~RemoteEndpointThrows(s)
    /\ accepting' = [accepting EXCEPT ![s] = "no"]
    /\ UNCHANGED <<up, has_connection, sock, call, peer, backlog, failed>>

\* handle_accept(): the client's address is printed, then the flag is set.
HandleAccept(s) ==
    /\ accepting[s] = "done"
    /\ ~RemoteEndpointThrows(s)
    /\ accepting' = [accepting EXCEPT ![s] = "no"]
    /\ has_connection' = [has_connection EXCEPT ![s] = TRUE]
    /\ UNCHANGED <<up, sock, call, peer, backlog, failed>>

\* handle_accept(): remote_endpoint() throws for a connection that was reset meanwhile;
\* the exception leaves io_service::run() and ends the process.
HandleAcceptThrows(s) ==
    /\ accepting[s] = "done"
    /\ RemoteEndpointThrows(s)
    /\ ProcessEnds
-----------------------------------------------------------------------------
(* The owner's thread.                                                     *)

\* Mutant: has_connection() is not tested.
SendCallUntested(s) ==
    /\ up /\ s \in Senders /\ call[s] = "idle"
    /\ call' = [call EXCEPT ![s] = "send"]
    /\ UNCHANGED <<up, has_connection, accepting, sock, peer, backlog, failed>>

\* The owner has seen has_connection() and calls send_data().
SendCall(s) ==
    /\ up /\ s \in Senders /\ call[s] = "idle"
    /\ has_connection[s]
    /\ call' = [call EXCEPT ![s] = "send"]
    /\ UNCHANGED <<up, has_connection, accepting, sock, peer, backlog, failed>>

SendThrowsNow(s) == IF sock[s] = NoOne THEN TRUE ELSE peer[sock[s]] = "rst"

\* socket_.send() returns; the number of bytes sent is not looked at.
SendOk(s) ==
    /\ call[s] = "send" /\ ~SendThrowsNow(s)
    /\ call' = [call EXCEPT ![s] = "idle"]
    /\ peer' = [peer EXCEPT ![sock[s]] = IF @ = "fin" THEN "finsent" ELSE @]
    /\ UNCHANGED <<up, has_connection, accepting, sock, backlog, failed>>

\* Mutant: the exception is swallowed.
SendThrowsSwallowed(s) ==
    /\ call[s] = "send" /\ SendThrowsNow(s)
    /\ call' = [call EXCEPT ![s] = "idle"]
    /\ UNCHANGED <<up, has_connection, accepting, sock, peer, backlog, failed>>

\* socket_.send() throws: the handler calls accept_connection().
SendThrows(s) ==
    /\ call[s] = "send" /\ SendThrowsNow(s)
    /\ call' = [call EXCEPT ![s] = AcceptNext["send"]]
    /\ UNCHANGED <<up, has_connection, accepting, sock, peer, backlog, failed>>

\* has_connection_ = false
ClearFlag(s) ==
    /\ call[s] = "flag"
    /\ has_connection' = [has_connection EXCEPT ![s] = FALSE]
    /\ call' = [call EXCEPT ![s] = AcceptNext["flag"]]
    /\ UNCHANGED <<up, accepting, sock, peer, backlog, failed>>

\* Mutant: the socket is not closed.
CloseSkipped(s) ==
    /\ call[s] = "close"
    /\ call' = [call EXCEPT ![s] = AcceptNext["close"]]
    /\ UNCHANGED <<up, sock, peer, has_connection, accepting, backlog, failed>>

\* socket_.close(); the client's connection is over and it may connect anew.
Close(s) ==
    /\ call[s] = "close"
    /\ sock' = [sock EXCEPT ![s] = NoOne]
    /\ peer' = [c \in Clients |-> IF c = sock[s] THEN "idle" ELSE peer[c]]
    /\ call' = [call EXCEPT ![s] = AcceptNext["close"]]
    /\ UNCHANGED <<up, has_connection, accepting, backlog, failed>>

\* acceptor_.async_accept(socket_, ...); it fails later if socket_ is open.
Arm(s) ==
    /\ call[s] = "arm"
    /\ accepting' = [accepting EXCEPT ![s] = IF sock[s] = NoOne THEN "armed" ELSE "open"]
    /\ call' = [call EXCEPT ![s] = AcceptNext["arm"]]
    /\ UNCHANGED <<up, has_connection, sock, peer, backlog, failed>>
-----------------------------------------------------------------------------
IoStep(s) == AcceptDone(s) \/ HandleAccept(s) \/ HandleAcceptThrows(s)
AcceptConnection(s) == ClearFlag(s) \/ Close(s) \/ Arm(s)
OwnerStep(s) == SendCall(s) \/ SendOk(s) \/ SendThrows(s) \/ AcceptConnection(s)

Next ==
    \/ Start \/ Stop
    \/ \E c \in Clients : Connect(c) \/ Fin(c) \/ Rst(c) \/ RstArrives(c)
    \/ \E s \in Servers : IoStep(s) \/ AcceptError(s) \/ OwnerStep(s)

Spec == Init /\ [][Next]_vars

\* Both threads are scheduled, clients read what they are sent, and the network delivers
\* resets.  No client is forced to come or to leave, and no error to happen.
Fairness ==
    /\ \A s \in Servers : WF_vars(IoStep(s)) /\ WF_vars(OwnerStep(s))
    /\ \A c \in Clients : WF_vars(RstArrives(c))
FairSpec == Spec /\ Fairness
-----------------------------------------------------------------------------
\* async_accept() is never given a socket that is still open ("open" is not in the type).
TypeOK ==
    /\ up \in BOOLEAN
    /\ has_connection \in [Servers -> BOOLEAN]
    /\ accepting \in [Servers -> {"no", "armed", "done"}]
    /\ sock \in [Servers -> Clients \cup {NoOne}]
    /\ call \in [Servers -> {"idle", "send"} \cup Statements]
    /\ peer \in [Clients -> {"idle", "open"} \cup Gone]
    /\ backlog \in [Servers -> Seq(Clients)]
    /\ failed \subseteq Servers

\* A server whose owner is not inside a call either serves a client or waits for one; the
\* only way to go deaf is an accept error.  The two threads' writes of has_connection_
\* must not cancel out.
ListenOrServe ==
    \A s \in Servers : up /\ call[s] = "idle" /\ s \notin failed =>
        has_connection[s] \/ accepting[s] \in {"armed", "done"}

\* The two threads never use socket_ at the same time: while the owner sends, closes or
\* arms, no accept is under way; and the flag that lets the owner in means a connected
\* socket that the io thread has let go of.
SocketExclusive ==
    \A s \in Servers :
        /\ call[s] \in {"send", "close", "arm"} => accepting[s] = "no"
        /\ has_connection[s] => sock[s] # NoOne /\ accepting[s] = "no"

\* accept_connection() closes socket_ several statements after the send that failed.  What it
\* closes is still the connection that failed: a running server ends no connection that the
\* network has not reset, so never that of a client the io thread has accepted meanwhile.
LiveClientKept ==
    [][up /\ up' => \A c \in Clients : peer[c] # "idle" /\ peer'[c] = "idle" => peer[c] = "rst"]_vars

\* A client of a sending server that has left is found out by send_data(), and the next
\* client in line is accepted: the owner need not notice the end of a connection itself.
NextClientServed ==
    \A s \in Senders, c \in Clients :
        (/\ up /\ backlog[s] # <<>> /\ backlog[s][1] = c
         /\ (sock[s] = NoOne \/ peer[sock[s]] \in Gone))
            ~> (sock[s] = c \/ s \in failed \/ ~up)
=============================================================================
