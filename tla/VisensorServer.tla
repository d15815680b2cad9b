--------------------------- MODULE VisensorServer ---------------------------
(***************************************************************************)
(* visensor-srv: main() composes the image ring and the TCP servers.       *)
(*                                                                         *)
(*   main thread   constructs the camera, powers it on, constructs the     *)
(*                 servers, then loops: test has_connection(), test        *)
(*                 newDataAvailable(), send_data(), movePointer()          *)
(*   io thread     runs handle_accept for both servers                     *)
(*   FPGA          fills the ring                                          *)
(*   clients       connect, close, reset                                   *)
(*                                                                         *)
(* main() calls the methods of the ring (SharedRingBuffer: MT9V034,        *)
(* power_on, movePointer, power_off) where its control flow leads it, and  *)
(* nowhere asks whether the ring allows the call; pc says where it is.     *)
(* That this order is one the ring and the servers can live with is        *)
(* checked (TcpSpec, and DeliversLossless of VisensorStream).              *)
(***************************************************************************)
EXTENDS Integers, Sequences

CONSTANTS Length, DataSize, Base,
          Clients, Target, NoOne,
          data, config   \* tcp_server (port 13777) and config_server (port 13778)

ASSUME ServerAssumption ==
    /\ Length \in Nat /\ Length >= 2 /\ DataSize \in Nat /\ DataSize >= 1
    /\ Base \in Nat /\ Base >= 1
    /\ Target \in [Clients -> {data, config}] /\ NoOne \notin Clients

VARIABLES
    position, control, bufAddr, bufSize, linuxPtr, fpgaPtr, fslot,
    up, has_connection, accepting, sock, call, peer, backlog, failed,
    pc    \* main(): "down" (no process), "built" (camera constructed), "on" (camera
          \* powered), then the loop: "loop", "poll" (client seen), "send" (image being sent)

\* What main() is doing with the ring.
proc == IF pc = "send" THEN "reading" ELSE IF pc \in {"loop", "poll"} THEN "on" ELSE pc

Ring == INSTANCE SharedRingBuffer
Tcp == INSTANCE TcpServer WITH
    Servers <- {data, config}, Senders <- {data},
    AcceptNext <- [send |-> "flag", flag |-> "close", close |-> "arm", arm |-> "idle"]

ringVars == <<position, control, bufAddr, bufSize, linuxPtr, fpgaPtr, fslot>>
tcpVars == <<up, has_connection, accepting, sock, call, peer, backlog, failed>>
vars == <<ringVars, tcpVars, pc>>

Init == pc = "down" /\ Ring!Init /\ Tcp!Init
-----------------------------------------------------------------------------
(* Start and end of the process.                                           *)

MakeCamera ==
    /\ pc = "down" /\ pc' = "built"
    /\ Ring!MT9V034
    /\ UNCHANGED tcpVars

PowerOn ==
    /\ pc = "built" /\ pc' = "on"
    /\ Ring!power_on
    /\ UNCHANGED tcpVars

StartServers ==
    /\ pc = "on" /\ pc' = "loop"
    /\ Tcp!Start
    /\ UNCHANGED ringVars

\* A constructor of TcpServer throws, for instance because the port is still bound.
StartFails ==
    /\ pc = "on" /\ pc' = "down"
    /\ Ring!power_off
    /\ UNCHANGED tcpVars

\* An exception leaves the loop: the timer's wait, or the close in accept_connection().
MainThrows ==
    /\ pc = "loop" \/ (pc = "send" /\ call[data] = "close")
    /\ Ring!power_off /\ Tcp!Stop
    /\ pc' = "down"

\* The process dies without power_off().
Killed ==
    /\ pc # "down" /\ pc' = "down"
    /\ IF up THEN Tcp!Stop ELSE UNCHANGED tcpVars
    /\ UNCHANGED ringVars
-----------------------------------------------------------------------------
(* The loop of main().                                                     *)

\* Mutant: the test of has_connection() is dropped.
SeeClientUntested ==
    /\ pc = "loop"
    /\ pc' = "poll"
    /\ UNCHANGED <<ringVars, tcpVars>>

\* has_connection() is true (if not, the loop waits for its timer and tests again).
SeeClient ==
    /\ pc = "loop" /\ has_connection[data]
    /\ pc' = "poll"
    /\ UNCHANGED <<ringVars, tcpVars>>

\* Mutant: movePointer() is called although no image was there.
NoImageMoves ==
    /\ pc = "poll" /\ ~Ring!newDataAvailable
    /\ pc' = "loop"
    /\ Ring!movePointer
    /\ UNCHANGED tcpVars

NoImage ==
    /\ pc = "poll" /\ ~Ring!newDataAvailable
    /\ pc' = "loop"
    /\ UNCHANGED <<ringVars, tcpVars>>

\* newDataAvailable() is true: send_data() is called, without a second look at the flag.
SendImage ==
    /\ pc = "poll" /\ Ring!newDataAvailable
    /\ pc' = "send"
    /\ call' = [call EXCEPT ![data] = "send"]
    /\ UNCHANGED <<ringVars, up, has_connection, accepting, sock, peer, backlog, failed>>

SendReturns ==
    /\ pc = "send"
    /\ Tcp!SendOk(data) \/ Tcp!SendThrows(data)
    /\ UNCHANGED <<ringVars, pc>>

AcceptAgain ==
    /\ pc = "send"
    /\ Tcp!AcceptConnection(data)
    /\ UNCHANGED <<ringVars, pc>>

\* Mutant: a failed send leaves the pointer where it is.
MoveOnIfSent ==
    /\ pc = "send" /\ call[data] = "idle"
    /\ IF has_connection[data] THEN Ring!movePointer ELSE UNCHANGED ringVars
    /\ pc' = "loop"
    /\ UNCHANGED tcpVars

\* send_data() has returned, whether the image was sent or not.
MoveOn ==
    /\ pc = "send" /\ call[data] = "idle"
    /\ Ring!movePointer
    /\ pc' = "loop"
    /\ UNCHANGED tcpVars
-----------------------------------------------------------------------------
Servers == {data, config}

IoAccept(s) == (Tcp!AcceptDone(s) \/ Tcp!HandleAccept(s)) /\ UNCHANGED <<ringVars, pc>>
IoError(s) == Tcp!AcceptError(s) /\ UNCHANGED <<ringVars, pc>>

\* The exception of handle_accept ends the process; the camera stays on.
IoThrows(s) ==
    /\ Tcp!HandleAcceptThrows(s)
    /\ pc' = "down"
    /\ UNCHANGED ringVars

Fpga == UNCHANGED <<tcpVars, pc>> /\ Ring!FpgaAdvance

ClientStep(c) ==
    /\ Tcp!Connect(c) \/ Tcp!Fin(c) \/ Tcp!Rst(c)
    /\ UNCHANGED <<ringVars, pc>>

Reset(c) == Tcp!RstArrives(c) /\ UNCHANGED <<ringVars, pc>>

MainStep == SeeClient \/ NoImage \/ SendImage \/ SendReturns \/ AcceptAgain \/ MoveOn

Next ==
    \/ MakeCamera \/ PowerOn \/ StartServers \/ StartFails \/ MainThrows \/ Killed
    \/ MainStep
    \/ \E s \in Servers : IoAccept(s) \/ IoError(s) \/ IoThrows(s)
    \/ \E c \in Clients : ClientStep(c) \/ Reset(c)
    \/ Fpga

Spec == Init /\ [][Next]_vars
-----------------------------------------------------------------------------
TypeOK ==
    /\ Ring!TypeOK /\ Tcp!TypeOK
    /\ pc \in {"down", "built", "on", "loop", "poll", "send"}
    /\ up <=> pc \in {"loop", "poll", "send"}

\* main() drives the servers as their own specification allows: nothing that happens
\* between the test of has_connection() and the send makes the test stale.
TcpSpec == Tcp!Spec
=============================================================================
