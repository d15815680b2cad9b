----------------------------- MODULE Bandwidth -----------------------------
(***************************************************************************)
(* The UDP bandwidth test: a server sends every message as PerMessage      *)
(* packages that carry its number, the client counts the packages of a     *)
(* message in one of Slots counters, and once a second prints how many of  *)
(* the packages of recent messages were lost, and clears the counters.     *)
(*                                                                         *)
(* The servers are UDPtest/server.cpp and xilinx/UDPserver/udp_server.c    *)
(* (which sends two images under one number).  The network may lose        *)
(* packages, and hold one back while the server goes on by at most         *)
(* MaxDelay messages.                                                      *)
(***************************************************************************)
EXTENDS Integers, Functions

CONSTANTS Slots,       \* length of package_counter
          Back, Guard, \* the report is about messages id - Back to id - Guard - 1
          Expected,    \* IMAGE_SIZE/PACKAGE_SIZE of the client
          PerMessage,  \* packages the server sends for one message
          MaxDelay,    \* messages by which a package may be late
          MaxMessages, MaxLost  \* bounds: messages sent, packages lost

ASSUME BandwidthAssumption ==
    /\ {Slots, Back, Guard, Expected, PerMessage, MaxDelay, MaxMessages, MaxLost} \subseteq Nat
    /\ Guard < Back /\ 0 < PerMessage
    /\ MaxDelay <= Guard /\ Back + MaxDelay < Slots

VARIABLES
    message,          \* the server's number of the message, 0 before the first
    i,                \* packages of it sent
    held,             \* number of a package the network holds back, or 0
    arrived,          \* number of the package the client works on, or 0
    package_counter,
    since,            \* the message in which the counters were cleared last
    lost,             \* packages the network has lost, by message
    printed           \* what the last report said

net == <<held, lost>>
vars == <<message, i, held, arrived, package_counter, since, lost, printed>>

Messages == 1 .. MaxMessages
Total(f) == FoldFunction(+, 0, f)
NoCount == [s \in 0 .. Slots - 1 |-> 0]

Init ==
    /\ message = 0 /\ i = PerMessage
    /\ held = 0 /\ arrived = 0
    /\ package_counter = NoCount /\ since = 0
    /\ lost = [m \in Messages |-> 0] /\ printed = 0
-----------------------------------------------------------------------------
(* Server and network.                                                     *)

\* The pause is over, the next number.
NextMessage ==
    /\ i = PerMessage /\ message < MaxMessages
    /\ held # 0 => message + 1 - held <= MaxDelay
    /\ message' = message + 1 /\ i' = 0
    /\ UNCHANGED <<held, arrived, package_counter, since, lost, printed>>

\* sendto(): the package arrives, is lost, or is held back.
SendTo ==
    /\ i < PerMessage /\ arrived = 0
    /\ i' = i + 1
    /\ \/ arrived' = message /\ UNCHANGED <<held, lost>>
       \/ /\ Total(lost) < MaxLost
          /\ lost' = [lost EXCEPT ![message] = @ + 1] /\ UNCHANGED <<held, arrived>>
       \/ held = 0 /\ held' = message /\ UNCHANGED <<arrived, lost>>
    /\ UNCHANGED <<message, package_counter, since, printed>>

LateArrival ==
    /\ held # 0 /\ arrived = 0
    /\ arrived' = held /\ held' = 0
    /\ UNCHANGED <<message, i, package_counter, since, lost, printed>>
-----------------------------------------------------------------------------
(* The client.                                                             *)

\* package_counter[message_id % 32] += 1
Counted == [package_counter EXCEPT ![arrived % Slots] = @ + 1]

\* Mutant: the report goes up to the message that is arriving.
ReportedUpToNow == IF arrived < Back THEN {} ELSE arrived - Back .. arrived

\* The values of j in the report's loop.  j is an int, its bound unsigned: up to
\* message Back - 1 it starts above its bound.
Reported == IF arrived < Back THEN {} ELSE arrived - Back .. arrived - Guard - 1

\* packages_lost, from the counters c
PackagesLost(c) == Total([j \in Reported |-> Expected - c[j % Slots]])

\* Less than a second since the last report.
Receive ==
    /\ arrived # 0
    /\ package_counter' = Counted
    /\ arrived' = 0
    /\ UNCHANGED <<message, i, net, since, printed>>

\* A second has passed.  (Below message Guard the bound wraps too, j is negative and what
\* is read lies before the array.)
Report ==
    /\ arrived # 0
    /\ IF arrived < Guard THEN printed' \in {0, 1} ELSE printed' = PackagesLost(Counted)
    /\ package_counter' = NoCount /\ since' = arrived
    /\ arrived' = 0
    /\ UNCHANGED <<message, i, net>>

Next == NextMessage \/ SendTo \/ LateArrival \/ Receive \/ Report

Spec == Init /\ [][Next]_vars
-----------------------------------------------------------------------------
\* Types of all but the number printed, which is LossExact's subject.
TypeOK ==
    /\ message \in 0 .. MaxMessages /\ i \in 0 .. PerMessage
    /\ held \in 0 .. MaxMessages /\ arrived \in 0 .. MaxMessages /\ since \in 0 .. MaxMessages
    /\ package_counter \in [0 .. Slots - 1 -> Nat]
    /\ lost \in [Messages -> Nat]

\* What the client prints as lost is what the network has lost of the messages reported,
\* but for the constant by which it expects another number of packages than are sent,
\* provided the counters were cleared between Back + 1 and Slots + Guard messages ago (the
\* delay off both ends): later, and messages from before the clearing count as lost;
\* earlier, and the counters of two messages fall together.
LossExact ==
    [][(/\ Report /\ since > 0
        /\ since \in arrived - Slots - Guard + MaxDelay .. arrived - Back - 1 - MaxDelay) =>
         printed' = Total([m \in arrived - Back .. arrived - Guard - 1 |->
                                 lost[m] + Expected - PerMessage])]_vars
=============================================================================
