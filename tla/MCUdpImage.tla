----------------------------- MODULE MCUdpImage -----------------------------
(***************************************************************************)
(* Small images of three datagrams, the last one shorter.                  *)
(***************************************************************************)
EXTENDS UdpImage

\* The client's 240 fits the server's 752 * 480 bytes in pieces of 1500.
ASSUME RealLastPackage == (752 * 480 - 1) \div 1500 = 240

\* A reliable network, one that loses and reorders, one that duplicates.
MCFaultSets == {{}, {"lose", "reorder"}, {"duplicate"}}

LossOnly == {{"lose"}}
=============================================================================
