---------------------------- MODULE MCTcpServer ----------------------------
(***************************************************************************)
(* TcpServer as main() uses it: the data server, which sends, and the      *)
(* config server, which is only constructed.                               *)
(***************************************************************************)
EXTENDS TcpServer

CONSTANTS data, config, d1, d2, c1, c2

MCTarget == [c \in Clients |-> IF c \in {d1, d2} THEN data ELSE config]
=============================================================================
