-------------------------- MODULE MCVisensorStream --------------------------
(***************************************************************************)
(* Two clients of the data port.                                           *)
(***************************************************************************)
EXTENDS VisensorStream

CONSTANTS d1, d2

MCTarget == [c \in Clients |-> data]
=============================================================================
