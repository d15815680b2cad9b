---------------------------- MODULE MCI2CBusRaw ----------------------------
(***************************************************************************)
(* Calls of MT9V034::power_on(): two writes that follow each other and two *)
(* reads, of a register written before and of one never written.           *)
(***************************************************************************)
EXTENDS I2CBusRaw

\* The registers 0xB6, 0x20 and 0x7F.
MCRegisters == {182, 32, 127}

MCProgram ==
    << <<"write", 182, 1>>, <<"write", 32, 967>>, <<"read", 32>>, <<"read", 127>> >>
=============================================================================
