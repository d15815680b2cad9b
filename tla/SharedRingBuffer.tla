-------------------------- MODULE SharedRingBuffer --------------------------
(***************************************************************************)
(* The image ring shared by the FPGA (writer) and the sensor server's main *)
(* thread (reader): class SharedRingBuffer, the register file it is        *)
(* reached through, and the parts of MT9V034 and main() that drive it.     *)
(*                                                                         *)
(* The ring has Length slots of DataSize bytes at physical address Base.   *)
(* Reader and writer synchronise through two address registers only:       *)
(*   BUFFER_FPGA_POINTER   written by the FPGA, read by newDataAvailable   *)
(*   BUFFER_LINUX_POINTER  written by the server, read by the FPGA         *)
(*                                                                         *)
(* The FPGA is not in the repository.  Its contract is the one the server  *)
(* relies on: while CONTROL is 1 it fills one slot after the other; its    *)
(* pointer is the END address of the slot it is filling (newDataAvailable  *)
(* compares it with the end of the reader's slot, and takes "equal" for    *)
(* "still there"); it does not start on a slot that begins at the Linux    *)
(* pointer; switching CONTROL from 0 to 1 starts it at the first slot.     *)
(***************************************************************************)
EXTENDS Integers

CONSTANTS Length,    \* BUFFER_LENGTH, slots in the ring
          DataSize,  \* IMAGE_SIZE, bytes in a slot
          Base       \* physical address of the driver's buffer

ASSUME LengthAssumption == Length \in Nat /\ Length >= 2
ASSUME DataSizeAssumption == DataSize \in Nat /\ DataSize >= 1
ASSUME BaseAssumption == Base \in Nat /\ Base >= 1

VARIABLES
    proc,       \* the server process: "down", "built" (constructed), "on" (powered and
                \* polling), "reading" (from newDataAvailable() = true to movePointer())
    position,   \* position_, the reader's slot
    control,    \* register CONTROL
    bufAddr,    \* register BUFFER_ADDRESS
    bufSize,    \* register BUFFER_SIZE
    linuxPtr,   \* register BUFFER_LINUX_POINTER
    fpgaPtr,    \* register BUFFER_FPGA_POINTER
    fslot       \* the slot the FPGA is filling

registers == <<control, bufAddr, bufSize, linuxPtr, fpgaPtr>>
vars == <<proc, position, control, bufAddr, bufSize, linuxPtr, fpgaPtr, fslot>>

Powered == proc \in {"on", "reading"}
reading == proc = "reading"

Slots == 0 .. Length - 1

\* Physical start address of slot k (its end address is addr(k + 1)).
addr(k) == Base + DataSize * k

NextSlot(s) == IF s + 1 >= Length THEN 0 ELSE s + 1

\* Mutant: the start of the reader's slot is compared instead of its end.
newDataAvailableMutant == addr(position) # fpgaPtr

\* newDataAvailable(): false exactly when the FPGA pointer is the end of the reader's slot.
newDataAvailable == addr(IF position + 1 >= Length + 1 THEN 0 ELSE position + 1) # fpgaPtr

\* The reader has told the FPGA its position at least once since it was constructed;
\* until then the Linux pointer is "behind the last" slot, where it blocks nothing.
Published == linuxPtr # 0 /\ linuxPtr # addr(Length + 1)

\* Where the FPGA goes on after the slot it is filling.
NextStart == IF fpgaPtr = bufAddr + bufSize THEN bufAddr ELSE fpgaPtr

FpgaBlocked == NextStart = linuxPtr
-----------------------------------------------------------------------------
\* The registers are 0 after reset, the camera is off, no process runs.
Init ==
    /\ proc = "down" /\ position = 0
    /\ control = 0 /\ bufAddr = 0 /\ bufSize = 0 /\ linuxPtr = 0 /\ fpgaPtr = 0
    /\ fslot = 0

(* What the code does to the ring, method by method.                       *)

\* Mutant: BUFFER_SIZE covers one slot too many.
MT9V034Oversized ==
    /\ position' = 0
    /\ bufAddr' = addr(0) /\ bufSize' = DataSize * (Length + 1) /\ linuxPtr' = addr(Length + 1)
    /\ UNCHANGED <<control, fpgaPtr, fslot>>

\* MT9V034(): the ring is built with position_ = 0, then the three buffer registers are
\* written.  The FPGA may still be running if an earlier process died.
MT9V034 ==
    /\ position' = 0
    /\ bufAddr' = addr(0) /\ bufSize' = DataSize * Length /\ linuxPtr' = addr(Length + 1)
    /\ UNCHANGED <<control, fpgaPtr, fslot>>

\* power_on(): CONTROL = 1.  A stopped FPGA starts at the first slot, a running one goes on.
power_on ==
    /\ control' = 1
    /\ IF control = 0
         THEN fslot' = 0 /\ fpgaPtr' = bufAddr + DataSize
         ELSE UNCHANGED <<fslot, fpgaPtr>>
    /\ UNCHANGED <<position, bufAddr, bufSize, linuxPtr>>

\* Mutant: position_ is not wrapped.
movePointerNoWrap ==
    /\ position' = position + 1
    /\ linuxPtr' = addr(position')
    /\ UNCHANGED <<control, bufAddr, bufSize, fpgaPtr, fslot>>

\* Mutant: the register is set to the end of the reader's slot, as the FPGA pointer is.
movePointerAhead ==
    /\ position' = NextSlot(position)
    /\ linuxPtr' = addr(position' + 1)
    /\ UNCHANGED <<control, bufAddr, bufSize, fpgaPtr, fslot>>

\* movePointer(): the next slot becomes the reader's and the FPGA is told.
movePointer ==
    /\ position' = NextSlot(position)
    /\ linuxPtr' = addr(position')
    /\ UNCHANGED <<control, bufAddr, bufSize, fpgaPtr, fslot>>

\* power_off(): CONTROL = 0.
power_off ==
    /\ control' = 0
    /\ UNCHANGED <<position, bufAddr, bufSize, linuxPtr, fpgaPtr, fslot>>
-----------------------------------------------------------------------------
(* The order in which a reader may call them.                              *)

Construct == proc = "down" /\ proc' = "built" /\ MT9V034

SwitchOn == proc = "built" /\ proc' = "on" /\ power_on

\* Mutant: the availability test is dropped.
BeginReadUntested ==
    /\ proc = "on"
    /\ proc' = "reading"
    /\ UNCHANGED <<position, registers, fslot>>

\* The reader finds new data and starts to send the slot at position_.
BeginRead ==
    /\ proc = "on"
    /\ newDataAvailable
    /\ proc' = "reading"
    /\ UNCHANGED <<position, registers, fslot>>

\* The send is over.
EndRead == proc = "reading" /\ proc' = "on" /\ movePointer

\* The reader leaves its try block on an exception: power_off(), then the destructor.
SwitchOff == Powered /\ proc' = "down" /\ power_off

\* The process dies without power_off() (an exception in the io thread, a signal).
Crash ==
    /\ proc # "down"
    /\ proc' = "down"
    /\ UNCHANGED <<position, registers, fslot>>

\* The FPGA completes its slot and starts on the next one, unless that one is blocked.
FpgaAdvance ==
    /\ control = 1
    /\ ~FpgaBlocked
    /\ fpgaPtr' = NextStart + DataSize
    /\ fslot' = NextSlot(fslot)
    /\ UNCHANGED <<proc, position, control, bufAddr, bufSize, linuxPtr>>

Next ==
    \/ Construct \/ SwitchOn \/ BeginRead \/ EndRead
    \/ SwitchOff \/ Crash \/ FpgaAdvance

Spec == Init /\ [][Next]_vars
-----------------------------------------------------------------------------
\* The registers hold 0 or addresses of the ring.
TypeOK ==
    /\ proc \in {"down", "built", "on", "reading"}
    /\ position \in Slots /\ fslot \in Slots
    /\ control \in {0, 1}
    /\ bufAddr \in {0, addr(0)} /\ bufSize \in {0, DataSize * Length}
    /\ linuxPtr \in {0} \cup {addr(k) : k \in Slots \cup {Length + 1}}
    /\ fpgaPtr \in {0} \cup {addr(k) : k \in 1 .. Length}

\* Once the reader has published a position, the FPGA never fills the slot that main() is
\* sending: newDataAvailable() and the Linux pointer together exclude a torn image.
NoTear == reading /\ Published => fslot # position

\* The FPGA never waits for the reader while newDataAvailable() tells the reader to wait
\* for the FPGA: a ring that is full to one side is not empty to the other.
NoMutualWait == ~(Powered /\ FpgaBlocked /\ ~newDataAvailable)

\* The FPGA writes inside the buffer of Length slots that the server programmed, and the
\* pointer it reports is the end of the slot it really fills.
InBuffer == control = 1 => fpgaPtr = addr(fslot + 1) /\ fpgaPtr <= Base + DataSize * Length

\* The FPGA enters the reader's slot only before the reader has published a position:
\* afterwards a captured image stays until movePointer() gives its slot back.
NoOverrun == [][Published /\ Powered /\ fslot' # fslot => fslot' # position]_vars
=============================================================================
