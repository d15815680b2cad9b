-------------------------- MODULE FrameRingProofs --------------------------
(***************************************************************************)
(* The ring is safe for every number of slots, every image size and every  *)
(* physical address.  It delivers every captured image once and in order,  *)
(* for every number of images, and it implements the abstract FrameQueue.  *)
(***************************************************************************)
EXTENDS FrameRing, TLAPS
-----------------------------------------------------------------------------
(* The registers and the reader: SharedRingBuffer.                         *)

\* Slot addresses are positive, one DataSize apart, and the end of the last slot is where
\* BUFFER_ADDRESS + BUFFER_SIZE points.
LEMMA AddrFacts ==
    /\ addr(0) = Base
    /\ addr(Length) = addr(0) + DataSize * Length
    /\ \A k \in Nat : addr(k) \in Nat /\ addr(k) >= 1 /\ addr(k + 1) = addr(k) + DataSize
<1>1. \A k \in Nat : DataSize * k \in Nat /\ DataSize * (k + 1) = DataSize * k + DataSize
  BY DataSizeAssumption
<1> QED
  BY <1>1, BaseAssumption, DataSizeAssumption, LengthAssumption DEF addr

\* Different slots have different addresses: a pointer names one slot.
LEMMA AddrInjective ==
    ASSUME NEW j \in Nat, NEW k \in Nat, addr(j) = addr(k)
    PROVE  j = k
<1>1. DataSize * j = DataSize * k
  BY BaseAssumption, DataSizeAssumption DEF addr
<1>2. ASSUME NEW a \in Nat, NEW b \in Nat, a < b PROVE DataSize * a < DataSize * b
  <2>1. DataSize * (b - a) >= 1
    BY <1>2, DataSizeAssumption
  <2>2. DataSize * b = DataSize * a + DataSize * (b - a)
    BY <1>2, DataSizeAssumption
  <2>3. DataSize * a \in Nat /\ DataSize * b \in Nat
    BY DataSizeAssumption
  <2> QED BY <2>1, <2>2, <2>3, <1>2, DataSizeAssumption
<1> QED
  BY <1>1, <1>2, DataSizeAssumption

\* A slot's address is neither the reset value nor the one behind the last slot.
LEMMA SlotAddr ==
    ASSUME NEW s \in Slots
    PROVE  addr(s) # 0 /\ addr(s) # addr(Length + 1)
<1>1. s \in Nat /\ Length + 1 \in Nat /\ s # Length + 1
  BY LengthAssumption DEF Slots
<1>2. addr(s) >= 1
  BY <1>1, AddrFacts
<1>3. addr(s) # addr(Length + 1)
  BY <1>1, AddrInjective
<1> QED BY <1>2, <1>3

\* A correctly programmed FPGA goes round the ring: after the last slot comes the first.
LEMMA NextStartSlot ==
    ASSUME fslot \in Slots, fpgaPtr = addr(fslot + 1),
           bufAddr = addr(0), bufSize = DataSize * Length
    PROVE  NextStart = addr(NextSlot(fslot))
<1> USE LengthAssumption
<1>1. CASE fslot + 1 = Length
  BY <1>1, AddrFacts DEF NextStart, NextSlot
<1>2. CASE fslot + 1 # Length
  <2>1. fslot + 1 \in Nat /\ fslot + 1 < Length
    BY <1>2 DEF Slots
  <2>2. addr(fslot + 1) # addr(Length)
    BY <2>1, AddrInjective
  <2> QED BY <2>1, <2>2, AddrFacts DEF NextStart, NextSlot
<1> QED BY <1>1, <1>2

\* The registers and the process agree: what a running FPGA was programmed with, where its
\* pointer is, and what a built or powered process has published.
Agreement ==
    /\ proc # "down" \/ control = 1 => bufAddr = addr(0) /\ bufSize = DataSize * Length
    /\ control = 1 => fpgaPtr = addr(fslot + 1)
    /\ Powered => control = 1
    /\ proc = "built" => linuxPtr = addr(Length + 1)
    /\ Powered => linuxPtr = addr(position) \/ linuxPtr = addr(Length + 1)

\* The inductive invariant of the ring.
IInv == TypeOK /\ Agreement /\ NoTear

\* The registers start at 0 and no process runs.
LEMMA InitIInv == Init => IInv
  BY LengthAssumption DEF Init, IInv, TypeOK, Agreement, NoTear, Slots, Powered, reading

\* Every step of the server, of the FPGA and of a crash preserves the invariant.
LEMMA NextIInv == IInv /\ [Next]_vars => IInv'
<1> SUFFICES ASSUME IInv, [Next]_vars PROVE IInv'
  OBVIOUS
<1> USE LengthAssumption DEF IInv
<1>0. /\ 0 \in Slots /\ Slots \subseteq Nat
      /\ \A s \in Slots : NextSlot(s) \in Slots /\ s + 1 \in 1 .. Length
  BY DEF Slots, NextSlot
<1>1. CASE Construct
  <2>1. TypeOK'
    BY <1>0, <1>1 DEF Construct, MT9V034, TypeOK
  <2>2. Agreement'
    BY <1>1 DEF Construct, MT9V034, Agreement, Powered
  <2>3. NoTear'
    BY <1>1 DEF Construct, NoTear, reading
  <2> QED BY <2>1, <2>2, <2>3
<1>2. CASE SwitchOn
  <2>1. bufAddr = addr(0) /\ bufSize = DataSize * Length /\ addr(0) + DataSize = addr(1)
    BY <1>2, AddrFacts DEF SwitchOn, power_on, Agreement
  <2>2. TypeOK'
    BY <1>0, <1>2, <2>1 DEF SwitchOn, power_on, TypeOK
  <2>3. Agreement'
    BY <1>2, <2>1 DEF SwitchOn, power_on, Agreement, Powered, TypeOK
  <2>4. NoTear'
    BY <1>2 DEF SwitchOn, NoTear, reading
  <2> QED BY <2>2, <2>3, <2>4
<1>3. CASE BeginRead
  <2>1. TypeOK' /\ Agreement'
    BY <1>3 DEF BeginRead, TypeOK, Agreement, Powered, registers
  <2>2. NoTear'
    BY <1>3 DEF BeginRead, newDataAvailable, NoTear, TypeOK, Slots, Agreement, Powered, registers
  <2> QED BY <2>1, <2>2
<1>4. CASE EndRead
  <2>1. TypeOK' /\ Agreement'
    BY <1>0, <1>4 DEF EndRead, movePointer, TypeOK, Agreement, Powered
  <2>2. NoTear'
    BY <1>4 DEF EndRead, NoTear, reading
  <2> QED BY <2>1, <2>2
<1>5. CASE SwitchOff
  BY <1>5 DEF SwitchOff, power_off, TypeOK, Agreement, Powered, NoTear, reading
<1>6. CASE Crash
  BY <1>6 DEF Crash, TypeOK, Agreement, Powered, NoTear, reading, registers
<1>7. CASE FpgaAdvance
  <2>1. bufAddr = addr(0) /\ bufSize = DataSize * Length /\ fpgaPtr = addr(fslot + 1)
    BY <1>7 DEF FpgaAdvance, Agreement
  <2>2. NextStart = addr(NextSlot(fslot))
    BY <2>1, NextStartSlot DEF TypeOK
  <2>3. fpgaPtr' = addr(NextSlot(fslot) + 1)
    BY <1>7, <2>2, <1>0, AddrFacts DEF FpgaAdvance, TypeOK
  <2>4. TypeOK' /\ Agreement'
    BY <1>7, <1>0, <2>1, <2>3 DEF FpgaAdvance, TypeOK, Agreement, Powered
  <2>5. NoTear'
    <3> SUFFICES ASSUME reading, Published PROVE NextSlot(fslot) # position
      BY <1>7 DEF FpgaAdvance, NoTear, reading, Published
    <3>1. linuxPtr = addr(position)
      BY DEF Agreement, Powered, reading, Published
    <3> QED BY <1>7, <2>2, <3>1 DEF FpgaAdvance, FpgaBlocked
  <2> QED BY <2>4, <2>5
<1>8. CASE UNCHANGED vars
  BY <1>8 DEF vars, TypeOK, Agreement, Powered, NoTear, Published, reading
<1> QED
  BY <1>1, <1>2, <1>3, <1>4, <1>5, <1>6, <1>7, <1>8 DEF Next

\* The invariant holds in every reachable state.
LEMMA IInvariance == Spec => []IInv
  BY InitIInv, NextIInv, PTL DEF Spec

\* Type correctness of the ring: the registers never hold anything but 0 and addresses of
\* the ring, whatever sequence of starts, crashes and images.
THEOREM TypeCorrect == Spec => []TypeOK
<1>1. IInv => TypeOK
  BY DEF IInv
<1> QED BY <1>1, IInvariance, PTL

\* Once main() has moved the pointer, the slot it is sending is never the one the FPGA
\* fills, for every ring.
THEOREM NeverTorn == Spec => []NoTear
<1>1. IInv => NoTear
  BY DEF IInv
<1> QED BY <1>1, IInvariance, PTL

\* The FPGA stays inside the buffer and reports the slot it fills.
THEOREM StaysInBuffer == Spec => []InBuffer
<1>1. IInv => InBuffer
  <2> SUFFICES ASSUME IInv, control = 1 PROVE InBuffer
    BY DEF InBuffer
  <2>1. fslot + 1 \in Nat /\ fslot + 1 <= Length
    BY LengthAssumption DEF IInv, TypeOK, Slots
  <2>2. DataSize * (fslot + 1) <= DataSize * Length
    <3>1. DataSize * (Length - (fslot + 1)) >= 0
      BY <2>1, DataSizeAssumption, LengthAssumption
    <3>2. DataSize * Length = DataSize * (fslot + 1) + DataSize * (Length - (fslot + 1))
      BY <2>1, DataSizeAssumption, LengthAssumption
    <3> QED BY <3>1, <3>2, <2>1, DataSizeAssumption, LengthAssumption
  <2> QED BY <2>1, <2>2, BaseAssumption, DataSizeAssumption, LengthAssumption
          DEF InBuffer, IInv, Agreement, addr
<1> QED BY <1>1, IInvariance, PTL

\* FPGA and reader never wait for each other, for every ring of at least two slots.
THEOREM NeverBothWait == Spec => []NoMutualWait
<1>1. IInv => NoMutualWait
  <2> SUFFICES ASSUME IInv, Powered, FpgaBlocked, ~newDataAvailable PROVE FALSE
    BY DEF NoMutualWait
  <2> USE LengthAssumption
  <2>1. position \in Nat /\ position < Length /\ position + 1 \in Nat
    BY DEF IInv, TypeOK, Slots
  <2>2. fpgaPtr = addr(position + 1)
    BY <2>1 DEF newDataAvailable
  <2>3. linuxPtr \in {addr(position), addr(Length + 1)}
    BY DEF IInv, Agreement
  <2>4. bufAddr = addr(0) /\ bufAddr + bufSize = addr(Length)
    BY AddrFacts DEF IInv, Agreement, Powered
  <2>5. NextStart \in {addr(0), addr(position + 1)} /\ (NextStart = addr(0) => position + 1 = Length)
    <3>1. CASE position + 1 = Length
      BY <3>1, <2>2, <2>4 DEF NextStart
    <3>2. CASE position + 1 # Length
      <4>1. addr(position + 1) # addr(Length) /\ addr(position + 1) # addr(0)
        BY <3>2, <2>1, AddrInjective
      <4> QED BY <4>1, <2>2, <2>4 DEF NextStart
    <3> QED BY <3>1, <3>2
  <2>6. NextStart # addr(position) /\ NextStart # addr(Length + 1)
    <3>1. CASE NextStart = addr(0)
      BY <3>1, <2>1, <2>5, AddrInjective
    <3>2. CASE NextStart = addr(position + 1)
      BY <3>2, <2>1, AddrInjective
    <3> QED BY <3>1, <3>2, <2>5
  <2> QED BY <2>3, <2>6 DEF FpgaBlocked
<1> QED BY <1>1, IInvariance, PTL

\* The FPGA never enters the slot that a powered reader has published.
THEOREM NeverOverrun == Spec => NoOverrun
<1>1. IInv /\ [Next]_vars => (Published /\ Powered /\ fslot' # fslot => fslot' # position)
  <2> SUFFICES ASSUME IInv, [Next]_vars, Published, Powered, fslot' # fslot
               PROVE  fslot' # position
    OBVIOUS
  <2>1. FpgaAdvance
    BY DEF Next, vars, Construct, MT9V034, SwitchOn, power_on, BeginRead, EndRead, movePointer,
           SwitchOff, power_off, Crash, Powered
  <2>2. bufAddr = addr(0) /\ bufSize = DataSize * Length /\ fpgaPtr = addr(fslot + 1)
    BY <2>1 DEF FpgaAdvance, IInv, Agreement
  <2>3. NextStart = addr(NextSlot(fslot))
    BY <2>2, NextStartSlot DEF IInv, TypeOK
  <2>4. linuxPtr = addr(position)
    BY DEF IInv, Agreement, Published
  <2> QED BY <2>1, <2>3, <2>4 DEF FpgaAdvance, FpgaBlocked
<1> QED BY <1>1, IInvariance, PTL DEF Spec, NoOverrun
-----------------------------------------------------------------------------
(* The images: FrameRing.                                                  *)

\* Images never disturb the registers: a step here is a step of SharedRingBuffer.
LEMMA StepIsRingStep == [FNext]_fvars => [Next]_vars
  BY DEF FNext, fvars, Next, FConstruct, FPowerOn, FBeginRead, FMovePointer,
         FPowerOff, FCrash, FFpgaAdvance

\* Dist counts backwards round the ring from the FPGA's slot.
LEMMA DistFacts ==
    ASSUME fslot \in Slots
    PROVE  /\ \A s \in Slots : Dist(s) \in 0 .. Length - 1
           /\ \A s \in Slots : Dist(s) = 0 <=> s = fslot
           /\ \A s \in Slots : s # fslot => Dist(NextSlot(s)) = Dist(s) - 1
           /\ Dist(NextSlot(fslot)) = Length - 1
           /\ \A s \in Slots : Dist(s) = Length - 1 => s = NextSlot(fslot)
           /\ Dist(0) = fslot
  BY LengthAssumption DEF Slots, Dist, NextSlot

\* When the FPGA advances, the slot it enters is at distance 0 and the others move away.
LEMMA DistAdvance ==
    ASSUME fslot \in Slots, fslot' = NextSlot(fslot), NEW s \in Slots
    PROVE  Dist(s)' = IF s = fslot' THEN 0 ELSE Dist(s) + 1
  BY LengthAssumption DEF Slots, Dist, NextSlot

\* The Linux pointer is the reader's slot, or blocks nothing.
PointerInv ==
    /\ linuxPtr \in {0, addr(position), addr(Length + 1)}
    /\ proc # "down" \/ control = 1 => linuxPtr # 0
    /\ proc # "down" /\ ~Published => position = 0

\* The slots begun since the FPGA was enabled hold the last images, in order; the reader's
\* slot is among them.
MemInv ==
    /\ control = 1 =>
         /\ first >= 1 /\ fslot <= w - first
         /\ \A s \in Slots : Dist(s) <= w - first => mem[s] = w - Dist(s)
    /\ Powered => Dist(position) <= w - first
    /\ reading => fslot # position \/ w - first >= Length

\* What was sent last is the image before the one the reader is at.
OutInv ==
    /\ proc = "built" => out = 0
    /\ Powered /\ out # 0 => Published /\ out = w - Dist(position) - 1

FInv == IInv /\ FTypeOK /\ PointerInv /\ MemInv /\ OutInv

\* Published says exactly that the Linux pointer is the reader's slot.
LEMMA PublishedPtr ==
    ASSUME IInv, PointerInv
    PROVE  /\ Published <=> linuxPtr = addr(position)
           /\ addr(position) # 0 /\ addr(position) # addr(Length + 1)
<1>1. addr(position) # 0 /\ addr(position) # addr(Length + 1)
  BY SlotAddr DEF IInv, TypeOK
<1> QED BY <1>1 DEF PointerInv, Published

\* No image has been captured yet.
LEMMA InitFInv == FInit => FInv
<1> SUFFICES ASSUME FInit PROVE FInv
  OBVIOUS
<1>1. IInv
  BY InitIInv DEF FInit
<1>2. FTypeOK
  BY <1>1, MaxFramesAssumption DEF FInit, FTypeOK, IInv
<1>3. PointerInv /\ MemInv /\ OutInv
  BY DEF FInit, Init, PointerInv, MemInv, OutInv, Powered, reading
<1> QED BY <1>1, <1>2, <1>3 DEF FInv

\* The FPGA stays away from a published position.
LEMMA AdvanceAvoidsReader ==
    ASSUME FInv, FpgaAdvance, Published
    PROVE  NextSlot(fslot) # position
<1>1. NextStart = addr(NextSlot(fslot))
  BY NextStartSlot DEF FInv, IInv, TypeOK, Agreement, FpgaAdvance
<1>2. linuxPtr = addr(position)
  BY PublishedPtr DEF FInv
<1> QED BY <1>1, <1>2 DEF FpgaAdvance, FpgaBlocked

\* Every step preserves the invariant of the ring with its images.
LEMMA NextFInv == FInv /\ [FNext]_fvars => FInv'
<1> SUFFICES ASSUME FInv, [FNext]_fvars PROVE FInv'
  OBVIOUS
<1> USE LengthAssumption, MaxFramesAssumption
<1>0. IInv'
  BY StepIsRingStep, NextIInv DEF FInv
<1>a. /\ position \in Slots /\ fslot \in Slots /\ 0 \in Slots /\ Slots \subseteq Nat
      /\ w \in Nat /\ first \in Nat /\ out \in Nat /\ mem \in [Slots -> Nat]
      /\ first <= w /\ w <= MaxFrames
      /\ control \in {0, 1}
  BY DEF FInv, FTypeOK, TypeOK, Slots
<1>b. \A s \in Slots : NextSlot(s) \in Slots
  BY DEF Slots, NextSlot
<1>1. CASE FConstruct
  <2> USE <1>1 DEF FConstruct, NoneSent, Construct, MT9V034
  <2>1. FTypeOK'
    BY <1>0, <1>a DEF FTypeOK, IInv
  <2>2. PointerInv'
    <3>1. addr(Length + 1) # 0
      BY AddrFacts
    <3> QED BY <3>1 DEF PointerInv, Published
  <2>3. MemInv'
    BY DEF FInv, MemInv, Dist, Powered, reading
  <2>4. OutInv'
    BY DEF OutInv, Powered
  <2> QED BY <1>0, <2>1, <2>2, <2>3, <2>4 DEF FInv
<1>2. CASE FPowerOn
  <2> USE <1>2 DEF FPowerOn, FirstCapture, SwitchOn, power_on
  <2>0. position = 0 /\ ~Published /\ out = 0
    BY DEF FInv, IInv, Agreement, PointerInv, Published, OutInv
  <2>1. FTypeOK'
    BY <1>0, <1>a DEF FTypeOK, IInv, Capture
  <2>2. PointerInv'
    BY <2>0 DEF FInv, PointerInv, Published
  <2>3. MemInv'
    <3>1. CASE control = 0
      <4>1. fslot' = 0 /\ w' = w + 1 /\ first' = w + 1 /\ mem' = [mem EXCEPT ![0] = w + 1]
        BY <3>1 DEF Capture
      <4>2. \A s \in Slots : Dist(s)' = IF s = 0 THEN 0 ELSE Length - s
        BY <4>1 DEF Dist, Slots
      <4>3. \A s \in Slots : Dist(s)' <= w' - first' => s = 0
        BY <4>1, <4>2, <1>a DEF Slots
      <4>4. \A s \in Slots : Dist(s)' <= w' - first' => mem'[s] = w' - Dist(s)'
        BY <4>1, <4>2, <4>3, <1>a
      <4>5. Dist(position)' <= w' - first'
        BY <4>1, <4>2, <2>0, <1>a DEF Dist
      <4> QED BY <4>1, <4>4, <4>5, <1>a DEF MemInv, reading
    <3>2. CASE control = 1
      <4>1. UNCHANGED <<control, fslot, w, mem, first, position>>
        BY <3>2
      <4>2. Dist(position) <= w - first
        BY <3>2, <2>0, <1>a, DistFacts DEF FInv, MemInv
      <4> QED BY <4>1, <4>2 DEF FInv, MemInv, Dist, reading
    <3> QED BY <3>1, <3>2, <1>a
  <2>4. OutInv'
    BY <2>0 DEF OutInv
  <2> QED BY <1>0, <2>1, <2>2, <2>3, <2>4 DEF FInv
<1>3. CASE FBeginRead
  <2> USE <1>3 DEF FBeginRead, BeginRead, registers, frames
  <2>1. fslot # position
    <3>1. addr(position + 1) # addr(fslot + 1)
      BY <1>a DEF newDataAvailable, Slots, FInv, IInv, Agreement, Powered
    <3> QED BY <3>1
  <2>2. FTypeOK'
    BY <1>0, <1>a DEF FTypeOK, IInv
  <2>3. PointerInv'
    BY DEF FInv, PointerInv, Published
  <2>4. MemInv'
    BY <2>1 DEF FInv, MemInv, Dist, Powered, reading
  <2>5. OutInv'
    BY DEF FInv, OutInv, Powered, Published, Dist
  <2> QED BY <1>0, <2>2, <2>3, <2>4, <2>5 DEF FInv
<1>4. CASE FMovePointer
  <2> USE <1>4 DEF FMovePointer, ImageSent, EndRead, movePointer
  <2>0. control = 1 /\ Dist(position) <= w - first /\ UNCHANGED <<w, mem, first, fslot, control>>
    BY DEF FInv, IInv, Agreement, Powered, MemInv
  <2>1. FTypeOK'
    BY <1>0, <1>a DEF FTypeOK, IInv
  <2>2. linuxPtr' = addr(position') /\ position' = NextSlot(position) /\ position' \in Slots
    BY <1>b, <1>a
  <2>3. linuxPtr' # 0 /\ linuxPtr' # addr(Length + 1)
    BY <2>2, SlotAddr
  <2>4. PointerInv'
    BY <2>2, <2>3 DEF PointerInv, Published
  <2>5. Published => fslot # position
    BY DEF FInv, IInv, NoTear, reading
  <2>6. Dist(position)' <= w - first
    <3>1. CASE fslot = position
      <4>1. w - first >= Length
        BY <3>1 DEF FInv, MemInv, reading
      <4> QED BY <3>1, <4>1, <2>0, <2>2, <1>a, DistFacts DEF Dist
    <3>2. CASE fslot # position
      BY <3>2, <2>0, <2>2, <1>a, DistFacts DEF Dist
    <3> QED BY <3>1, <3>2
  <2>7. MemInv'
    BY <2>0, <2>6 DEF FInv, MemInv, Dist, reading
  <2>8. OutInv'
    <3>1. CASE Published
      <4>1. out' = w - Dist(position)
        BY <3>1, <2>0, <1>a DEF FInv, MemInv
      <4>2. Dist(position)' = Dist(position) - 1
        BY <3>1, <2>5, <2>0, <2>2, <1>a, DistFacts DEF Dist
      <4> QED BY <4>1, <4>2, <2>0, <2>3, <1>a, DistFacts DEF OutInv, Published
    <3>2. CASE ~Published
      BY <3>2 DEF OutInv
    <3> QED BY <3>1, <3>2
  <2> QED BY <1>0, <2>1, <2>4, <2>7, <2>8 DEF FInv
<1>5. CASE FPowerOff
  BY <1>0, <1>5, <1>a DEF FPowerOff, SwitchOff, power_off, frames, FInv, FTypeOK, IInv,
     PointerInv, Published, MemInv, Dist, OutInv, Powered, reading
<1>6. CASE FCrash
  BY <1>0, <1>6, <1>a DEF FCrash, Crash, registers, frames, FInv, FTypeOK, IInv,
     PointerInv, Published, MemInv, Dist, OutInv, Powered, reading
<1>7. CASE FFpgaAdvance
  <2> USE <1>7 DEF FFpgaAdvance, NextCapture
  <2>0. /\ control = 1 /\ UNCHANGED <<proc, position, control, linuxPtr, first, out>>
        /\ fslot' = NextSlot(fslot) /\ fslot' \in Slots
        /\ w' = w + 1 /\ mem' = [mem EXCEPT ![fslot'] = w + 1] /\ w < MaxFrames
    BY <1>a, <1>b DEF FpgaAdvance, Capture
  <2>1. FTypeOK'
    BY <1>0, <1>a, <2>0 DEF FTypeOK, IInv
  <2>2. PointerInv'
    BY <2>0 DEF FInv, PointerInv, Published
  <2>3. \A s \in Slots : Dist(s)' = IF s = fslot' THEN 0 ELSE Dist(s) + 1
    BY <2>0, <1>a, DistAdvance
  <2>4. first >= 1 /\ fslot' <= w' - first'
    BY <2>0, <1>a DEF FInv, MemInv, NextSlot, Slots
  <2>5. \A s \in Slots : Dist(s)' <= w' - first' => mem'[s] = w' - Dist(s)'
    <3> SUFFICES ASSUME NEW s \in Slots, Dist(s)' <= w' - first' PROVE mem'[s] = w' - Dist(s)'
      OBVIOUS
    <3>1. CASE s = fslot'
      BY <3>1, <2>0, <2>3, <1>a
    <3>2. CASE s # fslot'
      <4>1. Dist(s)' = Dist(s) + 1 /\ Dist(s) \in Nat
        BY <3>2, <2>3, <1>a, DistFacts
      <4>2. mem[s] = w - Dist(s)
        BY <4>1, <2>0, <1>a DEF FInv, MemInv
      <4> QED BY <3>2, <4>1, <4>2, <2>0, <1>a
    <3> QED BY <3>1, <3>2
  <2>6. Powered' => Dist(position)' <= w' - first'
    <3>1. Dist(position)' \in {0, Dist(position) + 1} /\ Dist(position) \in Nat
      BY <2>0, <2>3, <1>a, DistFacts DEF Dist
    <3> QED BY <3>1, <2>0, <1>a DEF FInv, MemInv, Powered
  <2>7. reading' => fslot' # position' \/ w' - first' >= Length
    <3> SUFFICES ASSUME reading, fslot' = position PROVE w' - first' >= Length
      BY <2>0 DEF reading
    <3>1. ~Published
      BY <2>0, AdvanceAvoidsReader
    <3>2. position = 0
      BY <3>1 DEF FInv, PointerInv, reading
    <3>3. fslot = Length - 1
      BY <3>2, <2>0, <1>a DEF NextSlot, Slots
    <3> QED BY <3>3, <2>0, <1>a DEF FInv, MemInv
  <2>8. MemInv'
    BY <2>0, <2>4, <2>5, <2>6, <2>7 DEF MemInv
  <2>9. OutInv'
    <3>1. Published => Dist(position)' = Dist(position) + 1 /\ Dist(position) \in Nat
      BY <2>0, <2>3, <1>a, AdvanceAvoidsReader, DistFacts DEF Dist
    <3> QED BY <3>1, <2>0, <1>a DEF FInv, OutInv, Powered, Published
  <2> QED BY <1>0, <2>1, <2>2, <2>8, <2>9 DEF FInv
<1>8. CASE UNCHANGED fvars
  BY <1>0, <1>8, <1>a DEF fvars, vars, frames, FInv, FTypeOK, IInv,
     PointerInv, Published, MemInv, Dist, OutInv, Powered, reading
<1> QED
  BY <1>1, <1>2, <1>3, <1>4, <1>5, <1>6, <1>7, <1>8 DEF FNext

\* The invariant holds in every reachable state.
LEMMA FInvariance == FSpec => []FInv
  BY InitFInv, NextFInv, PTL DEF FSpec

\* Type correctness of the ring with its images.
THEOREM FTypeCorrect == FSpec => []FTypeOK
<1>1. FInv => FTypeOK
  BY DEF FInv
<1> QED BY <1>1, FInvariance, PTL

\* main() never sends an image from before the camera was switched on, nor a slot that was
\* never filled.
THEOREM NeverStale == FSpec => []NoStaleImage
<1>1. FInv => NoStaleImage
  <2> SUFFICES ASSUME FInv, reading PROVE first >= 1 /\ mem[position] >= first
    BY DEF NoStaleImage
  <2>1. position \in Slots /\ fslot \in Slots /\ w \in Nat /\ first \in Nat /\ Powered /\ control = 1
    BY DEF FInv, FTypeOK, TypeOK, IInv, Agreement, Powered, reading
  <2>2. Dist(position) <= w - first /\ mem[position] = w - Dist(position) /\ first >= 1
    BY <2>1 DEF FInv, MemInv
  <2> QED BY <2>1, <2>2, DistFacts
<1> QED BY <1>1, FInvariance, PTL

\* No step changes the image that is being sent once the reader has published its slot.
LEMMA StableStep ==
    ASSUME FInv, [FNext]_fvars, reading, Published
    PROVE  mem'[position] = mem[position]
<1>1. CASE FFpgaAdvance
  <2>1. mem' = [mem EXCEPT ![NextSlot(fslot)] = w + 1] /\ NextSlot(fslot) # position
    BY <1>1, AdvanceAvoidsReader DEF FFpgaAdvance, NextCapture, FpgaAdvance, Capture
  <2>2. position \in Slots /\ mem \in [Slots -> Nat]
    BY DEF FInv, FTypeOK, TypeOK
  <2> QED BY <2>1, <2>2
<1>2. CASE ~FFpgaAdvance
  BY <1>2 DEF FNext, fvars, frames, FConstruct, NoneSent, Construct, FPowerOn, FirstCapture,
     SwitchOn, FBeginRead, FMovePointer, ImageSent, FPowerOff, FCrash, reading
<1> QED BY <1>1, <1>2

\* A published slot keeps its image until send_data() has returned.
THEOREM StableImage == FSpec => StableWhileSent
<1>1. FInv /\ [FNext]_fvars => (reading /\ Published => mem'[position] = mem[position])
  BY StableStep
<1> QED BY <1>1, FInvariance, PTL DEF FSpec, StableWhileSent

\* The reader's slot holds the image after the one that was sent last.
LEMMA ReadsNext ==
    ASSUME FInv, Powered, out # 0
    PROVE  Published /\ mem[position] = out + 1
<1>1. Published /\ out = w - Dist(position) - 1
  BY DEF FInv, OutInv
<1>2. control = 1 /\ Dist(position) <= w - first /\ position \in Slots /\ fslot \in Slots
  BY DEF FInv, FTypeOK, TypeOK, IInv, Agreement, MemInv
<1>3. mem[position] = w - Dist(position)
  BY <1>2 DEF FInv, MemInv
<1> QED BY <1>1, <1>2, <1>3, DistFacts DEF FInv, FTypeOK

\* From the second image on the images sent are consecutive.
THEOREM ConsecutiveImages == FSpec => Consecutive
<1>1. FInv /\ [FNext]_fvars => (EndRead /\ out # 0 => out' = out + 1)
  <2> SUFFICES ASSUME FInv, [FNext]_fvars, EndRead, out # 0 PROVE out' = out + 1
    OBVIOUS
  <2>1. Published /\ mem[position] = out + 1
    BY ReadsNext DEF EndRead, Powered
  <2>2. FMovePointer
    BY DEF FNext, fvars, vars, EndRead, FConstruct, Construct, FPowerOn, SwitchOn,
       FBeginRead, BeginRead, FPowerOff, SwitchOff, FCrash, Crash, FFpgaAdvance, FpgaAdvance
  <2> QED BY <2>1, <2>2 DEF FMovePointer, ImageSent
<1> QED BY <1>1, FInvariance, PTL DEF FSpec, Consecutive
-----------------------------------------------------------------------------
\* Every step of the ring is a step of the queue or leaves the queue as it is.
LEMMA StepIsQueueStep == FInv /\ [FNext]_fvars => [Queue!Next]_(Queue!qvars)
<1> SUFFICES ASSUME FInv, [FNext]_fvars PROVE [Queue!Next]_(Queue!qvars)
  OBVIOUS
<1> USE LengthAssumption DEF Queue!qvars
<1>a. /\ position \in Slots /\ fslot \in Slots /\ w \in Nat /\ Dist(position) \in 0 .. Length - 1
  BY DistFacts DEF FInv, FTypeOK, TypeOK
<1>1. CASE FConstruct
  <2>1. ~Published' /\ w' = w
    BY <1>1 DEF FConstruct, NoneSent, Construct, MT9V034, Published
  <2>2. CASE Published
    BY <2>1, <2>2 DEF Queue!Next, Queue!Lose
  <2>3. CASE ~Published
    BY <2>1, <2>3
  <2> QED BY <2>2, <2>3
<1>2. CASE FPowerOn
  <2>1. ~Published /\ ~Published'
    BY <1>2 DEF FPowerOn, FirstCapture, SwitchOn, power_on, FInv, IInv, Agreement, Published
  <2>2. w' = w \/ w' = w + 1
    BY <1>2 DEF FPowerOn, FirstCapture, Capture
  <2> QED BY <2>1, <2>2 DEF Queue!Next, Queue!Produce
<1>3. CASE FBeginRead \/ FPowerOff \/ FCrash \/ UNCHANGED fvars
  BY <1>3 DEF FBeginRead, BeginRead, FPowerOff, SwitchOff, power_off, FCrash, Crash, registers, frames,
     fvars, vars, Published, Dist
<1>4. CASE FMovePointer
  <2>1. /\ position' = NextSlot(position) /\ position' \in Slots /\ linuxPtr' = addr(position')
        /\ UNCHANGED <<w, fslot>>
    BY <1>4, <1>a DEF FMovePointer, ImageSent, EndRead, movePointer, NextSlot, Slots
  <2>2. Published'
    BY <2>1, SlotAddr DEF Published
  <2>3. Dist(position)' = Dist(NextSlot(position)) /\ Dist(position)' \in 0 .. Length - 1
    BY <2>1, <1>a, DistFacts DEF Dist
  <2>4. CASE Published
    <3>1. fslot # position
      BY <1>4, <2>4 DEF FMovePointer, ImageSent, EndRead, movePointer, FInv, IInv, NoTear, reading
    <3>2. Dist(position)' = Dist(position) - 1 /\ Dist(position) # 0
      BY <3>1, <2>3, <1>a, DistFacts
    <3> QED BY <2>1, <2>2, <2>4, <3>2, <1>a DEF Queue!Next, Queue!Deliver
  <2>5. CASE ~Published
    BY <2>1, <2>2, <2>3, <2>5, <1>a DEF Queue!Next, Queue!Sync
  <2> QED BY <2>4, <2>5
<1>5. CASE FFpgaAdvance
  <2>1. /\ UNCHANGED <<position, linuxPtr>> /\ fslot' = NextSlot(fslot) /\ w' = w + 1
        /\ Published' <=> Published
    BY <1>5 DEF FFpgaAdvance, NextCapture, FpgaAdvance, Capture, Published
  <2>2. CASE Published
    <3>1. NextSlot(fslot) # position
      BY <1>5, <2>2, AdvanceAvoidsReader DEF FFpgaAdvance
    <3>2. Dist(position)' = Dist(position) + 1
      BY <2>1, <3>1, <1>a, DistAdvance DEF Dist
    <3>3. Dist(position) < Length - 1
      BY <3>1, <1>a, DistFacts
    <3> QED BY <2>1, <2>2, <3>2, <3>3, <1>a DEF Queue!Next, Queue!Produce
  <2>3. CASE ~Published
    BY <2>1, <2>3 DEF Queue!Next, Queue!Produce
  <2> QED BY <2>2, <2>3
<1> QED
  BY <1>1, <1>2, <1>3, <1>4, <1>5 DEF FNext

\* The ring with its two pointers implements the lossless queue of Length - 1 images.
THEOREM RingImplementsQueue == FSpec => QueueSpec
<1>1. FInit => Queue!Init
  BY DEF FInit, Init, Queue!Init, Published
<1> QED BY <1>1, StepIsQueueStep, FInvariance, PTL DEF FSpec, QueueSpec, Queue!Spec
=============================================================================
