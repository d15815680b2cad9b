----------------------------- MODULE FrameRing -----------------------------
(***************************************************************************)
(* SharedRingBuffer with its contents.  Every image the FPGA captures has  *)
(* a number; mem[s] is the image whose capture into slot s began last.     *)
(* The registers and the reader are those of SharedRingBuffer: each action *)
(* here is one of its actions together with what it does to the images.    *)
(* The module shows that the two address registers, which only tell slots  *)
(* apart, are enough to deliver images without loss, repetition or         *)
(* reordering from the second one after a start on.                        *)
(***************************************************************************)
EXTENDS SharedRingBuffer

CONSTANT MaxFrames  \* bound on the number of captured images

ASSUME MaxFramesAssumption == MaxFrames \in Nat

VARIABLES
    w,      \* number of the image being captured (0: none yet)
    mem,    \* image in each slot (0: none)
    first,  \* first image since the FPGA was last enabled
    out     \* image sent last under protection of the Linux pointer (0: none)

frames == <<w, mem, first, out>>
fvars == <<vars, frames>>

FInit == Init /\ w = 0 /\ mem = [s \in Slots |-> 0] /\ first = 0 /\ out = 0

\* The FPGA begins image w + 1 in slot s.
Capture(s) ==
    /\ w < MaxFrames
    /\ w' = w + 1
    /\ mem' = [mem EXCEPT ![s] = w + 1]

\* What the ring's steps do to the images.
NoneSent == out' = 0 /\ UNCHANGED <<w, mem, first>>

FirstCapture ==
    /\ IF control = 0 THEN Capture(fslot') /\ first' = w + 1
                      ELSE UNCHANGED <<w, mem, first>>
    /\ UNCHANGED out

NextCapture == Capture(fslot') /\ UNCHANGED <<first, out>>

\* send_data() has handed the image at data() to the network.
ImageSent ==
    /\ out' = IF Published THEN mem[position] ELSE 0
    /\ UNCHANGED <<w, mem, first>>

FConstruct == Construct /\ NoneSent
FPowerOn == SwitchOn /\ FirstCapture
FBeginRead == BeginRead /\ UNCHANGED frames
FMovePointer == EndRead /\ ImageSent
FPowerOff == SwitchOff /\ UNCHANGED frames
FCrash == Crash /\ UNCHANGED frames
FFpgaAdvance == FpgaAdvance /\ NextCapture

FNext ==
    \/ FConstruct \/ FPowerOn \/ FBeginRead \/ FMovePointer
    \/ FPowerOff \/ FCrash \/ FFpgaAdvance

FSpec == FInit /\ [][FNext]_fvars

\* The camera keeps delivering frames and the reader keeps polling and completes its sends.
FFairness == WF_fvars(FFpgaAdvance) /\ WF_fvars(FBeginRead) /\ WF_fvars(FMovePointer)
FFairSpec == FSpec /\ FFairness
-----------------------------------------------------------------------------
\* How many captures ago slot s was begun, counting round the ring from the FPGA's slot.
Dist(s) == IF s <= fslot THEN fslot - s ELSE fslot - s + Length

FTypeOK ==
    /\ TypeOK
    /\ w \in Nat /\ first \in Nat /\ out \in Nat
    /\ mem \in [Slots -> Nat]
    /\ first <= w /\ w <= MaxFrames

\* data() never points at an image left over from before the FPGA was enabled, or at a
\* slot that was never filled, however the process was stopped and started again.
NoStaleImage == reading => first >= 1 /\ mem[position] >= first

\* While an image is being sent under protection, its slot keeps that image.
StableWhileSent ==
    [][reading /\ Published => mem'[position] = mem[position]]_fvars

\* From the second image after a start on, the images sent are consecutive: none is lost,
\* repeated or reordered, although the registers only tell slots apart.
Consecutive == [][EndRead /\ out # 0 => out' = out + 1]_fvars

\* A reader that has published a position gets its next image: neither pointer test blocks
\* for good, until the bound on images is reached.  (Before a publication the FPGA runs
\* round the ring without waiting, and weak fairness would let every poll fall into the
\* slot where newDataAvailable() is false.)
ReaderProgress == (proc = "on" /\ Published) ~> (proc # "on" \/ w = MaxFrames)

\* The ring implements a lossless queue of Length - 1 images.
Queue == INSTANCE FrameQueue WITH
    Capacity <- Length - 1,
    produced <- w,
    next     <- IF Published THEN w - Dist(position) ELSE 0,
    reader   <- IF Published THEN "live" ELSE "lost"

QueueSpec == Queue!Spec
=============================================================================
