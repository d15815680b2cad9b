----------------------------- MODULE FrameQueue -----------------------------
(***************************************************************************)
(* What the image ring promises, without slots, addresses or registers: a  *)
(* queue of at most Capacity images.  A reader that is in step (live)      *)
(* loses nothing: images are captured only while there is room, and they   *)
(* are delivered one by one in the order of capture.  A reader that is not *)
(* in step may be overrun; it falls in step at one of the last images.     *)
(*                                                                         *)
(* Images are numbered from 1; produced is the one being captured, next    *)
(* the one the reader is at (0 while it is out of step).                   *)
(***************************************************************************)
EXTENDS Integers

CONSTANT Capacity  \* complete images the queue holds

VARIABLES produced, next, reader   \* reader: "live" (in step) or "lost"

qvars == <<produced, next, reader>>

Init == produced = 0 /\ next = 0 /\ reader = "lost"

\* The next image begins; a reader in step is never overrun.
Produce ==
    /\ reader = "live" => produced - next < Capacity
    /\ produced' = produced + 1
    /\ UNCHANGED <<next, reader>>

\* The reader falls in step at one of the images that are still there.
Sync ==
    /\ reader = "lost"
    /\ reader' = "live"
    /\ next' \in produced - Capacity .. produced
    /\ UNCHANGED produced

\* The reader in step takes exactly the next complete image.
Deliver ==
    /\ reader = "live" /\ next < produced
    /\ next' = next + 1
    /\ UNCHANGED <<produced, reader>>

\* The reader is restarted.
Lose == reader = "live" /\ reader' = "lost" /\ next' = 0 /\ UNCHANGED produced

Next == Produce \/ Sync \/ Deliver \/ Lose

Spec == Init /\ [][Next]_qvars
=============================================================================
