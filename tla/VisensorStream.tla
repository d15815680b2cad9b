--------------------------- MODULE VisensorStream ---------------------------
(***************************************************************************)
(* VisensorServer with the images: which ones reach which client.  The     *)
(* numbering of images is that of FrameRing; got[c] is the image that was  *)
(* sent last on c's present connection while the Linux pointer protected   *)
(* the ring (0: none).                                                     *)
(***************************************************************************)
EXTENDS VisensorServer

CONSTANT MaxFrames  \* bound on the number of captured images

ASSUME FramesAssumption == MaxFrames \in Nat

VARIABLES w, mem, first, out, got

Frames == INSTANCE FrameRing

frameVars == <<w, mem, first, out>>
svars == <<vars, frameVars, got>>

SInit == Init /\ Frames!FInit /\ got = [c \in Clients |-> 0]

\* A connection that has ended leaves nothing behind.
Forget == got' = [c \in Clients |-> IF peer'[c] = "idle" THEN 0 ELSE got[c]]

\* The image handed to the socket, if the send succeeds.
SendReturnsImage ==
    /\ SendReturns
    /\ got' = IF call'[data] = "idle" /\ Ring!Published
                THEN [got EXCEPT ![sock[data]] = mem[position]] ELSE got
    /\ UNCHANGED frameVars

SMakeCamera == MakeCamera /\ Frames!NoneSent /\ UNCHANGED got
SPowerOn == PowerOn /\ Frames!FirstCapture /\ UNCHANGED got
SMoveOn == MoveOn /\ Frames!ImageSent /\ UNCHANGED got
SFpga == Fpga /\ Frames!NextCapture /\ UNCHANGED got

\* What leaves the images alone, but may end a connection.
Bare(step) == step /\ Forget /\ UNCHANGED frameVars

SMainStep == SMoveOn \/ SendReturnsImage \/ Bare(SeeClient \/ NoImage \/ SendImage \/ AcceptAgain)
SIoStep(s) == Bare(IoAccept(s) \/ IoThrows(s))
SReset(c) == Bare(Reset(c))

SNext ==
    \/ SMakeCamera \/ SPowerOn \/ SFpga \/ SMainStep
    \/ Bare(StartServers \/ StartFails \/ MainThrows \/ Killed)
    \/ \E s \in Servers : SIoStep(s) \/ Bare(IoError(s))
    \/ \E c \in Clients : SReset(c) \/ Bare(ClientStep(c))

SSpec == SInit /\ [][SNext]_svars

\* Both threads run, the camera delivers frames, clients read what they are sent, and the
\* network delivers resets.
SFairness ==
    /\ WF_svars(SMainStep)
    /\ \A s \in Servers : WF_svars(SIoStep(s))
    /\ WF_svars(SFpga)
    /\ \A c \in Clients : WF_svars(SReset(c))
SFairSpec == SSpec /\ SFairness
-----------------------------------------------------------------------------
\* The program as a whole is the abstract queue of Length - 1 images: with clients that come
\* and go, sends that fail and processes that die, the order in which main() calls
\* newDataAvailable() and movePointer() loses, repeats or reorders no image from the
\* second one after a start on.
ImageQueue == INSTANCE FrameQueue WITH
    Capacity <- Length - 1,
    produced <- w,
    next     <- IF Frames!Published THEN w - Frames!Dist(position) ELSE 0,
    reader   <- IF Frames!Published THEN "live" ELSE "lost"

DeliversLossless == ImageQueue!Spec

\* A full ring does not stop the system while there is a client: the FPGA is released
\* whether the client takes the image or has gone.
FpgaReleased ==
    (control = 1 /\ Ring!FpgaBlocked /\ has_connection[data]) ~> (~Ring!FpgaBlocked \/ ~up)

\* A data client that has gone is replaced by the next one, although only a send can tell
\* and sends wait for images: the ring does not run dry meanwhile (until the bound on
\* images is reached).
NextDataClientServed ==
    \A c \in Clients :
        (/\ Ring!Published
         /\ backlog[data] # <<>> /\ backlog[data][1] = c
         /\ (sock[data] = NoOne \/ peer[sock[data]] \in {"fin", "finsent", "rst"}))
            ~> (sock[data] = c \/ data \in failed \/ ~up \/ w = MaxFrames)

\* Of the images that one client receives after the first movePointer() of the process none
\* is missing, repeated or out of order, whatever happened to the clients before it: an
\* image whose send failed is skipped by movePointer() and is missing only between two
\* connections.  (got does not count what is sent before: the Linux pointer does not
\* protect it.)
StreamGapFree ==
    [][\A c \in Clients : got[c] # 0 /\ got'[c] # got[c] => got'[c] \in {0, got[c] + 1}]_svars
=============================================================================
