-------------------------- MODULE SlamSensorServer --------------------------
(***************************************************************************)
(* The main loop of slam_sensor_server: for every camera, then the IMU and *)
(* the configuration, data is sent if its ready byte in the shared memory  *)
(* is set, and the byte is cleared when the send has returned.  The timer  *)
(* handlers of the io thread set the bytes.                                *)
(*                                                                         *)
(* TcpServer is seen from the main loop: what has_connection(), a send and *)
(* remote_endpoint() do.  Module TcpServer has the inside of the class.    *)
(***************************************************************************)
EXTENDS Naturals, FiniteSets

CONSTANTS NumCams,    \* cameras, at least the two of cam_faker()
          ImageSize,  \* IMAGE_SIZE
          MaxAccepts  \* bound: accept operations pending at once

ASSUME SlamAssumption ==
    /\ NumCams \in Nat \ {0, 1} /\ MaxAccepts \in Nat \ {0}
    /\ ImageSize \in Nat \ {0} /\ ImageSize < 10^6

\* The areas of the shared memory in their order: the cameras, IMU, configuration.
Cameras == 0 .. NumCams - 1
Imu == NumCams
Config == NumCams + 1
Areas == 0 .. NumCams + 1

VARIABLES
    pc,       \* main(): "fill", "loop", "endpoint", "test", "send", "clear", "ended"
    i,        \* the loop's camera
    area,     \* the area tested or sent
    flag,     \* the ready bytes
    handler,  \* the camera cam_faker() sets next, or "idle"
    conn,     \* "none", "up", "fin" or "rst" (the client has left), "deaf"
    pending,  \* accept operations waiting in the acceptor
    fresh     \* set since the last send of the area began

main == <<pc, i, area>>
tcp == <<conn, pending>>
slamVars == <<main, flag, handler, tcp, fresh>>

\* The ready bytes are not initialised: they hold what the memory held.
SlamInit ==
    /\ pc = "fill" /\ i = 0 /\ area = 0 /\ handler = "idle"
    /\ flag \in [Areas -> BOOLEAN] /\ fresh = flag
    /\ conn = "none" /\ pending = 1
-----------------------------------------------------------------------------
(* The start of main(): camera 0's image is filled with numbers.           *)

\* Decimal digits of n, and the offset of the last number written.
Digits(n) == 1 + Cardinality({e \in 1 .. 5 : n >= 10^e})
LastFill == 4 * ((ImageSize - 1) \div 4)

\* sprintf() of the last number goes past the image, on the ready byte of the next area,
\* with a digit (true) or its terminating zero, if the number is long enough.
Overrun(old) ==
    LET room == ImageSize - LastFill
        text == Digits(LastFill \div 4)
    IN  IF text > room THEN TRUE ELSE IF text = room THEN FALSE ELSE old

Fill ==
    /\ pc = "fill" /\ pc' = "loop"
    /\ flag' = [flag EXCEPT ![1] = Overrun(@)]
    /\ fresh' = [fresh EXCEPT ![1] = Overrun(@)]
    /\ UNCHANGED <<i, area, handler, tcp>>
-----------------------------------------------------------------------------
(* The main loop.                                                          *)

Connected == conn \in {"up", "fin", "rst"}

SeeConnection ==
    /\ pc = "loop" /\ Connected
    /\ pc' = "endpoint"
    /\ UNCHANGED <<i, area, flag, handler, tcp, fresh>>

\* getEndpoint() throws if the client has reset the connection.
Endpoint ==
    /\ pc = "endpoint"
    /\ pc' = IF conn = "rst" THEN "ended" ELSE "test"
    /\ i' = 0 /\ area' = 0
    /\ UNCHANGED <<flag, handler, tcp, fresh>>

\* Mutant: the loop leaves out the last camera.
AdvanceShort ==
    IF area = i THEN area' = Imu /\ pc' = "test" /\ UNCHANGED i
    ELSE IF area = Imu THEN area' = Config /\ pc' = "test" /\ UNCHANGED i
    ELSE /\ i' = i + 1 /\ area' = i + 1
         /\ pc' = IF i + 1 < NumCams - 1 THEN "test" ELSE "loop"

\* From the camera to the IMU, the configuration, the next camera.
Advance ==
    IF area = i THEN area' = Imu /\ pc' = "test" /\ UNCHANGED i
    ELSE IF area = Imu THEN area' = Config /\ pc' = "test" /\ UNCHANGED i
    ELSE /\ i' = i + 1 /\ area' = i + 1
         /\ pc' = IF i + 1 < NumCams THEN "test" ELSE "loop"

NotReady ==
    /\ pc = "test" /\ ~flag[area]
    /\ Advance
    /\ UNCHANGED <<flag, handler, tcp, fresh>>

BeginSend ==
    /\ pc = "test" /\ flag[area]
    /\ pc' = "send"
    /\ fresh' = [fresh EXCEPT ![area] = FALSE]
    /\ UNCHANGED <<i, area, flag, handler, tcp>>

UdpSend ==
    /\ pc = "send" /\ area \in Cameras
    /\ pc' \in {"clear", "ended"}
    /\ UNCHANGED <<i, area, flag, handler, tcp, fresh>>

\* The data goes out, perhaps to a client that has left and answers with a reset.
TcpSend ==
    /\ pc = "send" /\ area \notin Cameras /\ conn \in {"up", "fin", "deaf"}
    /\ pc' = "clear"
    /\ conn' \in IF conn = "fin" THEN {"fin", "rst"} ELSE {conn}
    /\ UNCHANGED <<i, area, flag, handler, pending, fresh>>

\* The send throws; send_data() catches it and calls accept_connection(), which closes the
\* socket and starts one more accept.  If a client is waiting, its has_connection_ may be
\* overwritten.
TcpSendThrows ==
    /\ pc = "send" /\ area \notin Cameras /\ conn \in {"rst", "deaf", "none"}
    /\ pending < MaxAccepts
    /\ pc' = "clear"
    /\ \/ conn' = "none" /\ pending' = pending + 1
       \/ conn' = "deaf" /\ pending' = pending
    /\ UNCHANGED <<i, area, flag, handler, fresh>>

\* Mutant: the byte is not cleared.
ClearNothing ==
    /\ pc = "clear"
    /\ Advance
    /\ UNCHANGED <<flag, handler, tcp, fresh>>

\* setNewDataAvailable(false), whether or not the send went well.
Clear ==
    /\ pc = "clear"
    /\ flag' = [flag EXCEPT ![area] = FALSE]
    /\ Advance
    /\ UNCHANGED <<handler, tcp, fresh>>
-----------------------------------------------------------------------------
(* The io thread and the clients.                                          *)

Running == pc \notin {"fill", "ended"}

SetReady(x) ==
    /\ flag' = [flag EXCEPT ![x] = TRUE]
    /\ fresh' = [fresh EXCEPT ![x] = TRUE]

\* cam_faker() sets the bytes of camera 0 and 1 one after the other.
CamFaker0 ==
    /\ Running /\ handler = "idle"
    /\ handler' = "cam1" /\ SetReady(0)
    /\ UNCHANGED <<main, tcp>>

CamFaker1 ==
    /\ Running /\ handler = "cam1"
    /\ handler' = "idle" /\ SetReady(1)
    /\ UNCHANGED <<main, tcp>>

ImuFaker ==
    /\ Running /\ handler = "idle"
    /\ SetReady(Imu)
    /\ UNCHANGED <<main, handler, tcp>>

\* A client is accepted; one accepted while socket_ is open is turned away with an error;
\* one that has gone before remote_endpoint() is called ends the process.
Accept ==
    /\ Running /\ handler = "idle" /\ pending > 0
    /\ pending' = pending - 1
    /\ conn' = IF conn = "none" THEN "up" ELSE conn
    /\ UNCHANGED <<main, flag, handler, fresh>>

AcceptThrows ==
    /\ Running /\ handler = "idle" /\ pending > 0 /\ conn = "none"
    /\ pc' = "ended"
    /\ UNCHANGED <<i, area, flag, handler, tcp, fresh>>

ClientLeaves ==
    /\ conn = "up" /\ conn' \in {"fin", "rst"}
    /\ UNCHANGED <<main, flag, handler, pending, fresh>>

Main == SeeConnection \/ Endpoint \/ NotReady \/ BeginSend \/ UdpSend \/ TcpSend \/ TcpSendThrows \/ Clear
Cam == CamFaker0 \/ CamFaker1

SlamNext == Fill \/ Main \/ Cam \/ ImuFaker \/ Accept \/ AcceptThrows \/ ClientLeaves

SlamSpec == SlamInit /\ [][SlamNext]_slamVars
\* Both threads run and both timers fire again and again; the io thread runs its handlers in
\* turn, so the IMU's is not passed over for ever.
SlamFairSpec ==
    SlamSpec /\ WF_slamVars(Fill) /\ WF_slamVars(Main) /\ WF_slamVars(Cam) /\ SF_slamVars(ImuFaker)
-----------------------------------------------------------------------------
\* Types; the loop's camera and the area go together.
SlamTypeOK ==
    /\ flag \in [Areas -> BOOLEAN] /\ fresh \in [Areas -> BOOLEAN]
    /\ i \in 0 .. NumCams /\ area \in Areas
    /\ pc \in {"test", "send", "clear"} => i \in Cameras /\ area \in {i, Imu, Config}
    /\ pending \in 0 .. MaxAccepts

\* Whatever the order in which handlers set and main clears the bytes, and after failed
\* sends too, data is sent at most once for each time it was made ready.
NoRepeat ==
    [][pc = "test" /\ pc' = "send" => fresh[area]]_slamVars

\* As long as a client stays, every camera and the IMU are sent again and again: that main
\* clears a byte which was set during the send does not silence a source.
KeepsSending ==
    <>[](conn = "up" /\ pc # "ended") =>
        \A x \in Cameras \cup {Imu} : []<>(pc = "send" /\ area = x)
=============================================================================
