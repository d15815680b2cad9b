------------------------ MODULE VisensorStreamProofs ------------------------
(***************************************************************************)
(* visensor-srv as a whole: main() drives the ring and the servers as      *)
(* their own specifications allow, so that what is proved of each of them  *)
(* holds in the program.                                                   *)
(***************************************************************************)
EXTENDS VisensorStream, TLAPS

RingP == INSTANCE FrameRingProofs

TcpP == INSTANCE TcpServerProofs WITH
    Servers <- {data, config}, Senders <- {data},
    AcceptNext <- [send |-> "flag", flag |-> "close", close |-> "arm", arm |-> "idle"]
-----------------------------------------------------------------------------
(* The ring with its images.                                               *)

\* main() is in the loop, or on its way there, or does not run.
Stages == {"down", "built", "on", "loop", "poll", "send"}

\* A step of the program is a step of the ring or leaves it alone: where main() is when it
\* calls a method is where the ring allows the call.
LEMMA FramesStep == pc \in Stages /\ [SNext]_svars => [Frames!FNext]_(Frames!fvars)
<1> SUFFICES ASSUME pc \in Stages, [SNext]_svars PROVE [Frames!FNext]_(Frames!fvars)
  OBVIOUS
<1>1. ASSUME UNCHANGED <<ringVars, frameVars>>, proc' = proc PROVE UNCHANGED Frames!fvars
  BY <1>1 DEF ringVars, frameVars, Frames!fvars, Frames!vars, Frames!frames
<1>2. ASSUME proc \in {"on", "reading"}, proc' = "down", Ring!power_off, UNCHANGED frameVars
      PROVE  Frames!FPowerOff
  BY <1>2 DEF frameVars, Ring!power_off,
              Frames!FPowerOff, Frames!SwitchOff, Frames!power_off, Frames!Powered, Frames!frames
<1>3. ASSUME proc # "down", proc' = "down", UNCHANGED <<ringVars, frameVars>> PROVE Frames!FCrash
  BY <1>3 DEF ringVars, frameVars, Frames!FCrash, Frames!Crash, Frames!registers, Frames!frames
<1>4. CASE SMakeCamera
  BY <1>4 DEF SMakeCamera, MakeCamera, proc, Ring!MT9V034, Ring!addr, Frames!FNext,
              Frames!FConstruct, Frames!Construct, Frames!MT9V034, Frames!addr
<1>5. CASE SPowerOn
  BY <1>5 DEF SPowerOn, PowerOn, proc, Ring!power_on, Frames!FNext,
              Frames!FPowerOn, Frames!SwitchOn, Frames!power_on
<1>6. CASE SFpga
  BY <1>6 DEF SFpga, Fpga, proc, Ring!FpgaAdvance, Ring!FpgaBlocked, Ring!NextStart, Ring!NextSlot,
              Frames!FNext, Frames!FFpgaAdvance, Frames!FpgaAdvance, Frames!FpgaBlocked,
              Frames!NextStart, Frames!NextSlot
<1>7. CASE SMainStep
  <2>1. CASE SMoveOn
    BY <2>1 DEF SMoveOn, MoveOn, proc, Ring!movePointer, Ring!NextSlot, Ring!addr, Frames!FNext,
                Frames!FMovePointer, Frames!EndRead, Frames!movePointer, Frames!NextSlot, Frames!addr
  <2>2. CASE SendReturnsImage
    BY <1>1, <2>2 DEF SendReturnsImage, SendReturns, proc
  <2>3. CASE Bare(SeeClient \/ NoImage \/ AcceptAgain)
    BY <1>1, <2>3 DEF Bare, SeeClient, NoImage, AcceptAgain, proc
  <2>4. CASE Bare(SendImage)
    BY <2>4 DEF Bare, SendImage, proc, ringVars, frameVars, Ring!newDataAvailable, Ring!addr,
                Frames!FNext, Frames!FBeginRead, Frames!BeginRead, Frames!registers,
                Frames!newDataAvailable, Frames!addr, Frames!frames
  <2> QED BY <1>7, <2>1, <2>2, <2>3, <2>4 DEF SMainStep, Bare
<1>8. CASE Bare(StartServers \/ StartFails \/ MainThrows \/ Killed)
  <2>1. CASE StartServers
    BY <1>1, <1>8, <2>1 DEF Bare, StartServers, proc
  <2>2. CASE StartFails \/ MainThrows
    BY <1>2, <1>8, <2>2 DEF Bare, StartFails, MainThrows, proc, Frames!FNext
  <2>3. CASE Killed
    BY <1>3, <1>8, <2>3 DEF Bare, Killed, proc, Stages, Frames!FNext
  <2> QED BY <1>8, <2>1, <2>2, <2>3 DEF Bare
<1>9. ASSUME NEW s \in Servers, SIoStep(s) \/ Bare(IoError(s))
      PROVE  [Frames!FNext]_(Frames!fvars)
  <2>1. CASE Bare(IoThrows(s))
    BY <1>1, <1>3, <2>1 DEF Bare, IoThrows, proc, Stages, Frames!FNext
  <2>2. CASE Bare(IoAccept(s) \/ IoError(s))
    BY <1>1, <2>2 DEF Bare, IoAccept, IoError, proc
  <2> QED BY <1>9, <2>1, <2>2 DEF SIoStep, Bare
<1>10. ASSUME NEW c \in Clients, SReset(c) \/ Bare(ClientStep(c))
       PROVE  [Frames!FNext]_(Frames!fvars)
  BY <1>1, <1>10 DEF SReset, Bare, Reset, ClientStep, proc
<1>11. CASE UNCHANGED svars
  BY <1>1, <1>11 DEF svars, vars, proc
<1> QED
  BY <1>4, <1>5, <1>6, <1>7, <1>8, <1>9, <1>10, <1>11 DEF SNext
-----------------------------------------------------------------------------
(* The servers.                                                            *)

\* Where main() is says what its thread is in, and the flag it saw is still set.
MainInv ==
    /\ pc \in Stages
    /\ up <=> pc \in {"loop", "poll", "send"}
    /\ call \in [Servers -> {"idle", "send", "flag", "close", "arm"}]
    /\ has_connection \in [Servers -> BOOLEAN]
    /\ pc # "send" => call[data] = "idle"
    /\ pc = "poll" => has_connection[data]

\* The step of the servers that a step of the program is.
LEMMA TcpStep == MainInv /\ [SNext]_svars => [Tcp!Next]_(Tcp!vars)
<1> SUFFICES ASSUME MainInv, [SNext]_svars PROVE [Tcp!Next]_(Tcp!vars)
  OBVIOUS
<1>0. data \in Servers /\ Servers = {data, config}
  BY DEF Servers
<1>1. ASSUME UNCHANGED tcpVars PROVE UNCHANGED Tcp!vars
  BY <1>1 DEF tcpVars, Tcp!vars
<1>2. ASSUME SendImage PROVE Tcp!SendCall(data)
  BY <1>2 DEF SendImage, MainInv, Tcp!SendCall
<1>3. ASSUME NEW s \in Servers, Tcp!OwnerStep(s) \/ Tcp!IoStep(s) \/ Tcp!AcceptError(s) PROVE Tcp!Next
  BY <1>0, <1>3 DEF Tcp!Next
<1>4. ASSUME NEW c \in Clients, Tcp!Connect(c) \/ Tcp!Fin(c) \/ Tcp!Rst(c) \/ Tcp!RstArrives(c)
      PROVE  Tcp!Next
  BY <1>4 DEF Tcp!Next
<1>5. CASE SMainStep
  <2>1. CASE SMoveOn
    BY <1>1, <2>1 DEF SMoveOn, MoveOn
  <2>2. CASE SendReturnsImage
    BY <1>0, <1>3, <2>2 DEF SendReturnsImage, SendReturns, Tcp!OwnerStep
  <2>3. CASE Bare(SeeClient \/ NoImage \/ SendImage \/ AcceptAgain)
    BY <1>0, <1>1, <1>2, <1>3, <2>3 DEF Bare, SeeClient, NoImage, AcceptAgain, Tcp!OwnerStep
  <2> QED BY <1>5, <2>1, <2>2, <2>3 DEF SMainStep
<1>6. CASE Bare(StartServers \/ StartFails \/ MainThrows \/ Killed)
  BY <1>1, <1>6 DEF Bare, StartServers, StartFails, MainThrows, Killed, Tcp!Next
<1>7. ASSUME NEW s \in Servers, SIoStep(s) \/ Bare(IoError(s)) PROVE Tcp!Next
  BY <1>3, <1>7 DEF SIoStep, Bare, IoAccept, IoThrows, IoError, Tcp!IoStep
<1>8. ASSUME NEW c \in Clients, SReset(c) \/ Bare(ClientStep(c)) PROVE Tcp!Next
  BY <1>4, <1>8 DEF SReset, Bare, Reset, ClientStep
<1>9. CASE SMakeCamera \/ SPowerOn \/ SFpga \/ UNCHANGED svars
  BY <1>1, <1>9 DEF SMakeCamera, SPowerOn, MakeCamera, PowerOn, SFpga, Fpga, svars, vars
<1> QED BY <1>5, <1>6, <1>7, <1>8, <1>9 DEF SNext

\* main() has not begun, and no call is under way.
LEMMA InitMainInv == SInit => MainInv
<1> SUFFICES ASSUME SInit PROVE MainInv
  OBVIOUS
<1>1. has_connection = [s \in Servers |-> FALSE] /\ call = [s \in Servers |-> "idle"]
  BY DEF SInit, Init, Tcp!Init, Tcp!AllServers, Servers
<1>2. has_connection \in [Servers -> BOOLEAN]
  BY <1>1, Zenon
<1>3. up = FALSE /\ pc = "down"
  BY DEF SInit, Init, Tcp!Init
<1> QED BY <1>1, <1>2, <1>3 DEF MainInv, Servers, Stages

\* No step parts the counter of main() from its call of the server.
LEMMA NextMainInv == MainInv /\ [SNext]_svars => MainInv'
<1> SUFFICES ASSUME MainInv, [SNext]_svars PROVE MainInv'
  OBVIOUS
<1> USE DEF Stages
<1>0. data \in Servers /\ Servers = {data, config}
  BY DEF Servers
<1>1. ASSUME Tcp!ProcessEnds, pc' = "down" PROVE MainInv'
  <2>1. has_connection' = [s \in Servers |-> FALSE] /\ call' = [s \in Servers |-> "idle"] /\ up' = FALSE
    BY <1>1 DEF Tcp!ProcessEnds, Tcp!AllServers, Servers
  <2>2. has_connection' \in [Servers -> BOOLEAN]
    BY <2>1, Zenon
  <2> QED BY <1>0, <1>1, <2>1, <2>2 DEF MainInv
<1>2. CASE SMainStep
  <2>1. CASE SMoveOn
    BY <2>1 DEF SMoveOn, MoveOn, tcpVars, MainInv
  <2>2. CASE SendReturnsImage
    BY <1>0, <2>2 DEF SendReturnsImage, SendReturns, Tcp!SendOk, Tcp!SendThrows, ringVars, MainInv
  <2>3. CASE SeeClient
    BY <2>3 DEF SeeClient, ringVars, tcpVars, MainInv
  <2>4. CASE NoImage
    BY <2>4 DEF NoImage, ringVars, tcpVars, MainInv
  <2>5. CASE SendImage
    BY <1>0, <2>5 DEF SendImage, MainInv
  <2>6. CASE AcceptAgain
    <3>1. /\ pc = "send" /\ UNCHANGED <<up, pc>>
          /\ has_connection' \in [Servers -> BOOLEAN]
          /\ call' \in [Servers -> {"idle", "send", "flag", "close", "arm"}]
      <4>1. CASE Tcp!ClearFlag(data)
        <5>1. has_connection' = [has_connection EXCEPT ![data] = FALSE]
          BY <4>1 DEF Tcp!ClearFlag
        <5>2. has_connection' \in [Servers -> BOOLEAN]
          BY <5>1, Zenon DEF MainInv
        <5> QED BY <2>6, <4>1, <5>2 DEF AcceptAgain, Tcp!ClearFlag, ringVars, MainInv
      <4>2. CASE Tcp!Close(data) \/ Tcp!Arm(data)
        BY <2>6, <4>2 DEF AcceptAgain, Tcp!Close, Tcp!Arm, ringVars, MainInv
      <4> QED BY <2>6, <4>1, <4>2 DEF AcceptAgain, Tcp!AcceptConnection
    <3> QED BY <3>1 DEF MainInv
  <2> QED BY <1>2, <2>1, <2>2, <2>3, <2>4, <2>5, <2>6 DEF SMainStep, Bare
<1>3. CASE Bare(StartServers \/ StartFails \/ MainThrows \/ Killed)
  <2>1. CASE StartServers
    BY <1>0, <2>1 DEF StartServers, Tcp!Start, ringVars, MainInv
  <2>2. CASE StartFails
    BY <2>2 DEF StartFails, tcpVars, MainInv
  <2>3. CASE MainThrows
    BY <1>1, <2>3 DEF MainThrows, Tcp!Stop
  <2>4. CASE Killed /\ up
    BY <1>1, <2>4 DEF Killed, Tcp!Stop
  <2>5. CASE Killed /\ ~up
    BY <2>5 DEF Killed, tcpVars, MainInv
  <2> QED BY <1>3, <2>1, <2>2, <2>3, <2>4, <2>5 DEF Bare
<1>4. ASSUME NEW s \in Servers, SIoStep(s) \/ Bare(IoError(s)) PROVE MainInv'
  <2>1. CASE IoThrows(s)
    BY <1>1, <2>1 DEF IoThrows, Tcp!HandleAcceptThrows
  <2>2. CASE IoAccept(s) /\ Tcp!HandleAccept(s)
    <3>1. /\ UNCHANGED <<up, pc, call>>
          /\ has_connection' = [has_connection EXCEPT ![s] = TRUE]
      BY <2>2 DEF IoAccept, Tcp!HandleAccept, ringVars
    <3>2. has_connection' \in [Servers -> BOOLEAN]
      BY <3>1, Zenon DEF MainInv
    <3>3. has_connection[data] => has_connection'[data]
      BY <1>0, <3>1 DEF MainInv
    <3> QED BY <3>1, <3>2, <3>3 DEF MainInv
  <2>3. CASE (IoAccept(s) /\ Tcp!AcceptDone(s)) \/ IoError(s)
    BY <2>3 DEF IoAccept, IoError, Tcp!AcceptDone, Tcp!AcceptError, ringVars, MainInv
  <2> QED BY <1>4, <2>1, <2>2, <2>3 DEF SIoStep, Bare, IoAccept
<1>5. ASSUME NEW c \in Clients, SReset(c) \/ Bare(ClientStep(c)) PROVE MainInv'
  BY <1>5 DEF SReset, Bare, Reset, ClientStep, Tcp!RstArrives, Tcp!Connect, Tcp!Fin, Tcp!Rst,
              Tcp!server, ringVars, MainInv
<1>6. CASE SMakeCamera
  BY <1>6 DEF SMakeCamera, MakeCamera, tcpVars, MainInv
<1>7. CASE SPowerOn
  BY <1>7 DEF SPowerOn, PowerOn, tcpVars, MainInv
<1>8. CASE SFpga
  BY <1>8 DEF SFpga, Fpga, tcpVars, MainInv
<1>9. CASE UNCHANGED svars
  BY <1>9 DEF svars, vars, ringVars, tcpVars, MainInv
<1> QED BY <1>2, <1>3, <1>4, <1>5, <1>6, <1>7, <1>8, <1>9 DEF SNext

\* main() drives the two servers as TcpServer allows: between the test of has_connection()
\* and the send nothing makes the test stale, and a send never begins inside another call.
THEOREM DrivesTheServers == SSpec => TcpSpec
<1>1. SInit => Tcp!Init
  BY DEF SInit, Init
<1> QED BY <1>1, InitMainInv, NextMainInv, TcpStep, PTL DEF SSpec, TcpSpec, Tcp!Spec
-----------------------------------------------------------------------------
(* What is proved of the parts holds in the program.                       *)

\* The specifications of the parts are those that were proved about.
LEMMA SameRing == [Frames!FNext]_(Frames!fvars) => [RingP!FNext]_(RingP!fvars)
  BY DEF Frames!FNext, Frames!fvars, Frames!vars, Frames!frames, Frames!registers,
         Frames!FConstruct, Frames!Construct, Frames!MT9V034, Frames!NoneSent,
         Frames!FPowerOn, Frames!SwitchOn, Frames!power_on, Frames!FirstCapture,
         Frames!FBeginRead, Frames!BeginRead, Frames!newDataAvailable,
         Frames!FMovePointer, Frames!EndRead, Frames!movePointer, Frames!ImageSent,
         Frames!Published, Frames!NextSlot, Frames!addr, Frames!FPowerOff,
         Frames!SwitchOff, Frames!power_off, Frames!Powered, Frames!FCrash,
         Frames!Crash, Frames!FFpgaAdvance, Frames!FpgaAdvance, Frames!NextCapture,
         Frames!FpgaBlocked, Frames!NextStart, Frames!Capture,
         RingP!FNext, RingP!fvars, RingP!vars, RingP!frames, RingP!registers,
         RingP!FConstruct, RingP!Construct, RingP!MT9V034, RingP!NoneSent,
         RingP!FPowerOn, RingP!SwitchOn, RingP!power_on, RingP!FirstCapture,
         RingP!FBeginRead, RingP!BeginRead, RingP!newDataAvailable, RingP!FMovePointer,
         RingP!EndRead, RingP!movePointer, RingP!ImageSent, RingP!Published,
         RingP!NextSlot, RingP!addr, RingP!FPowerOff, RingP!SwitchOff, RingP!power_off,
         RingP!Powered, RingP!FCrash, RingP!Crash, RingP!FFpgaAdvance,
         RingP!FpgaAdvance, RingP!NextCapture, RingP!FpgaBlocked, RingP!NextStart,
         RingP!Capture

\* The ring's invariant, taken over from its own proof.
LEMMA RingHolds ==
    /\ SInit => RingP!FInv
    /\ MainInv /\ RingP!FInv /\ [SNext]_svars => RingP!FInv'
<1>1. SInit => RingP!FInit
  BY DEF SInit, Init, Frames!FInit, Frames!Init, Frames!Slots, RingP!FInit, RingP!Init, RingP!Slots
<1>2. RingP!FInit => RingP!FInv
  BY RingP!InitFInv, ServerAssumption, FramesAssumption
<1>3. RingP!FInv /\ [RingP!FNext]_(RingP!fvars) => RingP!FInv'
  BY RingP!NextFInv, ServerAssumption, FramesAssumption
<1> QED BY <1>1, <1>2, <1>3, FramesStep, SameRing DEF MainInv

\* The two instances of TcpServer take the same steps.
LEMMA SameServers == [Tcp!Next]_(Tcp!vars) => [TcpP!Next]_(TcpP!vars)
  BY DEF Tcp!Next, Tcp!vars, Tcp!server, Tcp!Start, Tcp!Stop, Tcp!ProcessEnds, Tcp!AllServers,
         Tcp!Connect, Tcp!Fin, Tcp!Rst, Tcp!RstArrives, Tcp!IoStep, Tcp!AcceptDone,
         Tcp!HandleAccept, Tcp!HandleAcceptThrows, Tcp!RemoteEndpointThrows, Tcp!AcceptError,
         Tcp!OwnerStep, Tcp!SendCall, Tcp!SendOk, Tcp!SendThrows, Tcp!SendThrowsNow,
         Tcp!AcceptConnection, Tcp!ClearFlag, Tcp!Close, Tcp!Arm,
         TcpP!Next, TcpP!vars, TcpP!server, TcpP!Start, TcpP!Stop, TcpP!ProcessEnds, TcpP!AllServers,
         TcpP!Connect, TcpP!Fin, TcpP!Rst, TcpP!RstArrives, TcpP!IoStep, TcpP!AcceptDone,
         TcpP!HandleAccept, TcpP!HandleAcceptThrows, TcpP!RemoteEndpointThrows, TcpP!AcceptError,
         TcpP!OwnerStep, TcpP!SendCall, TcpP!SendOk, TcpP!SendThrows, TcpP!SendThrowsNow,
         TcpP!AcceptConnection, TcpP!ClearFlag, TcpP!Close, TcpP!Arm

\* The servers' invariant, taken over from its own proof.
LEMMA ServersHold ==
    /\ SInit => TcpP!TInv
    /\ MainInv /\ TcpP!TInv /\ [SNext]_svars => TcpP!TInv'
<1> DEFINE order == [send |-> "flag", flag |-> "close", close |-> "arm", arm |-> "idle"]
<1>0. order = TcpP!VisensorOrder /\ order \in [TcpP!Statements \cup {"send"} -> TcpP!Statements \cup {"idle"}]
  BY DEF TcpP!VisensorOrder, TcpP!Statements
<1>1. SInit => TcpP!Init
  BY DEF SInit, Init, Tcp!Init, Tcp!AllServers, TcpP!Init, TcpP!AllServers
<1>2. TcpP!Init => TcpP!TInv
  BY <1>0, TcpP!InitTInv, ServerAssumption
<1>3. ASSUME TcpP!TInv, [TcpP!Next]_(TcpP!vars) PROVE TcpP!TInv'
  <2>1. TcpP!TypeOK'
    BY <1>0, <1>3, TcpP!NextTypeOK, ServerAssumption
  <2>2. \A t \in {data, config} : TcpP!ServerInv(t)'
    BY <1>0, <1>3, TcpP!NextServerInv, ServerAssumption
  <2> QED BY <2>1, <2>2 DEF TcpP!TInv
<1> QED BY <1>1, <1>2, <1>3, TcpStep, SameServers
-----------------------------------------------------------------------------
(* What a client receives.                                                 *)

\* Only the client of the data port's socket_ has received images, and the last of them is
\* the one that was sent last, or the one in the reader's slot until movePointer().
StreamInv ==
    /\ got \in [Clients -> Nat]
    /\ \A c \in Clients : got[c] # 0 =>
         /\ sock[data] = c
         /\ IF pc = "send" /\ call[data] = "idle"
              THEN Ring!Published /\ got[c] = mem[position]
              ELSE got[c] = out

SystemInv == MainInv /\ TcpP!TInv /\ RingP!FInv /\ StreamInv

\* What the parts' invariants say here.
LEMMA RingFacts ==
    ASSUME RingP!FInv
    PROVE  /\ mem[position] \in Nat
           /\ Ring!Powered /\ out # 0 => Ring!Published /\ mem[position] = out + 1
<1>1. mem[position] \in Nat
  BY DEF RingP!FInv, RingP!FTypeOK, RingP!TypeOK
<1>2. Ring!Published <=> RingP!Published
  BY DEF Ring!Published, Ring!addr, RingP!Published, RingP!addr
<1>3. Ring!Powered <=> RingP!Powered
  BY DEF Ring!Powered, RingP!Powered
<1>4. RingP!Powered /\ out # 0 => RingP!Published /\ mem[position] = out + 1
  BY RingP!ReadsNext, ServerAssumption, FramesAssumption
<1> QED BY <1>1, <1>2, <1>3, <1>4

\* The image under way stays in its slot.
LEMMA SlotStable ==
    ASSUME MainInv, RingP!FInv, [SNext]_svars, pc = "send", Ring!Published
    PROVE  mem'[position] = mem[position]
<1>1. RingP!Published /\ RingP!reading
  BY DEF Ring!Published, Ring!addr, RingP!Published, RingP!addr, RingP!reading, proc
<1>2. [RingP!FNext]_(RingP!fvars)
  BY FramesStep, SameRing DEF MainInv
<1> QED BY <1>1, <1>2, RingP!StableStep, ServerAssumption, FramesAssumption

\* What the servers' invariant says of the data port's socket.
LEMMA SocketFacts ==
    ASSUME TcpP!TInv
    PROVE  /\ sock \in [Servers -> Clients \cup {NoOne}]
           /\ ~up => sock[data] = NoOne
           /\ \A s \in Servers : accepting[s] = "armed" => sock[s] = NoOne
           /\ call[data] = "arm" => sock[data] = NoOne
  BY DEF TcpP!TInv, TcpP!TypeOK, TcpP!ServerInv, Servers

\* What the end of a connection does.
LEMMA ForgetFacts ==
    ASSUME StreamInv, Forget
    PROVE  got' \in [Clients -> Nat] /\ \A c \in Clients : got'[c] \in {0, got[c]}
  BY DEF StreamInv, Forget

\* While nobody is connected to the data port nobody has received anything.
LEMMA NobodyServed ==
    ASSUME StreamInv, sock[data] = NoOne, Forget \/ UNCHANGED got
    PROVE  StreamInv' /\ \A c \in Clients : got'[c] = got[c]
<1>1. \A c \in Clients : got[c] = 0
  BY ServerAssumption DEF StreamInv
<1>2. got' \in [Clients -> Nat] /\ \A c \in Clients : got'[c] = 0
  BY <1>1, ForgetFacts DEF StreamInv
<1> QED BY <1>1, <1>2 DEF StreamInv

\* A step that leaves the image, the socket and the phase of the send alone.
LEMMA StreamUntouched ==
    ASSUME StreamInv, Forget \/ UNCHANGED got, UNCHANGED <<mem, position, linuxPtr, out>>,
           sock'[data] = sock[data],
           (pc' = "send" /\ call'[data] = "idle") <=> (pc = "send" /\ call[data] = "idle")
    PROVE  StreamInv'
<1>1. got' \in [Clients -> Nat] /\ \A c \in Clients : got'[c] \in {0, got[c]}
  BY ForgetFacts DEF StreamInv
<1>2. Ring!Published' <=> Ring!Published
  BY DEF Ring!Published
<1> QED BY <1>1, <1>2 DEF StreamInv

\* send_data() returns: the client has one image more.
LEMMA SendStreamInv ==
    ASSUME SystemInv, SendReturnsImage
    PROVE  /\ StreamInv'
           /\ \A c \in Clients : got[c] # 0 /\ got'[c] # got[c] => got'[c] = got[c] + 1
<1>a. data \in Servers /\ call \in [Servers -> {"idle", "send", "flag", "close", "arm"}]
  BY DEF SystemInv, MainInv, Servers
<1>0. /\ pc = "send" /\ pc' = pc /\ call[data] = "send" /\ sock' = sock
      /\ UNCHANGED <<mem, position, linuxPtr, out>>
      /\ got' = IF call'[data] = "idle" /\ Ring!Published
                  THEN [got EXCEPT ![sock[data]] = mem[position]] ELSE got
  BY DEF SendReturnsImage, SendReturns, Tcp!SendOk, Tcp!SendThrows, ringVars, frameVars
<1>1. Ring!Powered
  BY <1>0 DEF proc, Ring!Powered
<1>2. /\ got \in [Clients -> Nat]
      /\ \A c \in Clients : got[c] # 0 =>
           sock[data] = c /\ Ring!Published /\ mem[position] = got[c] + 1 /\ got[c] = out
  BY <1>0, <1>1, RingFacts DEF SystemInv, StreamInv
<1>3. Ring!Published' <=> Ring!Published
  BY <1>0 DEF Ring!Published
<1>4. CASE Tcp!SendThrows(data)
  <2>1. call'[data] = "flag"
    BY <1>a, <1>4 DEF Tcp!SendThrows
  <2> QED BY <1>0, <1>2, <2>1 DEF StreamInv
<1>5. CASE Tcp!SendOk(data)
  <2>1. call'[data] = "idle"
    BY <1>a, <1>5 DEF Tcp!SendOk
  <2>2. sock[data] \in Clients
    <3>1. sock[data] # NoOne
      BY <1>5 DEF Tcp!SendOk, Tcp!SendThrowsNow
    <3> QED BY <1>a, <3>1, SocketFacts DEF SystemInv
  <2>3. mem[position] \in Nat
    BY RingFacts DEF SystemInv
  <2>4. CASE Ring!Published
    BY <1>0, <1>2, <1>3, <2>1, <2>2, <2>3, <2>4 DEF StreamInv
  <2>5. CASE ~Ring!Published
    BY <1>0, <1>2, <2>5 DEF StreamInv
  <2> QED BY <2>4, <2>5
<1> QED BY <1>4, <1>5 DEF SendReturnsImage, SendReturns

\* Every step keeps the clients' images in line, and changes them as the stream should.
LEMMA NextStreamInv ==
    ASSUME SystemInv, [SNext]_svars
    PROVE  /\ StreamInv'
           /\ \A c \in Clients : got[c] # 0 /\ got'[c] # got[c] => got'[c] \in {0, got[c] + 1}
<1> DEFINE Goal == /\ StreamInv'
                   /\ \A c \in Clients : got[c] # 0 /\ got'[c] # got[c] => got'[c] \in {0, got[c] + 1}
<1> SUFFICES Goal
  OBVIOUS
<1> HIDE DEF Goal
<1>0. /\ StreamInv /\ MainInv /\ RingP!FInv /\ data \in Servers
      /\ sock \in [Servers -> Clients \cup {NoOne}]
      /\ ~up => sock[data] = NoOne
      /\ \A s \in Servers : accepting[s] = "armed" => sock[s] = NoOne
      /\ call[data] = "arm" => sock[data] = NoOne
  BY SocketFacts DEF SystemInv, Servers
<1>1. ASSUME StreamInv', Forget \/ UNCHANGED got PROVE Goal
  BY <1>0, <1>1, ForgetFacts DEF Goal
<1>2. ASSUME ~up, Forget \/ UNCHANGED got PROVE Goal
  BY <1>0, <1>1, <1>2, NobodyServed
<1>3. ASSUME Tcp!ProcessEnds, Forget PROVE Goal
  <2>1. \A c \in Clients : got'[c] = 0
    BY <1>3 DEF Tcp!ProcessEnds, Forget
  <2>2. StreamInv'
    BY <1>0, <1>3, <2>1, ForgetFacts DEF StreamInv
  <2> QED BY <1>1, <1>3, <2>2
<1>4. CASE SMainStep
  <2>1. CASE SMoveOn
    <3>1. /\ pc = "send" /\ call[data] = "idle" /\ pc' = "loop" /\ sock' = sock /\ got' = got
          /\ out' = IF Ring!Published THEN mem[position] ELSE 0
      BY <2>1 DEF SMoveOn, MoveOn, tcpVars, Frames!ImageSent, Frames!Published, Frames!addr,
                  Ring!Published, Ring!addr
    <3>2. StreamInv'
      BY <1>0, <3>1 DEF StreamInv
    <3> QED BY <1>1, <3>1, <3>2
  <2>2. CASE SendReturnsImage
    BY <2>2, SendStreamInv DEF Goal
  <2>3. CASE Bare(SeeClient \/ NoImage)
    <3>1. StreamInv'
      BY <1>0, <2>3, StreamUntouched
         DEF Bare, SeeClient, NoImage, ringVars, tcpVars, frameVars
    <3> QED BY <1>1, <2>3, <3>1 DEF Bare
  <2>4. CASE Bare(SendImage)
    <3>1. call'[data] = "send" /\ pc = "poll" /\ pc' = "send"
      BY <1>0, <2>4 DEF Bare, SendImage, MainInv
    <3>2. StreamInv'
      BY <1>0, <2>4, <3>1, StreamUntouched
         DEF Bare, SendImage, ringVars, frameVars
    <3> QED BY <1>1, <2>4, <3>2 DEF Bare
  <2>5. CASE Bare(AcceptAgain)
    <3>1. CASE Tcp!ClearFlag(data)
      <4>1. call[data] = "flag" /\ call'[data] = "close"
        BY <1>0, <3>1 DEF Tcp!ClearFlag, MainInv
      <4>2. StreamInv'
        BY <1>0, <2>5, <3>1, <4>1, StreamUntouched
           DEF Bare, AcceptAgain, Tcp!ClearFlag, ringVars, frameVars
      <4> QED BY <1>1, <2>5, <4>2 DEF Bare
    <3>2. CASE Tcp!Close(data)
      <4>1. \A c \in Clients : got'[c] = 0
        BY <1>0, <2>5, <3>2 DEF Bare, Forget, Tcp!Close, StreamInv
      <4>2. StreamInv'
        BY <1>0, <2>5, <4>1, ForgetFacts DEF Bare, StreamInv
      <4> QED BY <1>1, <2>5, <4>2 DEF Bare
    <3>3. CASE Tcp!Arm(data)
      <4>1. StreamInv'
        BY <1>0, <2>5, <3>3, NobodyServed DEF Bare, Tcp!Arm
      <4> QED BY <1>1, <2>5, <4>1 DEF Bare
    <3> QED BY <2>5, <3>1, <3>2, <3>3 DEF Bare, AcceptAgain, Tcp!AcceptConnection
  <2> QED BY <1>4, <2>1, <2>2, <2>3, <2>4, <2>5 DEF SMainStep, Bare
<1>5. CASE Bare(StartServers \/ StartFails \/ MainThrows \/ Killed)
  <2>1. CASE StartServers \/ StartFails
    BY <1>0, <1>2, <1>5, <2>1 DEF Bare, StartServers, StartFails, Tcp!Start, MainInv
  <2>2. CASE MainThrows \/ Killed
    BY <1>2, <1>3, <1>5, <2>2 DEF Bare, MainThrows, Killed, Tcp!Stop
  <2> QED BY <1>5, <2>1, <2>2 DEF Bare
<1>6. ASSUME NEW s \in Servers, SIoStep(s) \/ Bare(IoError(s)) PROVE Goal
  <2>1. CASE IoThrows(s)
    BY <1>3, <1>6, <2>1 DEF SIoStep, Bare, IoThrows, IoError, Tcp!HandleAcceptThrows
  <2>2. CASE IoAccept(s) /\ Tcp!AcceptDone(s)
    <3>1. Forget /\ accepting[s] = "armed" /\ sock' = [sock EXCEPT ![s] = Head(backlog[s])]
          /\ UNCHANGED <<call, ringVars, frameVars, pc>>
      BY <1>6, <2>2 DEF SIoStep, Bare, IoAccept, Tcp!AcceptDone
    <3>2. CASE s = data
      BY <1>0, <1>1, <3>1, <3>2, NobodyServed
    <3>3. CASE s # data
      <4>1. sock'[data] = sock[data]
        BY <1>0, <3>1, <3>3
      <4>2. StreamInv'
        BY <1>0, <3>1, <4>1, StreamUntouched DEF ringVars, frameVars
      <4> QED BY <1>1, <3>1, <4>2
    <3> QED BY <3>2, <3>3
  <2>3. CASE (IoAccept(s) /\ Tcp!HandleAccept(s)) \/ IoError(s)
    <3>1. Forget /\ UNCHANGED <<sock, call, ringVars, frameVars, pc>>
      BY <1>6, <2>3 DEF SIoStep, Bare, IoAccept, IoError, Tcp!HandleAccept, Tcp!AcceptError
    <3>2. StreamInv'
      BY <1>0, <3>1, StreamUntouched DEF ringVars, frameVars
    <3> QED BY <1>1, <3>1, <3>2
  <2> QED BY <1>6, <2>1, <2>2, <2>3 DEF SIoStep, Bare, IoAccept
<1>7. ASSUME NEW c \in Clients, SReset(c) \/ Bare(ClientStep(c)) PROVE Goal
  <2>1. Forget /\ UNCHANGED <<sock, call, ringVars, frameVars, pc>>
    BY <1>7 DEF SReset, Bare, Reset, ClientStep, Tcp!RstArrives, Tcp!Connect, Tcp!Fin, Tcp!Rst,
                Tcp!server
  <2>2. StreamInv'
    BY <1>0, <2>1, StreamUntouched DEF ringVars, frameVars
  <2> QED BY <1>1, <2>1, <2>2
<1>8. CASE SMakeCamera \/ SPowerOn
  <2>1. ~up /\ UNCHANGED got
    BY <1>0, <1>8 DEF SMakeCamera, SPowerOn, MakeCamera, PowerOn, MainInv
  <2> QED BY <1>2, <2>1
<1>9. CASE SFpga
  <2>1. UNCHANGED <<position, linuxPtr, out, got, sock, call, pc>>
    BY <1>9 DEF SFpga, Fpga, Ring!FpgaAdvance, Frames!NextCapture, tcpVars
  <2>2. Ring!Published' <=> Ring!Published
    BY <2>1 DEF Ring!Published
  <2>3. pc = "send" /\ Ring!Published => mem'[position] = mem[position]
    BY <1>0, SlotStable
  <2>4. StreamInv'
    BY <1>0, <2>1, <2>2, <2>3 DEF StreamInv
  <2> QED BY <1>1, <2>1, <2>4
<1>10. CASE UNCHANGED svars
  <2>1. StreamInv'
    BY <1>0, <1>10, StreamUntouched DEF svars, vars, ringVars, tcpVars, frameVars
  <2> QED BY <1>1, <1>10, <2>1 DEF svars
<1> QED BY <1>4, <1>5, <1>6, <1>7, <1>8, <1>9, <1>10 DEF SNext

\* The invariant of the composition holds always.
LEMMA SystemInvariance == SSpec => []SystemInv
<1>1. SInit => SystemInv
  <2>1. SInit => StreamInv
    BY DEF SInit, StreamInv
  <2> QED BY <2>1, InitMainInv, ServersHold, RingHolds DEF SystemInv
<1>2. SystemInv /\ [SNext]_svars => SystemInv'
  BY NextMainInv, ServersHold, RingHolds, NextStreamInv DEF SystemInv
<1> QED BY <1>1, <1>2, PTL DEF SSpec

\* What one client receives has no gap, no repetition and no image out of order, for every
\* ring, every set of clients and every order of sends, images, resets and restarts.
THEOREM StreamAlwaysGapFree == SSpec => StreamGapFree
<1>1. SystemInv /\ [SNext]_svars =>
        \A c \in Clients : got[c] # 0 /\ got'[c] # got[c] => got'[c] \in {0, got[c] + 1}
  BY NextStreamInv
<1> QED BY <1>1, SystemInvariance, PTL DEF SSpec, StreamGapFree

\* What main() does with the ring, seen from outside, is what the lossless queue of
\* Length - 1 images does, for every ring and every set of clients.
THEOREM ProgramIsQueue == SSpec => DeliversLossless
<1>1. SInit => ImageQueue!Init
  BY DEF SInit, Frames!FInit, Frames!Init, Frames!Published, ImageQueue!Init
<1>2. SystemInv /\ [SNext]_svars => [ImageQueue!Next]_(ImageQueue!qvars)
  <2> SUFFICES ASSUME SystemInv, [SNext]_svars PROVE [ImageQueue!Next]_(ImageQueue!qvars)
    OBVIOUS
  <2>1. [RingP!FNext]_(RingP!fvars)
    BY FramesStep, SameRing DEF SystemInv, MainInv
  <2>2. [RingP!Queue!Next]_(RingP!Queue!qvars)
    BY <2>1, RingP!StepIsQueueStep, ServerAssumption, FramesAssumption DEF SystemInv
  <2> QED
    BY <2>2 DEF ImageQueue!Next, ImageQueue!qvars, ImageQueue!Produce, ImageQueue!Sync,
                ImageQueue!Deliver, ImageQueue!Lose, RingP!Queue!Next, RingP!Queue!qvars,
                RingP!Queue!Produce, RingP!Queue!Sync, RingP!Queue!Deliver, RingP!Queue!Lose,
                Frames!Published, Frames!addr, Frames!Dist, RingP!Published, RingP!addr, RingP!Dist
<1> QED BY <1>1, <1>2, SystemInvariance, PTL DEF SSpec, DeliversLossless, ImageQueue!Spec

\* In the whole program, too, no protected image is overwritten while it is sent, and the
\* main thread and the io thread never meet on a socket.
THEOREM ProgramSafe == SSpec => [](Ring!NoTear /\ Tcp!SocketExclusive)
<1>1. RingP!FInv => Ring!NoTear
  BY DEF RingP!FInv, RingP!IInv, RingP!NoTear, RingP!reading, RingP!Published, RingP!addr,
         Ring!NoTear, Ring!reading, Ring!Published, Ring!addr
<1>2. TcpP!TInv => Tcp!SocketExclusive
  BY DEF TcpP!TInv, TcpP!TypeOK, TcpP!ServerInv, TcpP!Statements, Tcp!SocketExclusive
<1>3. SystemInv => Ring!NoTear /\ Tcp!SocketExclusive
  BY <1>1, <1>2 DEF SystemInv
<1> QED BY <1>3, SystemInvariance, PTL
=============================================================================
