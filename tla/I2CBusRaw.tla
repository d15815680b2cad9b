----------------------------- MODULE I2CBusRaw -----------------------------
(***************************************************************************)
(* Class I2CBusRaw: the camera's registers, reached through the TX and RX  *)
(* FIFO of an I2C controller, and MT9V034::power_on(), which makes the     *)
(* calls of Program one after the other and ignores what they return.      *)
(*                                                                         *)
(* writeReg() and readReg() poll the status register at most MaxPolls      *)
(* times and then go on, whatever they saw.  The controller and the camera *)
(* are external: the controller takes words from the TX FIFO in order,     *)
(* puts received bytes into the RX FIFO, and makes at least one step in    *)
(* every speed polls while it has work.  speed is chosen at the start.     *)
(***************************************************************************)
EXTENDS Naturals, Sequences

CONSTANTS MaxPolls,  \* polls of a status bit before the code goes on
          Speeds,    \* polls the controller may sleep while it has work
          Program,   \* the calls: <<"write", reg, value>> or <<"read", reg>>
          Registers, \* camera registers
          Junk       \* what an empty RX FIFO returns

ASSUME I2CAssumption ==
    MaxPolls \in Nat /\ Speeds \subseteq Nat \ {0} /\ Len(Program) \in Nat \ {0}

\* The 16 bits of a camera register: the int16_t data of the calls, read as unsigned.
Word == 0 .. 65535

ASSUME ProgramAssumption ==
    \A j \in 1 .. Len(Program) :
        /\ Program[j][2] \in Registers
        /\ Program[j][1] \in {"read", "write"}
        /\ Program[j][1] = "write" => Program[j][3] \in Word

ASSUME JunkAssumption == Junk \notin 0 .. 255

VARIABLES
    k,        \* the call being made
    pc,       \* the statement it is at
    i,        \* polls made in the present loop
    hi,       \* the first byte read
    results,  \* <<"ok", value>>, <<"ok">> or <<"fail">> of each call so far
    tx, rx,   \* the FIFOs
    bus,      \* the controller: "idle", or the bytes of its transaction so far
    recv,     \* bytes it still has to receive
    cam,      \* the camera's registers
    lag,      \* polls since the controller's last step
    speed     \* polls it may sleep

driver == <<k, pc, i, hi, results>>
chip == <<bus, recv, cam, speed>>
vars == <<driver, tx, rx, chip, lag>>

HIGHBYTE(v) == (v \div 256) % 256
LOWBYTE(v) == v % 256

Call == Program[k]
TxEmpty == tx = <<>>
RxEmpty == rx = <<>>
Busy == bus # <<>>
Working == ~TxEmpty \/ recv # <<>> \/ bus = <<"stop">>

\* I2CBusRaw(): the controller is reset; the camera has its power-up values, 0 here.
Init ==
    /\ k = 1 /\ pc = "call" /\ i = 0 /\ hi = Junk /\ results = <<>>
    /\ tx = <<>> /\ rx = <<>> /\ bus = <<>> /\ recv = <<>> /\ lag = 0 /\ speed \in Speeds
    /\ cam = [r \in Registers |-> 0]
-----------------------------------------------------------------------------
(* The driver.                                                             *)

Goto(label) == pc' = label /\ i' = 0
Push(words) == tx' = tx \o words

\* One poll of a status bit that does not have the awaited value, then a short sleep.
\* The controller gets its chance: it cannot sleep through more than speed polls.
Poll(loop, ready) ==
    /\ pc = loop /\ ~ready /\ i < MaxPolls
    /\ Working => lag < speed
    /\ i' = i + 1
    /\ lag' = IF Working THEN lag + 1 ELSE 0
    /\ UNCHANGED <<k, pc, hi, results, tx, rx, chip>>

\* The loop is left because the bit is set or because the polls are used up.
Leave(loop, ready, next) ==
    /\ pc = loop /\ (ready \/ i >= MaxPolls)
    /\ Goto(next)
    /\ UNCHANGED <<k, hi, results, tx, rx, chip, lag>>

\* Both functions first wait for an empty TX FIFO and for a free bus.
WaitTx == Poll("call", TxEmpty) \/ Leave("call", TxEmpty, "busy")
WaitFree == Poll("busy", ~Busy) \/ Leave("busy", ~Busy, "check")

Return(result) ==
    /\ results' = Append(results, result)
    /\ k' = k + 1
    /\ Goto(IF k = Len(Program) THEN "done" ELSE "call")

\* "I2C Bus failure": only the TX FIFO is looked at again.
Fail ==
    /\ pc = "check" /\ ~TxEmpty
    /\ Return(<<"fail">>)
    /\ UNCHANGED <<hi, tx, rx, chip, lag>>

\* Mutant: the second data byte goes without the stop bit.
WriteWordsNoStop(reg, v) ==
    <<<<"start", "w">>, <<"byte", reg>>, <<"byte", HIGHBYTE(v)>>, <<"byte", LOWBYTE(v)>>>>

\* The four words of a write: address with start bit, register, high byte, low byte with stop bit.
WriteWords(reg, v) ==
    <<<<"start", "w">>, <<"byte", reg>>, <<"byte", HIGHBYTE(v)>>, <<"last", LOWBYTE(v)>>>>

\* Mutant: the TX FIFO is not looked at again after the bounded waits.
WriteWordUnchecked ==
    /\ pc = "check" /\ Call[1] = "write"
    /\ Push(WriteWords(Call[2], Call[3]))
    /\ Return(<<"ok">>)
    /\ UNCHANGED <<hi, rx, chip, lag>>

\* writeReg() after its checks.
WriteWord ==
    /\ pc = "check" /\ TxEmpty /\ Call[1] = "write"
    /\ Push(WriteWords(Call[2], Call[3]))
    /\ Return(<<"ok">>)
    /\ UNCHANGED <<hi, rx, chip, lag>>

\* readReg() after its checks: the register address is written, then the transfer turned
\* round, with a bounded wait for the TX FIFO before each word.
ReadAddress ==
    /\ pc = "check" /\ TxEmpty /\ Call[1] = "read"
    /\ Push(<<<<"start", "w">>, <<"byte", Call[2]>>>>)
    /\ Goto("sent")
    /\ UNCHANGED <<k, hi, results, rx, chip, lag>>

WaitSent == Poll("sent", TxEmpty) \/ Leave("sent", TxEmpty, "turn")

ReadTurn ==
    /\ pc = "turn"
    /\ Push(<<<<"start", "r">>>>)
    /\ Goto("turned")
    /\ UNCHANGED <<k, hi, results, rx, chip, lag>>

WaitTurned == Poll("turned", TxEmpty) \/ Leave("turned", TxEmpty, "count")

ReadCount ==
    /\ pc = "count"
    /\ Push(<<<<"count", 2>>>>)
    /\ Goto("hi")
    /\ UNCHANGED <<k, hi, results, rx, chip, lag>>

\* Mutant: an unbounded wait for the second byte that goes back to the first one's.
WaitLoAgain == Poll("lo", ~RxEmpty) \/ Leave("lo", ~RxEmpty, IF RxEmpty THEN "hi" ELSE "getlo")

WaitHi == Poll("hi", ~RxEmpty) \/ Leave("hi", ~RxEmpty, "gethi")
WaitLo == Poll("lo", ~RxEmpty) \/ Leave("lo", ~RxEmpty, "getlo")

RxByte == IF RxEmpty THEN Junk ELSE Head(rx)
RxRest == IF RxEmpty THEN rx ELSE Tail(rx)

GetHi ==
    /\ pc = "gethi"
    /\ hi' = RxByte /\ rx' = RxRest
    /\ Goto("lo")
    /\ UNCHANGED <<k, results, tx, chip, lag>>

\* Mutant: the bytes are put together in the wrong order.
CombineSwapped(h, l) == IF Junk \in {h, l} THEN Junk ELSE h + l * 256

Combine(h, l) == IF Junk \in {h, l} THEN Junk ELSE l + h * 256

GetLo ==
    /\ pc = "getlo"
    /\ rx' = RxRest
    /\ Return(<<"ok", Combine(hi, RxByte)>>)
    /\ UNCHANGED <<hi, tx, chip, lag>>

\* power_on() is over and sets CONTROL, whatever the calls returned.
Done == pc = "done" /\ ~Working /\ UNCHANGED vars
-----------------------------------------------------------------------------
(* The controller and the camera (external).                               *)

\* A word of the TX FIFO goes over the bus.
ChipTx ==
    /\ ~TxEmpty /\ recv = <<>> /\ bus # <<"stop">>
    /\ tx' = Tail(tx) /\ lag' = 0
    /\ LET word == Head(tx) IN
         CASE word[1] = "start" ->
                /\ bus' = IF word[2] = "w" THEN <<"w">> ELSE Append(bus, "r")
                /\ UNCHANGED <<cam, recv>>
           [] word[1] = "byte" ->
                /\ bus' = Append(bus, word[2])
                /\ UNCHANGED <<cam, recv>>
           [] word[1] = "last" ->
                /\ cam' = [cam EXCEPT ![bus[2]] = bus[3] * 256 + word[2]]
                /\ bus' = <<"stop">>
                /\ UNCHANGED recv
           [] word[1] = "count" ->
                /\ recv' = <<HIGHBYTE(cam[bus[2]]), LOWBYTE(cam[bus[2]])>>
                /\ UNCHANGED <<cam, bus>>
    /\ UNCHANGED <<driver, rx, speed>>

\* A byte arrives; the last one is followed by the stop condition.
ChipRx ==
    /\ recv # <<>>
    /\ rx' = Append(rx, Head(recv)) /\ recv' = Tail(recv) /\ lag' = 0
    /\ bus' = IF Len(recv) = 1 THEN <<"stop">> ELSE bus
    /\ UNCHANGED <<driver, tx, cam, speed>>

ChipStop ==
    /\ bus = <<"stop">>
    /\ bus' = <<>> /\ lag' = 0
    /\ UNCHANGED <<driver, tx, rx, recv, cam, speed>>

Chip == ChipTx \/ ChipRx \/ ChipStop
Driver ==
    \/ WaitTx \/ WaitFree \/ Fail \/ WriteWord \/ ReadAddress \/ WaitSent \/ ReadTurn
    \/ WaitTurned \/ ReadCount \/ WaitHi \/ GetHi \/ WaitLo \/ GetLo

Next == Driver \/ Chip \/ Done

Spec == Init /\ [][Next]_vars
FairSpec == Spec /\ WF_vars(Driver) /\ WF_vars(Chip)
-----------------------------------------------------------------------------
TypeOK ==
    /\ k \in 1 .. Len(Program) + 1
    /\ i \in 0 .. MaxPolls /\ lag \in 0 .. speed
    /\ Len(results) = k - 1
    /\ cam \in [Registers -> Word]

\* The value of the last write to r that returned 0, among the first n calls.
LastWritten(r, n) ==
    LET W == {j \in 1 .. n : /\ Program[j][1] = "write" /\ Program[j][2] = r
                             /\ results[j][1] = "ok"}
    IN  IF W = {} THEN 0 ELSE Program[CHOOSE j \in W : \A l \in W : l <= j][3]

\* Whatever the polls saw, words reach the camera in whole transactions: once the
\* controller has nothing left to do and no call is under way, each register holds the
\* value of the last write to it that returned 0.
WritesExact ==
    pc \in {"call", "done"} /\ ~Working => \A r \in Registers : cam[r] = LastWritten(r, k - 1)

\* The TX FIFO never holds more than one call's words, although the waits of readReg() are
\* bounded: its depth of 16 is never exceeded.
TxBounded == Len(tx) <= 4

\* Two loops of polls last for the four words and the stop condition of a write, and one
\* loop for two steps of the controller.
FastEnough == 5 * speed <= 2 * MaxPolls

\* If the controller is fast enough for the polls, no call fails, a read returns what the
\* register holds, and it leaves the RX FIFO empty, so that the next read starts in step.
ReadsExact ==
    FastEnough =>
        /\ \A j \in 1 .. Len(results) :
             /\ results[j][1] = "ok"
             /\ Program[j][1] = "read" => results[j][2] = LastWritten(Program[j][2], j - 1)
        /\ pc = "call" => RxEmpty

\* power_on() comes to its end even with a controller that does not answer in time.
PowerOnEnds == <>(pc = "done" /\ ~Working)
=============================================================================
