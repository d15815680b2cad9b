--------------------------- MODULE I2CBusRawProofs ---------------------------
(***************************************************************************)
(* The camera gets what power_on() writes, and power_on() reads what the   *)
(* camera holds, for every program of calls, every number of polls and     *)
(* every controller that is fast enough for them.                          *)
(***************************************************************************)
EXTENDS I2CBusRaw, SequenceTheorems, TLAPS

\* The words of a read in the TX FIFO.
StartW == <<"start", "w">>
StartR == <<"start", "r">>
Count == <<"count", 2>>
ReadWords == {StartW, StartR, Count} \cup ({"byte"} \X Registers)

Waiting == {"call", "busy", "check"}
Reading == {"sent", "turn", "turned", "count", "hi", "gethi", "lo", "getlo"}
-----------------------------------------------------------------------------
(* Bytes and short sequences.                                              *)

\* The two bytes of a 16-bit value give it back.
LEMMA ByteFacts ==
    ASSUME NEW v \in Word
    PROVE  /\ HIGHBYTE(v) \in 0 .. 255 /\ LOWBYTE(v) \in 0 .. 255
           /\ HIGHBYTE(v) * 256 + LOWBYTE(v) = v /\ LOWBYTE(v) + HIGHBYTE(v) * 256 = v
  <1> DEFINE q == v \div 256
             m == v % 256
  <1>1. v \in Int /\ 0 <= v /\ v <= 65535
    BY DEF Word
  <1>2. q \in Int /\ m \in Int /\ 0 <= m /\ m <= 255 /\ v = 256 * q + m
    BY <1>1, SMT
  <1>3. 0 <= q /\ q <= 255
    <2> HIDE DEF q, m
    <2> QED
      BY <1>1, <1>2, SMT
  <1>4. q % 256 = q
    <2> HIDE DEF q
    <2> QED
      BY <1>2, <1>3, SMT
  <1>5. HIGHBYTE(v) = q /\ LOWBYTE(v) = m
    BY <1>4 DEF HIGHBYTE, LOWBYTE
  <1> HIDE DEF q, m
  <1> QED
    BY <1>2, <1>3, <1>5, SMT

\* Append on a sequence over any set.
LEMMA AppendFacts ==
    ASSUME NEW S, NEW s \in Seq(S), NEW x
    PROVE  /\ Append(s, x) \in Seq(S \cup {x})
           /\ Len(Append(s, x)) = Len(s) + 1
           /\ \A j \in 1 .. Len(s) : Append(s, x)[j] = s[j]
           /\ Append(s, x)[Len(s) + 1] = x
  <1>1. s \in Seq(S \cup {x}) /\ x \in S \cup {x}
    OBVIOUS
  <1> QED
    BY <1>1, AppendProperties

\* Append on the tuples the controller keeps.
LEMMA AppendTuples ==
    ASSUME NEW a, NEW b, NEW c
    PROVE  /\ Append(<<>>, a) = <<a>>
           /\ Append(<<a>>, b) = <<a, b>>
           /\ Append(<<a, b>>, c) = <<a, b, c>>
  <1> DEFINE S == {a, b, c}
  <1>1. Append(<<>>, a) = <<a>>
    OBVIOUS
  <1>2. Append(<<a>>, b) = <<a, b>>
    <2>1. <<a>> \in Seq(S) /\ <<a, b>> \in Seq(S) /\ Append(<<a>>, b) \in Seq(S)
      OBVIOUS
    <2>2. Len(<<a, b>>) = 2 /\ Len(Append(<<a>>, b)) = 2
      BY <2>1
    <2>3. \A j \in 1 .. 2 : <<a, b>>[j] = Append(<<a>>, b)[j]
      BY <2>1, AppendProperties
    <2> QED
      BY <2>1, <2>2, <2>3, SeqEqual
  <1>3. Append(<<a, b>>, c) = <<a, b, c>>
    <2>1. <<a, b>> \in Seq(S) /\ <<a, b, c>> \in Seq(S) /\ Append(<<a, b>>, c) \in Seq(S)
      OBVIOUS
    <2>2. Len(<<a, b, c>>) = 3 /\ Len(Append(<<a, b>>, c)) = 3
      BY <2>1
    <2>3. \A j \in 1 .. 3 : <<a, b, c>>[j] = Append(<<a, b>>, c)[j]
      BY <2>1, AppendProperties
    <2> QED
      BY <2>1, <2>2, <2>3, SeqEqual
  <1> QED
    BY <1>1, <1>2, <1>3
-----------------------------------------------------------------------------
(* The last write of a register, for given results.                        *)

GoodWrites(R, r, n) ==
    {j \in 1 .. n : Program[j][1] = "write" /\ Program[j][2] = r /\ R[j][1] = "ok"}

LastOf(G) == IF G = {} THEN 0 ELSE Program[CHOOSE j \in G : \A l \in G : l <= j][3]

LastIn(R, r, n) == LastOf(GoodWrites(R, r, n))

\* Only the results of the first n calls matter.
LEMMA LastInSame ==
    ASSUME NEW R, NEW Q, NEW r, NEW n \in Nat, \A j \in 1 .. n : R[j] = Q[j]
    PROVE  LastIn(R, r, n) = LastIn(Q, r, n)
  <1>1. GoodWrites(R, r, n) = GoodWrites(Q, r, n)
    BY DEF GoodWrites
  <1> QED
    BY <1>1 DEF LastIn

\* One more call: a write of r that returned 0 is the last one, any other call changes
\* nothing.
LEMMA LastInNext ==
    ASSUME NEW R, NEW r, NEW n \in Nat
    PROVE  LastIn(R, r, n + 1) =
               IF Program[n + 1][1] = "write" /\ Program[n + 1][2] = r /\ R[n + 1][1] = "ok"
               THEN Program[n + 1][3] ELSE LastIn(R, r, n)
  <1> DEFINE G == GoodWrites(R, r, n + 1)
  <1>1. CASE n + 1 \in G
    <2>1. \A l \in G : l <= n + 1
      BY DEF GoodWrites
    <2>2. \A j \in G : (\A l \in G : l <= j) => j = n + 1
      BY <1>1, <2>1 DEF GoodWrites
    <2>3. (CHOOSE j \in G : \A l \in G : l <= j) = n + 1
      BY <1>1, <2>1, <2>2
    <2>4. LastIn(R, r, n + 1) = Program[n + 1][3]
      BY <1>1, <2>3 DEF LastIn, LastOf
    <2>5. Program[n + 1][1] = "write" /\ Program[n + 1][2] = r /\ R[n + 1][1] = "ok"
      BY <1>1 DEF GoodWrites
    <2> QED
      BY <2>4, <2>5
  <1>2. CASE n + 1 \notin G
    <2>1. G = GoodWrites(R, r, n)
      BY <1>2 DEF GoodWrites
    <2>2. ~(Program[n + 1][1] = "write" /\ Program[n + 1][2] = r /\ R[n + 1][1] = "ok")
      BY <1>2 DEF GoodWrites
    <2> QED
      BY <2>1, <2>2 DEF LastIn
  <1> QED
    BY <1>1, <1>2
-----------------------------------------------------------------------------
(* Writes.                                                                 *)

\* results and the present call.
CallInv ==
    /\ pc \in Waiting \cup Reading \cup {"done"}
    /\ k \in Nat \ {0} /\ (pc # "done" => k <= Len(Program))
    /\ pc \in Reading => Program[k][1] = "read"
    /\ \E S : results \in Seq(S)
    /\ Len(results) = k - 1

\* Polls, the controller's sleep and the camera.
PollInv ==
    /\ i \in 0 .. MaxPolls
    /\ speed \in Nat \ {0} /\ lag \in 0 .. speed
    /\ cam \in [Registers -> Word]

\* What the register r of the camera holds once the words on their way have reached it.
Due(r) == LastIn(results, r, k - 1)

\* The controller is in the middle of writing v to reg.
Writing(reg, v) ==
    \/ tx = WriteWords(reg, v)
    \/ /\ tx = <<<<"byte", reg>>, <<"byte", HIGHBYTE(v)>>, <<"last", LOWBYTE(v)>>>>
       /\ bus = <<"w">> /\ recv = <<>>
    \/ /\ tx = <<<<"byte", HIGHBYTE(v)>>, <<"last", LOWBYTE(v)>>>>
       /\ bus = <<"w", reg>> /\ recv = <<>>
    \/ /\ tx = <<<<"last", LOWBYTE(v)>>>>
       /\ bus = <<"w", reg, HIGHBYTE(v)>> /\ recv = <<>>

\* A write is under way, and with it the camera will hold what it should.
OneWrite ==
    /\ pc \notin Reading
    /\ \E reg \in Registers, v \in Word :
         /\ Writing(reg, v)
         /\ \A r \in Registers : Due(r) = IF r = reg THEN v ELSE cam[r]

TxRoom == IF pc \in {"sent", "turn"} THEN 2 ELSE IF pc \in {"turned", "count"} THEN 3 ELSE 4

\* No write is under way, and the camera holds what it should.
NoWrite ==
    /\ tx \in Seq(ReadWords) /\ Len(tx) <= TxRoom
    /\ \A r \in Registers : cam[r] = Due(r)

WInv == CallInv /\ PollInv /\ (OneWrite \/ NoWrite)

\* The calls of the program.
LEMMA Calls ==
    ASSUME NEW j \in 1 .. Len(Program)
    PROVE  /\ Program[j][2] \in Registers /\ Program[j][1] \in {"read", "write"}
           /\ Program[j][1] = "write" => Program[j][3] \in Word
  BY ProgramAssumption, Zenon

\* The invariant holds at the start.
LEMMA WInitially == ASSUME Init PROVE WInv
  <1>1. <<>> \in Seq({}) /\ <<>> \in Seq(ReadWords) /\ Len(<<>>) = 0
    OBVIOUS
  <1>2. \E S : results \in Seq(S)
    BY <1>1 DEF Init
  <1>4. CallInv
    BY <1>1, <1>2, I2CAssumption DEF Init, CallInv, Waiting, Reading
  <1>5. PollInv
    BY I2CAssumption DEF Init, PollInv, Word
  <1>3. NoWrite
    BY <1>1 DEF Init, NoWrite, TxRoom, Due, LastIn, LastOf, GoodWrites
  <1> QED
    BY <1>3, <1>4, <1>5 DEF WInv

\* A call that returns x: what the camera is due to hold changes only with a write that
\* succeeded.
LEMMA Returns ==
    ASSUME CallInv, pc # "done", NEW x, Return(x)
    PROVE  /\ CallInv' /\ pc' \in {"call", "done"}
           /\ \A r : Due(r)' = IF Program[k][1] = "write" /\ Program[k][2] = r /\ x[1] = "ok"
                               THEN Program[k][3] ELSE Due(r)
           /\ results'[k] = x /\ \A j \in 1 .. k - 1 : results'[j] = results[j]
  <1>1. PICK S : results \in Seq(S)
    BY DEF CallInv
  <1>2. /\ k \in Nat \ {0} /\ k <= Len(Program) /\ Len(results) = k - 1
        /\ results' = Append(results, x) /\ k' = k + 1
        /\ pc' = IF k = Len(Program) THEN "done" ELSE "call"
    BY DEF CallInv, Return, Goto
  <1>3. /\ results' \in Seq(S \cup {x}) /\ Len(results') = k /\ results'[k] = x
        /\ \A j \in 1 .. k - 1 : results'[j] = results[j]
    BY <1>1, <1>2, AppendFacts
  <1>4. CallInv'
    <2>1. \E T : results' \in Seq(T)
      BY <1>3
    <2>2. pc' \in {"call", "done"} /\ (pc' # "done" => k' <= Len(Program))
      BY <1>2, I2CAssumption
    <2>3. k' \in Nat \ {0} /\ Len(results') = k' - 1
      BY <1>2, <1>3
    <2> QED
      BY <2>1, <2>2, <2>3, Zenon DEF CallInv, Waiting, Reading
  <1>5. ASSUME NEW r
        PROVE  Due(r)' = IF Program[k][1] = "write" /\ Program[k][2] = r /\ x[1] = "ok"
                         THEN Program[k][3] ELSE Due(r)
    <2>1. k - 1 \in Nat /\ k - 1 + 1 = k /\ k' - 1 = k - 1 + 1
      BY <1>2
    <2>2. Due(r)' = LastIn(results', r, k - 1 + 1)
      BY <2>1 DEF Due
    <2>3. LastIn(results', r, k - 1) = Due(r)
      BY <1>3, <2>1, LastInSame DEF Due
    <2>4. LastIn(results', r, k - 1 + 1) =
            IF Program[k][1] = "write" /\ Program[k][2] = r /\ results'[k][1] = "ok"
            THEN Program[k][3] ELSE LastIn(results', r, k - 1)
      BY <2>1, LastInNext
    <2> QED
      BY <1>3, <2>2, <2>3, <2>4
  <1> QED
    BY <1>2, <1>3, <1>4, <1>5

\* A step that stays inside a call and leaves the camera alone.
LEMMA InsideCall ==
    ASSUME CallInv, PollInv, UNCHANGED <<k, results, cam, speed>>,
           pc' \in Waiting \cup Reading \cup {"done"}, pc' = "done" => pc = "done",
           pc = "done" => pc' = "done",
           pc' \in Reading => Program[k][1] = "read", i' \in 0 .. MaxPolls, lag' \in 0 .. speed
    PROVE  CallInv' /\ PollInv' /\ \A r : Due(r)' = Due(r)
  BY DEF CallInv, PollInv, Due

\* The write under way goes on, or there still is none.
LEMMA SameWrite ==
    ASSUME OneWrite \/ NoWrite, UNCHANGED <<tx, bus, recv, cam>>, \A r : Due(r)' = Due(r),
           pc' \in Reading <=> pc \in Reading, TxRoom <= TxRoom', TxRoom \in Nat, TxRoom' \in Nat
    PROVE  (OneWrite \/ NoWrite)'
  <1>1. CASE OneWrite
    BY <1>1 DEF OneWrite, Writing
  <1>2. CASE NoWrite
    <2>1. Len(tx) \in Nat
      BY <1>2 DEF NoWrite
    <2> QED
      BY <1>2, <2>1 DEF NoWrite
  <1> QED
    BY <1>1, <1>2

\* Polls and the ends of the loops.
LEMMA WLoops ==
    ASSUME WInv, NEW loop, NEW ready, NEW next,
           Poll(loop, ready) \/ Leave(loop, ready, next),
           \/ loop = "call" /\ next = "busy"
           \/ loop = "busy" /\ next = "check"
           \/ loop = "sent" /\ next = "turn"
           \/ loop = "turned" /\ next = "count"
           \/ loop = "hi" /\ next = "gethi"
           \/ loop = "lo" /\ next = "getlo"
    PROVE  WInv'
  <1> USE DEF WInv
  <1>1. UNCHANGED <<k, hi, results, tx, rx, bus, recv, cam, speed>>
    BY DEF Poll, Leave, chip
  <1>2. i' \in 0 .. MaxPolls /\ lag' \in 0 .. speed
    BY I2CAssumption DEF Poll, Leave, Goto, PollInv, chip
  <1>3. pc = loop /\ pc' \in {loop, next}
    BY DEF Poll, Leave, Goto
  <1>4. /\ pc' \in Reading <=> pc \in Reading
        /\ TxRoom = TxRoom' /\ TxRoom \in Nat
        /\ pc' \in Waiting \cup Reading \cup {"done"} /\ pc # "done" /\ pc' # "done"
    BY <1>3 DEF Reading, Waiting, TxRoom
  <1>5. pc' \in Reading => Program[k][1] = "read"
    BY <1>4 DEF CallInv
  <1>6. CallInv' /\ PollInv' /\ \A r : Due(r)' = Due(r)
    BY <1>1, <1>2, <1>4, <1>5, InsideCall
  <1>7. TxRoom <= TxRoom' /\ TxRoom' \in Nat
    BY <1>4
  <1> QED
    BY <1>1, <1>4, <1>6, <1>7, SameWrite

\* The TX FIFO is empty at the start of a transaction only when no write is under way.
LEMMA WritingBusy == ASSUME NEW reg, NEW v, Writing(reg, v) PROVE tx # <<>> /\ Len(tx) <= 4
  <1>1. \A a, b, c, d : /\ Len(<<a>>) = 1 /\ Len(<<a, b>>) = 2
                        /\ Len(<<a, b, c>>) = 3 /\ Len(<<a, b, c, d>>) = 4
    OBVIOUS
  <1>2. Len(tx) \in {1, 2, 3, 4}
    BY <1>1, Zenon DEF Writing, WriteWords
  <1>3. Len(<<>>) = 0
    OBVIOUS
  <1>4. \A n \in {1, 2, 3, 4} : n # 0 /\ n <= 4
    OBVIOUS
  <1> QED
    BY <1>2, <1>3, <1>4, Zenon

\* A call that ends without writing.
LEMMA WReturns ==
    ASSUME WInv, pc # "done", NEW x, Return(x),
           x[1] = "ok" => Program[k][1] # "write",
           UNCHANGED <<tx, bus, recv, cam, lag, speed>>
    PROVE  WInv'
  <1> USE DEF WInv
  <1>1. CallInv' /\ pc' \in {"call", "done"} /\ \A r : Due(r)' = Due(r)
    BY Returns
  <1>2. PollInv'
    BY I2CAssumption DEF PollInv, Return, Goto
  <1>3. CASE OneWrite
    <2>1. pc' \notin Reading
      BY <1>1 DEF Reading
    <2> QED
      BY <1>1, <1>2, <1>3, <2>1 DEF OneWrite, Writing
  <1>4. CASE NoWrite
    <2>1. tx' \in Seq(ReadWords) /\ Len(tx') <= TxRoom'
      BY <1>1, <1>4 DEF NoWrite, TxRoom
    <2> QED
      BY <1>1, <1>2, <1>4, <2>1 DEF NoWrite
  <1> QED
    BY <1>3, <1>4

\* writeReg() puts its words into an empty FIFO.
LEMMA WWriteWord == ASSUME WInv, WriteWord PROVE WInv'
  <1> USE DEF WInv
  <1> PICK reg, v : reg = Program[k][2] /\ v = Program[k][3]
    OBVIOUS
  <1>1. /\ pc = "check" /\ tx = <<>> /\ Program[k][1] = "write" /\ Return(<<"ok">>)
        /\ tx' = tx \o WriteWords(reg, v) /\ UNCHANGED <<bus, recv, cam, lag, speed>>
    BY DEF WriteWord, TxEmpty, Call, Push, chip
  <1>2. k \in 1 .. Len(Program)
    BY <1>1, I2CAssumption DEF CallInv
  <1>3. reg \in Registers /\ v \in Word
    BY <1>1, <1>2, Calls
  <1>4. CallInv' /\ pc' \in {"call", "done"} /\ \A r : Due(r)' = IF r = reg THEN v ELSE Due(r)
    <2>1. <<"ok">>[1] = "ok"
      OBVIOUS
    <2> QED
      BY <1>1, <2>1, Returns
  <1>5. PollInv'
    BY <1>1, I2CAssumption DEF PollInv, Return, Goto
  <1>6. NoWrite
    BY <1>1, WritingBusy DEF OneWrite
  <1>7. tx' = WriteWords(reg, v)
    BY <1>1 DEF WriteWords
  <1>8. Writing(reg, v)'
    BY <1>7 DEF Writing
  <1>9. \A r \in Registers : Due(r)' = IF r = reg THEN v ELSE cam'[r]
    BY <1>1, <1>4, <1>6 DEF NoWrite
  <1>10. pc' \notin Reading
    BY <1>4 DEF Reading
  <1> QED
    BY <1>3, <1>4, <1>5, <1>8, <1>9, <1>10 DEF OneWrite

\* readReg() puts words into the FIFO: no write is under way, and there is room.
LEMMA WPush ==
    ASSUME WInv, NEW words \in Seq(ReadWords), NEW label \in {"sent", "turned", "hi"},
           tx' = tx \o words, Goto(label), Program[k][1] = "read", NoWrite, pc # "done",
           Len(tx) + Len(words) <= TxRoom',
           UNCHANGED <<k, results, bus, recv, cam, lag, speed>>
    PROVE  WInv'
  <1> USE DEF WInv
  <1>1. CallInv' /\ PollInv' /\ \A r : Due(r)' = Due(r)
    <2>1. i' \in 0 .. MaxPolls /\ lag' \in 0 .. speed
      BY I2CAssumption DEF Goto, PollInv
    <2>2. pc' \in Reading /\ pc' # "done"
      BY DEF Goto, Reading
    <2> QED
      BY <2>1, <2>2, InsideCall
  <1>2. tx' \in Seq(ReadWords) /\ Len(tx') = Len(tx) + Len(words)
    BY ConcatProperties DEF NoWrite
  <1> QED
    BY <1>1, <1>2 DEF NoWrite

\* The words of readReg().
LEMMA WReadSteps ==
    ASSUME WInv, ReadAddress \/ ReadTurn \/ ReadCount
    PROVE  WInv'
  <1> USE DEF WInv
  <1>1. CASE ReadAddress
    <2> PICK reg : reg = Program[k][2]
      OBVIOUS
    <2>1. /\ pc = "check" /\ tx = <<>> /\ Program[k][1] = "read" /\ Goto("sent")
          /\ tx' = tx \o <<StartW, <<"byte", reg>>>>
          /\ UNCHANGED <<k, results, bus, recv, cam, lag, speed>>
      BY <1>1 DEF ReadAddress, TxEmpty, Call, Push, chip, StartW
    <2>2. k \in 1 .. Len(Program)
      BY <2>1, I2CAssumption DEF CallInv
    <2>3. reg \in Registers
      BY <2>2, Calls
    <2>4. NoWrite
      BY <2>1, WritingBusy DEF OneWrite
    <2>5. StartW \in ReadWords /\ <<"byte", reg>> \in ReadWords
      BY <2>3 DEF ReadWords
    <2>6. <<StartW, <<"byte", reg>>>> \in Seq(ReadWords) /\ Len(<<StartW, <<"byte", reg>>>>) = 2
      BY <2>5
    <2>7. TxRoom' = 2 /\ Len(tx) = 0 /\ pc # "done"
      BY <2>1 DEF TxRoom, Goto
    <2>8. Len(tx) + Len(<<StartW, <<"byte", reg>>>>) <= TxRoom'
      BY <2>6, <2>7
    <2>9. "sent" \in {"sent", "turned", "hi"}
      OBVIOUS
    <2> QED
      BY <2>1, <2>4, <2>6, <2>7, <2>8, <2>9, WPush, Zenon
  <1>2. CASE ReadTurn
    <2>1. /\ pc = "turn" /\ Goto("turned") /\ tx' = tx \o <<StartR>>
          /\ UNCHANGED <<k, results, bus, recv, cam, lag, speed>>
      BY <1>2 DEF ReadTurn, Push, chip, StartR
    <2>2. Program[k][1] = "read" /\ NoWrite
      BY <2>1 DEF CallInv, OneWrite, Reading
    <2>3. <<StartR>> \in Seq(ReadWords) /\ Len(<<StartR>>) = 1
      BY DEF ReadWords
    <2>4. TxRoom' = 3 /\ Len(tx) \in Nat /\ Len(tx) <= 2 /\ pc # "done"
      BY <2>1, <2>2 DEF TxRoom, Goto, NoWrite
    <2>8. Len(tx) + Len(<<StartR>>) <= TxRoom'
      BY <2>3, <2>4
    <2>9. "turned" \in {"sent", "turned", "hi"}
      OBVIOUS
    <2> QED
      BY <2>1, <2>2, <2>3, <2>4, <2>8, <2>9, WPush, Zenon
  <1>3. CASE ReadCount
    <2>1. /\ pc = "count" /\ Goto("hi") /\ tx' = tx \o <<Count>>
          /\ UNCHANGED <<k, results, bus, recv, cam, lag, speed>>
      BY <1>3 DEF ReadCount, Push, chip, Count
    <2>2. Program[k][1] = "read" /\ NoWrite
      BY <2>1 DEF CallInv, OneWrite, Reading
    <2>3. <<Count>> \in Seq(ReadWords) /\ Len(<<Count>>) = 1
      BY DEF ReadWords
    <2>4. TxRoom' = 4 /\ Len(tx) \in Nat /\ Len(tx) <= 3 /\ pc # "done"
      BY <2>1, <2>2 DEF TxRoom, Goto, NoWrite
    <2>8. Len(tx) + Len(<<Count>>) <= TxRoom'
      BY <2>3, <2>4
    <2>9. "hi" \in {"sent", "turned", "hi"}
      OBVIOUS
    <2> QED
      BY <2>1, <2>2, <2>3, <2>4, <2>8, <2>9, WPush, Zenon
  <1> QED
    BY <1>1, <1>2, <1>3

\* The other steps of the driver.
LEMMA WDriver == ASSUME WInv, Driver PROVE WInv'
  <1>1. CASE WaitTx \/ WaitFree \/ WaitSent \/ WaitTurned \/ WaitHi \/ WaitLo
    BY <1>1, WLoops DEF WaitTx, WaitFree, WaitSent, WaitTurned, WaitHi, WaitLo
  <1>2. CASE Fail
    <2>1. /\ pc # "done" /\ Return(<<"fail">>) /\ <<"fail">>[1] # "ok"
          /\ UNCHANGED <<tx, bus, recv, cam, lag, speed>>
      BY <1>2 DEF Fail, chip
    <2> QED
      BY <2>1, WReturns
  <1>3. CASE GetLo
    <2>1. /\ pc = "getlo" /\ UNCHANGED <<tx, bus, recv, cam, lag, speed>>
          /\ \E x : Return(x)
      BY <1>3 DEF GetLo, chip
    <2>2. pc # "done" /\ Program[k][1] = "read"
      BY <2>1 DEF WInv, CallInv, Reading
    <2> QED
      BY <2>1, <2>2, WReturns
  <1>4. CASE GetHi
    <2>1. /\ pc = "gethi" /\ Goto("lo") /\ UNCHANGED <<k, results, tx, bus, recv, cam, lag, speed>>
      BY <1>4 DEF GetHi, chip
    <2>2. /\ pc \in Reading /\ pc' \in Reading /\ TxRoom = 4 /\ TxRoom' = 4
          /\ pc # "done" /\ pc' # "done"
      BY <2>1 DEF Reading, TxRoom, Goto
    <2>3. i' \in 0 .. MaxPolls /\ lag' \in 0 .. speed /\ Program[k][1] = "read"
      BY <2>1, <2>2, I2CAssumption DEF Goto, WInv, PollInv, CallInv
    <2>4. CallInv' /\ PollInv' /\ \A r : Due(r)' = Due(r)
      BY <2>1, <2>2, <2>3, InsideCall DEF WInv
    <2> QED
      BY <2>1, <2>2, <2>4, SameWrite DEF WInv
  <1> QED
    BY <1>1, <1>2, <1>3, <1>4, WWriteWord, WReadSteps DEF Driver

\* What the controller does with each kind of word.
LEMMA TxSteps ==
    ASSUME ChipTx, NEW word, word = Head(tx)
    PROVE  /\ tx # <<>> /\ recv = <<>> /\ bus # <<"stop">> /\ tx' = Tail(tx) /\ lag' = 0
           /\ UNCHANGED <<k, pc, i, hi, results, rx, speed>>
           /\ word[1] = "start" => /\ bus' = IF word[2] = "w" THEN <<"w">> ELSE Append(bus, "r")
                                   /\ UNCHANGED <<cam, recv>>
           /\ word[1] = "byte" => bus' = Append(bus, word[2]) /\ UNCHANGED <<cam, recv>>
           /\ word[1] = "last" => /\ cam' = [cam EXCEPT ![bus[2]] = bus[3] * 256 + word[2]]
                                  /\ bus' = <<"stop">> /\ UNCHANGED recv
           /\ word[1] = "count" => /\ recv' = <<HIGHBYTE(cam[bus[2]]), LOWBYTE(cam[bus[2]])>>
                                   /\ UNCHANGED <<cam, bus>>
  <1>1. /\ tx # <<>> /\ recv = <<>> /\ bus # <<"stop">> /\ tx' = Tail(tx) /\ lag' = 0
        /\ UNCHANGED <<k, pc, i, hi, results, rx, speed>>
    BY DEF ChipTx, TxEmpty, driver
  <1>2. word[1] = "start" => /\ bus' = IF word[2] = "w" THEN <<"w">> ELSE Append(bus, "r")
                             /\ UNCHANGED <<cam, recv>>
    BY DEF ChipTx
  <1>3. word[1] = "byte" => bus' = Append(bus, word[2]) /\ UNCHANGED <<cam, recv>>
    BY DEF ChipTx
  <1>4. word[1] = "last" => /\ cam' = [cam EXCEPT ![bus[2]] = bus[3] * 256 + word[2]]
                            /\ bus' = <<"stop">> /\ UNCHANGED recv
    BY DEF ChipTx
  <1>5. word[1] = "count" => /\ recv' = <<HIGHBYTE(cam[bus[2]]), LOWBYTE(cam[bus[2]])>>
                             /\ UNCHANGED <<cam, bus>>
    BY DEF ChipTx
  <1> QED
    BY <1>1, <1>2, <1>3, <1>4, <1>5

\* A step of the controller leaves the call alone.
LEMMA ChipCall ==
    ASSUME WInv, Chip, cam' \in [Registers -> Word]
    PROVE  CallInv' /\ PollInv' /\ \A r : Due(r)' = Due(r)
  <1>1. UNCHANGED <<k, pc, i, hi, results, speed>> /\ lag' = 0
    BY TxSteps DEF Chip, ChipRx, ChipStop, driver
  <1> QED
    BY <1>1 DEF WInv, CallInv, PollInv, Due

\* The first and the other words of a tuple.
LEMMA Tuples ==
    ASSUME NEW a, NEW b, NEW c, NEW d
    PROVE  /\ Head(<<a>>) = a /\ Tail(<<a>>) = <<>>
           /\ Head(<<a, b>>) = a /\ Tail(<<a, b>>) = <<b>>
           /\ Head(<<a, b, c>>) = a /\ Tail(<<a, b, c>>) = <<b, c>>
           /\ Head(<<a, b, c, d>>) = a /\ Tail(<<a, b, c, d>>) = <<b, c, d>>
  OBVIOUS

\* The next word of a write.
LEMMA WritingNext ==
    ASSUME WInv, ChipTx, NEW reg \in Registers, NEW v \in Word, Writing(reg, v)
    PROVE  \/ /\ Writing(reg, v)' /\ cam' = cam /\ recv' = <<>>
              /\ Len(tx') = Len(tx) - 1 /\ Len(tx) \in {2, 3, 4}
           \/ /\ tx' = <<>> /\ bus' = <<"stop">> /\ recv' = <<>> /\ Len(tx) = 1
              /\ cam' = [cam EXCEPT ![reg] = v]
  <1> DEFINE h == <<"byte", HIGHBYTE(v)>>
             l == <<"last", LOWBYTE(v)>>
             a == <<"byte", reg>>
  <1>1. /\ StartW[1] = "start" /\ StartW[2] = "w"
        /\ a[1] = "byte" /\ a[2] = reg
        /\ h[1] = "byte" /\ h[2] = HIGHBYTE(v)
        /\ l[1] = "last" /\ l[2] = LOWBYTE(v)
    BY DEF StartW
  <1>2. /\ WriteWords(reg, v) = <<StartW, a, h, l>>
        /\ \/ tx = <<StartW, a, h, l>>
           \/ tx = <<a, h, l>> /\ bus = <<"w">>
           \/ tx = <<h, l>> /\ bus = <<"w", reg>>
           \/ tx = <<l>> /\ bus = <<"w", reg, HIGHBYTE(v)>>
    BY DEF Writing, WriteWords, StartW
  <1>3. /\ tx' = <<a, h, l>> /\ bus' = <<"w">> /\ recv' = <<>> => Writing(reg, v)'
        /\ tx' = <<h, l>> /\ bus' = <<"w", reg>> /\ recv' = <<>> => Writing(reg, v)'
        /\ tx' = <<l>> /\ bus' = <<"w", reg, HIGHBYTE(v)>> /\ recv' = <<>> => Writing(reg, v)'
    BY DEF Writing
  <1>4. \A p, q, r, t : /\ Len(<<p>>) = 1 /\ Len(<<p, q>>) = 2 /\ Len(<<p, q, r>>) = 3
                        /\ Len(<<p, q, r, t>>) = 4
    OBVIOUS
  <1>5. recv = <<>> /\ tx' = Tail(tx)
    BY TxSteps
  <1> HIDE DEF a, h, l
  <1>6. CASE tx = <<StartW, a, h, l>>
    <2>1. Head(tx) = StartW /\ Tail(tx) = <<a, h, l>>
      BY <1>6, Tuples
    <2>2. bus' = <<"w">> /\ recv' = <<>> /\ cam' = cam
      BY <1>1, <1>5, <2>1, TxSteps
    <2> QED
      BY <1>3, <1>4, <1>5, <1>6, <2>1, <2>2
  <1>7. CASE tx = <<a, h, l>> /\ bus = <<"w">>
    <2>1. Head(tx) = a /\ Tail(tx) = <<h, l>>
      BY <1>7, Tuples
    <2>2. bus' = <<"w", reg>> /\ recv' = <<>> /\ cam' = cam
      BY <1>1, <1>5, <1>7, <2>1, TxSteps, AppendTuples
    <2> QED
      BY <1>3, <1>4, <1>5, <1>7, <2>1, <2>2
  <1>8. CASE tx = <<h, l>> /\ bus = <<"w", reg>>
    <2>1. Head(tx) = h /\ Tail(tx) = <<l>>
      BY <1>8, Tuples
    <2>2. bus' = <<"w", reg, HIGHBYTE(v)>> /\ recv' = <<>> /\ cam' = cam
      BY <1>1, <1>5, <1>8, <2>1, TxSteps, AppendTuples
    <2> QED
      BY <1>3, <1>4, <1>5, <1>8, <2>1, <2>2
  <1>9. CASE tx = <<l>> /\ bus = <<"w", reg, HIGHBYTE(v)>>
    <2>1. Head(tx) = l /\ Tail(tx) = <<>>
      BY <1>9, Tuples
    <2>2. bus[2] = reg /\ bus[3] = HIGHBYTE(v)
      BY <1>9
    <2>3. /\ bus' = <<"stop">> /\ recv' = <<>>
          /\ cam' = [cam EXCEPT ![reg] = HIGHBYTE(v) * 256 + LOWBYTE(v)]
      BY <1>1, <1>5, <2>1, <2>2, TxSteps
    <2>4. cam' = [cam EXCEPT ![reg] = v]
      BY <2>3, ByteFacts
    <2> QED
      BY <1>4, <1>5, <1>9, <2>1, <2>3, <2>4
  <1> QED
    BY <1>2, <1>6, <1>7, <1>8, <1>9

\* The controller sends a word.
LEMMA WChipTx == ASSUME WInv, ChipTx PROVE WInv'
  <1> USE DEF WInv
  <1>1. pc' = pc /\ TxRoom' = TxRoom /\ tx' = Tail(tx) /\ tx # <<>>
    BY TxSteps DEF TxRoom
  <1>2. CASE OneWrite
    <2>1. PICK reg \in Registers, v \in Word :
            Writing(reg, v) /\ \A r \in Registers : Due(r) = IF r = reg THEN v ELSE cam[r]
      BY <1>2 DEF OneWrite
    <2>2. CASE Writing(reg, v)' /\ cam' = cam
      <3>1. CallInv' /\ PollInv' /\ \A r : Due(r)' = Due(r)
        BY <2>2, ChipCall DEF Chip, PollInv
      <3> QED
        BY <1>1, <1>2, <2>1, <2>2, <3>1 DEF OneWrite
    <2>3. CASE tx' = <<>> /\ cam' = [cam EXCEPT ![reg] = v]
      <3>1. cam' \in [Registers -> Word] /\ \A r \in Registers : cam'[r] = IF r = reg THEN v ELSE cam[r]
        BY <2>3 DEF PollInv
      <3>2. CallInv' /\ PollInv' /\ \A r : Due(r)' = Due(r)
        BY <3>1, ChipCall DEF Chip
      <3>3. tx' \in Seq(ReadWords) /\ Len(tx') <= TxRoom'
        BY <2>3 DEF TxRoom
      <3> QED
        BY <2>1, <3>1, <3>2, <3>3 DEF NoWrite
    <2> QED
      BY <2>1, <2>2, <2>3, WritingNext
  <1>3. CASE NoWrite
    <2>1. tx \in Seq(ReadWords) /\ Len(tx) <= TxRoom
      BY <1>3 DEF NoWrite
    <2>2. Head(tx) \in ReadWords /\ Tail(tx) \in Seq(ReadWords) /\ Len(Tail(tx)) = Len(tx) - 1
      BY <1>1, <2>1, HeadTailProperties
    <2>3. Head(tx)[1] \in {"start", "byte", "count"}
      BY <2>2 DEF ReadWords, StartW, StartR, Count
    <2>4. cam' = cam
      BY <2>3, TxSteps
    <2>5. CallInv' /\ PollInv' /\ \A r : Due(r)' = Due(r)
      BY <2>4, ChipCall DEF Chip, PollInv
    <2>6. Len(tx') <= TxRoom'
      BY <1>1, <2>1, <2>2 DEF TxRoom
    <2> QED
      BY <1>1, <1>3, <2>2, <2>4, <2>5, <2>6 DEF NoWrite
  <1> QED
    BY <1>2, <1>3

\* The controller receives a byte or ends a transaction.
LEMMA WChipRx == ASSUME WInv, ChipRx \/ ChipStop PROVE WInv'
  <1> USE DEF WInv
  <1>1. UNCHANGED <<pc, tx, cam>> /\ (recv # <<>> \/ bus = <<"stop">>)
    BY DEF ChipRx, ChipStop, driver
  <1>2. CallInv' /\ PollInv' /\ \A r : Due(r)' = Due(r)
    BY <1>1, ChipCall DEF Chip, PollInv
  <1>3. CASE OneWrite
    <2>1. PICK reg \in Registers, v \in Word :
            Writing(reg, v) /\ \A r \in Registers : Due(r) = IF r = reg THEN v ELSE cam[r]
      BY <1>3 DEF OneWrite
    <2>2. \A b, c : <<"w">> # <<"stop">> /\ <<"w", b>> # <<"stop">> /\ <<"w", b, c>> # <<"stop">>
      OBVIOUS
    <2>3. tx = WriteWords(reg, v)
      BY <1>1, <2>1, <2>2, Zenon DEF Writing
    <2>4. Writing(reg, v)'
      BY <1>1, <2>3 DEF Writing
    <2> QED
      BY <1>1, <1>2, <1>3, <2>1, <2>4 DEF OneWrite
  <1>4. CASE NoWrite
    BY <1>1, <1>2, <1>4 DEF NoWrite, TxRoom
  <1> QED
    BY <1>3, <1>4

\* Every step keeps the invariant.
LEMMA WNext == ASSUME WInv, [Next]_vars PROVE WInv'
  <1>1. CASE UNCHANGED vars
    BY <1>1 DEF WInv, CallInv, PollInv, OneWrite, NoWrite, Writing, Due, TxRoom, vars, driver, chip
  <1> QED
    BY <1>1, WDriver, WChipTx, WChipRx DEF Next, Chip, Done

\* The invariant says what WritesExact and TxBounded say.
LEMMA WImplies == ASSUME WInv PROVE WritesExact /\ TxBounded
  <1>1. \A r : Due(r) = LastWritten(r, k - 1)
    BY DEF Due, LastIn, LastOf, GoodWrites, LastWritten
  <1>2. CASE OneWrite
    BY <1>2, WritingBusy DEF OneWrite, WritesExact, TxBounded, Working, TxEmpty
  <1>3. CASE NoWrite
    <2>1. TxBounded
      BY <1>3 DEF NoWrite, TxRoom, TxBounded
    <2>2. WritesExact
      BY <1>1, <1>3 DEF NoWrite, WritesExact
    <2> QED
      BY <2>1, <2>2
  <1> QED
    BY <1>2, <1>3 DEF WInv

\* The invariant holds always.
LEMMA WAlways == Spec => []WInv
  BY WInitially, WNext, PTL DEF Spec

\* writeReg() and readReg(): for every program of calls, every number of polls and every
\* controller, however slow, words reach the camera in whole transactions, and each register
\* holds the value of the last write to it that returned 0.
THEOREM WritesAlwaysExact == Spec => []WritesExact
  BY WAlways, WImplies, PTL

\* The bounded waits of readReg() never fill the TX FIFO with more than one call's words.
THEOREM TxAlwaysBounded == Spec => []TxBounded
  BY WAlways, WImplies, PTL
-----------------------------------------------------------------------------
(* Reads.                                                                  *)

\* The controller has n steps left, and they will be over in time: every step takes at most
\* speed polls, and m steps take as long as this loop may.
Late(n, m) == n = 0 \/ i + n * speed <= m * speed + lag

Quiet == rx = <<>> /\ recv = <<>>
Free == bus = <<>> \/ bus = <<"stop">>

\* The controller has n steps left of a write: its words and the stop condition, and perhaps
\* the stop condition of the transaction before.
Left(n) ==
    \/ n = 0 /\ tx = <<>> /\ bus = <<>>
    \/ n = 1 /\ tx = <<>> /\ bus = <<"stop">>
    \/ /\ \E reg \in Registers, v \in Word : Writing(reg, v)
       /\ \/ n \in {2, 3, 4} /\ Len(tx) = n - 1
          \/ n = 5 /\ Len(tx) = 4 /\ bus = <<>>
          \/ n = 6 /\ Len(tx) = 4 /\ bus = <<"stop">>

\* Between two calls: the steps left fit into the two loops.
Between(n) ==
    /\ Quiet /\ Left(n)
    /\ pc = "call" => Late(n, 5)
    /\ pc = "busy" => \/ tx = <<>> /\ Late(n, 1)
                      \/ MaxPolls + i + n * speed <= 5 * speed + lag
    /\ pc = "check" => tx = <<>> /\ n * speed <= lag

\* The address of reg is on its way, n steps left.
Sent(reg, n) ==
    /\ Quiet
    /\ \/ n = 0 /\ tx = <<>> /\ bus = <<"w", reg>>
       \/ n = 1 /\ tx = <<<<"byte", reg>>>> /\ bus = <<"w">>
       \/ n = 2 /\ tx = <<StartW, <<"byte", reg>>>> /\ bus = <<>>
       \/ n = 3 /\ tx = <<StartW, <<"byte", reg>>>> /\ bus = <<"stop">>

\* The transfer is being turned round, n steps left.
Turned(reg, n) ==
    /\ Quiet
    /\ \/ n = 0 /\ tx = <<>> /\ bus = <<"w", reg, "r">>
       \/ n = 1 /\ tx = <<StartR>> /\ bus = <<"w", reg>>

\* The bytes of value v are on their way, n steps left until the first is there.
First(reg, v, n) ==
    \/ n = 2 /\ tx = <<Count>> /\ bus = <<"w", reg, "r">> /\ Quiet
    \/ /\ n = 1 /\ tx = <<>> /\ bus = <<"w", reg, "r">>
       /\ recv = <<HIGHBYTE(v), LOWBYTE(v)>> /\ rx = <<>>
    \/ /\ n = 0 /\ tx = <<>> /\ bus = <<"w", reg, "r">>
       /\ recv = <<LOWBYTE(v)>> /\ rx = <<HIGHBYTE(v)>>
    \/ n = 0 /\ tx = <<>> /\ Free /\ recv = <<>> /\ rx = <<HIGHBYTE(v), LOWBYTE(v)>>

\* The first byte has been taken, n steps left until the second is there.
Second(reg, v, n) ==
    /\ hi = HIGHBYTE(v) /\ tx = <<>>
    /\ \/ n = 1 /\ bus = <<"w", reg, "r">> /\ recv = <<LOWBYTE(v)>> /\ rx = <<>>
       \/ n = 0 /\ Free /\ recv = <<>> /\ rx = <<LOWBYTE(v)>>

\* A read of reg, which holds v.
ReadFast(reg, v) ==
    /\ pc = "sent" => \E n \in 0 .. 3 : Sent(reg, n) /\ Late(n, 2)
    /\ pc = "turn" => Sent(reg, 0)
    /\ pc = "turned" => \E n \in 0 .. 1 : Turned(reg, n) /\ Late(n, 1)
    /\ pc = "count" => Turned(reg, 0)
    /\ pc = "hi" => \E n \in 0 .. 2 : First(reg, v, n) /\ Late(n, 2)
    /\ pc = "gethi" => First(reg, v, 0)
    /\ pc = "lo" => \E n \in 0 .. 1 : Second(reg, v, n) /\ Late(n, 1)
    /\ pc = "getlo" => Second(reg, v, 0)

ResultsExact ==
    \A j \in 1 .. k - 1 :
        /\ results[j][1] = "ok"
        /\ Program[j][1] = "read" => results[j][2] = LastIn(results, Program[j][2], j - 1)

FastInv ==
    /\ ResultsExact
    /\ pc \in Waiting \cup {"done"} => \E n \in 0 .. 6 : Between(n)
    /\ pc \in Reading => ReadFast(Program[k][2], cam[Program[k][2]])

\* A step of the controller: one less to come.
LEMMA Sooner ==
    ASSUME PollInv, NEW n \in 1 .. 6, NEW m \in 1 .. 5, lag' = 0, i' = i, speed' = speed, Late(n, m)
    PROVE  Late(n - 1, m)'
  <1>1. i \in Nat /\ speed \in Nat /\ lag \in Nat /\ lag <= speed
    BY I2CAssumption DEF PollInv
  <1>2. n * speed \in Nat /\ m * speed \in Nat /\ (n - 1) * speed = n * speed - speed
    BY <1>1
  <1>3. i + (n - 1) * speed <= m * speed + 0
    BY <1>1, <1>2 DEF Late
  <1> QED
    BY <1>3 DEF Late

\* A poll that the controller sleeps through.
LEMMA Later ==
    ASSUME PollInv, NEW n \in 0 .. 6, NEW m \in 1 .. 5, lag' = lag + 1, i' = i + 1, speed' = speed,
           Late(n, m)
    PROVE  Late(n, m)'
  <1>1. i \in Nat /\ speed \in Nat /\ lag \in Nat
    BY I2CAssumption DEF PollInv
  <1>2. n * speed \in Nat /\ m * speed \in Nat
    BY <1>1
  <1> QED
    BY <1>1, <1>2 DEF Late

\* A loop whose polls are used up has seen the last step.
LEMMA InTime ==
    ASSUME PollInv, FastEnough, NEW n \in 0 .. 6, NEW m \in 1 .. 2, Late(n, m), i >= MaxPolls
    PROVE  n = 0
  <1>1. i \in Nat /\ speed \in Nat \ {0} /\ lag \in Nat /\ lag <= speed /\ 5 * speed <= 2 * MaxPolls
    BY I2CAssumption DEF PollInv, FastEnough
  <1>2. n # 0 => n * speed >= speed
    BY <1>1
  <1>3. m * speed <= 2 * speed /\ m * speed \in Nat /\ n * speed \in Nat
    BY <1>1
  <1> QED
    BY <1>1, <1>2, <1>3, I2CAssumption DEF Late

\* What the controller's other steps do.
LEMMA RxSteps ==
    /\ ChipRx => /\ recv # <<>> /\ rx' = Append(rx, Head(recv)) /\ recv' = Tail(recv) /\ lag' = 0
                 /\ bus' = (IF Len(recv) = 1 THEN <<"stop">> ELSE bus)
                 /\ UNCHANGED <<k, pc, i, hi, results, tx, cam, speed>>
    /\ ChipStop => /\ bus = <<"stop">> /\ bus' = <<>> /\ lag' = 0
                   /\ UNCHANGED <<k, pc, i, hi, results, tx, rx, recv, cam, speed>>
  BY DEF ChipRx, ChipStop, driver

\* The bus is in the middle of a transaction.
LEMMA BusForms ==
    \A a, b : /\ <<"w">> # <<"stop">> /\ <<"w", a>> # <<"stop">> /\ <<"w", a, b>> # <<"stop">>
             /\ <<>> # <<"stop">> /\ <<"w">> # <<>> /\ <<"w", a>> # <<>> /\ <<"w", a, b>> # <<>>
  OBVIOUS

\* The controller goes on with a write.
LEMMA LeftNext ==
    ASSUME WInv, Chip, NEW n \in 0 .. 6, Quiet, Left(n)
    PROVE  /\ n \in 1 .. 6 /\ Left(n - 1)' /\ Quiet' /\ lag' = 0 /\ (tx = <<>> => tx' = <<>>)
           /\ UNCHANGED <<k, pc, i, results, speed>>
  <1>1. recv = <<>> /\ ~ChipRx /\ (ChipTx \/ ChipStop)
    BY RxSteps DEF Quiet, Chip
  <1>2. CASE ChipStop
    <2>1. /\ bus = <<"stop">> /\ bus' = <<>> /\ lag' = 0
          /\ UNCHANGED <<k, pc, i, results, tx, rx, recv, speed>>
      BY <1>2, RxSteps
    <2>2. CASE tx = <<>>
      <3>1. n = 1
        BY <2>1, <2>2, WritingBusy, BusForms DEF Left
      <3> QED
        BY <2>1, <2>2, <3>1 DEF Left, Quiet
    <2>3. CASE tx # <<>>
      <3>1. PICK reg \in Registers, v \in Word : Writing(reg, v)
        BY <2>3 DEF Left
      <3>2. tx = WriteWords(reg, v)
        BY <2>1, <3>1, BusForms, Zenon DEF Writing
      <3>3. Len(tx) = 4
        BY <3>2 DEF WriteWords
      <3>4. n = 6
        BY <2>1, <2>3, <3>3, BusForms DEF Left
      <3>5. Writing(reg, v)'
        BY <2>1, <3>2 DEF Writing
      <3>6. Left(5)'
        BY <2>1, <3>3, <3>5 DEF Left
      <3> QED
        BY <2>1, <3>4, <3>6 DEF Quiet
    <2> QED
      BY <2>2, <2>3
  <1>3. CASE ChipTx
    <2>1. /\ tx # <<>> /\ bus # <<"stop">> /\ lag' = 0
          /\ UNCHANGED <<k, pc, i, results, rx, speed>>
      BY <1>3, TxSteps
    <2>2. PICK reg \in Registers, v \in Word : Writing(reg, v)
      BY <2>1 DEF Left
    <2>3. n \in {2, 3, 4, 5} /\ (n # 5 => Len(tx) = n - 1) /\ (n = 5 => Len(tx) = 4)
      BY <2>1 DEF Left
    <2>4. CASE /\ Writing(reg, v)' /\ cam' = cam /\ recv' = <<>>
               /\ Len(tx') = Len(tx) - 1 /\ Len(tx) \in {2, 3, 4}
      <3>1. n - 1 \in {2, 3, 4} /\ Len(tx') = (n - 1) - 1
        <4>1. \A l \in {2, 3, 4} : (n # 5 => l = n - 1) /\ (n = 5 => l = 4)
                                   => n - 1 \in {2, 3, 4} /\ l - 1 = (n - 1) - 1
          BY <2>3
        <4> QED
          BY <2>3, <2>4, <4>1, Zenon
      <3>2. (\E p \in Registers, w \in Word : Writing(p, w))'
        BY <2>4
      <3>3. Left(n - 1)'
        BY <3>1, <3>2 DEF Left
      <3> QED
        BY <2>1, <2>3, <2>4, <3>3 DEF Quiet
    <2>5. CASE tx' = <<>> /\ bus' = <<"stop">> /\ recv' = <<>> /\ Len(tx) = 1
      <3>1. n = 2
        BY <2>3, <2>5
      <3>2. Left(1)'
        BY <2>5 DEF Left
      <3> QED
        BY <2>1, <2>5, <3>1, <3>2 DEF Quiet
    <2> QED
      BY <1>3, <2>2, <2>4, <2>5, WritingNext
  <1> QED
    BY <1>1, <1>2, <1>3

\* The controller goes on with the address.
LEMMA SentNext ==
    ASSUME Chip, NEW reg, NEW n \in 0 .. 3, Sent(reg, n)
    PROVE  /\ n \in 1 .. 3 /\ Sent(reg, n - 1)' /\ lag' = 0
           /\ UNCHANGED <<k, pc, i, hi, results, cam, speed>>
  <1> DEFINE a == <<"byte", reg>>
  <1>1. /\ StartW[1] = "start" /\ StartW[2] = "w" /\ a[1] = "byte" /\ a[2] = reg
    BY DEF StartW
  <1>2. rx = <<>> /\ recv = <<>> /\ ~ChipRx /\ (ChipTx \/ ChipStop)
    BY RxSteps DEF Sent, Quiet, Chip
  <1>3. CASE ChipStop
    <2>1. n = 3 /\ tx = <<StartW, a>>
      BY <1>3, RxSteps, BusForms DEF Sent
    <2>2. tx' = <<StartW, a>> /\ bus' = <<>> /\ Quiet' /\ lag' = 0
      BY <1>2, <1>3, <2>1, RxSteps DEF Quiet
    <2>3. Sent(reg, 2)'
      BY <2>2 DEF Sent
    <2> QED
      BY <1>3, <2>1, <2>2, <2>3, RxSteps
  <1>4. CASE ChipTx
    <2>1. /\ tx # <<>> /\ bus # <<"stop">> /\ tx' = Tail(tx) /\ lag' = 0
          /\ UNCHANGED <<k, pc, i, hi, results, rx, speed>>
      BY <1>4, TxSteps
    <2>2. CASE n = 1 /\ tx = <<a>> /\ bus = <<"w">>
      <3>1. Head(tx) = a /\ Tail(tx) = <<>>
        BY <2>2, Tuples
      <3>2. bus' = <<"w", reg>> /\ UNCHANGED <<cam, recv>>
        BY <1>1, <1>4, <2>2, <3>1, TxSteps, AppendTuples
      <3>3. Sent(reg, 0)'
        BY <1>2, <2>1, <3>1, <3>2 DEF Sent, Quiet
      <3> QED
        BY <2>1, <2>2, <3>2, <3>3
    <2>3. CASE n = 2 /\ tx = <<StartW, a>> /\ bus = <<>>
      <3>1. Head(tx) = StartW /\ Tail(tx) = <<a>>
        BY <2>3, Tuples
      <3>2. bus' = <<"w">> /\ UNCHANGED <<cam, recv>>
        BY <1>1, <1>4, <2>3, <3>1, TxSteps
      <3>3. Sent(reg, 1)'
        BY <1>2, <2>1, <3>1, <3>2 DEF Sent, Quiet
      <3> QED
        BY <2>1, <2>3, <3>2, <3>3
    <2> QED
      BY <2>1, <2>2, <2>3 DEF Sent
  <1> QED
    BY <1>2, <1>3, <1>4

\* The controller turns the transfer round.
LEMMA TurnedNext ==
    ASSUME Chip, NEW reg, NEW n \in 0 .. 1, Turned(reg, n)
    PROVE  /\ n = 1 /\ Turned(reg, 0)' /\ lag' = 0
           /\ UNCHANGED <<k, pc, i, hi, results, cam, speed>>
  <1>1. rx = <<>> /\ recv = <<>> /\ ChipTx
    BY RxSteps, BusForms DEF Turned, Quiet, Chip
  <1>2. /\ tx # <<>> /\ tx' = Tail(tx) /\ lag' = 0
        /\ UNCHANGED <<k, pc, i, hi, results, rx, speed>>
    BY <1>1, TxSteps
  <1>3. n = 1 /\ tx = <<StartR>> /\ bus = <<"w", reg>>
    BY <1>2 DEF Turned
  <1>4. Head(tx) = StartR /\ Tail(tx) = <<>> /\ StartR[1] = "start" /\ StartR[2] # "w"
    BY <1>3 DEF StartR
  <1>5. bus' = <<"w", reg, "r">> /\ UNCHANGED <<cam, recv>>
    BY <1>1, <1>3, <1>4, TxSteps, AppendTuples
  <1> QED
    BY <1>1, <1>2, <1>3, <1>4, <1>5 DEF Turned, Quiet

\* The controller receives the bytes of the register.
LEMMA FirstNext ==
    ASSUME Chip, NEW reg, NEW v, v = cam[reg], NEW n \in 0 .. 2, First(reg, v, n)
    PROVE  /\ \/ n \in 1 .. 2 /\ First(reg, v, n - 1)'
              \/ n = 0 /\ First(reg, v, 0)'
           /\ lag' = 0 /\ UNCHANGED <<k, pc, i, hi, results, cam, speed>>
  <1> DEFINE h == HIGHBYTE(v)
             l == LOWBYTE(v)
             B == <<"w", reg, "r">>
  <1>1. B # <<"stop">> /\ B[2] = reg /\ Count[1] = "count"
    BY DEF Count
  <1>2. CASE n = 2 /\ tx = <<Count>> /\ bus = B /\ Quiet
    <2>1. ChipTx
      BY <1>1, <1>2, RxSteps DEF Quiet, Chip
    <2>2. Head(tx) = Count /\ Tail(tx) = <<>>
      BY <1>2, Tuples
    <2>3. /\ recv' = <<HIGHBYTE(cam[reg]), LOWBYTE(cam[reg])>> /\ UNCHANGED <<cam, bus, rx>>
          /\ tx' = <<>> /\ lag' = 0 /\ UNCHANGED <<k, pc, i, hi, results, speed>>
      BY <1>1, <1>2, <2>1, <2>2, TxSteps
    <2>4. First(reg, v, 1)'
      BY <1>2, <2>3 DEF First, Quiet
    <2> QED
      BY <1>2, <2>3, <2>4
  <1>3. CASE n = 1 /\ tx = <<>> /\ bus = B /\ recv = <<h, l>> /\ rx = <<>>
    <2>1. ChipRx
      BY <1>1, <1>3, RxSteps, TxSteps DEF Chip
    <2>2. Head(recv) = h /\ Tail(recv) = <<l>> /\ Len(recv) = 2
      BY <1>3, Tuples
    <2>3. /\ recv' = <<l>> /\ rx' = <<h>> /\ bus' = bus /\ lag' = 0
          /\ UNCHANGED <<k, pc, i, hi, results, tx, cam, speed>>
      BY <1>3, <2>1, <2>2, RxSteps, AppendTuples
    <2>4. First(reg, v, 0)'
      BY <1>3, <2>3 DEF First
    <2> QED
      BY <1>3, <2>3, <2>4
  <1>4. CASE n = 0 /\ tx = <<>> /\ bus = B /\ recv = <<l>> /\ rx = <<h>>
    <2>1. ChipRx
      BY <1>1, <1>4, RxSteps, TxSteps DEF Chip
    <2>2. Head(recv) = l /\ Tail(recv) = <<>> /\ Len(recv) = 1
      BY <1>4, Tuples
    <2>3. /\ recv' = <<>> /\ rx' = <<h, l>> /\ bus' = <<"stop">> /\ lag' = 0
          /\ UNCHANGED <<k, pc, i, hi, results, tx, cam, speed>>
      BY <1>4, <2>1, <2>2, RxSteps, AppendTuples
    <2>4. First(reg, v, 0)'
      BY <1>4, <2>3 DEF First, Free
    <2> QED
      BY <1>4, <2>3, <2>4
  <1>5. CASE n = 0 /\ tx = <<>> /\ Free /\ recv = <<>> /\ rx = <<h, l>>
    <2>1. ChipStop
      BY <1>5, RxSteps, TxSteps DEF Chip
    <2>2. /\ bus' = <<>> /\ lag' = 0 /\ UNCHANGED <<rx, recv>>
          /\ UNCHANGED <<k, pc, i, hi, results, tx, cam, speed>>
      BY <2>1, RxSteps
    <2>3. First(reg, v, 0)'
      BY <1>5, <2>2 DEF First, Free
    <2> QED
      BY <1>5, <2>2, <2>3
  <1> QED
    BY <1>2, <1>3, <1>4, <1>5 DEF First

\* The controller receives the second byte or ends the transaction.
LEMMA SecondNext ==
    ASSUME Chip, NEW reg, NEW v, NEW n \in 0 .. 1, Second(reg, v, n)
    PROVE  /\ Second(reg, v, 0)' /\ lag' = 0 /\ UNCHANGED <<k, pc, i, hi, results, cam, speed>>
  <1> DEFINE l == LOWBYTE(v)
             B == <<"w", reg, "r">>
  <1>1. hi = HIGHBYTE(v) /\ tx = <<>> /\ B # <<"stop">>
    BY DEF Second
  <1>2. CASE n = 1 /\ bus = B /\ recv = <<l>> /\ rx = <<>>
    <2>1. ChipRx
      BY <1>1, <1>2, RxSteps, TxSteps DEF Chip
    <2>2. Head(recv) = l /\ Tail(recv) = <<>> /\ Len(recv) = 1
      BY <1>2, Tuples
    <2>3. /\ recv' = <<>> /\ rx' = <<l>> /\ bus' = <<"stop">> /\ lag' = 0
          /\ UNCHANGED <<k, pc, i, hi, results, tx, cam, speed>>
      BY <1>2, <2>1, <2>2, RxSteps, AppendTuples
    <2> QED
      BY <1>1, <2>3 DEF Second, Free
  <1>3. CASE n = 0 /\ Free /\ recv = <<>> /\ rx = <<l>>
    <2>1. ChipStop
      BY <1>1, <1>3, RxSteps, TxSteps DEF Chip
    <2>2. /\ bus' = <<>> /\ lag' = 0 /\ UNCHANGED <<rx, recv>>
          /\ UNCHANGED <<k, pc, i, hi, results, tx, cam, speed>>
      BY <2>1, RxSteps
    <2> QED
      BY <1>1, <1>3, <2>2 DEF Second, Free
  <1> QED
    BY <1>2, <1>3 DEF Second

\* The results stay exact while no call returns.
LEMMA SameResults == ASSUME ResultsExact, UNCHANGED <<k, results>> PROVE ResultsExact'
  BY DEF ResultsExact

\* Steps that end inside a read, and steps that end between two calls.
LEMMA ToReading ==
    ASSUME FastInv, UNCHANGED <<k, results, cam>>, pc' \in Reading,
           NEW reg, NEW v, reg = Program[k][2], v = cam[reg], ReadFast(reg, v)'
    PROVE  FastInv'
  <1>1. pc' \notin Waiting \cup {"done"}
    BY DEF Reading, Waiting
  <1>2. Program[k'][2] = reg /\ cam'[reg] = v
    OBVIOUS
  <1>3. ReadFast(Program[k][2], cam[Program[k][2]])'
    BY <1>2
  <1> QED
    BY <1>1, <1>3, SameResults DEF FastInv

\* FastInv where no bytes of a read are awaited.
LEMMA ToWaiting ==
    ASSUME ResultsExact', pc' \in Waiting \cup {"done"}, NEW n \in 0 .. 6, Between(n)'
    PROVE  FastInv'
  <1>1. pc' \notin Reading
    BY DEF Reading, Waiting
  <1> QED
    BY <1>1 DEF FastInv

\* The controller keeps the invariant.
LEMMA FChip == ASSUME WInv, FastInv, Chip PROVE FastInv'
  <1>0. PollInv /\ pc \in Waiting \cup Reading \cup {"done"}
    BY DEF WInv, CallInv
  <1>1. CASE pc \in Waiting \cup {"done"}
    <2>1. PICK n \in 0 .. 6 : Between(n)
      BY <1>1 DEF FastInv
    <2>2. /\ n \in 1 .. 6 /\ Left(n - 1)' /\ Quiet' /\ lag' = 0 /\ (tx = <<>> => tx' = <<>>)
          /\ UNCHANGED <<k, pc, i, results, speed>>
      BY <2>1, LeftNext DEF Between
    <2>3. /\ i \in Nat /\ speed \in Nat /\ lag \in Nat /\ lag <= speed /\ MaxPolls \in Nat
          /\ n * speed \in Nat /\ (n - 1) * speed = n * speed - speed
      BY <1>0, I2CAssumption DEF PollInv
    <2>4. pc' = "call" => Late(n - 1, 5)'
      BY <1>0, <2>1, <2>2, Sooner DEF Between
    <2>5. pc' = "busy" => \/ tx' = <<>> /\ Late(n - 1, 1)'
                          \/ MaxPolls + i' + (n - 1) * speed' <= 5 * speed' + lag'
      <3>1. CASE pc = "busy" /\ tx = <<>> /\ Late(n, 1)
        BY <1>0, <2>2, <3>1, Sooner
      <3>2. CASE pc = "busy" /\ MaxPolls + i + n * speed <= 5 * speed + lag
        BY <2>2, <2>3, <3>2
      <3> QED
        BY <2>1, <2>2, <3>1, <3>2 DEF Between
    <2>6. pc' = "check" => tx' = <<>> /\ (n - 1) * speed' <= lag'
      BY <2>1, <2>2, <2>3 DEF Between
    <2>7. n - 1 \in 0 .. 6 /\ Between(n - 1)'
      BY <2>2, <2>4, <2>5, <2>6 DEF Between
    <2>8. ResultsExact'
      BY <2>2, SameResults DEF FastInv
    <2> QED
      BY <1>1, <2>2, <2>7, <2>8, ToWaiting
  <1>2. CASE pc \in Reading
    <2> PICK reg, v : reg = Program[k][2] /\ v = cam[reg]
      OBVIOUS
    <2>1. ReadFast(reg, v)
      BY <1>2 DEF FastInv
    <2>2. SUFFICES UNCHANGED <<k, pc, results, cam>> /\ ReadFast(reg, v)'
      BY <1>2, ToReading
    <2>3. CASE pc = "sent" \/ pc = "turn"
      <3>1. PICK n \in 0 .. 3 : Sent(reg, n) /\ (pc = "sent" => Late(n, 2)) /\ (pc = "turn" => n = 0)
        BY <2>1, <2>3 DEF ReadFast
      <3>2. /\ n \in 1 .. 3 /\ Sent(reg, n - 1)' /\ lag' = 0
            /\ UNCHANGED <<k, pc, i, hi, results, cam, speed>>
        BY <3>1, SentNext
      <3>3. pc = "sent" /\ Late(n - 1, 2)' /\ n - 1 \in 0 .. 3
        BY <1>0, <2>3, <3>1, <3>2, Sooner
      <3> QED
        BY <3>2, <3>3 DEF ReadFast
    <2>4. CASE pc = "turned" \/ pc = "count"
      <3>1. PICK n \in 0 .. 1 : Turned(reg, n) /\ (pc = "count" => n = 0)
        BY <2>1, <2>4 DEF ReadFast
      <3>2. n = 1 /\ Turned(reg, 0)' /\ UNCHANGED <<k, pc, results, cam>>
        BY <3>1, TurnedNext
      <3>3. Late(0, 1)'
        BY DEF Late
      <3> QED
        BY <2>4, <3>1, <3>2, <3>3 DEF ReadFast
    <2>5. CASE pc = "hi"
      <3>1. PICK n \in 0 .. 2 : First(reg, v, n) /\ Late(n, 2)
        BY <2>1, <2>5 DEF ReadFast
      <3>2. /\ \/ n \in 1 .. 2 /\ First(reg, v, n - 1)'
               \/ n = 0 /\ First(reg, v, 0)'
            /\ lag' = 0 /\ UNCHANGED <<k, pc, i, hi, results, cam, speed>>
        BY <3>1, FirstNext
      <3>3. CASE n = 0
        BY <2>5, <3>2, <3>3 DEF ReadFast, Late
      <3>4. CASE n \in 1 .. 2
        <4>1. Late(n - 1, 2)' /\ n - 1 \in 0 .. 2
          BY <1>0, <3>1, <3>2, <3>4, Sooner
        <4> QED
          BY <2>5, <3>2, <3>4, <4>1 DEF ReadFast
      <3> QED
        BY <3>3, <3>4
    <2>6. CASE pc = "gethi"
      BY <2>1, <2>6, FirstNext DEF ReadFast
    <2>7. CASE pc = "lo" \/ pc = "getlo"
      <3>1. PICK n \in 0 .. 1 : Second(reg, v, n)
        BY <2>1, <2>7 DEF ReadFast
      <3>2. Second(reg, v, 0)' /\ UNCHANGED <<k, pc, results, cam>>
        BY <3>1, SecondNext
      <3> QED
        BY <2>7, <3>2 DEF ReadFast, Late
    <2> QED
      BY <1>2, <2>3, <2>4, <2>5, <2>6, <2>7 DEF Reading
  <1> QED
    BY <1>0, <1>1, <1>2

\* What a poll and the end of a loop change.
LEMMA LoopSteps ==
    ASSUME NEW loop, NEW ready, NEW next
    PROVE  /\ Poll(loop, ready) =>
                /\ pc = loop /\ ~ready /\ i' = i + 1 /\ (Working => lag' = lag + 1)
                /\ UNCHANGED <<k, pc, hi, results, tx, rx, bus, recv, cam, speed>>
           /\ Leave(loop, ready, next) =>
                /\ pc = loop /\ (ready \/ i >= MaxPolls) /\ pc' = next /\ i' = 0
                /\ UNCHANGED <<k, hi, results, tx, rx, bus, recv, cam, lag, speed>>
  BY DEF Poll, Leave, Goto, chip

\* The two loops before a call.
LEMMA FWaitTx == ASSUME WInv, FastEnough, FastInv, WaitTx PROVE FastInv'
  <1>1. pc = "call" /\ PollInv
    BY LoopSteps DEF WaitTx, WInv
  <1>2. PICK n \in 0 .. 6 : Between(n)
    BY <1>1 DEF FastInv, Waiting
  <1>3. Late(n, 5) /\ Left(n) /\ Quiet
    BY <1>1, <1>2 DEF Between
  <1>4. UNCHANGED <<k, results, tx, rx, bus, recv, speed>>
    BY LoopSteps DEF WaitTx
  <1>5. Left(n)' /\ Quiet' /\ ResultsExact'
    BY <1>3, <1>4, SameResults DEF Left, Writing, Quiet, FastInv
  <1>6. CASE Poll("call", TxEmpty)
    <2>1. Working
      BY <1>6, LoopSteps DEF Working
    <2>2. pc' = "call" /\ i' = i + 1 /\ lag' = lag + 1
      BY <1>1, <1>6, <2>1, LoopSteps
    <2>3. Late(n, 5)'
      BY <1>1, <1>3, <1>4, <2>2, Later
    <2> QED
      BY <1>5, <2>2, <2>3, ToWaiting DEF Between, Waiting
  <1>7. CASE Leave("call", TxEmpty, "busy")
    <2>1. pc' = "busy" /\ i' = 0 /\ lag' = lag /\ (tx = <<>> \/ i >= MaxPolls)
      BY <1>7, LoopSteps DEF TxEmpty
    <2>2. /\ i \in Nat /\ speed \in Nat \ {0} /\ lag \in Nat /\ lag <= speed /\ MaxPolls \in Nat
          /\ n * speed \in Nat /\ i <= MaxPolls
      BY <1>1, I2CAssumption DEF PollInv
    <2>3. CASE tx = <<>>
      <3>1. n = 0 \/ n = 1
        BY <1>3, <2>3, WritingBusy DEF Left
      <3>2. Late(n, 1)'
        BY <1>4, <2>1, <2>2, <3>1 DEF Late
      <3> QED
        BY <1>4, <1>5, <2>1, <2>3, <3>2, ToWaiting DEF Between, Waiting
    <2>4. CASE tx # <<>>
      <3>1. n # 0
        BY <1>3, <2>4 DEF Left
      <3>2. MaxPolls + 0 + n * speed <= 5 * speed + lag
        BY <1>3, <2>1, <2>2, <2>4, <3>1 DEF Late
      <3>3. MaxPolls + i' + n * speed' <= 5 * speed' + lag'
        BY <1>4, <2>1, <3>2
      <3> QED
        BY <1>5, <2>1, <3>3, ToWaiting DEF Between, Waiting
    <2> QED
      BY <2>3, <2>4
  <1> QED
    BY <1>6, <1>7 DEF WaitTx

\* The wait for a free bus, the second of a call.
LEMMA FWaitFree == ASSUME WInv, FastEnough, FastInv, WaitFree PROVE FastInv'
  <1>1. pc = "busy" /\ PollInv
    BY LoopSteps DEF WaitFree, WInv
  <1>2. PICK n \in 0 .. 6 : Between(n)
    BY <1>1 DEF FastInv, Waiting
  <1>3. /\ Left(n) /\ Quiet
        /\ \/ tx = <<>> /\ Late(n, 1)
           \/ MaxPolls + i + n * speed <= 5 * speed + lag
    BY <1>1, <1>2 DEF Between
  <1>4. UNCHANGED <<k, results, tx, rx, bus, recv, speed>>
    BY LoopSteps DEF WaitFree
  <1>5. Left(n)' /\ Quiet' /\ ResultsExact'
    BY <1>3, <1>4, SameResults DEF Left, Writing, Quiet, FastInv
  <1>6. /\ i \in Nat /\ speed \in Nat \ {0} /\ lag \in Nat /\ lag <= speed /\ MaxPolls \in Nat
        /\ n * speed \in Nat /\ i <= MaxPolls /\ 5 * speed <= 2 * MaxPolls
    BY <1>1, I2CAssumption DEF PollInv, FastEnough
  <1>7. CASE Poll("busy", ~Busy)
    <2>1. bus # <<>>
      BY <1>7, LoopSteps DEF Busy
    <2>2. Working
      BY <1>3, <2>1, WritingBusy DEF Left, Working, TxEmpty
    <2>3. pc' = "busy" /\ i' = i + 1 /\ lag' = lag + 1
      BY <1>7, <2>2, LoopSteps
    <2>4. \/ tx' = <<>> /\ Late(n, 1)'
          \/ MaxPolls + i' + n * speed' <= 5 * speed' + lag'
      <3>1. CASE tx = <<>> /\ Late(n, 1)
        BY <1>1, <1>4, <2>3, <3>1, Later
      <3>2. CASE MaxPolls + i + n * speed <= 5 * speed + lag
        BY <1>4, <1>6, <2>3, <3>2
      <3> QED
        BY <1>3, <3>1, <3>2
    <2> QED
      BY <1>5, <2>3, <2>4, ToWaiting DEF Between, Waiting
  <1>8. CASE Leave("busy", ~Busy, "check")
    <2>1. pc' = "check" /\ lag' = lag /\ (bus = <<>> \/ i >= MaxPolls)
      BY <1>8 DEF Leave, Goto, Busy
    <2>2. tx = <<>> /\ n * speed <= lag
      <3>1. CASE tx = <<>> /\ Late(n, 1)
        <4>1. n = 0
          <5>1. CASE bus = <<>>
            BY <1>3, <3>1, <5>1, WritingBusy, BusForms DEF Left
          <5>2. CASE i >= MaxPolls
            BY <1>1, <3>1, <5>2, InTime
          <5> QED
            BY <2>1, <5>1, <5>2
        <4> QED
          BY <1>6, <3>1, <4>1
      <3>2. CASE MaxPolls + i + n * speed <= 5 * speed + lag
        <4>1. n \in {0, 1, 2, 3}
          <5>1. 2 * (n * speed) <= 7 * speed
            BY <1>6, <3>2
          <5>2. n \in {4, 5, 6} => 2 * (n * speed) >= 8 * speed
            BY <1>6
          <5> QED
            BY <1>6, <5>1, <5>2
        <4>2. CASE i >= MaxPolls
          <5>1. n * speed <= lag
            BY <1>6, <3>2, <4>2
          <5>2. n \in {0, 1}
            <6>1. n \in {2, 3} => n * speed >= 2 * speed
              BY <1>6
            <6> QED
              BY <1>6, <4>1, <5>1, <6>1
          <5>3. tx = <<>>
            BY <1>3, <5>2 DEF Left
          <5> QED
            BY <5>1, <5>3
        <4>3. CASE bus = <<>>
          <5>1. n = 0
            BY <1>3, <4>1, <4>3, BusForms, WritingBusy DEF Left, Writing, WriteWords
          <5> QED
            BY <1>3, <1>6, <5>1 DEF Left
        <4> QED
          BY <2>1, <4>2, <4>3
      <3> QED
        BY <1>3, <3>1, <3>2
    <2> QED
      BY <1>4, <1>5, <2>1, <2>2, ToWaiting DEF Between, Waiting
  <1> QED
    BY <1>7, <1>8 DEF WaitFree

\* The FIFO contents that the steps name are not empty.
LEMMA NonEmpty == \A a, b : <<a>> # <<>> /\ <<a, b>> # <<>>
  OBVIOUS

\* The loops of a read.
LEMMA FReadLoops ==
    ASSUME WInv, FastEnough, FastInv, WaitSent \/ WaitTurned \/ WaitHi \/ WaitLo
    PROVE  FastInv'
  <1> PICK reg, v : reg = Program[k][2] /\ v = cam[reg]
    OBVIOUS
  <1>0. PollInv
    BY DEF WInv
  <1>1. UNCHANGED <<k, hi, results, tx, rx, bus, recv, cam, speed>>
    BY LoopSteps DEF WaitSent, WaitTurned, WaitHi, WaitLo
  <1>2. SUFFICES ASSUME pc \in Reading, ReadFast(reg, v)
                 PROVE  pc' \in Reading /\ ReadFast(reg, v)'
    <2>1. pc \in Reading
      BY LoopSteps DEF WaitSent, WaitTurned, WaitHi, WaitLo, Reading
    <2>2. ReadFast(reg, v)
      BY <2>1 DEF FastInv
    <2> QED
      BY <1>1, <1>2, <2>1, <2>2, ToReading
  <1>3. \A n : /\ Sent(reg, n) => Sent(reg, n)'
               /\ Turned(reg, n) => Turned(reg, n)'
               /\ First(reg, v, n) => First(reg, v, n)'
               /\ Second(reg, v, n) => Second(reg, v, n)'
    BY <1>1 DEF Sent, Turned, First, Second, Quiet, Free
  <1>4. CASE WaitSent
    <2>1. pc = "sent"
      BY <1>4 DEF WaitSent, Poll, Leave
    <2>2. PICK n \in 0 .. 3 : Sent(reg, n) /\ Late(n, 2)
      BY <1>2, <2>1 DEF ReadFast
    <2>3. CASE Poll("sent", TxEmpty)
      <3>1. pc' = "sent" /\ i' = i + 1 /\ lag' = lag + 1
        BY <2>3, LoopSteps DEF Working
      <3>2. Late(n, 2)'
        BY <1>0, <1>1, <2>2, <3>1, Later
      <3> QED
        BY <1>3, <2>2, <3>1, <3>2 DEF ReadFast, Reading
    <2>4. CASE Leave("sent", TxEmpty, "turn")
      <3>1. pc' = "turn" /\ (tx = <<>> \/ i >= MaxPolls)
        BY <2>4, LoopSteps DEF TxEmpty
      <3>2. tx = <<>> => n = 0
        BY <2>2, Tuples DEF Sent
      <3>3. n = 0
        BY <1>0, <2>2, <3>1, <3>2, InTime
      <3> QED
        BY <1>3, <2>2, <3>1, <3>3 DEF ReadFast, Reading
    <2> QED
      BY <1>4, <2>3, <2>4 DEF WaitSent
  <1>5. CASE WaitTurned
    <2>1. pc = "turned"
      BY <1>5 DEF WaitTurned, Poll, Leave
    <2>2. PICK n \in 0 .. 1 : Turned(reg, n) /\ Late(n, 1)
      BY <1>2, <2>1 DEF ReadFast
    <2>3. CASE Poll("turned", TxEmpty)
      <3>1. pc' = "turned" /\ i' = i + 1 /\ lag' = lag + 1
        BY <2>3, LoopSteps DEF Working
      <3>2. Late(n, 1)'
        BY <1>0, <1>1, <2>2, <3>1, Later
      <3> QED
        BY <1>3, <2>2, <3>1, <3>2 DEF ReadFast, Reading
    <2>4. CASE Leave("turned", TxEmpty, "count")
      <3>1. pc' = "count" /\ (tx = <<>> \/ i >= MaxPolls)
        BY <2>4, LoopSteps DEF TxEmpty
      <3>2. tx = <<>> => n = 0
        BY <2>2, Tuples DEF Turned
      <3>3. n = 0
        BY <1>0, <2>2, <3>1, <3>2, InTime
      <3> QED
        BY <1>3, <2>2, <3>1, <3>3 DEF ReadFast, Reading
    <2> QED
      BY <1>5, <2>3, <2>4 DEF WaitTurned
  <1>6. CASE WaitHi
    <2>1. pc = "hi"
      BY <1>6 DEF WaitHi, Poll, Leave
    <2>2. PICK n \in 0 .. 2 : First(reg, v, n) /\ Late(n, 2)
      BY <1>2, <2>1 DEF ReadFast
    <2>3. (n = 0 => rx # <<>>) /\ (n # 0 => rx = <<>> /\ Working)
      <3>1. CASE n = 0
        <4>1. rx = <<HIGHBYTE(v)>> \/ rx = <<HIGHBYTE(v), LOWBYTE(v)>>
          BY <2>2, <3>1 DEF First
        <4> QED
          BY <3>1, <4>1, NonEmpty, Zenon
      <3>2. CASE n = 1
        <4>1. rx = <<>> /\ recv = <<HIGHBYTE(v), LOWBYTE(v)>> /\ n # 0
          BY <2>2, <3>2 DEF First
        <4> QED
          BY <4>1, NonEmpty, Zenon DEF Working
      <3>3. CASE n = 2
        <4>1. rx = <<>> /\ tx = <<Count>> /\ n # 0
          BY <2>2, <3>3 DEF First, Quiet
        <4> QED
          BY <4>1, NonEmpty, Zenon DEF Working, TxEmpty
      <3> QED
        BY <3>1, <3>2, <3>3
    <2>4. CASE Poll("hi", ~RxEmpty)
      <3>1. pc' = "hi" /\ i' = i + 1 /\ n # 0
        BY <2>3, <2>4 DEF Poll, RxEmpty
      <3>2. lag' = lag + 1
        BY <2>3, <2>4, <3>1 DEF Poll
      <3>3. Late(n, 2)'
        BY <1>0, <1>1, <2>2, <3>1, <3>2, Later
      <3> QED
        BY <1>3, <2>2, <3>1, <3>3 DEF ReadFast, Reading
    <2>5. CASE Leave("hi", ~RxEmpty, "gethi")
      <3>1. pc' = "gethi" /\ (rx # <<>> \/ i >= MaxPolls)
        BY <2>5 DEF Leave, Goto, RxEmpty
      <3>2. n = 0
        BY <1>0, <2>2, <2>3, <3>1, InTime
      <3> QED
        BY <1>3, <2>2, <3>1, <3>2 DEF ReadFast, Reading
    <2> QED
      BY <1>6, <2>4, <2>5 DEF WaitHi
  <1>7. CASE WaitLo
    <2>1. pc = "lo"
      BY <1>7 DEF WaitLo, Poll, Leave
    <2>2. PICK n \in 0 .. 1 : Second(reg, v, n) /\ Late(n, 1)
      BY <1>2, <2>1 DEF ReadFast
    <2>3. (n = 0 => rx # <<>>) /\ (n # 0 => rx = <<>> /\ Working)
      <3>1. CASE n = 0
        <4>1. rx = <<LOWBYTE(v)>>
          BY <2>2, <3>1 DEF Second
        <4> QED
          BY <3>1, <4>1, NonEmpty, Zenon
      <3>2. CASE n = 1
        <4>1. rx = <<>> /\ recv = <<LOWBYTE(v)>> /\ n # 0
          BY <2>2, <3>2 DEF Second
        <4> QED
          BY <4>1, NonEmpty, Zenon DEF Working
      <3> QED
        BY <3>1, <3>2
    <2>4. CASE Poll("lo", ~RxEmpty)
      <3>1. pc' = "lo" /\ i' = i + 1 /\ n # 0
        BY <2>3, <2>4 DEF Poll, RxEmpty
      <3>2. lag' = lag + 1
        BY <2>3, <2>4, <3>1 DEF Poll
      <3>3. Late(n, 1)'
        BY <1>0, <1>1, <2>2, <3>1, <3>2, Later
      <3> QED
        BY <1>3, <2>2, <3>1, <3>3 DEF ReadFast, Reading
    <2>5. CASE Leave("lo", ~RxEmpty, "getlo")
      <3>1. pc' = "getlo" /\ (rx # <<>> \/ i >= MaxPolls)
        BY <2>5 DEF Leave, Goto, RxEmpty
      <3>2. n = 0
        BY <1>0, <2>2, <2>3, <3>1, InTime
      <3> QED
        BY <1>3, <2>2, <3>1, <3>2 DEF ReadFast, Reading
    <2> QED
      BY <1>7, <2>4, <2>5 DEF WaitLo
  <1> QED
    BY <1>4, <1>5, <1>6, <1>7

\* A call that returns 0, a read with what the camera is due to hold.
LEMMA ResultsReturn ==
    ASSUME WInv, ResultsExact, pc # "done", NEW x, Return(x), x[1] = "ok",
           Program[k][1] = "read" => x[2] = Due(Program[k][2])
    PROVE  ResultsExact'
  <1>1. /\ k \in Nat \ {0} /\ k' = k + 1 /\ results'[k] = x
        /\ \A j \in 1 .. k - 1 : results'[j] = results[j]
    BY Returns DEF WInv, CallInv, Return
  <1>2. SUFFICES ASSUME NEW j \in 1 .. k
                 PROVE  /\ results'[j][1] = "ok"
                        /\ Program[j][1] = "read" =>
                             results'[j][2] = LastIn(results', Program[j][2], j - 1)
    BY <1>1 DEF ResultsExact
  <1>3. LastIn(results', Program[j][2], j - 1) = LastIn(results, Program[j][2], j - 1)
    <2>1. j - 1 \in Nat /\ \A l \in 1 .. j - 1 : results'[l] = results[l]
      BY <1>1
    <2> QED
      BY <2>1, LastInSame
  <1>4. CASE j = k
    BY <1>1, <1>3, <1>4 DEF Due
  <1>5. CASE j \in 1 .. k - 1
    BY <1>1, <1>3, <1>5 DEF ResultsExact
  <1> QED
    BY <1>1, <1>4, <1>5

\* A call finds the TX FIFO empty and at most the stop condition left.
LEMMA AtCheck ==
    ASSUME WInv, FastInv, pc = "check"
    PROVE  Quiet /\ tx = <<>> /\ (bus = <<>> \/ (bus = <<"stop">> /\ lag = speed))
  <1>1. PICK n \in 0 .. 6 : Between(n)
    BY DEF FastInv, Waiting
  <1>2. Quiet /\ Left(n) /\ tx = <<>> /\ n * speed <= lag
    BY <1>1 DEF Between
  <1>3. (n = 0 /\ bus = <<>>) \/ (n = 1 /\ bus = <<"stop">>)
    BY <1>2, WritingBusy DEF Left
  <1>4. speed \in Nat /\ lag \in Nat /\ lag <= speed
    BY DEF WInv, PollInv
  <1> QED
    BY <1>2, <1>3, <1>4

\* writeReg() succeeds, and the controller has at most six steps to make.
LEMMA FWriteWord == ASSUME WInv, FastInv, WriteWord PROVE FastInv'
  <1> PICK reg, v : reg = Program[k][2] /\ v = Program[k][3]
    OBVIOUS
  <1>1. /\ pc = "check" /\ tx = <<>> /\ Program[k][1] = "write" /\ Return(<<"ok">>)
        /\ tx' = tx \o WriteWords(reg, v) /\ UNCHANGED <<rx, bus, recv, lag, speed>>
    BY DEF WriteWord, TxEmpty, Call, Push, chip
  <1>2. k \in 1 .. Len(Program)
    BY <1>1, I2CAssumption DEF WInv, CallInv
  <1>3. reg \in Registers /\ v \in Word
    BY <1>1, <1>2, Calls
  <1>4. tx' = WriteWords(reg, v) /\ Len(tx') = 4
    BY <1>1 DEF WriteWords
  <1>5. (\E p \in Registers, w \in Word : Writing(p, w))'
    <2>1. Writing(reg, v)'
      BY <1>4 DEF Writing
    <2> QED
      BY <1>3, <2>1
  <1>6. pc' \in {"call", "done"} /\ i' = 0
    BY <1>1 DEF Return, Goto
  <1>7. Quiet /\ (bus = <<>> \/ (bus = <<"stop">> /\ lag = speed))
    BY <1>1, AtCheck
  <1>8. ResultsExact'
    <2>1. <<"ok">>[1] = "ok" /\ "write" # "read"
      OBVIOUS
    <2> QED
      BY <1>1, <2>1, ResultsReturn DEF FastInv
  <1>9. speed \in Nat /\ lag \in Nat
    BY DEF WInv, PollInv
  <1>10. CASE bus = <<>>
    <2>1. Left(5)' /\ Late(5, 5)'
      BY <1>1, <1>4, <1>5, <1>6, <1>9, <1>10 DEF Left, Late
    <2>2. Between(5)'
      BY <1>1, <1>6, <1>7, <2>1 DEF Between, Quiet
    <2> QED
      BY <1>6, <1>8, <2>2, ToWaiting DEF Waiting
  <1>11. CASE bus = <<"stop">> /\ lag = speed
    <2>1. Left(6)' /\ Late(6, 5)'
      BY <1>1, <1>4, <1>5, <1>6, <1>9, <1>11 DEF Left, Late
    <2>2. Between(6)'
      BY <1>1, <1>6, <1>7, <2>1 DEF Between, Quiet
    <2> QED
      BY <1>6, <1>8, <2>2, ToWaiting DEF Waiting
  <1> QED
    BY <1>7, <1>10, <1>11

\* The words of readReg() find the controller ready for them.
LEMMA FReadSteps ==
    ASSUME WInv, FastInv, ReadAddress \/ ReadTurn \/ ReadCount
    PROVE  FastInv'
  <1> PICK reg, v : reg = Program[k][2] /\ v = cam[reg]
    OBVIOUS
  <1>1. /\ UNCHANGED <<k, results, rx, bus, recv, cam, lag, speed>> /\ i' = 0
        /\ speed \in Nat /\ lag \in Nat
    BY DEF ReadAddress, ReadTurn, ReadCount, chip, Goto, WInv, PollInv
  <1>2. CASE ReadAddress
    <2>1. pc = "check" /\ pc' = "sent" /\ tx' = tx \o <<StartW, <<"byte", reg>>>>
      BY <1>2 DEF ReadAddress, Goto, Push, Call, StartW
    <2>2. Quiet /\ tx = <<>> /\ (bus = <<>> \/ (bus = <<"stop">> /\ lag = speed))
      BY <2>1, AtCheck
    <2>3. tx' = <<StartW, <<"byte", reg>>>>
      BY <2>1, <2>2
    <2>4. CASE bus = <<>>
      <3>1. Sent(reg, 2)' /\ Late(2, 2)'
        BY <1>1, <2>2, <2>3, <2>4 DEF Sent, Quiet, Late
      <3>2. ReadFast(reg, v)'
        BY <2>1, <3>1 DEF ReadFast
      <3> QED
        BY <1>1, <2>1, <3>2, ToReading DEF Reading
    <2>5. CASE bus = <<"stop">> /\ lag = speed
      <3>1. Sent(reg, 3)' /\ Late(3, 2)'
        BY <1>1, <2>2, <2>3, <2>5 DEF Sent, Quiet, Late
      <3>2. ReadFast(reg, v)'
        BY <2>1, <3>1 DEF ReadFast
      <3> QED
        BY <1>1, <2>1, <3>2, ToReading DEF Reading
    <2> QED
      BY <2>2, <2>4, <2>5
  <1>3. CASE ReadTurn
    <2>1. pc = "turn" /\ pc' = "turned" /\ tx' = tx \o <<StartR>>
      BY <1>3 DEF ReadTurn, Goto, Push, StartR
    <2>2. Sent(reg, 0)
      BY <2>1 DEF FastInv, Reading, ReadFast
    <2>3. tx = <<>> /\ bus = <<"w", reg>> /\ Quiet
      BY <2>2 DEF Sent
    <2>4. tx' = <<StartR>>
      BY <2>1, <2>3
    <2>5. Turned(reg, 1)' /\ Late(1, 1)'
      BY <1>1, <2>3, <2>4 DEF Turned, Quiet, Late
    <2>6. ReadFast(reg, v)'
      BY <2>1, <2>5 DEF ReadFast
    <2> QED
      BY <1>1, <2>1, <2>6, ToReading DEF Reading
  <1>4. CASE ReadCount
    <2>1. pc = "count" /\ pc' = "hi" /\ tx' = tx \o <<Count>>
      BY <1>4 DEF ReadCount, Goto, Push, Count
    <2>2. Turned(reg, 0)
      BY <2>1 DEF FastInv, Reading, ReadFast
    <2>3. tx = <<>> /\ bus = <<"w", reg, "r">> /\ Quiet
      BY <2>2 DEF Turned
    <2>4. tx' = <<Count>>
      BY <2>1, <2>3
    <2>5. First(reg, v, 2)' /\ Late(2, 2)'
      BY <1>1, <2>3, <2>4 DEF First, Quiet, Late
    <2>6. ReadFast(reg, v)'
      BY <2>1, <2>5 DEF ReadFast
    <2> QED
      BY <1>1, <2>1, <2>6, ToReading DEF Reading
  <1> QED
    BY <1>2, <1>3, <1>4

\* readReg() takes the two bytes.
LEMMA FGetHi == ASSUME WInv, FastInv, GetHi PROVE FastInv'
  <1> PICK reg, v : reg = Program[k][2] /\ v = cam[reg]
    OBVIOUS
  <1>1. /\ pc = "gethi" /\ pc' = "lo" /\ i' = 0 /\ hi' = RxByte /\ rx' = RxRest
        /\ UNCHANGED <<k, results, tx, bus, recv, cam, lag, speed>>
        /\ speed \in Nat /\ lag \in Nat
    BY DEF GetHi, Goto, chip, WInv, PollInv
  <1>2. First(reg, v, 0)
    BY <1>1 DEF FastInv, Reading, ReadFast
  <1>3. SUFFICES \E n \in 0 .. 1 : Second(reg, v, n)' /\ Late(n, 1)'
    <2>1. ReadFast(reg, v)'
      BY <1>1, <1>3 DEF ReadFast
    <2> QED
      BY <1>1, <2>1, ToReading DEF Reading
  <1> DEFINE h == HIGHBYTE(v)
             l == LOWBYTE(v)
  <1>4. \/ tx = <<>> /\ bus = <<"w", reg, "r">> /\ recv = <<l>> /\ rx = <<h>>
        \/ tx = <<>> /\ Free /\ recv = <<>> /\ rx = <<h, l>>
    BY <1>2 DEF First
  <1>5. CASE tx = <<>> /\ bus = <<"w", reg, "r">> /\ recv = <<l>> /\ rx = <<h>>
    <2>1. hi' = h /\ rx' = <<>>
      BY <1>1, <1>5, NonEmpty, Tuples DEF RxByte, RxRest, RxEmpty
    <2>2. Second(reg, v, 1)' /\ Late(1, 1)'
      BY <1>1, <1>5, <2>1 DEF Second, Late
    <2> QED
      BY <2>2
  <1>6. CASE tx = <<>> /\ Free /\ recv = <<>> /\ rx = <<h, l>>
    <2>1. hi' = h /\ rx' = <<l>>
      BY <1>1, <1>6, NonEmpty, Tuples DEF RxByte, RxRest, RxEmpty
    <2>2. Second(reg, v, 0)' /\ Late(0, 1)'
      BY <1>1, <1>6, <2>1 DEF Second, Late, Free
    <2> QED
      BY <2>2
  <1> QED
    BY <1>4, <1>5, <1>6

\* The second byte of a read, which ends the call.
LEMMA FGetLo == ASSUME WInv, FastInv, GetLo PROVE FastInv'
  <1> PICK reg, v : reg = Program[k][2] /\ v = cam[reg]
    OBVIOUS
  <1>1. /\ pc = "getlo" /\ rx' = RxRest /\ Return(<<"ok", Combine(hi, RxByte)>>)
        /\ UNCHANGED <<tx, bus, recv, lag, speed>>
    BY DEF GetLo, chip
  <1>2. Second(reg, v, 0)
    BY <1>1 DEF FastInv, Reading, ReadFast
  <1>3. hi = HIGHBYTE(v) /\ tx = <<>> /\ Free /\ recv = <<>> /\ rx = <<LOWBYTE(v)>>
    BY <1>2 DEF Second
  <1>4. RxByte = LOWBYTE(v) /\ rx' = <<>>
    BY <1>1, <1>3, NonEmpty, Tuples DEF RxByte, RxRest, RxEmpty
  <1>5. k \in 1 .. Len(Program) /\ Program[k][1] = "read" /\ NoWrite
    BY <1>1, I2CAssumption DEF WInv, CallInv, OneWrite, Reading
  <1>6. reg \in Registers /\ v \in Word /\ v = Due(reg)
    <2>1. reg \in Registers
      BY <1>5, Calls
    <2> QED
      BY <1>5, <2>1 DEF NoWrite, WInv, PollInv
  <1>7. Combine(hi, RxByte) = v
    <2>1. HIGHBYTE(v) # Junk /\ LOWBYTE(v) # Junk
      BY <1>6, ByteFacts, JunkAssumption
    <2>2. Combine(hi, RxByte) = LOWBYTE(v) + HIGHBYTE(v) * 256
      BY <1>3, <1>4, <2>1 DEF Combine
    <2> QED
      BY <1>6, <2>2, ByteFacts
  <1>8. ResultsExact'
    <2>1. Return(<<"ok", v>>) /\ <<"ok", v>>[1] = "ok" /\ <<"ok", v>>[2] = v /\ pc # "done"
      BY <1>1, <1>7
    <2> QED
      BY <1>6, <2>1, ResultsReturn DEF FastInv
  <1>9. pc' \in {"call", "done"} /\ i' = 0 /\ speed \in Nat /\ lag \in Nat
    BY <1>1 DEF Return, Goto, WInv, PollInv
  <1>10. CASE bus = <<>>
    <2>1. Between(0)'
      BY <1>1, <1>3, <1>4, <1>9, <1>10 DEF Between, Quiet, Left, Late
    <2> QED
      BY <1>8, <1>9, <2>1, ToWaiting DEF Waiting
  <1>11. CASE bus = <<"stop">>
    <2>1. Between(1)'
      BY <1>1, <1>3, <1>4, <1>9, <1>11 DEF Between, Quiet, Left, Late
    <2> QED
      BY <1>8, <1>9, <2>1, ToWaiting DEF Waiting
  <1> QED
    BY <1>3, <1>10, <1>11 DEF Free

\* With a controller that is fast enough every step keeps the invariant; no call fails.
LEMMA FNext == ASSUME WInv, FastEnough, FastInv, [Next]_vars PROVE FastInv'
  <1>1. CASE UNCHANGED vars
    BY <1>1 DEF FastInv, ResultsExact, Between, Left, Quiet, Writing, Late, ReadFast, Sent, Turned,
                First, Second, Free, vars, driver, chip
  <1>2. ~Fail
    BY AtCheck DEF Fail, TxEmpty
  <1> QED
    BY <1>1, <1>2, FChip, FWaitTx, FWaitFree, FWriteWord, FReadSteps, FReadLoops, FGetHi, FGetLo
       DEF Next, Driver, Done

\* The invariant of the reads.
FInv == FastEnough => FastInv

\* The invariant says what ReadsExact says.
LEMMA FImplies == ASSUME WInv, FInv PROVE ReadsExact
  <1>1. SUFFICES ASSUME FastEnough
                 PROVE  /\ \A j \in 1 .. Len(results) :
                             /\ results[j][1] = "ok"
                             /\ Program[j][1] = "read" =>
                                  results[j][2] = LastWritten(Program[j][2], j - 1)
                        /\ pc = "call" => RxEmpty
    BY DEF ReadsExact
  <1>2. \A r, n : LastIn(results, r, n) = LastWritten(r, n)
    BY DEF LastIn, LastOf, GoodWrites, LastWritten
  <1>3. ResultsExact /\ Len(results) = k - 1
    BY <1>1 DEF FInv, FastInv, WInv, CallInv
  <1>4. pc = "call" => RxEmpty
    BY <1>1 DEF FInv, FastInv, Waiting, Between, Quiet, RxEmpty
  <1> QED
    BY <1>2, <1>3, <1>4 DEF ResultsExact

\* readReg(): for every program of calls and every controller that is fast enough for the
\* polls, no call fails, a read returns the value of the last write to its register, and it
\* leaves no byte behind for the next read.
THEOREM ReadsAlwaysExact == Spec => []ReadsExact
  <1>1. Init => FInv
    <2>1. ASSUME Init
          PROVE  Between(0) /\ ResultsExact /\ pc \notin Reading
      BY <2>1 DEF Init, Between, Quiet, Left, Late, ResultsExact, Reading
    <2> QED
      BY <2>1 DEF FInv, FastInv
  <1>2. WInv /\ FInv /\ [Next]_vars => FInv'
    <2>1. ASSUME WInv, FInv, [Next]_vars, FastEnough' PROVE FastInv'
      <3>1. speed' = speed
        BY <2>1, TxSteps, RxSteps
           DEF Next, Driver, Chip, Done, WaitTx, WaitFree, WaitSent, WaitTurned, WaitHi, WaitLo, Poll,
               Leave, Fail, WriteWord, ReadAddress, ReadTurn, ReadCount, GetHi, GetLo, vars, chip
      <3> QED
        BY <2>1, <3>1, FNext DEF FInv, FastEnough
    <2> QED
      BY <2>1 DEF FInv
  <1> QED
    BY <1>1, <1>2, WAlways, FImplies, PTL DEF Spec
=============================================================================
