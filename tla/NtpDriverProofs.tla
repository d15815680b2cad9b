--------------------------- MODULE NtpDriverProofs ---------------------------
(***************************************************************************)
(* Interrupt, work queue, read() and exit of demo_driver.c: what holds     *)
(* between them in every order of their steps, for every size of register  *)
(* file and log.                                                           *)
(***************************************************************************)
EXTENDS NtpDriver, TLAPS

\* The queue and the handler at each stage of init and exit: nothing is queued before the
\* work item is ready or after the flush, and the handler goes before the queue does.
QueueInv ==
    /\ irq => mod \in {"queue", "work", "initwork", "live", "unregister", "freeirq", "oops"}
    /\ mod \in {"region", "setup", "irq", "queue"} => my_wq = "null"
    /\ mod \in {"region", "setup", "irq", "queue", "work"} => work = "null"
    /\ mod = "initwork" => work = "raw"
    /\ my_wq = "destroyed" => ~irq /\ mod \in {"none", "oops"}
    /\ pending \/ worker # "idle" =>
         /\ work = "ready" /\ mod \in {"live", "unregister", "freeirq", "flush", "oops"}

\* The driver's buffer and the FPGA's differ by the switches under way and those merged,
\* all counted modulo 2.
ParityInv ==
    /\ worker = "wrap" => current_buffer \in {1, 2}
    /\ worker # "wrap" => current_buffer \in {0, 1}
    /\ mod \in {"region", "setup"} => current_buffer = 0
    /\ Filling => filling \in {0, 1} /\ (filling + current_buffer + UnderWay + skew) % 2 = 0

NInv == TypeOK /\ QueueInv /\ ParityInv /\ CopyInside
-----------------------------------------------------------------------------
\* No module is loaded at the start.
LEMMA InitNInv == Init => NInv
<1> SUFFICES ASSUME Init PROVE NInv
  OBVIOUS
<1> USE DEF Init, Off
<1>1. TypeOK
  <2>1. port \in BOOLEAN /\ irq \in BOOLEAN /\ pending \in BOOLEAN /\ line \in BOOLEAN /\ file \in BOOLEAN
    BY Zenon
  <2>2. got \in [kind : {"none", "registers", "log", "written"}, first : Nat, n : Nat]
    OBVIOUS
  <2> QED BY <2>1, <2>2 DEF TypeOK
<1>2. QueueInv
  BY DEF QueueInv
<1>3. ParityInv
  BY DEF ParityInv, Filling
<1>4. CopyInside
  BY DEF CopyInside
<1> QED BY <1>1, <1>2, <1>3, <1>4 DEF NInv

\* A read stays inside its area, whatever the position and the count.
LEMMA AvailableFits ==
    ASSUME NEW count \in Nat, NEW total \in Nat, f_pos \in Nat
    PROVE  /\ Available(count, total) \in Nat /\ Available(count, total) <= total
           /\ f_pos <= total => f_pos + Available(count, total) <= total
  BY DEF Available

\* A write from inside the register file stays there; its length is a size_t anyway.
LEMMA ToWriteFits ==
    ASSUME NEW count \in Nat, f_pos \in Nat
    PROVE  /\ ToWrite(count) \in Nat
           /\ f_pos <= NoOfBytes => f_pos + ToWrite(count) <= NoOfBytes
<1> USE NtpAssumption
<1>1. (NoOfBytes - f_pos) % SizeT \in Nat
  OBVIOUS
<1>2. f_pos <= NoOfBytes => (NoOfBytes - f_pos) % SizeT = NoOfBytes - f_pos
  OBVIOUS
<1> QED BY <1>1, <1>2 DEF ToWrite

\* The file operations.
LEMMA FileStep ==
    ASSUME NInv,
           \/ Open \/ Release \/ UseUnloaded
           \/ \E p \in Positions : Seek(p)
           \/ \E c \in Counts : Read(c) \/ Write(c)
    PROVE  /\ f_pos' \in Nat /\ file' \in BOOLEAN
           /\ got' \in [kind : {"none", "registers", "log", "written"}, first : Nat, n : Nat]
           /\ CopyInside'
           /\ mod' \in {mod, "oops"} /\ UNCHANGED <<port, queue, switch, fpga>>
<1>0. TypeOK /\ CopyInside
  BY DEF NInv
<1> USE NtpAssumption DEF TypeOK
<1>1. CASE Open \/ Release \/ UseUnloaded
  <2>1. file' \in BOOLEAN
    BY <1>0, <1>1, Zenon DEF Open, Release, UseUnloaded, user
  <2> QED BY <1>0, <1>1, <2>1 DEF Open, Release, UseUnloaded, user, module, CopyInside
<1>2. ASSUME NEW p \in Positions, Seek(p)
      PROVE  /\ f_pos' \in Nat /\ file' = file /\ got' = got
             /\ mod' = mod /\ UNCHANGED <<port, queue, switch, fpga>>
  BY <1>2 DEF Seek, module
<1>3. ASSUME NEW c \in Counts, Read(c)
      PROVE  /\ f_pos' \in Nat /\ file' = file
             /\ got' \in [kind : {"none", "registers", "log", "written"}, first : Nat, n : Nat]
             /\ CopyInside'
             /\ mod' \in {mod, "oops"} /\ UNCHANGED <<port, queue, switch, fpga>>
  <2>1. c \in Nat /\ f_pos \in Nat
    BY <1>0
  <2>2. f_pos' \in {f_pos, f_pos + got'.n} /\ mod' \in {mod, "oops"}
    BY <1>3 DEF Read
  <2>3. CASE f_pos > NoOfBytes
    <3> DEFINE n == Available(c, LogSize)
    <3>1. n \in Nat /\ n <= LogSize
      BY <2>1, AvailableFits
    <3>2. got' = [kind |-> "log", first |-> 0, n |-> n]
      BY <1>3, <2>3 DEF Read
    <3> HIDE DEF n
    <3> QED BY <1>3, <2>1, <2>2, <3>1, <3>2 DEF Read, CopyInside
  <2>4. CASE f_pos <= NoOfBytes
    <3> DEFINE n == Available(c, NoOfBytes)
    <3>1. n \in Nat /\ f_pos + n <= NoOfBytes
      BY <2>1, <2>4, AvailableFits
    <3>2. got' = [kind |-> "registers", first |-> f_pos, n |-> n]
      BY <1>3, <2>1, <2>4 DEF Read
    <3> HIDE DEF n
    <3> QED BY <1>3, <2>1, <2>2, <3>1, <3>2 DEF Read, CopyInside
  <2> QED BY <2>1, <2>3, <2>4
<1>4. ASSUME NEW c \in Counts, Write(c)
      PROVE  /\ f_pos' \in Nat /\ file' = file
             /\ got' \in [kind : {"none", "registers", "log", "written"}, first : Nat, n : Nat]
             /\ CopyInside'
             /\ mod' \in {mod, "oops"} /\ UNCHANGED <<port, queue, switch, fpga>>
  <2> DEFINE n == ToWrite(c)
  <2>1. c \in Nat /\ f_pos \in Nat
    BY <1>0
  <2>2. n \in Nat /\ (f_pos <= NoOfBytes => f_pos + n <= NoOfBytes)
    BY <2>1, ToWriteFits
  <2>3. got' = [kind |-> "written", first |-> f_pos, n |-> n] /\ mod' \in {mod, "oops"}
    BY <1>4 DEF Write
  <2> HIDE DEF n
  <2> QED BY <1>4, <2>1, <2>2, <2>3 DEF Write, CopyInside
<1>5. file' = file => file' \in BOOLEAN
  BY <1>0, Zenon
<1>6. got' = got => CopyInside'
  BY <1>0 DEF CopyInside
<1> QED BY <1>0, <1>1, <1>2, <1>3, <1>4, <1>5, <1>6

\* The steps of init and exit, by the sub-actions of Next.
InitStep ==
    \/ RegisterChrdev \/ InitWork
    \/ \E given \in SUBSET {0, 1} : SetupBuffer(given)
    \/ \E ok \in BOOLEAN :
         CheckMemRegion(ok) \/ RequestIrq(ok) \/ CreateWorkqueue(ok) \/ KmallocWork(ok)
ExitStep == Rmmod \/ Unregister \/ FreeIrq \/ FlushWorkqueue \/ DestroyWorkqueue
SwitchStep == BufferFull \/ BufferFullHandler \/ WorkBegins \/ Increment \/ Wrap
UserStep ==
    \/ Open \/ Release \/ UseUnloaded
    \/ \E p \in Positions : Seek(p)
    \/ \E c \in Counts : Read(c) \/ Write(c)

\* The steps by who takes them.
LEMMA NextSteps == [Next]_vars => InitStep \/ ExitStep \/ SwitchStep \/ UserStep \/ UNCHANGED vars
  BY DEF Next, InitStep, ExitStep, SwitchStep, UserStep

\* Steps other than the user's leave the file alone.
LEMMA UserUntouched ==
    ASSUME InitStep \/ ExitStep \/ SwitchStep \/ UNCHANGED vars
    PROVE  UNCHANGED user
  BY DEF InitStep, RegisterChrdev, SetupBuffer, InitWork, CheckMemRegion, RequestIrq,
         CreateWorkqueue, KmallocWork, ExitStep, Rmmod, Unregister, FreeIrq, FlushWorkqueue,
         DestroyWorkqueue, SwitchStep, BufferFull, BufferFullHandler, WorkBegins, Increment,
         Wrap, vars

\* No copy leaves its area.
LEMMA NextCopyInside == NInv /\ [Next]_vars => CopyInside'
<1> SUFFICES ASSUME NInv, [Next]_vars PROVE CopyInside'
  OBVIOUS
<1>1. CASE UserStep
  BY <1>1, FileStep DEF UserStep
<1>2. CASE UNCHANGED user
  BY <1>2 DEF user, NInv, CopyInside
<1> QED BY <1>1, <1>2, NextSteps, UserUntouched

\* The Boolean variables stay Boolean.
LEMMA NextBooleans ==
    ASSUME NInv, [Next]_vars
    PROVE  /\ port' \in BOOLEAN /\ irq' \in BOOLEAN /\ pending' \in BOOLEAN
           /\ line' \in BOOLEAN /\ file' \in BOOLEAN
<1>0. /\ port \in BOOLEAN /\ irq \in BOOLEAN /\ pending \in BOOLEAN
      /\ line \in BOOLEAN /\ file \in BOOLEAN
  BY Zenon DEF NInv, TypeOK
<1> USE DEF module, queue, switch, fpga, user
<1>1. CASE InitStep
  <2>1. CASE RegisterChrdev \/ InitWork
    BY <1>0, <2>1, Zenon DEF RegisterChrdev, InitWork
  <2>4. ASSUME NEW given \in SUBSET {0, 1}, SetupBuffer(given)
        PROVE  /\ port' \in BOOLEAN /\ irq' \in BOOLEAN /\ pending' \in BOOLEAN
               /\ line' \in BOOLEAN /\ file' \in BOOLEAN
    BY <1>0, <2>4, Zenon DEF SetupBuffer
  <2>2. ASSUME NEW ok \in BOOLEAN, CheckMemRegion(ok) \/ RequestIrq(ok)
        PROVE  /\ port' \in BOOLEAN /\ irq' \in BOOLEAN /\ pending' \in BOOLEAN
               /\ line' \in BOOLEAN /\ file' \in BOOLEAN
    BY <1>0, <2>2, Zenon DEF CheckMemRegion, RequestIrq
  <2>3. ASSUME NEW ok \in BOOLEAN, CreateWorkqueue(ok) \/ KmallocWork(ok)
        PROVE  /\ port' \in BOOLEAN /\ irq' \in BOOLEAN /\ pending' \in BOOLEAN
               /\ line' \in BOOLEAN /\ file' \in BOOLEAN
    BY <1>0, <2>3, Zenon DEF CreateWorkqueue, KmallocWork
  <2> QED BY <1>1, <2>1, <2>2, <2>3, <2>4 DEF InitStep
<1>2. CASE ExitStep
  BY <1>0, <1>2, Zenon DEF ExitStep, Rmmod, Unregister, FreeIrq, FlushWorkqueue, DestroyWorkqueue
<1>3. CASE SwitchStep
  <2>1. CASE BufferFullHandler
    <3>1. pending' \in BOOLEAN
      BY <1>0, <2>1, Zenon DEF BufferFullHandler
    <3> QED BY <1>0, <2>1, <3>1, Zenon DEF BufferFullHandler
  <2>2. CASE BufferFull \/ WorkBegins \/ Increment \/ Wrap
    BY <1>0, <2>2, Zenon DEF BufferFull, WorkBegins, Increment, Wrap
  <2> QED BY <1>3, <2>1, <2>2 DEF SwitchStep
<1>4. CASE UserStep
  <2>1. file' \in BOOLEAN /\ UNCHANGED <<port, queue, switch, fpga>>
    BY <1>4, FileStep DEF UserStep
  <2> QED BY <1>0, <2>1, Zenon
<1>5. CASE UNCHANGED vars
  BY <1>0, <1>5, Zenon DEF vars
<1> QED BY <1>1, <1>2, <1>3, <1>4, <1>5, NextSteps

\* Every step leaves the variables in their types.
LEMMA NextTypeOK == NInv /\ [Next]_vars => TypeOK'
<1> SUFFICES ASSUME NInv, [Next]_vars PROVE TypeOK'
  OBVIOUS
<1> DEFINE Rest ==
      /\ mod \in {"none", "region", "setup", "irq", "queue", "work", "initwork", "live",
                  "unregister", "freeirq", "flush", "destroy", "oops"}
      /\ my_wq \in {"null", "ok", "destroyed"} /\ work \in {"null", "raw", "ready"}
      /\ current_buffer \in {0, 1, 2} /\ worker \in {"idle", "increment", "wrap"}
      /\ filling \in {0, 1, Off} /\ skew \in {0, 1} /\ bufs \subseteq {0, 1}
<1>0. TypeOK /\ QueueInv /\ ParityInv /\ Rest
  BY DEF NInv, TypeOK
<1> USE DEF module, queue, switch, fpga, Off, Flip
<1>1. CASE InitStep
  <2>1. Rest'
    BY <1>0, <1>1 DEF InitStep, RegisterChrdev, SetupBuffer, InitWork, CheckMemRegion,
       RequestIrq, CreateWorkqueue, KmallocWork
  <2> QED BY <1>0, <1>1, <2>1, NextBooleans, UserUntouched DEF TypeOK, user
<1>2. CASE ExitStep
  <2>1. Rest'
    BY <1>0, <1>2 DEF ExitStep, Rmmod, Unregister, FreeIrq, FlushWorkqueue, DestroyWorkqueue
  <2> QED BY <1>0, <1>2, <2>1, NextBooleans, UserUntouched DEF TypeOK, user
<1>3. CASE SwitchStep
  <2>1. Rest'
    <3>1. CASE BufferFull
      BY <1>0, <3>1 DEF BufferFull
    <3>2. CASE BufferFullHandler
      BY <1>0, <3>2 DEF BufferFullHandler
    <3>3. CASE WorkBegins
      BY <1>0, <3>3 DEF WorkBegins
    <3>4. CASE Increment
      BY <1>0, <3>4 DEF Increment, ParityInv
    <3>5. CASE Wrap
      BY <1>0, <3>5 DEF Wrap
    <3> QED BY <1>3, <3>1, <3>2, <3>3, <3>4, <3>5 DEF SwitchStep
  <2> QED BY <1>0, <1>3, <2>1, NextBooleans, UserUntouched DEF TypeOK, user
<1>4. CASE UserStep
  <2>1. /\ f_pos' \in Nat
        /\ got' \in [kind : {"none", "registers", "log", "written"}, first : Nat, n : Nat]
        /\ mod' \in {mod, "oops"} /\ UNCHANGED <<queue, switch, fpga>>
    BY <1>4, FileStep DEF UserStep
  <2>2. Rest'
    BY <1>0, <2>1
  <2> QED BY <2>1, <2>2, NextBooleans DEF TypeOK
<1>5. CASE UNCHANGED vars
  BY <1>0, <1>5 DEF vars, user, TypeOK
<1> QED BY <1>1, <1>2, <1>3, <1>4, <1>5, NextSteps

\* init and exit take handler, work item and queue up and down in an order in which none
\* is used before it exists or after it has gone.
LEMMA NextQueueInv == NInv /\ [Next]_vars => QueueInv'
<1> SUFFICES ASSUME NInv, [Next]_vars PROVE QueueInv'
  OBVIOUS
<1>0. TypeOK /\ QueueInv
  BY DEF NInv
<1> USE DEF module, queue, switch, QueueInv, TypeOK
<1>1. CASE InitStep
  <2>1. CASE RegisterChrdev
    BY <1>0, <2>1 DEF RegisterChrdev
  <2>2. ASSUME NEW given \in SUBSET {0, 1}, SetupBuffer(given) PROVE QueueInv'
    BY <1>0, <2>2 DEF SetupBuffer
  <2>3. CASE InitWork
    BY <1>0, <2>3 DEF InitWork
  <2>4. ASSUME NEW ok \in BOOLEAN, CheckMemRegion(ok) PROVE QueueInv'
    BY <1>0, <2>4 DEF CheckMemRegion
  <2>5. ASSUME NEW ok \in BOOLEAN, RequestIrq(ok) PROVE QueueInv'
    BY <1>0, <2>5 DEF RequestIrq
  <2>6. ASSUME NEW ok \in BOOLEAN, CreateWorkqueue(ok) PROVE QueueInv'
    BY <1>0, <2>6 DEF CreateWorkqueue
  <2>7. ASSUME NEW ok \in BOOLEAN, KmallocWork(ok) PROVE QueueInv'
    BY <1>0, <2>7 DEF KmallocWork
  <2> QED BY <1>1, <2>1, <2>2, <2>3, <2>4, <2>5, <2>6, <2>7 DEF InitStep
<1>2. CASE ExitStep
  <2>1. CASE Rmmod \/ Unregister
    BY <1>0, <2>1 DEF Rmmod, Unregister
  <2>2. CASE FreeIrq
    BY <1>0, <2>2 DEF FreeIrq
  <2>3. CASE FlushWorkqueue
    BY <1>0, <2>3 DEF FlushWorkqueue
  <2>4. CASE DestroyWorkqueue
    BY <1>0, <2>4 DEF DestroyWorkqueue
  <2> QED BY <1>2, <2>1, <2>2, <2>3, <2>4 DEF ExitStep
<1>3. CASE SwitchStep
  <2>1. CASE BufferFull
    BY <1>0, <2>1 DEF BufferFull
  <2>2. CASE BufferFullHandler
    BY <1>0, <2>2 DEF BufferFullHandler
  <2>3. CASE WorkBegins
    BY <1>0, <2>3 DEF WorkBegins
  <2>4. CASE Increment \/ Wrap
    BY <1>0, <2>4 DEF Increment, Wrap
  <2> QED BY <1>3, <2>1, <2>2, <2>3, <2>4 DEF SwitchStep
<1>4. CASE UserStep
  <2>1. mod' \in {mod, "oops"} /\ UNCHANGED <<queue, switch>>
    BY <1>4, FileStep DEF UserStep
  <2> QED BY <1>0, <2>1
<1>5. CASE UNCHANGED vars
  BY <1>0, <1>5 DEF vars
<1> QED BY <1>1, <1>2, <1>3, <1>4, <1>5, NextSteps

\* Each step of a switch hands it on to the next stage, or merges it with another.
LEMMA NextParityInv == NInv /\ [Next]_vars => ParityInv'
<1> SUFFICES ASSUME NInv, [Next]_vars PROVE ParityInv'
  OBVIOUS
<1>0. TypeOK /\ QueueInv /\ ParityInv
  BY DEF NInv
<1> USE DEF module, queue, switch, fpga, ParityInv, TypeOK, Filling
<1>1. CASE InitStep
  <2>1. CASE RegisterChrdev
    BY <1>0, <2>1 DEF RegisterChrdev, QueueInv
  <2>2. ASSUME NEW given \in SUBSET {0, 1}, SetupBuffer(given) PROVE ParityInv'
    <3>1. ~pending /\ worker = "idle"
      BY <1>0, <2>2 DEF SetupBuffer, QueueInv
    <3> QED BY <1>0, <2>2, <3>1 DEF SetupBuffer, UnderWay, One
  <2>3. CASE InitWork
    BY <1>0, <2>3 DEF InitWork, UnderWay
  <2>4. ASSUME NEW ok \in BOOLEAN, CheckMemRegion(ok) PROVE ParityInv'
    BY <1>0, <2>4 DEF CheckMemRegion
  <2>5. ASSUME NEW ok \in BOOLEAN, RequestIrq(ok) \/ CreateWorkqueue(ok) \/ KmallocWork(ok)
        PROVE  ParityInv'
    BY <1>0, <2>5 DEF RequestIrq, CreateWorkqueue, KmallocWork, UnderWay
  <2> QED BY <1>1, <2>1, <2>2, <2>3, <2>4, <2>5 DEF InitStep
<1>2. CASE ExitStep
  BY <1>0, <1>2 DEF ExitStep, Rmmod, Unregister, FreeIrq, FlushWorkqueue, DestroyWorkqueue, UnderWay
<1>3. CASE SwitchStep
  <2>1. CASE BufferFull
    BY <1>0, <2>1 DEF BufferFull, Flip, UnderWay, One, Off
  <2>2. CASE BufferFullHandler
    BY <1>0, <2>2 DEF BufferFullHandler, Flip, UnderWay, One
  <2>3. CASE WorkBegins
    BY <1>0, <2>3 DEF WorkBegins, UnderWay, One
  <2>4. CASE Increment
    BY <1>0, <2>4 DEF Increment, UnderWay, One, QueueInv
  <2>5. CASE Wrap
    BY <1>0, <2>5 DEF Wrap, UnderWay, One, QueueInv
  <2> QED BY <1>3, <2>1, <2>2, <2>3, <2>4, <2>5 DEF SwitchStep
<1>4. CASE UserStep
  <2>1. mod' \in {mod, "oops"} /\ UNCHANGED <<port, switch, fpga>>
    BY <1>4, FileStep DEF UserStep
  <2> QED BY <1>0, <2>1 DEF UnderWay
<1>5. CASE UNCHANGED vars
  BY <1>0, <1>5 DEF vars, UnderWay
<1> QED BY <1>1, <1>2, <1>3, <1>4, <1>5, NextSteps

\* The invariant holds always.
LEMMA NInvariance == Spec => []NInv
<1>1. NInv /\ [Next]_vars => NInv'
  BY NextTypeOK, NextQueueInv, NextParityInv, NextCopyInside DEF NInv
<1> QED BY <1>1, InitNInv, PTL DEF Spec
-----------------------------------------------------------------------------
(* The theorems.                                                           *)

\* Type correctness; in particular current_buffer never leaves 0 .. 2.
THEOREM NtpTypeCorrect == Spec => []TypeOK
<1>1. NInv => TypeOK
  BY DEF NInv
<1> QED BY <1>1, NInvariance, PTL

\* In every interleaving read() takes the buffer the FPGA is not filling exactly when the
\* switches under way and those lost in merged interrupts are even in number.
THEOREM AlwaysReadsIdleBuffer == Spec => []ReadsIdleBuffer
<1>1. NInv => ReadsIdleBuffer
  <2> SUFFICES ASSUME NInv, Filling PROVE LogBuffer # filling <=> (UnderWay + skew) % 2 = 0
    BY DEF ReadsIdleBuffer
  <2>1. /\ filling \in {0, 1} /\ current_buffer \in {0, 1, 2}
        /\ (filling + current_buffer + UnderWay + skew) % 2 = 0
    BY DEF NInv, ParityInv, TypeOK
  <2>2. UnderWay + skew \in 0 .. 4
    BY DEF NInv, TypeOK, UnderWay, One
  <2>3. (filling + current_buffer) % 2 = 0 <=> (UnderWay + skew) % 2 = 0
    <3> DEFINE u == UnderWay + skew
    <3>1. u \in {0, 1, 2, 3, 4} /\ (filling + current_buffer + u) % 2 = 0
      BY <2>1, <2>2 DEF NInv, TypeOK, UnderWay, One
    <3> HIDE DEF u
    <3>2. (filling + current_buffer) % 2 = 0 <=> u % 2 = 0
      BY <2>1, <3>1
    <3> QED BY <3>2 DEF u
  <2>4. LogBuffer # filling <=> (filling + current_buffer) % 2 = 0
    BY <2>1 DEF LogBuffer
  <2> QED BY <2>3, <2>4
<1> QED BY <1>1, NInvariance, PTL

\* read() never copies from beyond the register file or the log buffer, and write() never to
\* beyond the register file if it begins inside it.
THEOREM CopyAlwaysInside == Spec => []CopyInside
<1>1. NInv => CopyInside
  BY DEF NInv
<1> QED BY <1>1, NInvariance, PTL

\* After the exit no handler is registered and no work is left, and the handler never meets
\* a destroyed queue.
THEOREM ExitAlwaysQuiet == Spec => []ExitQuiet
<1>1. NInv => ExitQuiet
  BY DEF NInv, QueueInv, TypeOK, ExitQuiet
<1> QED BY <1>1, NInvariance, PTL
=============================================================================
