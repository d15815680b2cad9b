----------------------------- MODULE NtpDriver -----------------------------
(***************************************************************************)
(* demo_driver.c: a driver for an FPGA that fills two log buffers in turn  *)
(* and interrupts when one is full.  The interrupt handler queues a work   *)
(* item, the work item switches current_buffer, and read() takes the       *)
(* buffer the FPGA is not filling.                                         *)
(*                                                                         *)
(* The FPGA is external: it raises its interrupt line and goes on with the *)
(* other buffer at once.  So is the kernel: a line that is raised twice    *)
(* before it is served, or work that is queued twice before it runs,       *)
(* counts once; flush_workqueue() waits for what is queued.  "oops" is     *)
(* where the code hands the kernel a pointer that is not valid.            *)
(***************************************************************************)
EXTENDS Integers

CONSTANTS NoOfBytes,  \* no_of_bytes, the register file
          LogSize,    \* log_data_size
          SizeT,      \* the number of values of size_t (2^32 on the target)
          Counts,     \* sizes of read() and write() calls
          Positions   \* where lseek() may go

ASSUME NtpAssumption ==
    /\ NoOfBytes \in Nat /\ LogSize \in Nat /\ SizeT \in Nat
    /\ NoOfBytes < LogSize /\ LogSize < SizeT
    /\ Counts \subseteq Nat /\ Positions \subseteq Nat

Off == 2

VARIABLES
    mod,             \* next step of ntp_fpga_init() or ntp_fpga_exit(); "none", "live", "oops"
    port,            \* the memory region could not be reserved
    irq,             \* buffer_full_handler is registered
    my_wq,           \* "null", "ok", "destroyed"
    work,            \* "null", "raw" (allocated), "ready"
    current_buffer,
    line,            \* the interrupt line
    pending,         \* work is queued
    worker,          \* "idle", or the next step of my_wq_function()
    bufs,            \* the log buffers that kmalloc() has given: 0 (log_data), 1 (log_data2)
    filling,         \* the buffer the FPGA fills, or Off
    skew,            \* parity of the switches the driver has missed or made too often
    file,            \* a process has the device open
    f_pos,
    got              \* the last copy: from the "log" or the "registers", or "written" to the
                     \* registers; where it began; its length

module == <<mod, port>>
queue == <<irq, my_wq, work>>
switch == <<current_buffer, pending, worker, skew>>
fpga == <<line, filling, bufs>>
user == <<file, f_pos, got>>
vars == <<module, queue, switch, fpga, user>>

Init ==
    /\ mod = "none" /\ port = FALSE
    /\ irq = FALSE /\ my_wq = "null" /\ work = "null"
    /\ current_buffer = 0 /\ pending = FALSE /\ worker = "idle" /\ skew = 0
    /\ line = FALSE /\ filling = Off /\ bufs = {}
    /\ file = FALSE /\ f_pos = 0 /\ got = [kind |-> "none", first |-> 0, n |-> 0]

Flip(b) == 1 - b
-----------------------------------------------------------------------------
(* ntp_fpga_init().  Every step that fails goes to ntp_fpga_exit().        *)

\* insmod: fresh data; if register_chrdev() fails nothing has happened.
RegisterChrdev ==
    /\ mod = "none" /\ mod' = "region"
    /\ port' = FALSE /\ my_wq' = "null" /\ work' = "null"
    /\ current_buffer' = 0 /\ skew' = 0 /\ bufs' = {}
    /\ UNCHANGED <<irq, pending, worker, line, filling, user>>

CheckMemRegion(ok) ==
    /\ mod = "region"
    /\ port' = ~ok
    /\ mod' = IF ok THEN "setup" ELSE "unregister"
    /\ UNCHANGED <<queue, switch, fpga, user>>

\* setup_buffer(), setup_ntp(): the FPGA is given both addresses, whether kmalloc() failed or
\* not, and starts with log_data.  An interrupt left from an earlier load will be taken for
\* a switch.
SetupBuffer(given) ==
    /\ mod = "setup" /\ mod' = "irq"
    /\ filling' = 0 /\ bufs' = given
    /\ skew' = IF line THEN 1 ELSE 0
    /\ UNCHANGED <<port, queue, current_buffer, pending, worker, line, user>>

RequestIrq(ok) ==
    /\ mod = "irq"
    /\ irq' = ok
    /\ mod' = IF ok THEN "queue" ELSE "unregister"
    /\ UNCHANGED <<port, my_wq, work, switch, fpga, user>>

\* A queue or a work item that could not be made is not reported.
CreateWorkqueue(ok) ==
    /\ mod = "queue"
    /\ my_wq' = IF ok THEN "ok" ELSE "null"
    /\ mod' = IF ok THEN "work" ELSE "live"
    /\ UNCHANGED <<port, irq, work, switch, fpga, user>>

KmallocWork(ok) ==
    /\ mod = "work"
    /\ work' = IF ok THEN "raw" ELSE "null"
    /\ mod' = IF ok THEN "initwork" ELSE "live"
    /\ UNCHANGED <<port, irq, my_wq, switch, fpga, user>>

InitWork ==
    /\ mod = "initwork" /\ mod' = "live"
    /\ work' = "ready"
    /\ UNCHANGED <<port, irq, my_wq, switch, fpga, user>>
-----------------------------------------------------------------------------
(* ntp_fpga_exit(), from rmmod or from a load that fails.  The file        *)
(* operations have no owner: an open file does not keep the module.        *)

Rmmod ==
    /\ mod = "live" /\ mod' = "unregister"
    /\ UNCHANGED <<port, queue, switch, fpga, user>>

\* unregister_chrdev(), release_mem_region()
Unregister ==
    /\ mod = "unregister" /\ mod' = "freeirq"
    /\ UNCHANGED <<port, queue, switch, fpga, user>>

\* Mutant: the queue is taken down while the handler is still registered.
FreeIrqLast ==
    /\ \/ mod = "freeirq" /\ mod' = "flush" /\ UNCHANGED irq
       \/ mod = "none" /\ irq /\ irq' = FALSE /\ UNCHANGED mod
    /\ UNCHANGED <<port, my_wq, work, switch, fpga, user>>

FreeIrq ==
    /\ mod = "freeirq" /\ mod' = "flush"
    /\ irq' = FALSE
    /\ UNCHANGED <<port, my_wq, work, switch, fpga, user>>

\* flush_workqueue() waits for the work; without a queue it fails.
FlushWorkqueue ==
    /\ mod = "flush"
    /\ my_wq = "ok" => ~pending /\ worker = "idle"
    /\ mod' = IF my_wq = "ok" THEN "destroy" ELSE "oops"
    /\ UNCHANGED <<port, queue, switch, fpga, user>>

DestroyWorkqueue ==
    /\ mod = "destroy" /\ mod' = "none"
    /\ my_wq' = "destroyed"
    /\ UNCHANGED <<port, irq, work, switch, fpga, user>>
-----------------------------------------------------------------------------
(* FPGA, interrupt, work.                                                  *)

\* A buffer is full.  If the line is still up, the driver will miss one of two switches.
BufferFull ==
    /\ mod # "oops" /\ filling # Off
    /\ filling' = Flip(filling)
    /\ line' = TRUE
    /\ skew' = IF line THEN Flip(skew) ELSE skew
    /\ UNCHANGED <<module, queue, current_buffer, pending, worker, bufs, user>>

\* buffer_full_handler(): queue_work() does nothing if the work is already queued.
BufferFullHandler ==
    /\ mod # "oops" /\ irq /\ line
    /\ line' = FALSE
    /\ IF my_wq = "ok" /\ work = "ready"
         THEN /\ pending' = TRUE
              /\ skew' = IF pending THEN Flip(skew) ELSE skew
              /\ UNCHANGED mod
         ELSE mod' = "oops" /\ UNCHANGED <<pending, skew>>
    /\ UNCHANGED <<port, queue, current_buffer, worker, filling, bufs, user>>

WorkBegins ==
    /\ mod # "oops" /\ pending /\ worker = "idle"
    /\ pending' = FALSE /\ worker' = "increment"
    /\ UNCHANGED <<module, queue, current_buffer, skew, fpga, user>>

\* current_buffer++
Increment ==
    /\ mod # "oops" /\ worker = "increment" /\ worker' = "wrap"
    /\ current_buffer' = current_buffer + 1
    /\ UNCHANGED <<module, queue, pending, skew, fpga, user>>

\* Mutant: the counter saturates.
WrapSaturates ==
    /\ mod # "oops" /\ worker = "wrap" /\ worker' = "idle"
    /\ current_buffer' = IF current_buffer > 1 THEN 1 ELSE current_buffer
    /\ UNCHANGED <<module, queue, pending, skew, fpga, user>>

\* current_buffer = current_buffer % 2
Wrap ==
    /\ mod # "oops" /\ worker = "wrap" /\ worker' = "idle"
    /\ current_buffer' = current_buffer % 2
    /\ UNCHANGED <<module, queue, pending, skew, fpga, user>>
-----------------------------------------------------------------------------
(* The file operations.                                                    *)

Open ==
    /\ mod \notin {"none", "freeirq", "flush", "destroy", "oops"} /\ ~file
    /\ file' = TRUE /\ f_pos' = 0
    /\ UNCHANGED <<module, queue, switch, fpga, got>>

Release ==
    /\ mod # "oops" /\ file
    /\ file' = FALSE
    /\ UNCHANGED <<module, queue, switch, fpga, f_pos, got>>

Seek(p) ==
    /\ mod # "oops" /\ file
    /\ f_pos' = p
    /\ UNCHANGED <<module, queue, switch, fpga, file, got>>

\* The buffer read() takes the log from.
LogBuffer == IF current_buffer = 1 THEN 0 ELSE 1

\* Mutant: the request is not cut at the end of the area.
AvailableUncut(count, total) ==
    IF f_pos >= total THEN 0 ELSE IF count < total - f_pos THEN count ELSE total

\* The length of a read of count bytes from an area of total bytes.
Available(count, total) ==
    LET asked == IF count < total - f_pos THEN count ELSE total
    IN  IF f_pos >= total THEN 0
        ELSE IF asked > total - f_pos THEN total - f_pos ELSE asked

\* Up to no_of_bytes the registers are read, in place; beyond it the log, always from
\* the start of the buffer.  Before setup_buffer(), or after a kmalloc() that failed, the
\* log's pointer is null.
Read(count) ==
    /\ mod \notin {"none", "oops"} /\ file
    /\ got' = IF f_pos > NoOfBytes
                THEN [kind |-> "log", first |-> 0, n |-> Available(count, LogSize)]
                ELSE [kind |-> "registers", first |-> f_pos, n |-> Available(count, NoOfBytes)]
    /\ IF got'.kind = "log" /\ got'.n > 0 /\ LogBuffer \notin bufs
         THEN mod' = "oops" /\ UNCHANGED f_pos
         ELSE f_pos' = f_pos + got'.n /\ UNCHANGED mod
    /\ UNCHANGED <<port, queue, switch, fpga, file>>

\* The length of a write of count bytes.  What is left of the registers is a loff_t, compared
\* with its sign and then assigned to a size_t: beyond the registers it wraps round.
ToWrite(count) ==
    LET asked == IF count <= NoOfBytes THEN count ELSE NoOfBytes
    IN  IF asked > NoOfBytes - f_pos THEN (NoOfBytes - f_pos) % SizeT ELSE asked

\* write() does not move f_pos.  A copy that wraps runs over tmp[], on the kernel's stack.
Write(count) ==
    /\ mod \notin {"none", "oops"} /\ file
    /\ got' = [kind |-> "written", first |-> f_pos, n |-> ToWrite(count)]
    /\ mod' = IF f_pos > NoOfBytes /\ got'.n > 0 THEN "oops" ELSE mod
    /\ UNCHANGED <<port, queue, switch, fpga, file, f_pos>>

\* A file that was open when the module went away calls code that is not there.
UseUnloaded ==
    /\ mod = "none" /\ file
    /\ mod' = "oops"
    /\ UNCHANGED <<port, queue, switch, fpga, user>>
-----------------------------------------------------------------------------
Next ==
    \/ RegisterChrdev \/ InitWork
    \/ \E given \in SUBSET {0, 1} : SetupBuffer(given)
    \/ \E ok \in BOOLEAN :
         CheckMemRegion(ok) \/ RequestIrq(ok) \/ CreateWorkqueue(ok) \/ KmallocWork(ok)
    \/ Rmmod \/ Unregister \/ FreeIrq \/ FlushWorkqueue \/ DestroyWorkqueue
    \/ BufferFull \/ BufferFullHandler \/ WorkBegins \/ Increment \/ Wrap
    \/ Open \/ Release \/ UseUnloaded
    \/ \E p \in Positions : Seek(p)
    \/ \E c \in Counts : Read(c) \/ Write(c)

Spec == Init /\ [][Next]_vars
-----------------------------------------------------------------------------
TypeOK ==
    /\ mod \in {"none", "region", "setup", "irq", "queue", "work", "initwork", "live",
                "unregister", "freeirq", "flush", "destroy", "oops"}
    /\ port \in BOOLEAN /\ irq \in BOOLEAN
    /\ my_wq \in {"null", "ok", "destroyed"} /\ work \in {"null", "raw", "ready"}
    /\ current_buffer \in {0, 1, 2} /\ worker \in {"idle", "increment", "wrap"}
    /\ pending \in BOOLEAN /\ line \in BOOLEAN /\ file \in BOOLEAN
    /\ filling \in {0, 1, Off} /\ skew \in {0, 1} /\ bufs \subseteq {0, 1}
    /\ f_pos \in Nat
    /\ got \in [kind : {"none", "registers", "log", "written"}, first : Nat, n : Nat]

\* The FPGA has been started by this load of the module, which is still there.
Filling ==
    /\ mod \in {"irq", "queue", "work", "initwork", "live", "unregister", "freeirq", "flush", "destroy"}
    /\ ~port

One(p) == IF p THEN 1 ELSE 0

\* The switches of the FPGA that current_buffer does not show yet: an interrupt raised, work
\* queued, work begun.  (A current_buffer that is incremented and not yet wrapped shows its
\* switch: read() takes 2 as it takes 0.)
UnderWay == One(line) + One(pending) + One(worker = "increment")

\* read() takes the log from the buffer "not being used by the ntp_fpga at the moment"
\* exactly when the switches under way and those lost in merged interrupts are even in
\* number: no other interleaving of interrupt, work, read() and reload puts the driver out
\* of step, and after a lost switch it stays out of step until the next one is lost.
ReadsIdleBuffer == Filling => (LogBuffer # filling <=> (UnderWay + skew) % 2 = 0)

\* No read leaves the register file or the log buffer, whatever position and count, and no
\* write that begins inside the register file leaves it.
CopyInside ==
    /\ got.kind = "log" => got.first + got.n <= LogSize
    /\ got.kind = "registers" => got.first + got.n <= NoOfBytes
    /\ got.kind = "written" /\ got.first <= NoOfBytes => got.first + got.n <= NoOfBytes

\* After ntp_fpga_exit() no handler is registered and no work is queued or running, and
\* at no time does the handler meet a queue that has been destroyed.
ExitQuiet ==
    /\ mod = "none" => ~irq /\ ~pending /\ worker = "idle"
    /\ my_wq = "destroyed" => ~irq
=============================================================================
