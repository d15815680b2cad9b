# A TLA+ model of the visual-inertial sensor server

The repository holds the software of a camera sensor built on a Zynq board: an FPGA
writes camera images into a memory ring, a Linux driver owns that memory, and a user
program, `xilinx/visensor-srv`, sends the images to a TCP client. Around it are an older
generation of the same server (`slam_sensor_server`), test clients and small TCP and UDP
experiments. This directory models the parts that carry state and concurrency, checks
them with TLC on small instances, and proves all of their safety properties
with TLAPS for all sizes.

## Inventory

| Part | State | Operations | Talks to | What is hard | Correct when |
|---|---|---|---|---|---|
| Image ring (`SharedRingBuffer`, `Sensor`, `MT9V034`, `FPGARegisters`) | `position_`, the registers CONTROL, BUFFER_ADDRESS, BUFFER_SIZE, BUFFER_LINUX_POINTER, BUFFER_FPGA_POINTER | constructor, `power_on`, `newDataAvailable`, `movePointer`, `power_off` | the FPGA, through registers and shared memory | two writers without a lock, told apart only by slot addresses; wrap-around; a process that dies while the FPGA runs on | no image is overwritten while it is sent, none is lost or repeated, reader and FPGA never wait for each other |
| `TcpServer` (data port 13777, config port 13778) | `socket_`, `has_connection_`, a pending `async_accept` | constructor, `accept_connection`, `handle_accept`, `send_data` | io thread, main thread, clients | `has_connection_` and `socket_` are shared by two threads without a lock; a client's end is noticed only by a failing send | the server always serves or listens, the threads never use the socket together, a dead client is replaced |
| `main()` of visensor-srv | the camera, both servers, the io thread | start, loop, exception, `power_off` | all of the above | check-then-use of the connection flag, a failed send in the middle of an image, exceptions in the io thread | the composition keeps what its parts promise |
| I2C master (`I2CBusRaw`, `DevMem`) | TX and RX FIFO of the controller | `writeReg`, `readReg` | the camera chip | bounded polling of a slow device, ignored return codes | a register read returns that register |
| Kernel driver (`visensor.c`) and the process that maps its memory | the DMA buffer, the character device, `bytes_in_memory`; the mapping; BUFFER_ADDRESS | `aslam_init`, `aslam_exit`, `aslam_read`, `aslam_mmap`; open, read, map, program, power on | visensor-srv, the FPGA, the kernel's allocator | the device is visible before init is done, error paths go on after `kfree`, a process dies while the FPGA writes, the module is reloaded | a mapping is memory the driver holds, the FPGA's ring is the mapped memory, a running FPGA never writes memory of somebody else |
| Older driver (`memory_allocator.c`) and the `SharedMemoryManager` of slam_sensor_server | the same without a size | the same | slam_sensor_server | the same | the same |
| NTP driver (`demo_driver.c`) | `current_buffer`, interrupt, work queue, file position | init, exit, `buffer_full_handler`, `my_wq_function`, read, write, seek | an FPGA with two log buffers | interrupt against work against read; merged interrupts; unload with work queued | read takes the buffer that is not being filled, copies stay in bounds, nothing runs after the exit |
| slam_sensor_server | shared memory flags, the same `TcpServer` in an older form | main loop, timer handlers `cam_faker`, `imu_faker` | clients, shared memory | a flag cleared by one thread and set by another | nothing is sent twice for one setting, no source falls silent |
| UDP images (`udp_server.cpp`, `test_client`) | package counter, image under assembly | fragmentation and reassembly | each other, over UDP | lost, reordered and duplicated packages | losses are reported, complete images shown |
| UDP bandwidth test (`UDPtest`, `xilinx/UDPserver`) | 32 package counters used as a ring | send, count, report, clear | each other, over UDP | counters reused while late packages arrive, unsigned wrap | the printed loss is the network's |
| TCP stream (`TCPtest/client.cpp`, `TCPtest/server.cpp`) | framing of header and payload, asynchronous writer | read header, read payload, write, back to accept | visensor-srv, each other | partial reads, a connection that ends in the middle, data without headers | what is shown is one whole image; a server whose client has left listens again |

Everything else (device trees, Yocto recipes, Makefiles, shell scripts, vendored
`i2cbusses.c` and `i2c-dev.h`, the empty `ConfigServer`) has no behaviour of its own to model.

The hazards of this code are listed in `PROJECT.json`, each at its line and with the
properties that would catch it.

## Modules

| Module | Models | Extends / composes |
|---|---|---|
| `SharedRingBuffer` | the ring, its registers, start, stop and crash of the process, the FPGA | |
| `FrameRing` | the same steps with numbered images in the slots | extends `SharedRingBuffer`, implements `FrameQueue` |
| `FrameQueue` | abstract specification: a lossless queue of images | |
| `TcpServer` | the class in both its versions, clients and network | |
| `VisensorServer` | `main()` with the ring, the two servers, the io thread, the clients | instances of `SharedRingBuffer` and `TcpServer` |
| `VisensorStream` | which images reach which client | extends `VisensorServer`, instance of `FrameRing`, implements `FrameQueue` |
| `I2CBusRaw` | `writeReg`, `readReg` and the calls of `power_on`, with the controller | |
| `SlamSensorServer` | main loop, timer handlers and ready bytes of slam_sensor_server | sees `TcpServer` from outside |
| `UdpImage` | `UdpServer::send_data`, the network, the test client | |
| `VisensorDriver` | the two memory drivers, the process up to `power_on()`, the FPGA, the kernel's allocator | |
| `NtpDriver` | `demo_driver.c` with its interrupt, work queue and file operations | |
| `TcpStream` | `TCPtest/client.cpp` against visensor-srv and against `TCPtest/server.cpp` | sees `TcpServer` and `main()` as one sender |
| `Bandwidth` | the UDP bandwidth test | |
| `FrameRingProofs` (with the proofs of `SharedRingBuffer`), `TcpServerProofs`, `I2CBusRawProofs`, `VisensorDriverProofs`, `NtpDriverProofs` | proofs | each extends the module it is about |
| `SlamSensorServerProofs` | proofs of both halves of slam_sensor_server | extends `SlamSensorServer` and `UdpImage` |
| `TestProgramProofs` | proofs of the test programs | extends `TcpStream` and `Bandwidth` |
| `VisensorStreamProofs` | proofs of the composition | extends `VisensorStream`, instances of `FrameRingProofs` and `TcpServerProofs` |
| `MCTcpServer`, `MCVisensorStream` | the client-to-port assignment for TLC | |
| `MCI2CBusRaw`, `MCUdpImage` | the calls of `power_on` used, the kinds of network | |

### The ring

`SharedRingBuffer` has one variable per register and one for `position_`. `proc` is the
life of the process: down, constructed, powered and polling, or between
`newDataAvailable() == true` and `movePointer()`, that is inside `send_data()`. The methods
are operators without guards: `MT9V034` is the constructor (which builds the ring and writes
three registers), `power_on` and `power_off` write CONTROL (the I2C part of `power_on()` is a
component of its own), `movePointer` moves the reader. The steps say in which order a reader
calls them: `Construct`, `SwitchOn`, `BeginRead` (the successful poll), `EndRead` (the send is
over, `movePointer()`), `SwitchOff` (the end of `main()` after an exception), and `Crash`, any end
without `power_off()`: the FPGA then runs on, and the next process finds it anywhere in the ring.

The FPGA is external; the repository has only its register offsets. Its contract is the
one under which the server's code makes sense, and each part can be read off a line:
the pointer it reports is the end of the slot it is filling, because
`newDataAvailable()` compares it with the end of the reader's slot and calls equality
"still there" (if it were the start of the slot, the test would report an image before it
was complete); it must stop before the slot that begins at the Linux pointer, because
`movePointer()` stores the reader's slot "for blocking the FPGA"; it wraps after
BUFFER_SIZE bytes; CONTROL going from 0 to 1 starts it at the first slot, because a new
process starts at `position_` 0.

`FrameRing` adds numbers: `w` is the image being captured, `mem[s]` the image in slot `s`,
`out` the last image sent under protection; `NoneSent`, `FirstCapture`, `NextCapture` and
`ImageSent` are what a step does to them. `FrameQueue` states what a client may expect
without slots or addresses: a reader in step gets every image, in order, and the writer
waits when `Length - 1` images are unread.

### The servers

In `TcpServer` the io thread completes a pending accept (`AcceptDone`) and runs
`handle_accept`; the owner's thread calls `send_data` and, if the send throws, runs
`accept_connection()` one statement at a time (`ClearFlag`, `Close`, `Arm`). The order of
those statements is the constant `AcceptNext`; `VisensorOrder` and `SlamOrder` are the
orders of the two programs. `has_connection_` is a plain `bool` used by two threads, which
the C++ standard leaves undefined; the model takes each access as one step, which is what
a byte access on the target does. Clients connect, close or reset at any time; a send to a client
that has closed succeeds once and provokes a reset; a connection reset in the backlog is
accepted and makes `remote_endpoint()` throw. That exception leaves `io_service::run()`
in a thread without a handler and ends the process (`HandleAcceptThrows`). An accept error
of the system (`AcceptError`) makes the handler return early; the port is deaf from then on.

### The composition

`VisensorServer` has the program counter of `main()`, and guards its steps with nothing else than
where `main()` stands and what it tests. It calls the methods of the ring (`Ring!MT9V034`, `Ring!power_on`,
`Ring!movePointer`, `Ring!power_off`), not the ring's guarded steps; `proc`, what the ring takes for the
state of its reader, is read off the program counter. The loop tests the flag
(`SeeClient`), polls (`NoImage`, `SendImage`), waits for `send_data()` (`SendReturns`,
`AcceptAgain`) and moves the pointer (`MoveOn`), after a failed send too. `SendImage` does
not look at the flag again, as the code does not; that the flag is still valid is what
`TcpSpec` checks. That the calls come in an order that loses no image is what `DeliversLossless` checks:
the whole program implements `FrameQueue`. `StartFails` and `MainThrows` are the exceptions that reach the catch
block, and `IoThrows` the one that does not.

### I2C

`I2CBusRaw` follows both methods poll by poll. Every wait is a `Poll` (bit not yet set, fewer
than `MaxPolls` tries) or a `Leave` (bit set or tries used up); after the two waits at the
start only the TX FIFO is looked at again (`Fail`). The words of a write are pushed in one
step: if the controller takes them in between it holds the bus until the next one comes, so
nothing else can be seen. The controller is external: it takes words in order, one at a time, and
receives bytes; `speed` says how many polls it may sleep while it has work. A read of
an empty RX FIFO gives `Junk`. The camera's registers just keep what is written; what
the soft reset does inside it is left out. `power_on()` ignores return values, and so does `Return`.

### slam_sensor_server

`SlamSensorServer` has one ready byte per area (cameras, IMU, configuration), set by
`CamFaker0`, `CamFaker1` and `ImuFaker` on the io thread, tested by `BeginSend`, and cleared by
`Clear` after the send has returned. The bytes start with any value, because
nobody initialises them, and `Fill` models that the last number which main() prints into camera 0's
image reaches camera 1's byte. A connection is seen as main() sees it: `fin` and `rst` are
connections of clients that have left; `deaf` is the outcome of the race that `TcpServer` shows. A failing
send starts a new accept, although one may be pending.

`UdpImage` is the way of an image to `test_client`: `SendTo` is one round of the loop that
cuts it into datagrams, `Arrives` the client's loop. `faults` is chosen at the start.

### The drivers

`VisensorDriver` takes `aslam_init()` one registration at a time, because `device_create()`
comes before the pages are reserved, the pattern is written and `bytes_in_memory` is set:
a process may open the device in between. A registration that fails calls `kfree` and goes
on (`AllocChrdevRegion(FALSE)`, `CdevAdd(FALSE)`); only `cdev_add()` leaves a negative `ret`.
The two generations of driver and server take the same steps; `pair` says
which one runs, and the sizes (`NPages`, `MemSpace`) and the steps of the process differ. The
process is followed from `open()` to `power_on()`, and may die anywhere (`Crash`). Blocks of
memory have an owner; `"lost"` is memory that was freed with its pages still
reserved, which the kernel does not give out again. The FPGA takes up a changed BUFFER_ADDRESS when
CONTROL goes to 1 or, if it runs already, when it is through with its ring (`FpgaWraps`).

`NtpDriver` has the same shape: init and exit step by step, the interrupt line, the queued
work, `current_buffer++` and `% 2` as separate steps, and the file operations. `skew` is a
history variable: the parity of the switches that were merged. `UnderWay` counts the switches that
`current_buffer` does not show yet. `ReadsIdleBuffer` is exact: read() takes the idle buffer if and only if
both together are even; so it does take the buffer being filled between a switch of the FPGA and the
end of its work, and from a lost switch to the next lost one, and at no other time. `bufs` are the log
buffers that `kmalloc()` gave: before `setup_buffer()`, or when it failed, a log read meets a null
pointer. `ToWrite` keeps the mixed signs of write(): what is left of the registers is compared as a `loff_t`
and stored in a `size_t` of `SizeT` values, so beyond the registers it wraps. `"oops"` is the end of a behaviour in which the code
hands the kernel an invalid pointer or overruns its stack; the run therefore does not look for deadlocks.

### The TCP stream and the bandwidth test

In `TcpStream` a message is a sequence of units, three words of header and `Pieces` of image;
the connection holds `Window` of them and may end between any two. `program` says which
server listens on port 13777. `TakeUnit` is a partial read inside `boost::asio::read`,
`ShowImage` the end of the payload read, whose error code the client ignores.

In `Bandwidth` every package carries the number of its message. The network loses up to `MaxLost`
packages and may hold one back for `MaxDelay` messages. Which package finds that a second
has passed is not determined, so `Receive` and `Report` are both possible on every package.

## Runs

| Run | Instance | Shows |
|---|---|---|
| `ring` | 8 slots of 360960 bytes, the code's values; 18 images | no torn image, no overrun, no mutual wait, FPGA inside its buffer, reader progress; no stale image, consecutive delivery, `FrameQueue` is implemented |
| `tcp_server` | 2 servers, 2 clients each | listens or serves, socket never shared, only reset connections are closed, dead client replaced |
| `slam_tcp_server` (violation) | 1 server, 2 clients, older statement order | a server that neither serves nor listens |
| `visensor` | 3 slots, 2 data clients, 7 images | the main loop keeps the specification of the servers, the program is the lossless queue, neither a full ring nor a dead client stops it, each client's protected images are consecutive |
| `i2c` | 4 calls, 10 polls, 5 speeds of the controller | successful writes arrive whole and in order, FIFO bounded, `power_on()` ends; with a fast controller reads are exact and nothing fails |
| `slam_loop` | 2 cameras, the code's image size | nothing sent twice for one setting of a ready byte; no source falls silent |
| `udp` | 2 cameras, 2 images of 3 datagrams | numbers tell places; no false warning; losses are reported if the image before ended properly; every image is shown |
| `udp_silent_loss` (violation) | the same, losses only | losses in two images add up to a right count |
| `driver` | the code's sizes, 2 blocks of memory, both pairs | a mapping is memory the driver holds, the ring lies in it, a running FPGA writes nobody else's memory, the test pattern does not meet a mapping of visensor-srv |
| `ntp` | registers of 4 bytes, log of 7, `size_t` of 16 values | read takes the idle buffer exactly when outstanding and lost switches are even; reads, and writes from inside the registers, stay inside; nothing runs after the exit |
| `stream` | images of 3 pieces, 4 units in the connection, both servers | the client shows whole images only, and nothing of the server without headers; back to listening |
| `bandwidth` | 6 counters, reports about 2 messages, 10 messages, 2 lost | the printed loss is exact in a window after the last report |

Bounds. The ring alone is finite, so the real sizes are used. Only the image numbers are
unbounded; `MaxFrames` lets the FPGA go round the ring more than twice, past every
combination of reader slot, FPGA slot and restart. Two clients per port are the fewest
that let one wait while another leaves; the config port never releases its client, so one is
enough in the composition. Three slots are the fewest in which the reader's slot, the
FPGA's and a third one differ. The I2C run has two writes in a row and two reads, the cases in
which one call meets the words or bytes of the one before; speed 150 is more than all polls
together, so the controller may sleep through everything, speed 4 the slowest that satisfies
`FastEnough`, 5 the fastest that does not. The assumption in `MCUdpImage` evaluates the real sizes: 752 x 480 bytes in
pieces of 1500 end with number 240, the client's literal. `MaxAccepts` bounds the accepts
that failing sends pile up; a third one adds nothing a second did not show.
Where images are numbered the FPGA stops after `MaxFrames` of them, so the progress properties of `ring` and
`visensor` release the obligation there; a client's end and the next one's turn fit in before it. `driver` has one block of memory at a page
boundary and one that is not; two blocks are enough for a reload to get other memory than the FPGA still writes.
The positions and counts of `ntp` lie below, at and beyond the end of the registers; 16 values of `size_t` are more than both areas hold, as 2^32 on the target are. `stream` holds less
than a message in the connection, so that reads are partial and a connection ends in every part of
a message; image numbers alternate, which is enough to see a mixture. `bandwidth` keeps the order `Guard < Back < Slots` of the
code's 2, 30 and 32 (which report about 28 messages) and goes round its counters; as in the code `Slots` is two more than
`Back`, so a package may be late by one message (`BandwidthAssumption`); it stops after `MaxMessages` messages.

Fairness. Both threads are scheduled; the FPGA captures images while it is enabled and not
blocked; clients read what they are sent, so a send ends (the code has no timeout, and
without this nothing can be promised); the network delivers the reset that answers data sent to a
closed socket; the I2C controller works; the timers of slam_sensor_server fire again and
again; a server on port 13777 is scheduled and learns that its client has reset the connection
(`stream`); and the io thread runs the handlers of slam_sensor_server in turn (strong fairness for the IMU's, which
is not ready while the cameras' runs). Nobody is forced to connect, leave or fail. Weak fairness is enough because the progress properties speak
of a reader that has published its position: before that the FPGA
does not wait, and only timing, not fairness, keeps every poll from meeting it in the reader's slot.

## Findings

1. `slam_tcp_server`: `slam_sensor_server` clears `has_connection_` after arming the
   acceptor; a client accepted in between is never served and no other is accepted.
   visensor-srv has the statements in the right order.
2. `udp_silent_loss`: `test_client` only counts datagrams; if the last one of an image is
   lost, the count runs on, and losses in both images can add up to the right number.

Seen while modelling, plain from the code and without a run of their own:

- reading from clients is commented out in visensor-srv (`tcp_server.cpp:45`), so a config
  client that has left is never noticed and no other is accepted on port 13778;
- `readReg()` reads the RX FIFO after ten polls even if it is empty and returns 0, and the late
  byte is taken by the next read (`I2CBusRaw.cpp:161-174`; `i2c_manual.txt:26` has "Wait for
  RX_FIFO not empty"); `ReadsExact` therefore needs `FastEnough`;
- until the first `movePointer()` the Linux pointer lies beyond the ring and blocks nothing
  (`MT9V034.cpp:22`), so the first image after a start can be overwritten while it is sent;
  `NoTear` and `Consecutive` speak of the time after it;
- slam_sensor_server tests `has_connection()` once for a round over all cameras; after a failed
  send it sends the next image without a client, and a second failing send starts a second accept;
- `aslam_exit()` says "unreserve the pages" (`visensor.c:358`) but reserves them again, so the memory
  is never returned; with the mutant that returns it, `DmaSafe` fails: a dead server's FPGA then writes
  memory of somebody else;
- after a failed registration `aslam_init()` reserves and fills memory it has freed; only the
  failure of `cdev_add()` is returned to insmod;
- the ten images the driver allocates for do not fit into `npages` pages (1024 bytes are cut off); the
  eight of the ring do, which `RingFits` needs;
- with the older pair, the test pattern can be written after slam_sensor_server has mapped the
  memory, because it does not ask the driver for the size; `aslam_read()` of `memory_allocator.c` compares the
  pointer `f_pos` with the size and always returns -EIO, and nobody calls it;
- `demo_driver.c`: `setup_ntp()` overwrites the buffer addresses of `setup_buffer()`; two interrupts
  merged into one leave read() with the buffer in use until the next two are merged, and between an interrupt and the end of its work read()
  takes that buffer too, against "the one not being used by the ntp_fpga at the moment" (`demo_driver.c:286`); log reads start at the start of the
  buffer whatever the position, and meet a null pointer before `setup_buffer()` or after a failed `kmalloc()`, which is not
  looked at; write() beyond the registers copies a wrapped length over `tmp[]`, against "make sure they don't go
  off end of file" (`demo_driver.c:350`); a load
  that fails early flushes a null queue; an interrupt before the queue exists meets null; the file operations have no owner;
- `TCPtest/client.cpp` shows a payload whose read has failed (`client.cpp:101`);
- the 32 counters of the bandwidth client suffice for its window of 30 messages only while no package is
  late by two messages or more: when the package that triggers a report is, packages of the newest message already stand in the counter of the
  oldest one reported, and hide its losses (`BandwidthAssumption` excludes this; with `Back + MaxDelay = Slots` TLC refutes `LossExact`);
- the bandwidth client expects 45 packages a message where the servers send 705 and 90; its
  "received packages/sec" is the difference of two package numbers, lost ones included; up to message 29 its report is
  empty, or reads before the array (message 1), and a full datagram is terminated one byte past its buffer;
- `test_client` connects over TCP before it binds its UDP socket (`client.cpp:32-34`), so
  the first datagrams may be lost;
- `test_client` copies every datagram to the start of its image buffer (`client.cpp:57`);
- the ready bytes of slam_sensor_server are sent before anybody has set them, and camera
  1 is sent with camera 0's data (`main.cpp:103`).

## Proofs

Each theorem is one of `Spec => []Inv`, `Spec => [][A]_vars` or an implementation, and holds for
every value of the constants that the module's named `ASSUME` admits.

**Ring.** The first part of `FrameRingProofs` proves `TypeOK`, `NoTear`, `InBuffer`, `NoMutualWait` and the
action property `NoOverrun` for every `Length >= 2`, `DataSize >= 1`, `Base >= 1` (`Length >= 2`
is needed: with one slot the reader and the FPGA wait for each other). `NoTear` is not
inductive by itself: that the FPGA stays out of the reader's slot depends on the register
holding the reader's slot and on the FPGA's wrap-around. `IInv` adds `Agreement`: what the
registers hold in each state of the process. The arithmetic is in three lemmas: addresses
of slots are distinct, positive, and the FPGA's next address is that of the next slot.

The second part proves that images are never stale, stay while they are sent, and are
consecutive, and that `FrameRing` implements `FrameQueue`. The invariant `FInv` adds that
a slot at distance `d` behind the FPGA holds image `w - d` (`MemInv`), that the reader's
slot has been filled since the FPGA was enabled, and that `out` is the image just before the
reader's (`OutInv`). A reader overrun before its first publication needs a case of its
own: then the FPGA has gone round the whole ring.

**Servers.** `TcpServerProofs` proves, for the statement order of visensor-srv and any servers and
clients, `TypeOK`, `ListenOrServe`, `SocketExclusive` and the action property `LiveClientKept`. The invariant `ServerInv` says
for every point of the owner's call what the flag, the accept operation and the socket are.
`LiveClientKept` needs `CloseInv` besides: backlog and socket of a server hold only its own clients
(`OwnClients`), and from the throwing send to the close the socket stays the connection that was reset
(`ClosesDead`). The second rests on `ServerInv`: no accept is pending in between that could replace it.

**Composition.** `VisensorStreamProofs` proves that the program drives its servers as they expect
(`TcpSpec`) and that as a whole it implements `FrameQueue` (`DeliversLossless`). The first needs `MainInv`, which ties the program counter of `main()` to the call its thread is
in: between the test of `has_connection()` and the send only the main thread could clear the
flag. The second goes through `FrameRing`: the lemma `FramesStep` shows that a step of the program is,
under `proc`, a step of `FrameRing` or none, and the step lemma behind `RingImplementsQueue` does the rest. With both the parts'
invariants hold in the composition, and they
are cited from `FrameRingProofs` and `TcpServerProofs` through `INSTANCE` instead of being
proved again. `StreamGapFree` follows from them with `StreamInv`: what the client of the data
port got last is the image sent last, or the one in the reader's slot until `movePointer()`.
`ServerAssumption` and `FramesAssumption` are the parts' assumptions, stated for the constants
of the composition.

**I2C.** `I2CBusRawProofs` proves `WritesExact` and `TxBounded` for every program of calls, every
number of polls and every speed of the controller. The invariant `WInv` distinguishes two cases:
one write is under way, the FIFO and the bus hold what is left of its four words, and the camera
differs from what is due only in that register (`OneWrite`); or no write is under way and the
FIFO holds words of a read, as many as the statement reached allows (`NoWrite`). That calls
never mix rests on the test of the TX FIFO before each call. `ReadsExact` is proved under its
own hypothesis `FastEnough` from `FastInv`, which gives FIFOs and bus for every statement of a call
and bounds the steps the controller has left by the polls made: `Late(n, m)`, with `n` steps to come,
says that polls and steps fit into `m` steps' time. A step of the controller lowers `n` (`Sooner`), a poll it
sleeps through raises both sides (`Later`), so a loop that has used up its polls has seen the
last step (`InTime`). Up to six steps, a whole write and a stop condition before it, are left to the
two loops at the start of a call, which is where the 5/2 in `FastEnough` comes from.

**Drivers.** `VisensorDriverProofs` proves `MappedHeld`, `RingInMapping`, `DmaSafe` and the action property
`NoClobber` for every page size, image size and placement of blocks with `PageSize <= 2 * ImageSize` (`RingFits`).
`DInv` says where each stage of init and exit leaves the driver's block (`ModuleInv`), what the
process knows and has mapped (`ProcessInv`: visensor-srv has a mapping only from a finished init, since it reads size 0 before), and that
a running FPGA's ring lies in a reserved block that is the driver's or lost (`FpgaInv`). The arithmetic lemmas
`RoundUpFacts`, `DivExact`, `AreaAligned`, `PagesNat`, `KmemInside` and `RingFitsPages` show that the area rounded up to a page
lies in the allocated block, and eight images in its pages.

`NtpDriverProofs` proves `ReadsIdleBuffer`, `CopyInside` and `ExitQuiet`. `ParityInv` is the
argument behind the first: from the start of the FPGA to the exit its buffer, the driver's `current_buffer`, the switches under way (line, queued work, work
begun) and the merged ones add up to an even number. `ToWriteFits` is the arithmetic of write(). `QueueInv` says for every stage of
init and exit whether handler, queue and work exist.

**slam_sensor_server.** The first part of `SlamSensorServerProofs` proves `SlamTypeOK` and the action property `NoRepeat`, for any number of
cameras from two on and any image size below 10^6 (`sprintf` then writes at most the digits
`Digits` counts). The invariant is `FlagFresh`: a ready byte that is set, and is not the one
whose send has begun and is not yet cleared, was set since the last send of its area.

**UDP images.** The second part of `SlamSensorServerProofs` proves `TypeOK` and `PiecesExact` for every image size, packet size and
kind of network. `SenderInv` says that `curpos` and `remlen` add up to the image and that
`curpos` is `header[1]` full packets; `LastPiece` is the division behind it: of the pieces, the one
with number `(Size - 1) / MaxPacket`, and no other, reaches the end. That the client's literal
240 is this number for the sizes in the code is `RealLastPackage` of `MCUdpImage`.
`NoFalseAlarm` follows from `LineInv`: on a faultless network each number follows the one before it, from
the client's counters through the network to the sender's header. `ReliableMeansAll` goes further: without faults
`SilentMeansAll`, which losses refute in `udp_silent_loss`, does hold. `WholeInv` adds to `LineInv` which image the numbers belong
to: what the client has is the beginning of the image whose next datagram is first in line. `LossReported` needs no order but
counting: the datagrams of one image in the client's buffer are distinct (`LossInv`), and as many distinct numbers
as there are places fill them all (`FullIsComplete`, from the library's theorem on injections
between finite sets).

**TCP stream.** The first part of `TestProgramProofs` proves `InStep` for every image size and capacity of the connection. A
message is `MsgLen = Pieces + 3` units and `Succ` is the order of the stream. `Line` says that every unit on the wire
is followed by its successor and the last by the one the server sends next (`NextSent`); `Reading` that the read under way
has the beginning of its part of one message and that the stream goes on exactly where it stands. Once the connection
has ended, nothing more is said of the server's side, which may serve somebody else by then. `WriterInv` is the other
server: no unit of it has a number below 4, so no header is recognised. `ShownInv` then says of the picture
what `Reading` said of the read it came from.

**Bandwidth test.** The second part proves `LossExact` for every number of counters and packages. `CountInv` is
the argument: a message that has had its counter to itself since the last report (`Alone`) finds there what was sent of it, less what is lost, held
back or just arriving. Numbers on one counter are `Slots` apart (`SlotsApart`), so within the window no late package and no newer
message meets it. Both sums are folds of a function over the same messages, and `CountInv` makes the two functions equal: what a fold computes
is not needed. The proof found what the assumption had left out, `Back + MaxDelay < Slots`; see the findings.

The type theorems of the ring, the drivers and slam_sensor_server, `StableImage` and
`ProgramSafe` state facts that no run repeats, because others of the same run imply them or depend on them.
`ReliableMeansAll` is the counterpart of a run that expects a violation.

Only model-checked: everything under fairness (`ReaderProgress`, `NextClientServed`,
`FpgaReleased`, `NextDataClientServed`, `PowerOnEnds`, `KeepsSending`, `EveryImageShown`,
`BackToListening`), which is out of the prover's reach. Every other property that a passing run checks is a theorem.

## Not modelled

The bytes of header and image; the timer of the main loop (a wait is a stutter); `bytes_sent`
of a partial send, which the code ignores (a blocking send is partial only when the
connection breaks, and then the next send throws). The image bytes in `test_client`'s buffer, and the addresses of slam_sensor_server's areas.
The contents of the driver's test pattern, of the NTP registers and of its log. `simple_char_device.c`, an exercise
no program opens; the socket versions of `TCPtest` and `xilinx/TCPserver`, which measure or send
the time once; `xilinx/test2` and the classes of visensor-srv that `main()` does not use.
`PROJECT.json` names the parts that are not modelled and why.

## Plan

Everything with state of its own that the programs run is modelled, every safety property is proved, and the progress
properties, which rest on fairness, stay with TLC. Left for a change of the code: if visensor-srv begins to read from its
clients (`tcp_server.cpp:45`), `TcpServer` gets an action for it, and the end of a config client becomes a
progress property like the data client's.
