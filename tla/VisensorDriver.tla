--------------------------- MODULE VisensorDriver ---------------------------
(***************************************************************************)
(* The kernel module that owns the memory shared by the FPGA and the       *)
(* server, the server process that maps it, and the FPGA that writes it.   *)
(*                                                                         *)
(* There are two generations of the pair, told apart by the variable pair: *)
(*   "visensor"  visensor.c and SharedRingBuffer of visensor-srv           *)
(*   "slam"      memory_allocator.c and SharedMemoryManager of             *)
(*               slam_sensor_server                                        *)
(*                                                                         *)
(* aslam_init() makes the device visible before it is done, so a process   *)
(* may open the device in the middle of it; a process may die with the     *)
(* FPGA running; and reload_module.sh removes and inserts the module.      *)
(*                                                                         *)
(* The kernel is external.  It does not unload a module whose device is    *)
(* open or mapped (.owner is THIS_MODULE), does not let a module that is   *)
(* going be opened, and refuses to recycle pages that are marked reserved. *)
(***************************************************************************)
EXTENDS Integers

CONSTANTS PageSize,    \* PAGE_SIZE
          PageOffset,  \* what virt_to_phys() subtracts
          ImageSize,   \* IMAGE_SIZE, the same literal in drivers and servers
          Blocks       \* addresses kmalloc() may return for this size

ASSUME DriverAssumption ==
    /\ PageSize \in Nat \ {0} /\ ImageSize \in Nat \ {0}
    /\ PageOffset \in Nat /\ PageOffset % PageSize = 0
    /\ \A b \in Blocks : b \in Nat /\ b >= PageOffset

\* The rest that npages drops is less than the two images the ring leaves over.
ASSUME RingFits == PageSize <= 2 * ImageSize

Null == -1

VARIABLES
    pair,       \* which generation runs
    mod,        \* insmod and rmmod: the next step of aslam_init() or aslam_exit(), "none", "live"
    ret,        \* ret of aslam_init()
    kmalloc_ptr,
    bytes_in_memory,
    node,       \* the device file: "none", "dead" (no cdev behind it), "ok"
    leftover,   \* a failed load has left its class behind
    owner,      \* who has each block: "free", "driver", "other", "lost"
    reserved,   \* blocks with reserved pages
    proc,       \* the server process, by the last step it has done
    size,       \* allocated_memory_size_, or mem_space
    phys,       \* buffer_pysical_address_
    mapping,    \* what the process has mapped: first physical address and length
    bufAddr,    \* register BUFFER_ADDRESS
    control,    \* register CONTROL
    dma         \* where the FPGA's ring lies

kernel == <<mod, ret, kmalloc_ptr, bytes_in_memory, node, leftover, owner, reserved>>
process == <<proc, size, phys, mapping>>
fpga == <<bufAddr, control, dma>>
vars == <<pair, kernel, process, fpga>>
-----------------------------------------------------------------------------
(* Sizes and addresses.                                                    *)

RoundUp(a) == ((a + PageSize - 1) \div PageSize) * PageSize

\* npages of visensor.c and of memory_allocator.c
RingPages == (ImageSize * 10) \div PageSize
AllocatorPages == (ImageSize * 3) \div PageSize
NPages == IF pair = "visensor" THEN RingPages ELSE AllocatorPages

BlockBytes == (NPages + 2) * PageSize

\* kmalloc_area, as a function of kmalloc_ptr
KmallocArea(ptr) == RoundUp(ptr)

VirtToPhys(v) == v - PageOffset

\* IMAGE_SIZE * BUFFER_LENGTH, the value of BUFFER_SIZE
RingBytes == ImageSize * 8

\* mem_space of slam_sensor_server, with its two cameras
MemSpace == (ImageSize + 1) * 2 + (10 + 1) + (10 + 1)

\* The physical addresses of a block, and of what the FPGA writes.
Inside(first, length, b) ==
    VirtToPhys(b) <= first /\ first + length <= VirtToPhys(b) + BlockBytes

NoMapping == [first |-> Null, length |-> 0]
-----------------------------------------------------------------------------
Init ==
    /\ pair \in {"visensor", "slam"}
    /\ mod = "none" /\ ret = 0 /\ kmalloc_ptr = Null /\ bytes_in_memory = 0
    /\ node = "none" /\ leftover = FALSE
    /\ owner = [b \in Blocks |-> "free"] /\ reserved = {}
    /\ proc = "down" /\ size = 0 /\ phys = Null /\ mapping = NoMapping
    /\ bufAddr = Null /\ control = 0 /\ dma = Null
-----------------------------------------------------------------------------
(* aslam_init().                                                           *)

\* kfree(): reserved pages are not taken back, they belong to nobody from then on.
Kfree(b) ==
    owner' = [owner EXCEPT ![b] = IF b \in reserved THEN "lost" ELSE "free"]

\* insmod: fresh module data, then kmalloc().  (The kernel refuses a second class of the
\* same name, so after a load that failed half way the board is started anew.)
Kmalloc ==
    /\ mod = "none" /\ ~leftover
    /\ \E b \in Blocks :
         /\ owner[b] = "free" /\ b \notin reserved
         /\ owner' = [owner EXCEPT ![b] = "driver"]
         /\ kmalloc_ptr' = b
    /\ mod' = "region" /\ ret' = 0 /\ bytes_in_memory' = 0
    /\ UNCHANGED <<pair, node, leftover, reserved, process, fpga>>

\* A registration that fails gives the memory back, and aslam_init() goes on.
AllocChrdevRegion(ok) ==
    /\ mod = "region"
    /\ mod' = IF ok THEN "cdev" ELSE "cdev0"
    /\ IF ok THEN UNCHANGED owner ELSE Kfree(kmalloc_ptr)
    /\ UNCHANGED <<pair, ret, kmalloc_ptr, bytes_in_memory, node, leftover, reserved, process, fpga>>

\* "0": without a device number.
CdevAdd(ok) ==
    /\ mod \in {"cdev", "cdev0"}
    /\ mod' = IF mod = "cdev" THEN "class" ELSE "class0"
    /\ ret' = IF ok THEN 0 ELSE -1
    /\ IF ok THEN UNCHANGED owner ELSE Kfree(kmalloc_ptr)
    /\ UNCHANGED <<pair, kmalloc_ptr, bytes_in_memory, node, leftover, reserved, process, fpga>>

\* Mutant: the size is known before the device is.
DeviceCreateSized ==
    /\ mod \in {"class", "class0"}
    /\ mod' = "reserve"
    /\ node' = IF mod = "class0" THEN "none" ELSE IF ret = 0 THEN "ok" ELSE "dead"
    /\ bytes_in_memory' = IF pair = "visensor" THEN NPages * PageSize ELSE 0
    /\ UNCHANGED <<pair, ret, kmalloc_ptr, leftover, owner, reserved, process, fpga>>

\* class_create() and device_create(): from here on processes can open the device.  There
\* is no file without a device number, and no device behind it if cdev_add() failed.
DeviceCreate ==
    /\ mod \in {"class", "class0"}
    /\ mod' = "reserve"
    /\ node' = IF mod = "class0" THEN "none" ELSE IF ret = 0 THEN "ok" ELSE "dead"
    /\ UNCHANGED <<pair, ret, kmalloc_ptr, bytes_in_memory, leftover, owner, reserved, process, fpga>>

ReservePages ==
    /\ mod = "reserve" /\ mod' = "pattern"
    /\ reserved' = reserved \cup {kmalloc_ptr}
    /\ UNCHANGED <<pair, ret, kmalloc_ptr, bytes_in_memory, node, leftover, owner, process, fpga>>

\* The test pattern is written over the whole area.
StorePattern ==
    /\ mod = "pattern" /\ mod' = "size"
    /\ UNCHANGED <<pair, ret, kmalloc_ptr, bytes_in_memory, node, leftover, owner, reserved, process, fpga>>

\* bytes_in_memory is set last (memory_allocator.c has no such variable).  A negative ret
\* makes insmod fail; the class stays.
FinishInit ==
    /\ mod = "size"
    /\ bytes_in_memory' = IF pair = "visensor" THEN NPages * PageSize ELSE 0
    /\ mod' = IF ret < 0 THEN "none" ELSE "live"
    /\ leftover' = (ret < 0)
    /\ UNCHANGED <<pair, ret, kmalloc_ptr, node, owner, reserved, process, fpga>>
-----------------------------------------------------------------------------
(* aslam_exit().                                                           *)

\* Mutant: the file operations have no .owner, so an open file does not count.
HasDeviceOpenNoOwner == FALSE

HasDeviceOpen == proc \notin {"down", "registers"}

\* rmmod: only if nobody has the device open; then device, class and number go.
DeviceDestroy ==
    /\ mod = "live" /\ ~HasDeviceOpen
    /\ mod' = "going" /\ node' = "none"
    /\ UNCHANGED <<pair, ret, kmalloc_ptr, bytes_in_memory, leftover, owner, reserved, process, fpga>>

\* Mutant: the pages are unreserved, as the comment says, and really given back.
FreePagesUnreserved ==
    /\ mod = "going" /\ mod' = "none"
    /\ reserved' = reserved \ {kmalloc_ptr}
    /\ owner' = [owner EXCEPT ![kmalloc_ptr] = "free"]
    /\ UNCHANGED <<pair, ret, kmalloc_ptr, bytes_in_memory, node, leftover, process, fpga>>

\* The pages are marked reserved (again), then freed.
FreePages ==
    /\ mod = "going" /\ mod' = "none"
    /\ reserved' = reserved \cup {kmalloc_ptr}
    /\ owner' = [owner EXCEPT ![kmalloc_ptr] = "lost"]
    /\ UNCHANGED <<pair, ret, kmalloc_ptr, bytes_in_memory, node, leftover, process, fpga>>
-----------------------------------------------------------------------------
(* The server process, up to the state in which it uses the memory.        *)

Exit ==
    /\ proc' = "down" /\ mapping' = NoMapping
    /\ UNCHANGED <<pair, kernel, size, phys, fpga>>

\* FPGARegisters(): the registers are mapped from /dev/mem.  slam_sensor_server has none.
MapRegisters ==
    /\ proc = "down" /\ pair = "visensor"
    /\ proc' = "registers"
    /\ UNCHANGED <<pair, kernel, size, phys, mapping, fpga>>

\* The device can be opened.
DeviceThere == node = "ok" /\ mod # "going"

\* SharedRingBuffer(): open("/dev/slam-sensor")
OpenRing ==
    /\ proc = "registers" /\ DeviceThere
    /\ proc' = "opened"
    /\ UNCHANGED <<pair, kernel, size, phys, mapping, fpga>>

\* SharedMemoryManager(): the size is computed, then the device opened.
OpenManager ==
    /\ proc = "down" /\ pair = "slam" /\ DeviceThere
    /\ proc' = "sized" /\ size' = MemSpace
    /\ UNCHANGED <<pair, kernel, phys, mapping, fpga>>

\* exit(-1) without the device
OpenFails ==
    /\ proc = (IF pair = "visensor" THEN "registers" ELSE "down")
    /\ ~DeviceThere
    /\ Exit

\* read(fd, &allocated_memory_size_, 1)
ReadSize ==
    /\ proc = "opened" /\ proc' = "sized"
    /\ size' = bytes_in_memory
    /\ UNCHANGED <<pair, kernel, phys, mapping, fpga>>

\* aslam_mmap() and aslam_kmem(): the kernel refuses an empty mapping, the driver one of
\* more than npages pages; whole pages are mapped, from the page the area's physical
\* address is in.
MmapWorks == size # 0 /\ RoundUp(size) <= NPages * PageSize
AslamKmem == [first  |-> (VirtToPhys(KmallocArea(kmalloc_ptr)) \div PageSize) * PageSize,
              length |-> RoundUp(size)]

\* mmap() at offset 0
Mmap ==
    /\ proc = "sized" /\ MmapWorks
    /\ proc' = "mapped" /\ mapping' = AslamKmem
    /\ UNCHANGED <<pair, kernel, size, phys, fpga>>

MmapFails == proc = "sized" /\ ~MmapWorks /\ Exit

MmapRing == pair = "visensor" /\ (Mmap \/ MmapFails)
MmapManager == pair = "slam" /\ (Mmap \/ MmapFails)

\* Mutant: the address that kmalloc() returned is reported.
ReadAddressUnrounded ==
    /\ proc = "mapped" /\ pair = "visensor"
    /\ proc' = "addressed"
    /\ phys' = VirtToPhys(kmalloc_ptr)
    /\ UNCHANGED <<pair, kernel, size, mapping, fpga>>

\* read(fd, &buffer_pysical_address_, 0)
ReadAddress ==
    /\ proc = "mapped" /\ pair = "visensor"
    /\ proc' = "addressed"
    /\ phys' = VirtToPhys(KmallocArea(kmalloc_ptr))
    /\ UNCHANGED <<pair, kernel, size, mapping, fpga>>

\* DevMem::open_dev() for the camera's I2C controller, the last thing before the body of
\* MT9V034().  Any exit() on the way leaves the FPGA as it is (Crash).
MapI2C ==
    /\ proc = "addressed" /\ proc' = "i2c"
    /\ UNCHANGED <<pair, kernel, size, phys, mapping, fpga>>

\* MT9V034() writes the buffer registers; an FPGA that still runs takes them up later.
ProgramBuffer ==
    /\ proc = "i2c" /\ proc' = "programmed"
    /\ bufAddr' = phys
    /\ UNCHANGED <<pair, kernel, size, phys, mapping, control, dma>>

\* CONTROL = 1: a stopped FPGA starts at BUFFER_ADDRESS.
PowerOn ==
    /\ proc = "programmed" /\ proc' = "on"
    /\ control' = 1
    /\ dma' = IF control = 0 THEN bufAddr ELSE dma
    /\ UNCHANGED <<pair, kernel, size, phys, mapping, bufAddr>>

PowerOff ==
    /\ proc = "on"
    /\ proc' = "down" /\ mapping' = NoMapping /\ control' = 0
    /\ UNCHANGED <<pair, kernel, size, phys, bufAddr, dma>>

\* The process ends anywhere else, with the FPGA as it is; the kernel unmaps and closes.
Crash == proc # "down" /\ Exit
-----------------------------------------------------------------------------
(* The FPGA, and the rest of the kernel.                                   *)

\* A running FPGA goes on at a changed BUFFER_ADDRESS when it is through with its ring.
FpgaWraps ==
    /\ control = 1 /\ dma # bufAddr
    /\ dma' = bufAddr
    /\ UNCHANGED <<pair, kernel, process, bufAddr, control>>

OtherTakes(b) ==
    /\ owner[b] = "free" /\ b \notin reserved
    /\ owner' = [owner EXCEPT ![b] = "other"]
    /\ UNCHANGED <<pair, mod, ret, kmalloc_ptr, bytes_in_memory, node, leftover, reserved, process, fpga>>

OtherFrees(b) ==
    /\ owner[b] = "other"
    /\ Kfree(b)
    /\ UNCHANGED <<pair, mod, ret, kmalloc_ptr, bytes_in_memory, node, leftover, reserved, process, fpga>>

\* The steps of aslam_init() and aslam_exit(), in the order they are in both drivers.
Load ==
    \/ Kmalloc \/ DeviceCreate \/ ReservePages \/ StorePattern \/ FinishInit
    \/ \E ok \in BOOLEAN : AllocChrdevRegion(ok) \/ CdevAdd(ok)
Unload == DeviceDestroy \/ FreePages

VisensorModule == pair = "visensor" /\ (Load \/ Unload)
AllocatorInit == pair = "slam" /\ Load
AllocatorExit == pair = "slam" /\ Unload

Next ==
    \/ VisensorModule \/ AllocatorInit \/ AllocatorExit
    \/ MapRegisters \/ OpenRing \/ OpenFails \/ ReadSize \/ MmapRing
    \/ OpenManager \/ MmapManager
    \/ ReadAddress \/ MapI2C \/ ProgramBuffer \/ PowerOn \/ PowerOff \/ Crash
    \/ FpgaWraps
    \/ \E b \in Blocks : OtherTakes(b) \/ OtherFrees(b)

Spec == Init /\ [][Next]_vars
-----------------------------------------------------------------------------
TypeOK ==
    /\ pair \in {"visensor", "slam"}
    /\ mod \in {"none", "region", "cdev", "cdev0", "class", "class0", "reserve", "pattern",
                "size", "live", "going"}
    /\ ret \in {0, -1} /\ kmalloc_ptr \in Blocks \cup {Null}
    /\ bytes_in_memory \in {0, NPages * PageSize}
    /\ node \in {"none", "dead", "ok"} /\ leftover \in BOOLEAN
    /\ owner \in [Blocks -> {"free", "driver", "other", "lost"}] /\ reserved \subseteq Blocks
    /\ proc \in {"down", "registers", "opened", "sized", "mapped", "addressed", "i2c",
              "programmed", "on"}
    /\ size \in Nat /\ phys \in Int /\ mapping \in [first : Int, length : Nat]
    /\ bufAddr \in Int /\ control \in {0, 1} /\ dma \in Int

\* What a process has mapped lies in a block the driver holds.  aslam_init() goes on with
\* memory it has given back when a registration fails, and it shows the device before it is
\* done, but no process gets hold of memory in either case, nor keeps it over an unload.
MappedHeld ==
    mapping # NoMapping =>
        /\ kmalloc_ptr # Null /\ owner[kmalloc_ptr] = "driver"
        /\ Inside(mapping.first, mapping.length, kmalloc_ptr)

\* The FPGA and the process mean the same memory: the ring that is programmed begins at the
\* first mapped byte and ends inside the mapping, although nothing in the server compares
\* the ring with the size the driver reports.
RingInMapping ==
    proc \in {"programmed", "on"} =>
        bufAddr = mapping.first /\ RingBytes <= mapping.length

\* The FPGA never writes memory that the kernel has given to somebody else, even if the
\* server died with the FPGA running and the module was removed or reloaded since.
DmaSafe ==
    control = 1 => \E b \in Blocks : owner[b] \in {"driver", "lost"} /\ Inside(dma, RingBytes, b)

\* The test pattern of aslam_init() is not written over memory visensor-srv has mapped: a
\* process that opens the device before aslam_init() is done reads size 0 and gives up.
NoClobber == [][pair = "visensor" /\ StorePattern => mapping = NoMapping]_vars
=============================================================================
