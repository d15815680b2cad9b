------------------------ MODULE VisensorDriverProofs ------------------------
(***************************************************************************)
(* The memory that a server process maps and the FPGA writes is the        *)
(* driver's, for every page size, image size and set of memory blocks, and *)
(* through every failed load, early open, crash and reload.                *)
(***************************************************************************)
EXTENDS VisensorDriver, TLAPS

\* Stages of the module in which its device can be opened.
Visible == {"reserve", "pattern", "size", "live"}

\* Stages of the process after a successful mmap(), and after it knows the address.
Mapped == {"mapped", "addressed", "i2c", "programmed", "on"}
Addressed == {"addressed", "i2c", "programmed", "on"}

\* Where each stage of aslam_init() and aslam_exit() leaves the driver's block: until the
\* device exists it is the driver's unless a registration has failed, and a device that can
\* be opened stands for a block that is held.
ModuleInv ==
    /\ mod # "none" => kmalloc_ptr \in Blocks
    /\ mod \in {"region", "cdev"} => owner[kmalloc_ptr] = "driver"
    /\ mod = "class" /\ ret = 0 => owner[kmalloc_ptr] = "driver"
    /\ node = "ok" => mod \in Visible /\ ret = 0 /\ owner[kmalloc_ptr] = "driver"
    /\ mod \in {"pattern", "size", "live"} => kmalloc_ptr \in reserved
    /\ mod \notin {"none", "live", "going"} => bytes_in_memory = 0

\* What the process knows and has mapped.  visensor-srv gets a mapping only from a module
\* whose aslam_init() is done, because before that the size it reads is 0.
ProcessInv ==
    /\ HasDeviceOpen => node = "ok"
    /\ pair = "slam" => proc \in {"down", "sized", "mapped"}
    /\ pair = "visensor" /\ proc \in {"sized"} \cup Mapped =>
         size = 0 \/ (mod = "live" /\ size = NPages * PageSize)
    /\ proc \in Mapped => MmapWorks /\ mapping = AslamKmem
    /\ proc \notin Mapped => mapping = NoMapping
    /\ proc \in Addressed => phys = VirtToPhys(KmallocArea(kmalloc_ptr))

\* A ring at this address lies in memory that nobody else will ever get: its pages are
\* reserved, so that even freed they are given to nobody.
Safe(a) ==
    \E b \in Blocks : /\ b \in reserved /\ owner[b] \in {"driver", "lost"}
                      /\ Inside(a, RingBytes, b)

FpgaInv ==
    /\ pair = "slam" => bufAddr = Null /\ control = 0
    /\ bufAddr # Null => Safe(bufAddr)
    /\ control = 1 => bufAddr # Null /\ Safe(dma)
    /\ proc \in {"programmed", "on"} => bufAddr = phys

DInv == TypeOK /\ ModuleInv /\ ProcessInv /\ FpgaInv
-----------------------------------------------------------------------------
(* Sizes and addresses.                                                    *)

\* RoundUp() gives the next page boundary.
LEMMA RoundUpFacts ==
    ASSUME NEW a \in Nat
    PROVE  /\ RoundUp(a) \in Nat /\ a <= RoundUp(a) /\ RoundUp(a) <= a + PageSize
           /\ \E q \in Nat : RoundUp(a) = q * PageSize
<1> DEFINE n == a + PageSize - 1
           q == n \div PageSize
           r == n % PageSize
<1>1. PageSize \in Nat /\ PageSize >= 1 /\ n \in Nat
  BY DriverAssumption
<1>2. q \in Nat /\ r \in 0 .. PageSize - 1 /\ n = PageSize * q + r
  BY <1>1
<1>3. RoundUp(a) = q * PageSize
  BY DEF RoundUp
<1> HIDE DEF q, r
<1>4. q * PageSize = PageSize * q /\ q * PageSize \in Nat
  BY <1>1, <1>2
<1> QED BY <1>1, <1>2, <1>3, <1>4

\* The page a page boundary is in begins there.
LEMMA DivExact ==
    ASSUME NEW q \in Nat
    PROVE  (q * PageSize) \div PageSize = q
<1>1. PageSize \in Nat /\ PageSize >= 1
  BY DriverAssumption
<1> DEFINE m == q * PageSize
           d == m \div PageSize
           r == m % PageSize
<1>2. m \in Nat
  BY <1>1
<1>3. d \in Nat /\ r \in 0 .. PageSize - 1 /\ m = PageSize * d + r
  BY <1>1, <1>2
<1> HIDE DEF d, r
<1>4. ASSUME d < q PROVE FALSE
  <2>1. PICK k \in Nat : q = d + 1 + k
    <3>1. q - d - 1 \in Nat /\ q = d + 1 + (q - d - 1)
      BY <1>3, <1>4
    <3> QED BY <3>1
  <2>2. m = PageSize * d + PageSize + PageSize * k
    BY <2>1, <1>1, <1>3
  <2>3. PageSize * k \in Nat /\ PageSize * d \in Nat
    BY <2>1, <1>1, <1>3
  <2> QED BY <2>2, <2>3, <1>1, <1>2, <1>3
<1>5. ASSUME d > q PROVE FALSE
  <2>1. PICK k \in Nat : d = q + 1 + k
    <3>1. d - q - 1 \in Nat /\ d = q + 1 + (d - q - 1)
      BY <1>3, <1>5
    <3> QED BY <3>1
  <2>2. PageSize * d = m + PageSize + PageSize * k
    BY <2>1, <1>1, <1>3
  <2>3. PageSize * k \in Nat
    BY <2>1, <1>1
  <2> QED BY <2>2, <2>3, <1>1, <1>2, <1>3
<1> QED BY <1>3, <1>4, <1>5 DEF d

\* The area of a block begins at a page boundary, in physical addresses too, and
\* aslam_kmem() maps from there on.
LEMMA AreaAligned ==
    ASSUME NEW b \in Blocks
    PROVE  LET a == VirtToPhys(KmallocArea(b)) IN
             a \in Nat /\ (a \div PageSize) * PageSize = a
<1>1. /\ PageSize \in Nat /\ PageSize >= 1 /\ PageOffset \in Nat /\ PageOffset % PageSize = 0
      /\ b \in Nat /\ b >= PageOffset
  BY DriverAssumption
<1>2. PICK o \in Nat : PageOffset = o * PageSize
  <2> DEFINE q == PageOffset \div PageSize
  <2>1. q \in Nat /\ PageOffset = PageSize * q
    BY <1>1
  <2> HIDE DEF q
  <2>2. PageSize * q = q * PageSize
    BY <2>1, <1>1
  <2> QED BY <2>1, <2>2
<1>3. PICK q \in Nat : RoundUp(b) = q * PageSize
  BY <1>1, RoundUpFacts
<1>4. RoundUp(b) \in Nat /\ RoundUp(b) >= PageOffset
  BY <1>1, RoundUpFacts
<1>5. q >= o
  <2> SUFFICES ASSUME q < o PROVE FALSE
    OBVIOUS
  <2>1. PICK k \in Nat : o = q + 1 + k
    <3>1. o - q - 1 \in Nat /\ o = q + 1 + (o - q - 1)
      OBVIOUS
    <3> QED BY <3>1
  <2>2. o * PageSize = q * PageSize + PageSize + k * PageSize
    BY <2>1, <1>1
  <2>3. k * PageSize \in Nat
    BY <1>1
  <2> QED BY <2>2, <2>3, <1>1, <1>2, <1>3, <1>4
<1>6. PICK k \in Nat : q = o + k
  <2>1. q - o \in Nat /\ q = o + (q - o)
    BY <1>5
  <2> QED BY <2>1
<1>7. q * PageSize - o * PageSize = k * PageSize /\ k * PageSize \in Nat
  BY <1>6, <1>1
<1>8. VirtToPhys(KmallocArea(b)) = k * PageSize
  BY <1>2, <1>3, <1>7 DEF VirtToPhys, KmallocArea
<1> QED BY <1>7, <1>8, DivExact

\* NPages is a number of pages.
LEMMA PagesNat == /\ NPages \in Nat /\ RingPages \in Nat /\ AllocatorPages \in Nat
                  /\ PageSize \in Nat /\ PageSize >= 1 /\ ImageSize \in Nat
                  /\ NPages * PageSize \in Nat
<1>1. PageSize \in Nat /\ PageSize >= 1 /\ ImageSize \in Nat
  BY DriverAssumption
<1>2. RingPages \in Nat /\ AllocatorPages \in Nat
  BY <1>1 DEF RingPages, AllocatorPages
<1>3. NPages \in Nat
  BY <1>2 DEF NPages
<1> QED BY <1>1, <1>2, <1>3

\* Whatever aslam_mmap() grants lies in the block, rounding at both ends included, and
\* starts where aslam_read() says the buffer does.
LEMMA KmemInside ==
    ASSUME kmalloc_ptr \in Blocks, size \in Nat, MmapWorks
    PROVE  /\ AslamKmem.first = VirtToPhys(KmallocArea(kmalloc_ptr))
           /\ AslamKmem.length = RoundUp(size)
           /\ AslamKmem \in [first : Int, length : Nat] /\ AslamKmem # NoMapping
           /\ Inside(AslamKmem.first, AslamKmem.length, kmalloc_ptr)
<1> DEFINE a == VirtToPhys(KmallocArea(kmalloc_ptr))
<1>1. AslamKmem.first = a /\ a \in Nat
  BY AreaAligned DEF AslamKmem
<1>2. AslamKmem.length = RoundUp(size) /\ RoundUp(size) \in Nat
  BY RoundUpFacts DEF AslamKmem
<1>3. AslamKmem \in [first : Int, length : Nat]
  BY <1>1, <1>2 DEF AslamKmem
<1>4. AslamKmem # NoMapping
  BY <1>1 DEF NoMapping, Null
<1>5. /\ kmalloc_ptr \in Nat /\ PageOffset \in Nat
      /\ a = RoundUp(kmalloc_ptr) - PageOffset
      /\ kmalloc_ptr <= RoundUp(kmalloc_ptr) /\ RoundUp(kmalloc_ptr) <= kmalloc_ptr + PageSize
      /\ RoundUp(kmalloc_ptr) \in Nat
  BY DriverAssumption, RoundUpFacts DEF VirtToPhys, KmallocArea
<1>6. BlockBytes = NPages * PageSize + 2 * PageSize
  BY PagesNat DEF BlockBytes
<1>7. RoundUp(size) <= NPages * PageSize
  BY DEF MmapWorks
<1>8. VirtToPhys(kmalloc_ptr) = kmalloc_ptr - PageOffset
  BY DEF VirtToPhys
<1> HIDE DEF a
<1>9. Inside(a, RoundUp(size), kmalloc_ptr)
  BY <1>1, <1>2, <1>5, <1>6, <1>7, <1>8, PagesNat DEF Inside
<1> QED BY <1>1, <1>2, <1>3, <1>4, <1>9 DEF a

\* The eight images of the ring fit into the pages that are left of ten.
LEMMA RingFitsPages == RingBytes \in Nat /\ RingBytes <= RingPages * PageSize
<1> DEFINE n == ImageSize * 10
           q == n \div PageSize
           r == n % PageSize
<1>1. PageSize \in Nat /\ PageSize >= 1 /\ ImageSize \in Nat /\ PageSize <= 2 * ImageSize
  BY DriverAssumption, RingFits
<1>2. q \in Nat /\ r \in 0 .. PageSize - 1 /\ n = PageSize * q + r
  BY <1>1
<1>3. RingPages = q
  BY DEF RingPages
<1> HIDE DEF q, r
<1>4. RingPages * PageSize = PageSize * q /\ PageSize * q \in Nat
  BY <1>1, <1>2, <1>3
<1> QED BY <1>1, <1>2, <1>4 DEF RingBytes
-----------------------------------------------------------------------------
(* The inductive invariant.                                                *)

\* Nothing is loaded, mapped or running at the start.
LEMMA InitDInv == Init => DInv
<1> SUFFICES ASSUME Init PROVE DInv
  OBVIOUS
<1> USE DEF Init
<1>1. TypeOK
  <2>1. leftover \in BOOLEAN
    BY Zenon
  <2>2. mapping \in [first : Int, length : Nat]
    BY DEF NoMapping, Null
  <2> QED BY <2>1, <2>2, PagesNat DEF TypeOK, Null
<1>2. ModuleInv
  BY DEF ModuleInv, Visible
<1>3. ProcessInv
  BY DEF ProcessInv, HasDeviceOpen, Mapped, Addressed
<1>4. FpgaInv
  BY DEF FpgaInv
<1> QED BY <1>1, <1>2, <1>3, <1>4 DEF DInv

\* Every step leaves the variables in their types.
LEMMA NextTypeOK == DInv /\ [Next]_vars => TypeOK'
<1> SUFFICES ASSUME DInv, [Next]_vars PROVE TypeOK'
  OBVIOUS
<1> USE PagesNat DEF TypeOK, kernel, process, fpga
<1>0. TypeOK /\ ModuleInv /\ ProcessInv
  BY DEF DInv
<1>1. CASE Load
  <2>0. kmalloc_ptr' \in Blocks \cup {Null} /\ NPages' = NPages
    BY <1>0, <1>1 DEF Load, Kmalloc, AllocChrdevRegion, CdevAdd, DeviceCreate, ReservePages,
                      StorePattern, FinishInit, NPages
  <2>1. CASE Kmalloc
    BY <1>0, <2>0, <2>1 DEF Kmalloc
  <2>2. ASSUME NEW ok \in BOOLEAN, AllocChrdevRegion(ok) PROVE TypeOK'
    BY <1>0, <2>0, <2>2 DEF AllocChrdevRegion, Kfree
  <2>3. ASSUME NEW ok \in BOOLEAN, CdevAdd(ok) PROVE TypeOK'
    BY <1>0, <2>0, <2>3 DEF CdevAdd, Kfree
  <2>4. CASE DeviceCreate
    BY <1>0, <2>0, <2>4 DEF DeviceCreate
  <2>5. CASE ReservePages
    BY <1>0, <2>0, <2>5 DEF ReservePages, ModuleInv
  <2>6. CASE StorePattern
    BY <1>0, <2>0, <2>6 DEF StorePattern
  <2>7. CASE FinishInit
    <3>1. leftover' \in BOOLEAN
      <4>1. (ret < 0) \in BOOLEAN
        BY <1>0
      <4> QED BY <2>7, <4>1, Zenon DEF FinishInit
    <3>2. mod' \in {"none", "live"}
      BY <2>7 DEF FinishInit
    <3>3. bytes_in_memory' \in {0, NPages' * PageSize}
      BY <2>0, <2>7 DEF FinishInit
    <3> QED BY <1>0, <2>0, <2>7, <3>1, <3>2, <3>3 DEF FinishInit
  <2> QED BY <1>1, <2>1, <2>2, <2>3, <2>4, <2>5, <2>6, <2>7 DEF Load
<1>2. CASE Unload
  BY <1>0, <1>2 DEF Unload, DeviceDestroy, FreePages, ModuleInv, NPages
<1>3. CASE Exit
  BY <1>0, <1>3 DEF Exit, NoMapping, Null, NPages
<1>4. CASE MapRegisters \/ OpenRing \/ MapI2C
  BY <1>0, <1>4 DEF MapRegisters, OpenRing, MapI2C, NPages
<1>5. CASE OpenManager
  <2>1. MemSpace \in Nat
    BY DEF MemSpace
  <2> QED BY <1>0, <1>5, <2>1 DEF OpenManager, NPages
<1>6. CASE ReadSize
  <2>1. bytes_in_memory \in Nat
    BY <1>0
  <2> QED BY <1>0, <1>6, <2>1 DEF ReadSize, NPages
<1>7. CASE Mmap
  <2>1. kmalloc_ptr \in Blocks
    BY <1>0, <1>7 DEF Mmap, ModuleInv, ProcessInv, HasDeviceOpen, Visible
  <2>2. AslamKmem \in [first : Int, length : Nat]
    BY <1>0, <1>7, <2>1, KmemInside DEF Mmap
  <2> QED BY <1>0, <1>7, <2>2 DEF Mmap, NPages
<1>8. CASE ReadAddress
  <2>1. kmalloc_ptr \in Blocks
    BY <1>0, <1>8 DEF ReadAddress, ModuleInv, ProcessInv, HasDeviceOpen, Visible
  <2>2. VirtToPhys(KmallocArea(kmalloc_ptr)) \in Int
    BY <2>1, AreaAligned
  <2> QED BY <1>0, <1>8, <2>2 DEF ReadAddress, NPages
<1>9. CASE ProgramBuffer \/ PowerOn \/ FpgaWraps
  BY <1>0, <1>9 DEF ProgramBuffer, PowerOn, FpgaWraps, NPages
<1>10. CASE PowerOff
  BY <1>0, <1>10 DEF PowerOff, NoMapping, Null, NPages
<1>11. ASSUME NEW b \in Blocks, OtherTakes(b) \/ OtherFrees(b) PROVE TypeOK'
  BY <1>0, <1>11 DEF OtherTakes, OtherFrees, Kfree, NPages
<1>12. CASE UNCHANGED vars
  BY <1>0, <1>12 DEF vars, NPages
<1> QED
  BY <1>1, <1>2, <1>3, <1>4, <1>5, <1>6, <1>7, <1>8, <1>9, <1>10, <1>11, <1>12
     DEF Next, VisensorModule, AllocatorInit, AllocatorExit, OpenFails, MmapRing, MmapManager,
         MmapFails, Crash

\* A step of the process or of the FPGA leaves the module alone.
LEMMA KernelSteps ==
    ASSUME [Next]_vars
    PROVE  Load \/ Unload \/ (\E b \in Blocks : OtherTakes(b) \/ OtherFrees(b)) \/ UNCHANGED kernel
  BY DEF Next, VisensorModule, AllocatorInit, AllocatorExit, MapRegisters, OpenRing, OpenFails,
         ReadSize, MmapRing, OpenManager, MmapManager, Mmap, MmapFails, ReadAddress, MapI2C,
         ProgramBuffer, PowerOn, PowerOff, Crash, Exit, FpgaWraps, vars

\* aslam_init() and aslam_exit() keep the stages in agreement with the memory; others only
\* get blocks that the driver does not hold.
LEMMA NextModuleInv == DInv /\ [Next]_vars => ModuleInv'
<1> SUFFICES ASSUME DInv, [Next]_vars PROVE ModuleInv'
  OBVIOUS
<1>0. TypeOK /\ ModuleInv /\ ProcessInv
  BY DEF DInv
<1>a. Null \notin Blocks
  BY DriverAssumption DEF Null
<1> USE DEF ModuleInv, Visible
<1>1. CASE Load
  <2>1. CASE Kmalloc
    BY <1>0, <2>1 DEF Kmalloc, TypeOK
  <2>2. ASSUME NEW ok \in BOOLEAN, AllocChrdevRegion(ok) PROVE ModuleInv'
    BY <1>0, <2>2 DEF AllocChrdevRegion, Kfree, TypeOK
  <2>3. ASSUME NEW ok \in BOOLEAN, CdevAdd(ok) PROVE ModuleInv'
    BY <1>0, <2>3 DEF CdevAdd, Kfree, TypeOK
  <2>4. CASE DeviceCreate
    BY <1>0, <2>4 DEF DeviceCreate, TypeOK
  <2>5. CASE ReservePages
    BY <1>0, <2>5 DEF ReservePages, TypeOK
  <2>6. CASE StorePattern
    BY <1>0, <2>6 DEF StorePattern, TypeOK
  <2>7. CASE FinishInit
    BY <1>0, <2>7 DEF FinishInit, TypeOK
  <2> QED BY <1>1, <2>1, <2>2, <2>3, <2>4, <2>5, <2>6, <2>7 DEF Load
<1>2. CASE Unload
  <2>1. CASE DeviceDestroy
    BY <1>0, <2>1 DEF DeviceDestroy, TypeOK
  <2>2. CASE FreePages
    BY <1>0, <2>2 DEF FreePages, TypeOK
  <2> QED BY <1>2, <2>1, <2>2 DEF Unload
<1>3. ASSUME NEW b \in Blocks, OtherTakes(b) \/ OtherFrees(b) PROVE ModuleInv'
  BY <1>0, <1>3 DEF OtherTakes, OtherFrees, Kfree, TypeOK
<1>4. CASE UNCHANGED kernel
  BY <1>0, <1>4 DEF kernel
<1> QED BY <1>1, <1>2, <1>3, <1>4, KernelSteps

\* Which generation runs is settled at the start, and with it all sizes.
LEMMA PairConstant ==
    ASSUME [Next]_vars
    PROVE  /\ pair' = pair /\ NPages' = NPages
           /\ \A f, l, b : Inside(f, l, b)' <=> Inside(f, l, b)
<1>1. pair' = pair
  BY DEF Next, VisensorModule, AllocatorInit, AllocatorExit, Load, Kmalloc, AllocChrdevRegion,
         CdevAdd, DeviceCreate, ReservePages, StorePattern, FinishInit, Unload, DeviceDestroy,
         FreePages, MapRegisters, OpenRing, OpenFails, ReadSize, MmapRing, OpenManager,
         MmapManager, Mmap, MmapFails, ReadAddress, MapI2C, ProgramBuffer, PowerOn, PowerOff,
         Crash, Exit, FpgaWraps, OtherTakes, OtherFrees, vars
<1>2. NPages' = NPages
  BY <1>1 DEF NPages
<1>3. \A f, l, b : Inside(f, l, b)' <=> Inside(f, l, b)
  BY <1>2 DEF Inside, BlockBytes
<1> QED BY <1>1, <1>2, <1>3

\* Reserved memory that the driver holds or has lost stays out of everybody's reach.
LEMMA SafeStable ==
    ASSUME DInv, [Next]_vars, NEW a, Safe(a)
    PROVE  Safe(a)'
<1>0. TypeOK /\ ModuleInv
  BY DEF DInv
<1>1. PICK b \in Blocks : /\ b \in reserved /\ owner[b] \in {"driver", "lost"}
                          /\ Inside(a, RingBytes, b)
  BY DEF Safe
<1>2. b \in reserved' /\ owner'[b] \in {"driver", "lost"}
  <2>1. CASE Load
    BY <1>0, <1>1, <2>1 DEF Load, Kmalloc, AllocChrdevRegion, CdevAdd, DeviceCreate,
       ReservePages, StorePattern, FinishInit, Kfree, TypeOK
  <2>2. CASE Unload
    BY <1>0, <1>1, <2>2 DEF Unload, DeviceDestroy, FreePages, TypeOK
  <2>3. ASSUME NEW c \in Blocks, OtherTakes(c) \/ OtherFrees(c)
        PROVE  b \in reserved' /\ owner'[b] \in {"driver", "lost"}
    BY <1>0, <1>1, <2>3 DEF OtherTakes, OtherFrees, Kfree, TypeOK
  <2>4. CASE UNCHANGED kernel
    BY <1>1, <2>4 DEF kernel
  <2> QED BY <2>1, <2>2, <2>3, <2>4, KernelSteps
<1>3. Inside(a, RingBytes, b)'
  BY <1>1, PairConstant DEF RingBytes
<1> QED BY <1>2, <1>3 DEF Safe, RingBytes

\* While a process has the device open, the module can neither be taken away nor loaded
\* anew: what the process knows of it stays true.
LEMMA OpenKeepsModule ==
    ASSUME DInv, [Next]_vars, HasDeviceOpen
    PROVE  /\ kmalloc_ptr' = kmalloc_ptr /\ node' = node
           /\ mod = "live" => mod' = "live"
<1>0. TypeOK /\ ModuleInv /\ ProcessInv
  BY DEF DInv
<1>1. node = "ok" /\ mod \in Visible /\ ret = 0
  BY <1>0 DEF ProcessInv, ModuleInv
<1>2. CASE Load
  BY <1>1, <1>2 DEF Visible, Load, Kmalloc, AllocChrdevRegion, CdevAdd, DeviceCreate,
     ReservePages, StorePattern, FinishInit
<1>3. CASE Unload
  BY <1>1, <1>3 DEF Visible, Unload, DeviceDestroy, FreePages
<1>4. ASSUME NEW b \in Blocks, OtherTakes(b) \/ OtherFrees(b)
      PROVE  kmalloc_ptr' = kmalloc_ptr /\ node' = node /\ mod' = mod
  BY <1>4 DEF OtherTakes, OtherFrees
<1>5. CASE UNCHANGED kernel
  BY <1>5 DEF kernel
<1> QED BY <1>2, <1>3, <1>4, <1>5, KernelSteps

\* The steps that leave the process alone.
LEMMA ProcessUntouched ==
    ASSUME DInv, [Next]_vars, UNCHANGED process
    PROVE  ProcessInv'
<1>0. TypeOK /\ ModuleInv /\ ProcessInv /\ pair' = pair /\ NPages' = NPages
  BY PairConstant DEF DInv
<1> USE DEF process
<1>1. HasDeviceOpen' <=> HasDeviceOpen
  BY DEF HasDeviceOpen
<1>2. HasDeviceOpen' => node' = "ok"
  BY <1>0, <1>1, OpenKeepsModule DEF ProcessInv
<1>3. pair' = "visensor" /\ proc' \in {"sized"} \cup Mapped =>
        size' = 0 \/ (mod' = "live" /\ size' = NPages' * PageSize)
  BY <1>0, OpenKeepsModule DEF ProcessInv, HasDeviceOpen, Mapped
<1>4. proc \in Mapped => kmalloc_ptr' = kmalloc_ptr
  BY OpenKeepsModule DEF HasDeviceOpen, Mapped
<1>5. proc' \in Mapped => MmapWorks' /\ mapping' = AslamKmem'
  <2> SUFFICES ASSUME proc \in Mapped PROVE MmapWorks' /\ mapping' = AslamKmem'
    OBVIOUS
  <2>1. MmapWorks /\ mapping = AslamKmem
    BY <1>0 DEF ProcessInv
  <2> QED BY <1>0, <1>4, <2>1 DEF MmapWorks, AslamKmem
<1>6. proc' \in Addressed => phys' = VirtToPhys(KmallocArea(kmalloc_ptr'))
  BY <1>0, <1>4 DEF ProcessInv, Mapped, Addressed
<1>7. proc' \notin Mapped => mapping' = NoMapping
  BY <1>0 DEF ProcessInv
<1>8. pair' = "slam" => proc' \in {"down", "sized", "mapped"}
  BY <1>0 DEF ProcessInv
<1> QED BY <1>2, <1>3, <1>5, <1>6, <1>7, <1>8 DEF ProcessInv

\* The steps of the process: it opens a device that is there, and what it reads and maps is
\* what the module that stands behind the device holds.
LEMMA NextProcessInv == DInv /\ [Next]_vars => ProcessInv'
<1> SUFFICES ASSUME DInv, [Next]_vars PROVE ProcessInv'
  OBVIOUS
<1>0. TypeOK /\ ModuleInv /\ ProcessInv /\ pair' = pair /\ NPages' = NPages
  BY PairConstant DEF DInv
<1> USE DEF Mapped, Addressed, HasDeviceOpen, kernel
<1>1. CASE Exit \/ PowerOff
  BY <1>0, <1>1 DEF Exit, PowerOff, ProcessInv
<1>2. CASE MapRegisters
  BY <1>0, <1>2 DEF MapRegisters, ProcessInv
<1>3. CASE OpenRing
  BY <1>0, <1>3 DEF OpenRing, DeviceThere, ProcessInv
<1>4. CASE OpenManager
  BY <1>0, <1>4 DEF OpenManager, DeviceThere, ProcessInv
<1>5. CASE ReadSize
  <2>1. pair = "visensor" /\ node = "ok"
    BY <1>0, <1>5 DEF ReadSize, ProcessInv, TypeOK
  <2>2. bytes_in_memory = 0 \/ (mod = "live" /\ bytes_in_memory = NPages * PageSize)
    BY <1>0, <2>1 DEF ModuleInv, Visible, TypeOK
  <2> QED BY <1>0, <1>5, <2>1, <2>2 DEF ReadSize, ProcessInv
<1>6. CASE Mmap
  <2>1. MmapWorks' /\ mapping' = AslamKmem'
    BY <1>0, <1>6 DEF Mmap, MmapWorks, AslamKmem
  <2>2. pair = "visensor" => mod' = "live" /\ size' = NPages' * PageSize
    BY <1>0, <1>6 DEF Mmap, MmapWorks, ProcessInv
  <2>3. node' = "ok" /\ proc' = "mapped"
    BY <1>0, <1>6 DEF Mmap, ProcessInv
  <2> QED BY <1>0, <2>1, <2>2, <2>3, Zenon DEF ProcessInv
<1>7. CASE ReadAddress \/ MapI2C \/ ProgramBuffer \/ PowerOn
  <2>1. MmapWorks /\ mapping = AslamKmem /\ node = "ok" /\ pair = "visensor"
    BY <1>0, <1>7 DEF ReadAddress, MapI2C, ProgramBuffer, PowerOn, ProcessInv, TypeOK
  <2>2. /\ proc' \in Addressed /\ phys' = VirtToPhys(KmallocArea(kmalloc_ptr))
        /\ UNCHANGED <<kernel, size, mapping>>
    BY <1>0, <1>7 DEF ReadAddress, MapI2C, ProgramBuffer, PowerOn, ProcessInv
  <2>3. MmapWorks' /\ mapping' = AslamKmem'
    BY <1>0, <2>1, <2>2 DEF MmapWorks, AslamKmem
  <2>4. mod' = "live" /\ size' = NPages' * PageSize
    BY <1>0, <1>7, <2>1, <2>2 DEF ReadAddress, MapI2C, ProgramBuffer, PowerOn, ProcessInv, MmapWorks
  <2> QED BY <1>0, <2>1, <2>2, <2>3, <2>4 DEF ProcessInv
<1>8. CASE UNCHANGED process
  BY <1>8, ProcessUntouched
<1>9. ASSUME Load \/ Unload \/ FpgaWraps \/ (\E b \in Blocks : OtherTakes(b) \/ OtherFrees(b))
             \/ UNCHANGED vars
      PROVE  UNCHANGED process
  BY <1>9 DEF Load, Kmalloc, AllocChrdevRegion, CdevAdd, DeviceCreate, ReservePages,
     StorePattern, FinishInit, Unload, DeviceDestroy, FreePages, FpgaWraps, OtherTakes,
     OtherFrees, vars
<1> QED
  BY <1>1, <1>2, <1>3, <1>4, <1>5, <1>6, <1>7, <1>8, <1>9
     DEF Next, VisensorModule, AllocatorInit, AllocatorExit, OpenFails, MmapRing, MmapManager,
         MmapFails, Crash

\* What visensor-srv programs is reserved memory of the driver.
LEMMA ProgrammedSafe ==
    ASSUME DInv, proc \in Addressed, pair = "visensor"
    PROVE  /\ Safe(phys) /\ phys # Null
           /\ phys = mapping.first /\ RingBytes <= mapping.length
<1>0. TypeOK /\ ModuleInv /\ ProcessInv
  BY DEF DInv
<1>1. /\ MmapWorks /\ mapping = AslamKmem /\ node = "ok"
      /\ phys = VirtToPhys(KmallocArea(kmalloc_ptr))
      /\ mod = "live" /\ size = NPages * PageSize
  BY <1>0 DEF ProcessInv, Addressed, Mapped, HasDeviceOpen, MmapWorks
<1>2. /\ kmalloc_ptr \in Blocks /\ kmalloc_ptr \in reserved /\ owner[kmalloc_ptr] = "driver"
      /\ size \in Nat
  BY <1>0, <1>1 DEF ModuleInv, TypeOK
<1>3. /\ mapping.first = phys /\ mapping.length = RoundUp(size)
      /\ Inside(phys, RoundUp(size), kmalloc_ptr)
  BY <1>1, <1>2, KmemInside
<1>4. phys \in Nat
  BY <1>1, <1>2, AreaAligned
<1>5. RingBytes \in Nat /\ RingBytes <= RoundUp(size) /\ RoundUp(size) \in Nat
  <2>1. size = RingPages * PageSize
    BY <1>1 DEF NPages
  <2> QED BY <1>2, <2>1, RingFitsPages, RoundUpFacts
<1>6. Inside(phys, RingBytes, kmalloc_ptr)
  <2>1. VirtToPhys(kmalloc_ptr) + BlockBytes \in Int
    BY <1>2, DriverAssumption, PagesNat DEF VirtToPhys, BlockBytes
  <2> QED BY <1>3, <1>4, <1>5, <2>1 DEF Inside
<1> QED BY <1>2, <1>3, <1>4, <1>5, <1>6 DEF Safe, Null

\* The FPGA's registers are written by visensor-srv only, and the ring it runs on, or will
\* run on after its present round, is safe.
LEMMA NextFpgaInv == DInv /\ [Next]_vars => FpgaInv'
<1> SUFFICES ASSUME DInv, [Next]_vars PROVE FpgaInv'
  OBVIOUS
<1>0. TypeOK /\ ProcessInv /\ FpgaInv /\ pair' = pair
  BY PairConstant DEF DInv
<1>a. \A x : Safe(x) => Safe(x)'
  BY SafeStable
<1>1. CASE UNCHANGED <<bufAddr, control, dma>> /\ (proc' \in {"programmed", "on"} => phys' = phys /\ proc = proc')
  BY <1>0, <1>1, <1>a DEF FpgaInv
<1>2. CASE ProgramBuffer
  <2>1. pair = "visensor"
    BY <1>0, <1>2 DEF ProgramBuffer, ProcessInv, TypeOK
  <2>2. Safe(phys) /\ phys # Null
    BY <1>2, <2>1, ProgrammedSafe DEF ProgramBuffer, Addressed
  <2> QED BY <1>0, <1>2, <1>a, <2>1, <2>2 DEF FpgaInv, ProgramBuffer
<1>3. CASE PowerOn
  <2>1. pair = "visensor"
    BY <1>0, <1>3 DEF PowerOn, ProcessInv, TypeOK
  <2>2. Safe(phys) /\ phys # Null /\ bufAddr = phys
    BY <1>0, <1>3, <2>1, ProgrammedSafe DEF PowerOn, Addressed, FpgaInv
  <2>3. dma' \in {bufAddr, dma} /\ (control = 0 => dma' = bufAddr) /\ control \in {0, 1}
    BY <1>0, <1>3 DEF PowerOn, TypeOK
  <2>4. Safe(bufAddr) /\ (control = 1 => Safe(dma))
    BY <1>0, <2>2 DEF FpgaInv
  <2>5. Safe(dma)'
    BY <1>a, <2>3, <2>4
  <2> QED BY <1>0, <1>3, <1>a, <2>1, <2>2, <2>5 DEF FpgaInv, PowerOn
<1>4. CASE PowerOff
  BY <1>0, <1>4, <1>a DEF FpgaInv, PowerOff
<1>5. CASE FpgaWraps
  BY <1>0, <1>5, <1>a DEF FpgaInv, FpgaWraps, process
<1>6. ASSUME ~(ProgramBuffer \/ PowerOn \/ PowerOff \/ FpgaWraps)
      PROVE  /\ UNCHANGED <<bufAddr, control, dma>>
             /\ proc' \in {"programmed", "on"} => phys' = phys /\ proc = proc'
  BY <1>6 DEF Next, VisensorModule, AllocatorInit, AllocatorExit, Load, Kmalloc,
     AllocChrdevRegion, CdevAdd, DeviceCreate, ReservePages, StorePattern, FinishInit, Unload,
     DeviceDestroy, FreePages, MapRegisters, OpenRing, OpenFails, ReadSize, MmapRing,
     OpenManager, MmapManager, Mmap, MmapFails, ReadAddress, MapI2C, Crash, Exit, OtherTakes,
     OtherFrees, vars, process, fpga
<1> QED BY <1>1, <1>2, <1>3, <1>4, <1>5, <1>6

\* The invariant holds always.
LEMMA DInvariance == Spec => []DInv
<1>1. DInv /\ [Next]_vars => DInv'
  BY NextTypeOK, NextModuleInv, NextProcessInv, NextFpgaInv DEF DInv
<1> QED BY <1>1, InitDInv, PTL DEF Spec
-----------------------------------------------------------------------------
(* The theorems.                                                           *)

\* Type correctness of driver, process and FPGA registers, through every failed load.
THEOREM DriverTypeCorrect == Spec => []TypeOK
<1>1. DInv => TypeOK
  BY DEF DInv
<1> QED BY <1>1, DInvariance, PTL

\* Memory that a process has mapped is held by the driver, and the mapping does not leave
\* the block kmalloc() returned, for every page size, image size and placement of blocks.
THEOREM MappingAlwaysHeld == Spec => []MappedHeld
<1>1. DInv => MappedHeld
  <2> SUFFICES ASSUME DInv, mapping # NoMapping
               PROVE  /\ kmalloc_ptr # Null /\ owner[kmalloc_ptr] = "driver"
                      /\ Inside(mapping.first, mapping.length, kmalloc_ptr)
    BY DEF MappedHeld
  <2>1. MmapWorks /\ mapping = AslamKmem /\ node = "ok"
    BY DEF DInv, ProcessInv, HasDeviceOpen, Mapped
  <2>2. kmalloc_ptr \in Blocks /\ owner[kmalloc_ptr] = "driver" /\ size \in Nat
    BY <2>1 DEF DInv, ModuleInv, Visible, TypeOK
  <2>3. kmalloc_ptr # Null
    BY <2>2, DriverAssumption DEF Null
  <2> QED BY <2>1, <2>2, <2>3, KmemInside
<1> QED BY <1>1, DInvariance, PTL

\* The ring that visensor-srv programs into the FPGA begins at the first byte it has mapped
\* and ends inside the mapping.
THEOREM RingAlwaysInMapping == Spec => []RingInMapping
<1>1. DInv => RingInMapping
  <2> SUFFICES ASSUME DInv, proc \in {"programmed", "on"}
               PROVE  bufAddr = mapping.first /\ RingBytes <= mapping.length
    BY DEF RingInMapping
  <2>1. pair = "visensor" /\ bufAddr = phys
    BY DEF DInv, TypeOK, ProcessInv, FpgaInv
  <2> QED BY <2>1, ProgrammedSafe DEF Addressed
<1> QED BY <1>1, DInvariance, PTL

\* A running FPGA writes only memory that the driver holds or that nobody will ever get,
\* although it outlives the process that started it and the module that gave the memory.
THEOREM DmaAlwaysSafe == Spec => []DmaSafe
<1>1. DInv => DmaSafe
  BY DEF DInv, FpgaInv, Safe, DmaSafe
<1> QED BY <1>1, DInvariance, PTL

\* aslam_init() never writes its test pattern over memory that visensor-srv has mapped.
THEOREM NeverClobbered == Spec => NoClobber
<1>1. DInv => (pair = "visensor" /\ StorePattern => mapping = NoMapping)
  BY DEF DInv, ProcessInv, Mapped, MmapWorks, StorePattern
<1> QED BY <1>1, DInvariance, PTL DEF NoClobber
=============================================================================
