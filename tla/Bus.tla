---------------------------------- MODULE Bus ----------------------------------
(***************************************************************************)
(* SystemBus: which part of the machine answers an access, at every width. *)
(* read8 .. write64 try DRAM, then a chain of address tests that is written *)
(* out once per width and direction (read8_slow .. write64_slow); beside    *)
(* it stands DEVICE_REGIONS with lookup_device, a sorted table of the same *)
(* map.  What a device does with the access is modelled in its own module. *)
(***************************************************************************)
EXTENDS Integers, Sequences, FiniteSets

CONSTANTS
    BusDramBase, BusDramSize,   \* the DRAM (its base scaled to TLC's integers)
    VirtioCounts,               \* numbers of VirtIO devices on the bus
    Strides                     \* offsets into and around a region that are tried

\* is_virtio_region knows eight slots; DRAM lies above every device.
ASSUME BusAssumption ==
    /\ VirtioCounts \subseteq 0 .. 8 /\ Strides \subseteq Int
    /\ BusDramSize \in Nat /\ BusDramBase \in Nat /\ BusDramBase >= 269484040

VARIABLES
    busConfig,      \* [virtio, d1, shared]: devices present; bus of a WASM worker
    busReply        \* the last access and who answered it

busVars == <<busConfig, busReply>>

NoReply == [kind |-> "none"]

Region(base, size, dev) == [base |-> base, size |-> size, dev |-> dev]
VIRTIO_BASE == 268439552
VIRTIO_STRIDE == 4096

\* DEVICE_REGIONS, in the order of the table.
DeviceRegions ==
    << Region(1048576, 4096, "TestFinisher"), Region(1114112, 4096, "SysInfo"),
       Region(33554432, 65536, "Clint"), Region(33751040, 4096, "D1Audio"),
       Region(38805504, 1024, "D1Touch"), Region(67239936, 4096, "D1Mmc0"),
       Region(72351744, 4096, "D1Emac"), Region(84934656, 65536, "D1De"),
       Region(88408064, 4096, "D1MipiDsi"), Region(88412160, 4096, "D1Dphy"),
       Region(88477696, 4096, "D1TconLcd"), Region(201326592, 67108864, "Plic"),
       Region(268435456, 256, "Uart"), Region(VIRTIO_BASE, VIRTIO_STRIDE, "Virtio"),
       Region(VIRTIO_BASE + VIRTIO_STRIDE, VIRTIO_STRIDE, "Virtio"),
       Region(VIRTIO_BASE + 2 * VIRTIO_STRIDE, VIRTIO_STRIDE, "Virtio"),
       Region(VIRTIO_BASE + 3 * VIRTIO_STRIDE, VIRTIO_STRIDE, "Virtio"),
       Region(VIRTIO_BASE + 4 * VIRTIO_STRIDE, VIRTIO_STRIDE, "Virtio"),
       Region(VIRTIO_BASE + 5 * VIRTIO_STRIDE, VIRTIO_STRIDE, "Virtio"),
       Region(269484032, 8, "Rtc") >>

NoDevice == [dev |-> "none", off |-> 0]

\* lookup_device: the last region whose base is not above the address.
LookupDevice(addr) ==
    LET idx == Cardinality({k \in DOMAIN DeviceRegions : DeviceRegions[k].base <= addr})
        r == DeviceRegions[idx]
    IN IF idx # 0 /\ addr < r.base + r.size THEN [dev |-> r.dev, off |-> addr - r.base]
       ELSE NoDevice

-----------------------------------------------------------------------------
(* One test of a chain: the device and offset it stands for, or NoDevice.   *)
RegionOf(dev) == CHOOSE k \in DOMAIN DeviceRegions : DeviceRegions[k].dev = dev
InRegion(dev, addr) ==
    LET r == DeviceRegions[RegionOf(dev)]
    IN IF addr >= r.base /\ addr < r.base + r.size THEN [dev |-> dev, off |-> addr - r.base]
       ELSE NoDevice

\* get_virtio_device: only the slots that hold a device.
VirtioDevice(addr) ==
    IF addr >= VIRTIO_BASE /\ (addr - VIRTIO_BASE) \div VIRTIO_STRIDE < busConfig.virtio
    THEN [dev |-> "Virtio", off |-> (addr - VIRTIO_BASE) % VIRTIO_STRIDE] ELSE NoDevice

\* is_virtio_region: eight slots, with or without a device.
EmptySlot(addr) ==
    IF addr >= VIRTIO_BASE /\ addr < VIRTIO_BASE + VIRTIO_STRIDE * 8
    THEN [dev |-> "EmptySlot", off |-> (addr - VIRTIO_BASE) % VIRTIO_STRIDE] ELSE NoDevice

Test(dev, addr) ==
    CASE dev = "Virtio" -> VirtioDevice(addr)
      [] dev = "EmptySlot" -> EmptySlot(addr)
      [] OTHER -> InRegion(dev, addr)

\* The first test of a chain that succeeds.
FirstOf(chain, addr) ==
    LET hits == {k \in DOMAIN chain : Test(chain[k], addr) # NoDevice}
    IN IF hits = {} THEN NoDevice
       ELSE Test(chain[CHOOSE k \in hits : \A j \in hits : k <= j], addr)

\* The chains: narrow stores; loads but those of 32 bits, and 64-bit stores; 32 bits.
StoreChain == << "TestFinisher", "SysInfo", "Clint", "Plic", "Uart", "Virtio" >>
LoadChain == << "TestFinisher", "SysInfo", "Clint", "Plic", "Uart", "Virtio", "EmptySlot" >>
WordStoreChain ==
    << "TestFinisher", "SysInfo", "Clint", "Plic", "Uart", "D1Mmc0", "D1Emac", "D1Touch", "D1Audio",
       "D1De", "D1TconLcd", "D1MipiDsi", "D1Dphy", "Virtio", "EmptySlot" >>
WordLoadChain ==
    << "TestFinisher", "SysInfo", "Rtc", "Clint", "Plic", "Uart", "D1Mmc0", "D1Emac", "D1Touch",
       "D1Audio", "D1De", "D1TconLcd", "D1MipiDsi", "D1Dphy", "Virtio", "EmptySlot" >>

D1Devices ==
    {"D1Mmc0", "D1Emac", "D1Touch", "D1Audio", "D1De", "D1TconLcd", "D1MipiDsi", "D1Dphy"}

\* A D1 controller that was not created reads 0 and ignores stores; a worker's
\* UART data goes to the shared rings.
Present(hit) ==
    IF hit.dev \in D1Devices /\ ~busConfig.d1
    THEN [hit EXCEPT !.dev = "Absent"] ELSE hit

Read8Slow(addr) ==
    LET hit == FirstOf(LoadChain, addr)
    IN CASE hit.dev = "Uart" /\ busConfig.shared /\ hit.off \in {0, 5} ->
              [hit EXCEPT !.dev = "SharedUart"]
         [] hit.dev = "Virtio" -> [hit EXCEPT !.off = @ - (@ % 4)]
         [] OTHER -> hit

Read16Slow(addr) ==
    LET hit == FirstOf(LoadChain, addr)
    IN IF hit.dev = "Virtio" THEN [hit EXCEPT !.off = @ - (@ % 4)] ELSE hit

Read32Slow(addr) ==
    Present(FirstOf(WordLoadChain, addr))

\* A VirtIO device is read twice, at the offset and four above it.
Read64Slow(addr) ==
    FirstOf(LoadChain, addr)

\* Stores: the test finisher ends the machine; VirtIO registers take 32 bits only.
Write8Slow(addr) ==
    LET hit == FirstOf(StoreChain, addr)
    IN CASE hit.dev = "Uart" /\ busConfig.shared /\ hit.off = 0 -> [hit EXCEPT !.dev = "SharedUart"]
         [] hit.dev = "Virtio" -> [hit EXCEPT !.dev = "Ignored"]
         [] OTHER -> hit

Write16Slow(addr) ==
    LET hit == FirstOf(StoreChain, addr)
    IN IF hit.dev = "Virtio" THEN [hit EXCEPT !.dev = "Ignored"] ELSE hit

\* Mutant: the display's D-PHY window is taken for the whole DSI window.
Write32SlowWide(addr) ==
    LET hit == FirstOf(WordStoreChain, addr)
    IN Present(IF hit.dev = "D1Dphy" THEN [dev |-> "D1MipiDsi", off |-> hit.off + 4096] ELSE hit)

Write32Slow(addr) ==
    Present(FirstOf(WordStoreChain, addr))

Write64Slow(addr) ==
    LET hit == FirstOf(LoadChain, addr)
    IN IF hit.dev = "Virtio" THEN [hit EXCEPT !.dev = "Ignored"] ELSE hit

Slow(dir, width, addr) ==
    IF dir = "read"
    THEN CASE width = 1 -> Read8Slow(addr) [] width = 2 -> Read16Slow(addr)
           [] width = 4 -> Read32Slow(addr) [] OTHER -> Read64Slow(addr)
    ELSE CASE width = 1 -> Write8Slow(addr) [] width = 2 -> Write16Slow(addr)
           [] width = 4 -> Write32Slow(addr) [] OTHER -> Write64Slow(addr)

\* Dram::offset and the end check of its load or store.
DramAnswer(width, addr) ==
    LET off == addr - BusDramBase
    IN IF off + width <= BusDramSize THEN [dev |-> "Dram", off |-> off] ELSE NoDevice

\* read8 .. write64: alignment, DRAM, devices.
BusAccess(dir, width, addr) ==
    /\ busReply = NoReply
    /\ busReply' = IF addr % width # 0 THEN [kind |-> "misaligned", addr |-> addr]
                   ELSE [kind |-> dir, width |-> width, addr |-> addr,
                         by |-> IF addr >= BusDramBase /\ addr - BusDramBase < BusDramSize
                                THEN DramAnswer(width, addr) ELSE Slow(dir, width, addr)]
    /\ UNCHANGED busConfig

\* The hart has its answer.
BusDone == busReply # NoReply /\ busReply' = NoReply /\ UNCHANGED busConfig

BusInit ==
    /\ busConfig \in [virtio : VirtioCounts, d1 : BOOLEAN, shared : BOOLEAN]
    /\ busReply = NoReply

\* The edges of every region, of the VirtIO window and of DRAM.
BusAddresses ==
    {a \in {b + d : b \in ({DeviceRegions[k].base : k \in DOMAIN DeviceRegions}
                           \cup {DeviceRegions[k].base + DeviceRegions[k].size : k \in DOMAIN DeviceRegions}
                           \cup {VIRTIO_BASE + j * VIRTIO_STRIDE : j \in 6 .. 8}
                           \cup {BusDramBase, BusDramBase + BusDramSize}),
                    d \in Strides} : a >= 0}

BusNext ==
    \/ \E dir \in {"read", "write"}, width \in {1, 2, 4, 8}, addr \in BusAddresses :
          BusAccess(dir, width, addr)
    \/ BusDone

BusSpec == BusInit /\ [][BusNext]_busVars

-----------------------------------------------------------------------------
AlwaysThere == {"TestFinisher", "SysInfo", "Clint", "Plic", "Uart", "SharedUart"}

\* The eight chains and the table describe one map: whoever answers an access is
\* who DEVICE_REGIONS names, at the table's offset (the aligned one for a narrow
\* VirtIO read); every device of the table answers a 32-bit load; and an access
\* that no entry of the table covers faults, but for the two VirtIO slots the
\* table leaves out.
RouteMatchesMap ==
    busReply.kind \in {"read", "write"} =>
        LET hit == busReply.by
            row == LookupDevice(busReply.addr)
        IN /\ hit.dev \in {DeviceRegions[k].dev : k \in DOMAIN DeviceRegions} =>
                 \/ hit.dev = row.dev /\ hit.off \in {row.off, row.off - (row.off % 4)}
                 \/ hit.dev = "Virtio" /\ row = NoDevice /\ busConfig.virtio > 6
           /\ busReply.kind = "read" /\ busReply.width = 4 /\ row # NoDevice =>
                 hit.dev \in {row.dev, "Absent", "EmptySlot"}
           /\ row.dev \in AlwaysThere => hit.dev \in {row.dev, "SharedUart"}
           /\ row = NoDevice => hit.dev \in {"none", "Dram", "EmptySlot", "Virtio", "Ignored"}

=============================================================================
