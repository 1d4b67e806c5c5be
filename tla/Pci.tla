-------------------------------- MODULE Pci --------------------------------
(***************************************************************************)
(* The PCI autoconfiguration (pci/pci.c): detection of the devices, bus by *)
(* bus, the ordering of their base address registers (BARs), the           *)
(* allocation of memory and I/O addresses, which starts over without a     *)
(* device when a bus does not fit, and the setup of devices and bridges.   *)
(* Sizes and addresses are in units of the smallest BAR.                   *)
(***************************************************************************)
EXTENDS Integers, Sequences, FiniteSets

CONSTANTS
    PCI_MAX_DEV,        \* devices that can be registered
    ADDRESSES,          \* addresses there are (2^32): the next is 0 again
    PCI_ALIGN,          \* PCI_ALIGN_MEM and PCI_ALIGN_IO: of what a bridge forwards
    MemStart, MemEnd,   \* the memory window
    IoStart, IoEnd,     \* the I/O window
    RedStart, RedEnd,   \* I/O window in the memory map, not to be allocated
    Machines            \* bound: sequences of devices that may be plugged

\* A device of a machine is [bus, bridge, bars], bars being a sequence of
\* [io, size, fixed] (fixed: the address required, or -1), in the order in
\* which the detection meets the devices.

VARIABLES
    machine,        \* the devices there are
    dev_data,       \* those detected: their BARs with `start', and alloc_err
    bus_count,
    bus_data,       \* of each bus: start_mem and start_io
    pci_phase,      \* "detect", "mem", "io", "config", "done" or "error"
    alloc,          \* alloc_space: its loop variables
    window          \* what the bridge to each bus forwards, once configured

pcivars == <<machine, dev_data, bus_count, bus_data, pci_phase, alloc, window>>

Bar(d, t) == dev_data[d].bar[t]
NoAlloc == [bus |-> 0, list |-> <<>>, bar |-> 1, first |-> 0, mem |-> 0, firstmem |-> 0]
Unusable == -2      \* stands for 0x00000001, which is no address

PciInit ==
    /\ machine \in Machines
    /\ dev_data = <<>> /\ bus_count = 1
    /\ bus_data = <<>> /\ pci_phase = "detect" /\ alloc = NoAlloc /\ window = <<>>

\* The bounds of the windows, and where the bytes of fixed BARs may lie.
WindowAssumption ==
    /\ PCI_MAX_DEV \in Nat /\ PCI_ALIGN \in Nat \ {0} /\ ADDRESSES \in Nat
    /\ {MemStart, MemEnd, IoStart, IoEnd, RedStart, RedEnd} \subseteq Nat
    /\ MemStart <= MemEnd /\ IoStart <= IoEnd /\ RedStart <= RedEnd
    /\ \A a \in {MemEnd, IoEnd} : a + 2 * PCI_ALIGN <= ADDRESSES
    /\ RedStart % PCI_ALIGN = 0 /\ MemStart \notin RedStart + 1 .. RedEnd - 1

\* A BAR is so small that no sum wraps, and if it fits into the window it does
\* not lie across the start of the I/O window there.
Movable(bar) ==
    /\ bar.fixed = -1
    /\ \A a \in {MemEnd, IoEnd, RedEnd} : a + PCI_ALIGN + 2 * bar.size <= ADDRESSES
    /\ LET block == (RedStart \div bar.size) * bar.size
       IN  bar.io \/ block = RedStart \/ block + bar.size > MemEnd

\* The fixed BARs, those of the system controller and of the bridge to the ISA bus,
\* are on bus 0 and apart.
FixedOn(bus, bar) ==
    /\ bus = 0 /\ bar.fixed >= 0 /\ bar.fixed + bar.size < ADDRESSES
    /\ bar.io \/ bar.fixed + bar.size \notin RedStart + 1 .. RedEnd - 1

Apart(bar, other) ==
    \/ bar.io # other.io \/ bar.fixed = -1 \/ other.fixed = -1
    \/ bar.fixed + bar.size <= other.fixed \/ other.fixed + other.size <= bar.fixed

MachineAssumption ==
    \A m \in Machines :
        /\ m \in Seq([bus : Nat, bridge : BOOLEAN,
                     bars : Seq([io : BOOLEAN, size : Nat \ {0}, fixed : Nat \cup {-1}])])
        /\ \A d \in DOMAIN m : \A t \in DOMAIN m[d].bars :
              /\ Movable(m[d].bars[t]) \/ FixedOn(m[d].bus, m[d].bars[t])
              /\ \A e \in DOMAIN m : \A u \in DOMAIN m[e].bars :
                    <<d, t>> = <<e, u>> \/ Apart(m[d].bars[t], m[e].bars[u])
PciAssumption == WindowAssumption /\ MachineAssumption

-----------------------------------------------------------------------------
(* Detection and ordering *)

\* detect_devices, query_dev: the next device, if its bus is reached and there
\* is room; a bridge gets the next bus number.
Detect ==
    /\ pci_phase = "detect" /\ Len(dev_data) < PCI_MAX_DEV /\ Len(dev_data) < Len(machine)
    /\ LET hw == machine[Len(dev_data) + 1] IN
       /\ hw.bus < bus_count
       /\ dev_data' = Append(dev_data,
            [bus |-> hw.bus, bridge |-> hw.bridge, alloc_err |-> FALSE,
             bar |-> [t \in DOMAIN hw.bars |-> [io |-> hw.bars[t].io, size |-> hw.bars[t].size,
                                                fixed |-> hw.bars[t].fixed >= 0,
                                                start |-> hw.bars[t].fixed]]])
       /\ bus_count' = IF hw.bridge THEN bus_count + 1 ELSE bus_count
    /\ UNCHANGED <<machine, bus_data, pci_phase, alloc, window>>

BarsOf(b, io) ==
    {p \in (DOMAIN dev_data) \X (1 .. 6) :
        /\ p[2] \in DOMAIN dev_data[p[1]].bar
        /\ dev_data[p[1]].bus = b /\ Bar(p[1], p[2]).io = io}

\* config_system: the list of a bus has the fixed BARs in front, the last found
\* first, then the others by size, the last found of a size first.
FoundAfter(p, q) == p[1] > q[1] \/ (p[1] = q[1] /\ p[2] > q[2])
Before(p, q) ==
    LET a == Bar(p[1], p[2])
        b == Bar(q[1], q[2])
    IN  IF a.fixed \/ b.fixed THEN a.fixed /\ (~b.fixed \/ FoundAfter(p, q))
        ELSE a.size > b.size \/ (a.size = b.size /\ FoundAfter(p, q))
Largest(b, io) ==
    LET S == BarsOf(b, io)
    IN  [k \in 1 .. Cardinality(S) |->
            CHOOSE p \in S : Cardinality({q \in S : Before(q, p)}) = k - 1]

-----------------------------------------------------------------------------
(* Allocation *)

align(addr, size) == (((addr + size - 1) % ADDRESSES) \div size) * size
Behind(start, size) == (start + size) % ADDRESSES

\* Where the addresses behind a bridge start; a mutant forgets what a bridge can
\* tell apart.
BusStart_Unaligned(mem) == mem

BusStart(mem) == align(mem, PCI_ALIGN)

\* The loop of alloc_space enters bus b, from address mem on.
EnterBus(b, io, mem) ==
    LET list == Largest(b, io)
        start == BusStart(mem)
    IN  /\ alloc' = [bus |-> b, list |-> list, bar |-> 1, first |-> 0,
                     mem |-> start, firstmem |-> 0]
        /\ bus_data' = [bus_data EXCEPT ![b + 1][io] =
               IF list # <<>> /\ Bar(list[1][1], list[1][2]).fixed
               THEN Bar(list[1][1], list[1][2]).start ELSE start]

\* The detection is over: alloc_space for the memory.
Detected ==
    /\ pci_phase = "detect"
    /\ \/ Len(dev_data) \in {PCI_MAX_DEV, Len(machine)}
       \/ /\ Len(dev_data) < Len(machine)
          /\ machine[Len(dev_data) + 1].bus >= bus_count
    /\ pci_phase' = "mem"
    /\ bus_data' = [b \in 1 .. bus_count |-> [io \in BOOLEAN |-> 0]]
    /\ alloc' = [NoAlloc EXCEPT !.bus = -1, !.mem = MemStart]
    /\ UNCHANGED <<machine, dev_data, bus_count, window>>

Io == pci_phase = "io"
Limit == IF Io THEN IoEnd ELSE MemEnd
Here == Bar(alloc.list[alloc.bar][1], alloc.list[alloc.bar][2])
InList == pci_phase \in {"mem", "io"} /\ alloc.bar <= Len(alloc.list)

\* First the fixed.  (What stands for no address is an address like any other here.)
AllocFixed ==
    /\ InList /\ Here.fixed
    /\ LET start == IF Here.start = Unusable THEN 1 ELSE Here.start
           mem   == IF Behind(start, Here.size) > alloc.mem
                    THEN Behind(start, Here.size) ELSE alloc.mem IN
       /\ alloc' = [alloc EXCEPT !.mem = mem, !.bar = @ + 1]
       /\ pci_phase' = IF mem > Limit THEN "error" ELSE pci_phase
    /\ UNCHANGED <<machine, dev_data, bus_count, bus_data, window>>

\* The first configurable one: the place to start over from.
FirstConf ==
    /\ InList /\ ~Here.fixed /\ alloc.first = 0
    /\ alloc' = [alloc EXCEPT !.first = alloc.bar, !.firstmem = alloc.mem]
    /\ UNCHANGED <<machine, dev_data, bus_count, bus_data, pci_phase, window>>

Configurable == InList /\ ~Here.fixed /\ alloc.first # 0

\* Where the BAR goes: naturally aligned, and not into the I/O window; a mutant
\* forgets the alignment behind that window.
Place_BehindRed(mem, size) ==
    IF ~Io /\ align(mem, size) = RedStart THEN RedEnd ELSE align(mem, size)

Place(mem, size) ==
    IF ~Io /\ align(mem, size) = RedStart THEN align(RedEnd, size) ELSE align(mem, size)

\* BARs of a device without an address are passed over.
AllocSkip ==
    /\ Configurable /\ Here.start = Unusable
    /\ alloc' = [alloc EXCEPT !.bar = @ + 1]
    /\ UNCHANGED <<machine, dev_data, bus_count, bus_data, pci_phase, window>>

AllocBar ==
    /\ Configurable /\ Here.start # Unusable
    /\ LET start == Place(alloc.mem, Here.size)
           p == alloc.list[alloc.bar] IN
       /\ Behind(start, Here.size) <= Limit
       /\ dev_data' = [dev_data EXCEPT ![p[1]].bar[p[2]].start = start]
       /\ alloc' = [alloc EXCEPT !.mem = Behind(start, Here.size), !.bar = @ + 1]
    /\ UNCHANGED <<machine, bus_count, bus_data, pci_phase, window>>

\* The BAR an allocation that starts over begins with; a mutant begins with the
\* same again.
StartOver_Same(first) == first

StartOver(first) == first + 1

\* The bus does not fit: the device with the first configurable BAR gets no
\* addresses, and the bus starts over behind that BAR.
AllocFails ==
    /\ Configurable /\ Here.start # Unusable
    /\ Behind(Place(alloc.mem, Here.size), Here.size) > Limit
    /\ LET d == alloc.list[alloc.first][1] IN
       dev_data' = [dev_data EXCEPT ![d].alloc_err = TRUE,
                      ![d].bar = [t \in DOMAIN @ |-> [@[t] EXCEPT !.start = Unusable]]]
    /\ alloc' = [alloc EXCEPT !.bar = StartOver(alloc.first),
                              !.first = StartOver(alloc.first), !.mem = alloc.firstmem]
    /\ UNCHANGED <<machine, bus_count, bus_data, pci_phase, window>>

\* The list of a bus is at its end.
NextBus ==
    /\ pci_phase \in {"mem", "io"} /\ alloc.bar > Len(alloc.list)
    /\ \/ /\ alloc.bus + 1 < bus_count
          /\ EnterBus(alloc.bus + 1, Io, alloc.mem)
          /\ UNCHANGED pci_phase
       \/ /\ alloc.bus + 1 = bus_count
          /\ pci_phase' = IF Io THEN "config" ELSE "io"
          /\ alloc' = [NoAlloc EXCEPT !.bus = -1, !.mem = IoStart]
          /\ UNCHANGED bus_data
    /\ UNCHANGED <<machine, dev_data, bus_count, window>>

-----------------------------------------------------------------------------
(* Setup *)

\* What a bridge register can hold of an address.
Granule(a) == (a \div PCI_ALIGN) * PCI_ALIGN

\* config_dev: a bridge forwards, to the bus after its own, all that lies
\* behind the start of that bus.
Configure ==
    /\ pci_phase = "config"
    /\ pci_phase' = "done"
    /\ LET bridges == {d \in DOMAIN dev_data : dev_data[d].bridge} IN
       window' = [b \in {dev_data[d].bus + 1 : d \in bridges} |->
           [io \in BOOLEAN |->
               [base  |-> Granule(bus_data[b + 1][io]),
                limit |-> Granule((IF io THEN IoEnd ELSE MemEnd) - 1) + PCI_ALIGN - 1]]]
    /\ UNCHANGED <<machine, dev_data, bus_count, bus_data, alloc>>

AllocSpace == AllocFixed \/ FirstConf \/ AllocSkip \/ AllocBar \/ AllocFails \/ NextBus
PciNext == Detect \/ Detected \/ AllocSpace \/ Configure
PciSpec == PciInit /\ [][PciNext]_pcivars

-----------------------------------------------------------------------------
(* Properties *)

Configured ==
    {p \in (DOMAIN dev_data) \X (1 .. 6) :
        /\ p[2] \in DOMAIN dev_data[p[1]].bar /\ ~dev_data[p[1]].alloc_err}
Bytes(bar) == bar.start .. bar.start + bar.size - 1

\* However often the allocation started over: the devices in use answer to
\* different addresses, naturally aligned, in the window and not where the I/O
\* window lies in memory.
Disjoint ==
    pci_phase = "done"
    => \A p, q \in Configured :
         LET a == Bar(p[1], p[2])
             b == Bar(q[1], q[2])
         IN  /\ p # q /\ a.io = b.io => Bytes(a) \cap Bytes(b) = {}
             /\ ~a.fixed => /\ a.start % a.size = 0
                            /\ a.start >= IF a.io THEN IoStart ELSE MemStart
                            /\ a.start + a.size <= IF a.io THEN IoEnd ELSE MemEnd
                            /\ ~a.io => Bytes(a) \cap RedStart .. RedEnd - 1 = {}

\* An access reaches the device whose BAR it is for: every bridge on the way
\* to its bus forwards it, the bridge of its own bus does not.
Routed ==
    pci_phase = "done"
    => \A p \in Configured :
         LET a == Bar(p[1], p[2])
             Forwarded(b) == a.start \in window[b][a.io].base .. window[b][a.io].limit
         IN  ~a.fixed => \A b \in DOMAIN window : Forwarded(b) <=> b <= dev_data[p[1]].bus

\* The addresses given out to functions are disjoint, and the bridges forward what the
\* functions behind them were given.
AddressesAreSound == Disjoint /\ Routed

\* The configuration comes to an end, if only in an error.
Ends == <>(pci_phase \in {"done", "error"})
=============================================================================
