# Verification of YAMON

YAMON is the ROM monitor of the MIPS Atlas, Malta and SEAD boards: it starts the
board, keeps its environment variables in flash, talks to a terminal, loads
programs over the serial line or TFTP, starts them, and takes their exceptions
back. It is one thread of C with interrupts and exceptions on top. This
directory holds TLA+ models of its stateful parts, the TLC configurations that
check them, and TLAPS proofs about them. `PROJECT.json` maps every definition to
the lines it models, and lists runs, mutants, findings and hazards.

## 1. The system

Inventory. "State" is what lives longer than a call; "hard" is what tests of the
code would hardly reach.

| component | state | operations | interacts with | hard | correctness |
|---|---|---|---|---|---|
| sysenv (`sysenv/sysenv.c`) | file flash log, lookup table, append position, state | init, read, write, garbage collection | flash driver, SYSCON | power cut or flash error between two operations, full log, superseded records | the log is a persistent map |
| env (`env/env.c`) | named variables in RAM with attribute and flash index | init, access_var, remove_var, env_remove, re_init | sysenv, shell | indices stale after a collection, removal while iterating, half failures | RAM mirrors flash, system variables stay in force |
| flash_strata | read mode, status and lock bits of the chips | write, erase, monitor flash test | sysenv, load and disk commands | failures between two words, several chips | exactly what was asked for, and readable afterwards |
| serial_ti16550, serial_saa9730 | receive ring, break state, RTS | read, write, ctrl, interrupt | shell, gdb stub, loader | interrupt against read, overrun, flow control | no character lost unmarked, repeated, reordered |
| exception (`exception/`) | handler table and two saved copies, masks | register, deregister, dispatch, store, restore | shell, go, gdb, drivers, applications | interrupts during registration, handlers that call back, swapped tables | no interrupt without handler, shell state restored |
| go, application interface | application context | shift to user and back, calls of the application | exception, shell | how an application ends | as above |
| gdb stub | packets, planted breaks | packet loop, memory and register access, step | serial, exception | breaks against the host's own writes, delay slots | a step is one instruction, the program stays whole |
| net_tftpc, net_appl | one session (sap_context, 10 buffers), ping state | open, readbyte, file_read, file_write, poll, ping | UDP, ARP, clock, loader, flash | loss, duplication, timeouts, two host sessions, slow reader | bytes in order and complete, transfers end |
| net_arp | cache of 10 entries | open, poll, receive, ageing | MAC, clock | eviction while waiting, polls inside polls | one entry an address, old entries go |
| net_mac, net_ip, net_udp, net_icmp | tables of access points | open, close, send, receive | LAN driver, each other | replies from inside a receive handler | a frame goes to its next hop |
| net (`net/net.c`) | none | poll, gettime, checksum | RTC, all of the above | clock that jumps | timeouts neither early nor never |
| LAN drivers | descriptor rings, receive buffers | send, receive, start, stop | device, MAC | ownership bits, full rings, interrupts | frames in order, none forgotten |
| io, syscon | driver and object tables, allocator | install, register, read, write | all drivers | - | - |
| pci | device list, allocated ranges | scan, allocate, configure bridges | init | ranges that do not fit | ranges disjoint, aligned and forwarded |
| loader (`load/`, `shell/load.c`) | position in the input, entry point | load | serial or TFTP, memory, flash | errors halfway, line endings | an entry point is that of a whole image |
| shell | command line, history | line editing, passes over a line | everything | history ring, four ideas of a quote | the user sees what is executed |
| shell commands | little | dump, edit, fill, search, compare, copy, disk, date, cpu start | memory, ide, rtc, other CPUs | areas across segments and pages | what is touched was checked |
| rtc, iic, eeprom | the chip's registers; MAC and serial number | read, set; read once | date, net, syscon | clock ticks and interrupts during an access, bus errors | a time that was, an identity that was stored |
| ide | the drive | read, write sectors | disk command | a drive that fails halfway | sectors done and named agree |
| init, arch, reset, freq, isa | board tables | start-up, other CPUs | all | CPUs that start while CPU 0 does | a CPU goes where it was told |
| fpuemul | control register, exceptions of the last operation | arithmetic, conversions, emulation of instructions and delay slots | exception, applications | rounding at the borders of the formats, results of several roundings, delay slots | what a processor with an FPU does |
| lib | - | - | - | imported code | - |

How control flows: `init_modules` runs SYSENV_init and then env_init; the shell
reads from the serial driver and calls commands; `setenv` goes shell -> env ->
sysenv -> flash. `load` reads from the serial ring or from net_getbyte, which
polls the network and so runs every receive callback on the same thread. `go`
swaps the exception table, shifts to the application, and comes back through
the exception dispatcher.

## 2. Modules

| module | models | kind |
|---|---|---|
| `SysenvStore` | what sysenv promises: a persistent map with writes in progress | abstract |
| `Sysenv` | `sysenv/sysenv.c` with the flash below it | implements `SysenvStore` |
| `SysenvProofs`, `EnvProofs`, `NetProofs`, `TftpProofs`, `ExcepProofs`, `GdbStubProofs`; `DriverProofs`; `DeviceProofs` | theorems on `Sysenv`, `Env`, `Net`, `TftpClient`, `Excep`, `GdbStub`; on `LanAM79C973`, `Flash`, `SerialTI16550`, `Disk` and `Launch`; on `LanSAA9730`, `Rtc` and `Pci` | TLAPS |
| `Env` | `env/env.c`, the shell commands on variables, start-up | extends `Sysenv` |
| `Flash` | `drivers/flash/flash_strata.c` | driver |
| `SerialTI16550` | the receive side of the 16550 driver and the remote end | driver |
| `LanAM79C973`, `LanSAA9730` | the two LAN drivers and their controllers | driver |
| `Disk` | the disk command over the IDE driver | command and driver |
| `Rtc` | the date command and NET_gettime over the clock | command and driver |
| `Eeprom` | the board's identity over EEPROM and bus drivers | syscon object and drivers |
| `Pci` | detection and allocation | start-up |
| `Launch` | the start of the other CPUs | start-up |
| `Excep` | handler tables, dispatch, masks, shift to applications and the debugger | |
| `Net` | ARP, IP, ICMP, the poll loop, ping | protocols |
| `TftpClient` | TFTP client, its callers, the network and the host | protocol |
| `Shell` | line editor, completion, history, the terminal | |
| `CommandLine` | the passes over a line and its execution | |
| `Loader` | the load command, line reader, S-records, entry point | |
| `Memory` | the commands on memory over sys_validate_range | |
| `GdbStub` | the debugger stub's packets, breaks and steps | |
| `Ieee754`, `Fpu` | the floating point library, for one format and for both | algorithm |
| `MC*` | the instances TLC checks | |

Several modules share a run (`MCFaults`, `MCServices`, `MCDrivers`, `MCMonitor`,
`MCLiveness`): a behaviour picks one module and instance at the start and is a
behaviour of it; the variables of the others have no value, or keep their first
one. So the state space of such a run is the sum of those of its modules and not
their product, and each property is that of one module, under the guard that the
behaviour is one of it. Parts that do interact are composed in one module: `Env`
with `Sysenv`, `Net` with the poll loop and both kinds of driver, `Disk`, `Rtc`
and `Eeprom` with the drivers below, `TftpClient` with its callers and the host.

### Sysenv and SysenvStore
The file flash is a sequence of `MaxRecords` records (a function over slots),
each free, in use (index, data, checksum right or not) or bad. `SYSENV_init`,
`SYSENV_read`, `SYSENV_write` and the erase are actions; a write that has to
program flash is broken there: `pc` = "store" is the append, "erase" and "copy"
are the two phases of the collector, one action per record copied. A flash
operation may fail (rc, state as in the code) or be cut by a loss of power, and
then leaves the area unchanged or damaged (`HalfProgrammed`, `HalfErased`).
`Reset` clears everything but flash. Payloads are model values; an empty one is
a deletion, as size 0 is in the code.

`SysenvStore` has two variables: the map, and the write in progress. A write
changes its own index, once. `Sysenv` implements it with the map taken from the
newest record of each index, or from the RAM copies while the collector copies
back. This is checked without faults: with them the code breaks it
(sysenv_erase_lost).

### Env
`env` is the sequence of counted entries (name, value, index in flash,
attribute). `access_var` and `remove_var` are operators used by `setenv`,
`unsetenv`, the removal loop and the two halves of `env_init`; where they call
SYSENV_write they wait in `frame` while the actions of `Sysenv` run, and
`FlashReturned` is the code after the call. Return codes the shell only prints
are left out. The decoders of system variables
are a set of accepted (name, value) pairs.

### Flash
Of each byte one bit is kept: erased or not. `service` is the service being
run, with its place; programming goes word by word, erasing block by block, and
each step may fail or be the last before power is lost. `reading` is the set of
chips in read-array mode: the code puts back the chips it touched, which is what
`FlashReadable` is about.

### SerialTI16550
`SERIAL_TI16550_read` is broken at each place where an interrupt can change
what it has read: the break flush, the move of recv_getptr, the RTS update.
`mode` is how the driver is set up (flow control, interrupts); `Reinit` is the
initialisation that `stty` runs again, which may change the flow control.
`Service` is SERIAL_TI16550_irq for one character. The remote end sends
numbered characters, some of them ctrl/c, and obeys RTS with some slack.
`serial_saa9730.c` has the same ring and the same steps (read at 736-803, irq at
855-909); it differs in registers and handshake lines.

### LanAM79C973, LanSAA9730
Frames are numbers; 0 in a descriptor says that the other side owns it. For the
AM79C973, the thread, the interrupt handler and the controller take steps of
their own; a write is broken where it has read `NextTDREIndex` and before it
disables interrupts. The handler may send. For the SAA9730, `reads` is the stack
of calls of LAN_SAA9730_read, since a receive handler can poll again;
transmissions time out, and the driver is stopped and started again. The run has
stacks of one call: a read from inside a handler meets the frame in hand a second
time and then, on the way out, one frame is skipped. That is the subject of
net_frame_again, where it is seen from the network.

### Disk, Rtc, Eeprom
The devices are external and may fail wherever the driver looks at them. `Disk`
goes from the arguments of the command to the sectors of the drive, in chunks
that each print a dot. In `Rtc` the clock ticks between any two accesses
(RTC_read waits for UIP to go first), and with interrupts on, the handler of a
LAN interrupt asks for the time and leaves another register selected;
`spoiled` excepts an interrupt right between the selection and the access of a
write (below). `Eeprom` has both bus drivers: the SAA9730's, which hands over
commands three at a time and reports errors, and the PIIX4's, which reads byte
by byte and takes an error for completion.

### Pci, Launch
`Pci` is given any of a set of machines (functions, a bridge, a function with
fixed registers) and goes from detection to the windows of the bridges, in the
order of the code: a bus is laid out largest first; when something does not fit,
the largest that has not failed is given up and the bus starts over. Addresses
wrap, as the code's UINT32 do: a sum that overflows would fit. `Launch`
has CPU 0's loop over the slots and cores, the polling loops of the others, and
a table in RAM that held anything at power-up.

### Excep
`table`, `table_shell` and `table_gdb` are the code's three tables; `im`,
`ic_mask` the CPU's and the controller's masks; `ctx` the exception in
progress, from exception_sr over interrupt_sr and runhandlers to controller_sr.
Applications register and deregister in any order, from handlers too, trap,
and end by exit, exception or through the debugger.

### Net
`stack` holds the callers whose NET_poll is running, the innermost last: ping,
an ARP_open that waits for an answer, a receive handler that resolves an address
itself, and with the AM79C973 an interrupt on top of any of them. With the
SAA9730 a frame stays first in the buffer until its handler has returned, so a
poll from inside the handler meets it again (`Met`); how deep that goes is
unbounded in the code and `MaxNesting` in the model. `cache` is
the ARP cache with the age of each entry. Frames are (kind, host); the network
loses them, answers them or sends some nobody asked for; the driver may refuse to
send; the clock can fall back by a day. The shell starts a ping only when no
interrupt handler is inside NET_ARP_open above it.

### TftpClient
One session: `sap` is sap_context, `buf` its buffers, `phase` where the caller
(net_getbyte, file_read or file_write) is. Reception and timeouts happen only
when the caller polls. The host is external: a session with its own TID per
accepted request, retransmission, refusal, giving up; `net` is a set of
datagrams, one of which at a time is delivered, lost or left there as a
duplicate. Identical datagrams in flight at once are one element.

### Shell and CommandLine
`Shell` has the ring of characters the history is kept in, the line with its
cursor, and what the terminal shows after the characters sent to it; each key is
an action. `CommandLine` runs a typed line through remove_space, separate,
get_repeat, expand_line and tokenize, with the limits of a line, a name and an
argument; the properties compare the result with a reference reading of the line in
one pass (`Reading`). A variable's name may be in braces; the code passes an opening
brace over wherever it stands in a name, and such a line is outside the comparison
(`Named`). A character put behind a variable that has made the line too long is
stored behind the buffer before the line is refused; that byte is not modelled.

### Loader, Memory, GdbStub
In `Loader` a file is a sequence of tokens, a record being one token with what
its checks find; the reader turns them into lines. `Memory` has an address space
of 64 addresses with the segments, a TLB and a hole in RAM. sys_validate_range
calls itself for what lies behind a border: each call is a step. The commands
are then checked against what an access to each address does. In `GdbStub` a
program is a function from addresses to instructions known by where they lead;
a step plants breaks in it. `session` is who runs, `text` the program as the host
left it, and `left_behind` the addresses where a step left a break (below).
`Readable` and `Writable` are what sys_validate_range accepts for a read and for a
write: an M packet asks for the first, a break for the second. When the program
stops, a break at an address in `Lost` may be one cleanup_single_step cannot take out;
it then gives up, and the host gets E02.

### Ieee754, Fpu
The library has every function twice, for single and for double precision, with
other constants. `Ieee754` is one copy with the constants as parameters; `Fpu`
instantiates it twice and adds the functions in which the copies differ, the
conversions between them and the combined instructions. A result is the value
and the exceptions raised. The reference is arithmetic on fractions: `Correct`
rounds an exact result once and says what must be raised.

## 3. What is checked

Each run ends within five minutes with two workers. A "violation" run shows a
place where the code does other than its own text says; PROJECT.json quotes it.

| run | question | bounds | why they are enough |
|---|---|---|---|
| faults: Sysenv | what survives faults and power cuts, does a collection leave room, and is the log a map until the first fault? | 2 indices, 3 records, 2 faults of any kind | the second fault can hit the recovery from the first; with 2 indices and 3 records a collection comes every few writes and leaves exactly the room it must |
| faults: Net | ARP, routing and ping over a network that loses frames | 2 near hosts and one behind the gateway, cache of 2, both drivers, nesting 2; any two of: a second ping, an unasked frame, a refused send or a clock that falls back (`Budgets`; of two pings, a frame that needs ARP comes with the first) | the cache is smaller than the hosts, so that entries are evicted while they are waited for |
| services: Env | are RAM and flash in step; do the system variables survive faults? | 4 names, 4 indices, 6 records; no fault, or 1 fault and 3 names | two user variables, so that removal moves an entry; a value the decoder refuses and a write to an RO variable are among the inputs |
| services: TftpClient | what is transferred, in each of the three ways; do retries make up for losses? | blocks of 2 units, 2 buffers; 3 block numbers with files of 4 to 6 and 1 loss or duplication; 2 losses with patient timers; 2 host sessions | last block empty or short, no room, block numbers that run out or wrap, both congestion branches, failing flash, a host that refuses or gives up |
| drivers | each driver with what runs beside it | rings of 3 and 2 descriptors with 5 frames and 3 writes; 2 buffers of 3 packets with 10; flash of 4 banks, 2 services; 4 PCI devices and an ISA bridge with fixed I/O, 32 addresses that wrap; 7 characters of serial buffer with 8 sent and 2 breaks, or one and a re-initialisation; 4 sectors; 4 CPUs in 2 cores; 2 ticks and 1 interrupt; records of up to 3 EEPROM fields and 1 bus error; floating point with 2 bits of mantissa and 7 exponents, and with 6 and 23 | every ring goes round and overruns; the serial buffer is the smallest in which the RTS margin covers the check-then-set race of a read; a tick can carry through all fields of a date; page borders lie inside the fields; all pairs of single values, with denormals, infinities and both kinds of NaN, in all rounding modes; the larger format relates to the smaller as double to single precision |
| monitor | what the user of the monitor meets | ring of 6 characters, lines of 3, 3 commands; all lines of 5 out of 8 characters, and up to 4 characters behind an opening brace; lines of 7 characters, names of 2, arguments of 4; all load arguments of 6, files with one flaw; 64 addresses and 3 set-ups; programs of 6 words, of which the last may not be written and one may get out of reach, 3 packets; 2 CPU and 2 controller lines with 2 handlers | history overwritten in part; nested quotes and escapes; areas that cross every kind of border and the end of the address space; two breaks of a step that meet; a line shared with the console |
| everything_ends | does what was begun come to an end? | smaller instances of Env, Excep, TftpClient, SerialTI16550 and Pci | each with its faults: one of flash, hosts that fall silent, handlers that call back, a ctrl/c, devices that do not fit |
| sysenv_erase_lost | violation: only a write of size 0 deletes | 1 failed erase | |
| serial_race | violation: a flush moves forward | 6 characters, 2 breaks | |
| excep_isr_deregister | violation: no unmasked line without handler | as in monitor, handlers call back | |
| net_ping_latch | violation: a reported time-out means that nobody answered | 2 pings | |
| net_frame_again | violation: a frame is handed to one handler at a time | 1 ping, 1 frame for a closed port, nesting 2 | |
| lan_send_order | violation: frames are sent in the order of the writes | 3 writes, 1 frame received | |
| disk_overwrites_yamon | violation: YAMON's own memory is kept | 3 sectors of memory | |

Deadlock is checked in faults and services: a shell that waits for commands never
stops (Net stutters once its bounds are reached). Elsewhere a session, a command or a transfer ends, or a bound is reached.

Properties by run, with the module that states each part:

* faults: `LookupNamesNewest` (no reference names a superseded record),
  `CollectionMakesRoom`, `LogIsSound` (appends go to erased flash; what is
  readable is what a reset recovers, as long as only power fails),
  `CutWhileStoringIsContained`, `ImplementsStore` (until the first fault every
  step is one of SysenvStore or none) (Sysenv); `CacheIsSound` (one entry per address),
  `SentToNextHop`, `SuccessIsHeard` (a ping that succeeds was answered by
  someone), `EntriesAgeOut` (an entry's age grows until it goes) (Net).
* services: `TableMirrorsLog`, `AllIsRemoved`, `SystemVarsInForce` (Env);
  `ReadInOrder`, `CompleteMeansAll`, `LastBlockAcknowledged`, `FewLossesSucceed`
  (TftpClient).
* drivers: `RingsAreSound` (AM79C973: driver and controller agree on who owns
  what, no frame is left without an interrupt to come), `HandedOverInOrder`
  (both LAN drivers, serial), `FlashIsSound`, `AddressesAreSound` (Pci: ranges disjoint,
  and forwarded by the bridges in front), `BufferIsSound` (serial),
  `DiskIsSound` (Disk: what was transferred is a beginning of what was asked, and
  an error names the next sector), `ClockAndIdentityAreExact` (Rtc: a time read
  was shown at one moment, a time set is shown, and nothing that is no date is
  set; Eeprom: MAC and serial number are those of a sound record or none),
  `CpusRunAsTold` (Launch), `ArithmeticIsExact` (Fpu: one rounding, the right
  exceptions, comparisons and conversions, both formats agree).
* monitor: `TablesAreSound`, `UnmaskedHasHandler`, `ConsoleAlive` (Excep);
  `LineIsSound` (Shell: history and terminal); `PassesAgree` (CommandLine: the
  commands executed are those one reading finds, and a refusal has a reason in it);
  `LoadIsSound` (Loader); `CommandsAreExact` (Memory: only what was validated is
  touched, a refusal has a reason, answers and contents are right);
  `MemoryIsTheHosts`, `StepIsOne` (GdbStub: one instruction a step, and the host is
  told of every break that is left behind).
* everything_ends: `CallsReturn`, `CommandsFinish`, `ExceptionsEnd`,
  `TransferEnds`, `DevicesGoOn`.

Some properties are stated in the modules, from what the source says, and are
checked by no run, because the code does not have them (see below):
`Flash!EnvironmentKept`, `SameAddress` (GdbStub), `LanSAA9730!NoFrameMeansNone`,
`CommandLine!QuotedSpacesAreKept`, `Memory!ValidatedIsAccessible`.

Fairness (`MCLiveness`). `Env`: code that has been called runs on (one thread).
`Excep`: exception code runs on; nothing is assumed of applications.
`SerialTI16550`: the driver's caller and the interrupt run, the remote end
sends; the caller reads again and again even when it is not always ready to,
hence strong fairness there. `TftpClient`: the caller's loop calls NET_poll and
readbyte again and again, and the clock passes every timeout; nothing is assumed
of the host or the network. (The clock is one that reaches its timeouts:
NET_gettime can go back by a day after the 31st of a month, which delays one;
`Net` has this.) `Pci`: straight-line code. A transfer marked patient assumes
more, that timers are longer than the round trip; it is used for
FewLossesSucceed alone, never for TransferEnds. The other modules state no
liveness: their loops wait for hardware that may never answer (below).

### Divergences met while modelling

The seven violation runs have the findings. These were met too; each is part
of the model as the code has it, and the properties say where they except it.

Environment, console, exceptions:

* `sysenv.c:420, 467`: after a reset with the log exactly full,
  SYSENV_next_free is still 0, the check of the free area starts at the first
  record, and a sound file flash is refused as corrupted.
* `env.c:643`: a variable created by the write that runs into a collection is in
  flash but is left out of the RAM table until the next start-up (`orphaned`).
* `serial_ti16550.c:755`: the room of an empty buffer counts as 0, so a break
  flush that empties the buffer while RTS is off leaves it off for good
  (`RemoteNotHeldForEver` excepts breaks).
* `serial_ti16550.c:545-546`: initialised again by `stty`, the driver resets the
  pointers of its buffer but not `poll_retcode` and `recv_flushptr`. A ctrl/c not
  yet read sends the next read to a place of the old buffer (`stale`; the
  properties of the buffer are about the time before).
* `excep.c:724`: a second deregistration of a reference is accepted and
  decrements list_size again; the model's callers hand back what they hold.
* `excep.c:1512`: the default controller handler gets default_int.data
  (`RunIcHandlers`).
* `shell.c:565`: the controller's mask is not restored when the shell comes
  back: a line an application enabled stays enabled without a handler.

Network:

* `net_tftpc.c:1923`: a file read byte by byte ends without its last block being
  acknowledged (`LastBlockAcknowledged` is about file_read).
* `net_tftpc.c:1856`: a second copy of block 0xffff ends a complete transfer in
  FILE_TOO_BIG.
* `net_udp.c:181`: the table of access points is initialised with the count of
  another one.
* `lan_saa9730.c:2304-2305`: after a read from inside a handler the outer one
  goes on with its own place, frames are skipped, and NO_FRAME is returned while
  one is in the buffers (`NoFrameMeansNone`).

Commands:

* `load.c:668-669`, `flash_strata.c:1071`: a write that starts below the file
  flash and runs into it is programmed over the environment (`EnvironmentKept`).
* `gdb.c:933-935` against `945-980`: a C or S packet without an address resumes
  at the number of its signal, which is read as the address (`SameAddress`).
* `gdb.c:1378-1422` with `990`: a step refused because the second of its two
  addresses may not be written leaves its break at the first (`left_behind`, which
  `MemoryIsTheHosts` counts to the program).
* `gdb.c:1443-1457` against `1378-1422`: cleanup_single_step gives up where
  setup_single_step did not, at a 16-bit break on a processor without MIPS16e and
  where the program has changed the TLB; the host gets E02 in place of the signal,
  and this break and the next stay (`left_behind`, too).
* `gdb.c:868-871`: M validates its range for a read, so that YAMON's own memory can be
  written. In the model such an address is like any other one that can be read.
* `shell.c:1786-1788` against `1789-1805`: remove_space's idea of an escaped
  quote differs from that of the passes after it, and it can take spaces out of
  quoted text (`QuotedSpacesAreKept`).
* `shell.c:790-805`: lookup_cmd leaves `ambivalent` set after an exact match.
* `sys.c:513-529`: with a TLB, an area that does not start at a page border is
  not looked up to its end (`ValidatedIsAccessible`).
* `search.c:223`: a string longer than the area is searched for behind it.
  `compare.c:130`: two areas of more than half the address space compare equal.
  `fill.c:142, 156, 166`: a fill with wide elements that ends at the top of the
  address space writes nothing.
* `disk.c:421-455`: a count of 0 reads on and on; `disk.c:306-310`: a large count
  overflows in bytes. `ide.c:603-608`: a failing IDENTIFY reports the sector of
  an earlier command; `ide.c:422-428`: a device fault without ERR or DRQ is
  waited out for ever. The inputs of `Disk` leave these out.
* `init.S:513, 531-533`: a CPU that was launched loses its "ready" flag, and
  "info cpu" (`info.c:1172`) no longer lists it.

Floating point:

* `cp1emu.c:762-775`: the division in rsqrt clears the exceptions of the root, so
  that the reciprocal root of a negative number raises nothing (`CombinedIsTold`
  asks nothing of its exceptions).
* `cp1emu.c:667-668`: a movf or movt whose condition is false returns before EPC
  is advanced, and traps again, for ever.
* `dsemul.c:182` against `cp1emu.c:503`: the emulation of a delay slot ends with a
  return of 1, which the handler takes for a signal.

Clock and identity:

* `rtc.c:600-627`: RTC_write leaves interrupts enabled. An interrupt whose
  handler calls NET_gettime between the selection of a register and its write
  makes the value go into the year, and at the last write leaves SET up, so that
  the clock stands still (`spoiled`).
* `date.c:244`: the year 0000 is a leap year, and a date without a year gets the
  leap year and weekday of the year the clock shows; `rtc.c:550-559`: years
  outside 1970-2069 come back in another century. `rtc.c:519` says that UIP is
  polled "until it is set"; the code waits until it is clear.
* `syscon_platform.c:2105`: the record is read once; after one bus error the
  board has no MAC address and serial number until it is reset. On Malta a bad
  record also drops the MAC address the Ethernet chip holds.
* `iic_piix4.c:403-419`: the errors of the bus are acknowledged and reported as
  OK, so the byte read before stands for the new one; the checksum of the record
  has to find it (`misled`).
* `eeprom_iic.c:446, 542`: a whole page of 256 bytes becomes a count of 0, an
  error with one bus driver and an endless loop with the other; no caller in the
  source reads that many. `iic_saa9730.c:770-775` has no time-out.

## 4. What is proved

Each proof module EXTENDS what it is about and has the same shape: an inductive
invariant (`IInv`; in `DriverProofs`, which is about four drivers and the start of
the other CPUs, `LInv`, `FInv`, `SInv`, `DiskInv` and `CpusInv`; in `DeviceProofs`
`SaaInv`, `RtcInv` and `PciInv`; in `EnvProofs`, four parts), one lemma that `Init` implies it and one
per action that it and the action imply it of the next state, the theorem that it
is an invariant, and the theorems a run's properties are named in. They hold for every value of the constants that
satisfies the assumption the module states of them; where TLC meets a module
only through INSTANCE, the assumption is a definition, a hypothesis of the
theorem, and of the small instance it is checked by an ASSUME of the MC module
or by its values.

### Sysenv
For every number of indices and records, every set of payloads, every set of
fault kinds and any number of faults:

* `TypeCorrect`, `NamesNewest`, `MakesRoom`: `Spec => []` of `TypeOK`,
  `LookupNamesNewest` (no caller is ever handed a superseded record, through
  collections, faults and resets) and `CollectionMakesRoom` (a collection leaves
  room for what it has still to copy and for the write it was run for);
* `LogSound`: `Spec => []LogIsSound`, the durability of what is read under power
  cuts and resets, while no operation of the flash driver has failed;
* `CutIsContained`: the action property `CutWhileStoringIsContained`;
* `Implements`: `ImplementsStore`, the refinement mapping of `Sysenv` step by
  step: until the first fault every step is one of `SysenvStore` or leaves the
  map alone; its corollary `ImplementsWithoutFaults`: a behaviour without a fault
  is one of `SysenvStore`.

The assumption that matters is that there are more records than indices. The
first invariant is needed because `LookupNamesNewest` says nothing of the
collector: between the erase and the end of the copy loop it must be known that
each copied index has its only record below `next_free`, that nothing above
`gc_index` has one, and that `next_free` never passes `gc_index`; and after an
operation failed, that a damaged slot is at or above `next_free`, or the layer
is off. Durability adds that the RAM table of a usable layer is what a scan of
the flash would build, except for indices whose copies the collector has still
to write, and that everything from `next_free` on is erased.

### Env
For any names and values, any list of system variables with distinct names and
valid defaults, any table and log, any fault kinds and any number of faults:

* `InForce`: `[]SystemVarsInForce`, however the flash fails;
* `TableIsMirror`: `[]TableMirrorsLog`, through power cuts and resets, while no
  operation of the flash driver has failed and no creation has run into a
  collection;
* `RemovalComplete`: the action property `AllIsRemoved`, under the same two
  conditions.

`EnvProofs` works over the invariants of `SysenvProofs`: every step of `Env` but the
reading in env_init is a step of `Sysenv` or leaves its variables alone
(`OverSysenv`), so that `IInv` and `DurableInv` carry over. `SystemInv` says of
start-up how far it has come, and of a write in progress what the entry will be
if it succeeds and if it fails (access_var restores the value, not the attribute).
`MirrorInv` relates the table once the call in progress has succeeded
(`AfterFrame`) to the map once its record is stored (`StoredAfter`): while a
collection runs, that map is in RAM. It needs that the log never holds a name
twice, in every state a power cut can leave (`CutStored`: a sub-map of the old
log or of the new one), because env_init takes over what it reads, and it gives
that re_init changes no index (`ReInitMirrors`). For `LoadedTable` the m-th variable
env_init reads is the one with m - 1 readable indices below it, which needs a
lemma on ranks in finite sets (`Rank`). `RemovalInv` says that the slots the loop
has passed are as they should be, and needs `MirrorInv`: with a name twice in the
table remove_var would reset the first entry of that name, not the one it stands on.

### LanAM79C973
For rings of any size: `RingsSound` (`[]RingsAreSound`: driver and controller
agree on each descriptor's owner, and no frame waits in the ring for an
interrupt that will not come) and `RingsInOrder` (`ReceivedInOrder`). The invariant
adds what the handler knows between reading the status and releasing a
descriptor: either RINT is still to come or the next descriptor is empty; and
that frames in the ring get later with the distance from the driver's place.

### Launch
For any cores and CPUs: `RunAsTold` (`[]CpusRunAsTold`). The invariant is one
statement per slot: which of the words of a launch record are stored, against
the place of CPU 0 in its loop and of the slot's CPU in its own.

### Flash
For areas that end at block borders, banks, blocks and words of any size:
`Exact` (`[]ServicesAreExact`, with any failures and losses of power, and for
writes that run into the next area too) and, for writes that do not,
`FlashSound` (`[]FlashIsSound`). A write that does run into it and fails there leaves
the chips of that area without an answer to reads, since FLASH_STRATA_write puts
back those of the area it started in. The invariant says of each service what
its progress means: a program has written the caller's bytes below `adr` and
goes on within them, and only chips of its own area may be without an answer;
an erase moves from block to block, each of which has a byte of the caller's; the
monitor flash test changes no byte. It rests on lemmas about blocks as intervals
between multiples of BLOCK (`Quotient`, `SameQuotient`, `NextBlock`, `Committed`).

### SerialTI16550
For a receive buffer of any size, any set-up of the driver and any number of
characters, breaks and re-initialisations: `Sound` (`[]BufferIsSound`) and the
action property `CharactersInOrder` (`InOrder`, the serial part of
`HandedOverInOrder`). `Sound` has a hypothesis, `RemoteStops`: the characters the
far end sends after RTS went off fit four times in the margin, as anything up to
495 of them does in the code's (1984 of 2048). A read may switch RTS on just as
the buffer fills up again, so what comes after RTS went off can come twice
before the next read. `OrderedWhateverSent` does without it: where the buffer
overruns, order and breaks still hold.

The invariant measures slots by their distance from recv_getptr. `OrderInv`
chains the last character read, the unread ones and the FIFO; `ReadInv` is what
a read has seen and no interrupt may have changed; `FlushInv` says that the place
a break sends a read to is unread or the one just read, and that a break pending
while another is taken is not behind it; `FlowInv` counts what may still come
against the room left, with RTS on, off, and about to go on. That a flush never
goes back (`FlushMovesForward`) does not follow: it is false (serial_race).

### Disk
For any drive, any memory, any number of sectors per call and failures wherever
they may come: `DiskSound` (`[]DiskIsSound`). Assumed is that a call asks for
sectors and that the user does (`DiskAssumption`; a count of 0 reads on and on,
see the divergences). The place of a transfer is kept three times, by do_access,
by IDE_ctrl and by the drive, and the invariant relates them:

* `PlaceInv`: the descriptor starts at the first sector do_access has not
  finished, and IDE_ctrl's `sector` is as many further as `sector_count` has gone down,
  in a command that failed too. That is why the sector an error names is right;
* `DriveInv`: the sector the drive works on is IDE_ctrl's, and what it was given to
  write is the caller's sector for it, so that "ready" after a write means written;
* `ReadsInv`, `WritesInv`: below the place everything is copied, behind it nothing
  has changed; at the place itself only a failure may leave anything.

### LanSAA9730 and Rtc
For receive buffers of any size, any number of packets, losses, bad packets and
restarts: `PacketsInOrder`, the action property `NoReordering` (the SAA9730 part of
`HandedOverInOrder`). Its hypothesis, `NoPollInside`, is that receive handlers do not
poll. Some do, through NET_ARP_open, and then it is false: LAN_SAA9730_read calls
the handler before it moves on, so that the read inside takes the packet again and
the one around it skips one (the divergence net_frame_again is this, met in `Net`).
The invariant is about the two buffers at once: what the controller may still
fill is empty (`Unused`); what is ahead of the driver in its own buffer is later than
what was handed over, and in order (`HereInv`); what is in the other buffer is later
still, and the driver's buffer is then no longer one the controller may begin
(`ThereInv`), because the other one is given back with the first packet taken and
not before.

For clocks that show a day of a year from 0 to 99 and arguments of any value
(`ClockAssumption`): `ClockSound`, that a time read is one the clock showed
(`ReadIsOneMoment`) and that only dates there are, are set (`OnlyDatesAreSet`), whatever
the chip does while it is read. What makes it inductive is `ReadingInv`: from the moment
UIP was seen clear no update comes before the seventh field, and an interrupt cannot
come in between, so the fields read so far are those the registers still show.
That what is set is what is shown n seconds later (`WhatIsSetIsShown`) is left to TLC:
the day of the week and the n seconds are defined by recursion.

### Net
For any hosts, cache size, time-outs and depth of nesting: `CacheSound`
(`[]CacheIsSound`), `NextHop` (`[]SentToNextHop`), and the action properties
`SuccessHeard` (`SuccessIsHeard`) and `AgesOut` (`EntriesAgeOut`). The stack of
pollers is what makes these hard: the invariant says of every caller on it, not
only of the innermost, which host it waits for and that the entry it will look
up is either its own or evicted; frames on the wire carry the station their
address resolves to; `HeardInv` says that the latch of the echo reply belongs to
the ping in progress, and `AgeInv` bounds the age of an entry by the time of the
last scan. A ping starts only while no NET_ARP_open is in progress: the shell
is below it on the same thread.

### TftpClient
For files, blocks and a buffer ring of any size, any number of retries, host
sessions, losses, duplicates and refusals: `InOrder` (`[]ReadInOrder`: whatever
the application has read is a prefix of the file, and the size reported is what
arrived), `DoneIsWhole` (`[]CompleteMeansAll`) and `AcknowledgedLast`
(`[]LastBlockAcknowledged`). Nothing is assumed of the size of a file: file_write refuses
those that need more than `MaxBlock` block numbers, a read that gets so far ends
in an error. The invariant has one part per place the file is in:

* `WireInv`: every DATA under way carries the piece of the file its number
  stands for, and every ACK a block number a host session has really reached,
  however long ago it was sent;
* `BlockInv`: `stored` is the file up to `block_number`, while blocks go to a
  file; `WriteInv`: `bytes_left` is the file from the acknowledged block on, and
  a host session has at least what the client took for acknowledged;
* `RingInv`: counted back from the buffer filled last to the one the application
  reads, buffers hold consecutive blocks, and `stored` ends at the reader's place
  in its buffer. It is needed because a block is acknowledged when it is
  buffered, not when it is read: the bytes that come next are in the ring only.

### Excep
For any lines, slots per line (up to 255, the width of `list_size`), handlers
and service routines: `TablesSound` (`[]TablesAreSound`), `Console`
(`[]ConsoleAlive`), and, if interrupt handlers do not deregister handlers,
`UnmaskedHandled` (`[]UnmaskedHasHandler`; if they do, it is false, the
divergence excep_isrdereg). The invariant says where YAMON's own table is in force: in
the shell and in the stub; that the context an exception will restore has the IM
field of the mode it came from; that an application stopped at a breakpoint
has its handlers in `table_gdb`; and that no exception can end an
application that does not run, because interrupt_sr serves interrupts until the
application registers something else.

### GdbStub
For any program, any addresses that may be read, written or get out of reach, and
any number of packets: `MemoryRestored` (`[]MemoryIsTheHosts`) and `OneInstruction`
(`StepIsOne`). Assumed is only that programs are functions from addresses to
instructions and that writable addresses are readable ones (`StubAssumption`). While no step is under
way memory is `Program`, and during one the invariant says two things:

* `BreaksInv`: the planted breaks are at distinct addresses, `ss_instr` has the
  program's instructions of these, and memory differs from the program there and
  nowhere else. That is what makes cleanup_single_step an inverse of
  setup_single_step, as far as it gets (`RestoredIsProgram`: memory is then the
  program with the breaks it did not reach);
* `StepInv`: before the instruction is executed, the breaks stand wherever it may
  lead; after it, the program is at one of them and can only stop. It rests on
  `TargetsCover`: setup_single_step looks for no fewer addresses than the
  processor may go to.

That a refused step leaves a break came out of the proof (`StepRefusedInv`), as a
case where memory is not the host's; `left_behind` records it, and the instance
has an address that may not be written so that TLC meets it too. `NextTells` goes
through the packets for the other half of `StepIsOne`: whatever is left behind is told.

### Pci
For any number of devices, buses and BARs and windows of any size:
`AddressesSound` (`PciSpec => []AddressesAreSound`), however often a bus starts
over. `PciInv` has what each part of the code leaves to the next:

* `ShapeInv`: a device detected is one there is, and its BARs have the address
  that stands for none exactly if it has been given up;
* `ListInv`: the list of a bus has all its BARs, the fixed in front; what lies
  before the place to start over from is fixed or of a device given up. (In the
  I/O pass a device may have been given up for its memory; then its BARs are
  passed over.)
* `FreeInv`, `BelowInv`: the next address to give out lies in the window (or one
  alignment of a bridge past its end) and behind everything that has been given
  out; so does the one to start over from, except for what has been placed
  since. This is why starting over cannot give out an address twice: what was
  placed since is placed again;
* `PlaceInv`, `ApartInv`: the BARs that are settled are in place and apart;
* `StartInv`, `BridgeInv`: the start of a bus is a multiple of what a bridge can
  tell apart, and parts the BARs in front of the bridge from those behind it.

Assumed is (`PciAssumption`) what the code takes from the boards and does not
check:

* fixed BARs are on bus 0 and apart (the controller's RAM, the PIIX4's I/O);
* a BAR that fits into the memory window does not lie across the start of the
  I/O window in it: alloc_space compares only the aligned address with it
  (`pci.c:1449`). The windows of the four system controllers start at
  boundaries for which this is so;
* no end of a BAR wraps. A BAR of 2 GB would end at address 0, which fits
  (`pci.c:1451`); there is no such device in the instance either.

### Only model-checked
Liveness (out of the prover's reach): it includes that transfers end, and
`FewLossesSucceed`, which depends on how many losses the retries outlast and not
on what one step preserves. Of the other modules: what `Shell` keeps in its ring,
what `CommandLine` makes of a line, what `Loader` reads, what `Eeprom` finds in a record and
the day of the week `Rtc` sets are computed by recursion over lines, records and
days; the arithmetic of `Ieee754` and `Fpu` is compared with exact numbers operand by
operand; `Memory` is a set of loops checked against what a pass over the area would
answer.

## 5. Not modelled

* Assembly that moves registers, register-level set-up, configuration space
  access, interrupt routing, formats, menus and printing, help texts.
* fpuemul: the decoding of instructions, the emulation of branches and delay
  slots, and the square root of double precision (a table of approximations that
  belongs to 52 bits). lib is an imported C library; bin is build files;
  the `ArchDefs.h` headers and the disassembler's tables are values without
  behaviour. These are most of the lines of the repository that the map does not
  name.
* io and syscon: tables filled once at start-up and looked up by index; the
  allocator is called at start-up only. Of the syscon objects the identity is in
  `Eeprom`; the others read or write single registers.
* serial_saa9730: see `SerialTI16550`. SEAD's bus driver, EEPROM writes (nothing
  in the monitor calls them).
* PHY, serial EEPROM, statistics and loopback tests of the LAN controllers; lock
  bit services and device query of the flash driver; IDE identification.
* Flash cells of the environment are records in `Sysenv`: a record is
  programmed by one operation of the driver, whose failures `Flash` models word
  by word. In `TftpClient` a send that has to wait for ARP is a lost datagram;
  `Net` models the wait.
* Waits for hardware without a time-out (IDE, IIC write cycle, UART
  transmitter): the code promises no end.

## 6. Plan

1. `Shell`: the terminal shows the line, for lines of any length.
