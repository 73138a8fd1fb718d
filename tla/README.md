# Verification of the dtcyber emulator

dtcyber emulates a Control Data 6000/Cyber 70/170 mainframe: peripheral
processors (PPs) on their channels, one or two central processors (CPUs), central
and extended memory, and a set of devices, many of which speak to terminals over
TCP.  The emulated machine is run by one **main thread** (`src/main.c`: one
`ppStep`, then one `cpuStep` per CPU, then `channelStep` and `rtcTick`).  Beside it
run the threads of the network code: a listen thread per server, and for every
connection a **data thread** and a **send thread** (`src/dtnetsubs.c`).  A build with
`CPU_THREADS` (`DUAL=yes` on a host with several processors) gives every CPU but
CPU 0 a thread of its own.  There is hardly a lock in all of this: the network code
has none, the CPUs share `exchange_mutex` and `flagreg_mutex`.

That is where the emulator is hard to test, and what the modules here are about:
who may touch what, in which order, and what must happen in the end.  The processors
themselves are modelled too, in small widths: an operating system runs for years without
meeting the operands at which one's complement, or a limit of memory, goes wrong.  And the
devices: each is sequential, but a driver may leave off a transfer, an operator unload a reel, at
any point, and what a device remembers has to survive it.  Formats of containers and character codes are left out.

## 1. Inventory

### 1.1 Components whose behaviour is concurrent or stateful

| Component | State | Operations | What is hard | Correct when |
|---|---|---|---|---|
| **Network rings** (`dtnetsubs.c`, `dtnetsubs.h`) | per connection (`NetFet`): receive ring `in`/`out`, transmit ring `sendin`/`sendout`, semaphore `ssem`, `connected`, `closing`, `connFd` | `dtSend`, `dtSendo`, `dtSendTlv`, `dtSendThread`; `dtRead`, `dtReado`, `dtReadoi`, `dtUpdateOut`, `dtReadw`, `dtPeekw`, `dtReadtlv`, `dtReadmax` | two threads per ring, no lock, pointers read twice by the macros, partial sends, a full ring, wakeups | a ring is a queue; no cell is written while it is read; no wakeup is lost; a refused send stores nothing |
| **Connections** (`dtnetsubs.c`; clients `niu.c`, `operator.c`, `console.c`, `pni.c`, `ext.c`) | a `NetFet` from `dtNewFet` to `free`, its semaphores, its threads | create, poll, callback, `dtClose` hard and soft, join, free | four threads hold the same pointer; the close may come from any of them; failure in the middle of creation | nobody uses a freed FET; the socket is closed once and is closed in the end; a closed FET is freed |
| **Port sets** | `portVec`, `curPorts`, connection callbacks | `dtNewFet` (search, store, count), `dtActivateFet2`, `dtClose` (count, callback, clear) | filled by one thread, cleared by others | no slot is given away twice; callbacks alternate; the count is right |
| **PPs and channels** (`pp.c`, `channel.c`, `deadstart.c`) | per PP: `regP`, `regA`, cell 0, `stopped`, `ioWaitType`; per channel: `active`, `full`, `data`, `discAfterInput`, selected device | every I/O instruction, the wait and word loops of `ppStep`, `channelIo`, `channelFunction` | a transfer is suspended in the middle while the partner, or the device, disconnects and activates | words in order, none lost on an active channel; a transfer does not run into the next session; nobody hangs on an inactive channel; P comes back from cell 0 |
| **CPU exchange jumps** (`cpu.c`, `pp.c`, `main.c`) | `monitorCpu`, `exchangeCpu`, `exchangeTo`, CPU registers, exchange packages | `cpuIssueExchange`, XJ, EXN/MXN/MAN, `cpuStep`, `cpuExchangeJump` | requests from PPs and two CPU threads; served later than asked for; refused and retried | no context lost or doubled; one CPU in monitor mode; the flag agrees; an accepted exchange is done |
| **NIU** (`niu.c`) | per station: `loggedIn`, `sendLogout`, `forceLogout`, input ring; scan position; both channels; `obytes`, `currOutput` | `niuInIo`, `niuWelcome`, `niuOutIo`, `niuSend`, `niuInFunc` | connections come and go while logins and logouts are on their way to and from PLATO; restarts of PIO; stray bytes | nobody types into another's session; who goes is logged out; every station is served |
| **NIU operator alert** (`niu.c`, `operator.c`, `main.c`) | `niuAlertCount`, `niuLastAlertCount`, files | `niuOpdata` on the main thread, `niuThread`, `niuCheckAlert`, `niuDoAlert` | a counter two threads change without a lock; shutdown, restart and end | no false alarm, no missed alarm |
| **Console** (`console.c`) | `displayRing`, `pollBuffer`, key ring `keyIn`/`keyOut`, `keyMask`, per connection stop, interval, transmit ring | `consoleIo`, `consoleCheckOutput`, `consolePoll`, `consoleSendFrame`, `consoleInput` (data threads), `consoleGetKey`, `consoleQueueKey` | output is cut into display cycles by a checksum and may be refused by one display; several producers on the key ring; keyboard modes | frames of whole items in order, all output goes out; keys in order, none twice, none stuck |
| **PNI** (`pni.c`) | per station `escState`, `flowFlags`, `newKbd`, `forceLogout`; key buffers, bit list and message rings in ECS | `pniDataCallback`, `storeKey`, `pniWelcome`, `pniCheck`, `pniOp` | data threads and main thread share words of ECS and the flow flags; closes from the data thread | every key is decoded and announced; what Framat waits for comes; nobody types into another's session |
| **Disks** (`dd8xx.c`, `dtdisksubs.c`, `dd6603.c`) | per drive: container, position, interlace, sector buffer with its pointer; per controller: unit, function, words left, status | `dd8xxFunc`, `dd8xxIo`, `dd8xxSeek`, `dd8xxSeekNextSector`, `dd844SetClearFlaw`, `dd8xxLoad` | a transfer goes on over sectors in interlaced order; buffer, position and file position are moved by different routines | what is written at an address is read there; the drive is where the PP takes it to be |
| **Cards and paper** (`dcc6681.c`, `cr3447.c`, `cp3446.c`, `lp3000.c`, `cr405.c`, `lp1612.c`) | converter: connected equipment, status, interrupts; per equipment: card and column, decks that wait, masks, files | functions of the converter and the equipment, words, disconnect, load and unload | the end of a deck is made up; cards are flushed by words and by disconnects; interrupts are shown by the converter | no card or line is lost, doubled or out of order; interrupts are shown |
| **Multiplexers** (`mux6676.c`, `tpmux.c`) | per port: active, descriptor; input and output of a port | functions, words, `CheckInput`, the accepting thread | the thread fills ports that the main thread closes; numbers of descriptors come again | a port has its own line; keys come once; output goes to whom it was written for |
| **Tape** (`mt669.c`, `mt607.c`) | per drive: file, status, block number, buffer; per controller: function, length, selected unit, `anyWrite` | `mt669Func`, `mt669Io`, `mt669Disconnect`, the motion routines, `mt669Load` | positions go back and forth over records, marks and padding; flags shared by the units; transfers cut off, connects between a write and its words | forward reads give back what was written, backward reads all but the first word; block numbers count |
| Operator (`operator.c`) | one request buffer, command table | `opRequest`, `opCheckRequest` | polling of connections | one command at a time, answered where it was asked |
| CPU extensions (`ext.c`) | socket requests, port set | `sockOp`: open, bind, listen, accept, connect, read, write, close | a request uses a FET after closing it | a request's result tells what happened |
| **CPU instructions** (`cpu.c`, `float.c`, `shift.c`) | A, B and X registers, P, the parcels left of a word, `cpuStopped`, `exitMode`, `cpMem` | 64 opcodes, compare and move unit, error exits, `cpuStep` | two zeros; sums of unlike exponents; limits that are looked at in many places; exits in the middle of a word | results are exact; nothing outside the field is written; comparisons order; blocks arrive whole |
| **PP instructions** (`pp.c`) | A, P, memory, cell 0 in block transfers | 52 opcodes other than input and output | end-around sums of 18 bits, indexed and wrapped addresses, P in a cell a block may cover | the same |
| **ECS, its flag register, the DDP** (`cpu.c`, `ddp.c`) | `ecsMem`, `ecsFlagRegister`; address, word and status of a DDP | block and register transfer, ready/select, selective set, status, clear | a CPU and PPs on one flag register; a transfer cut off and begun anew; the end of ECS | flags are a lock; words are whole and in their place |
| **Real time clock** (`rtc.c`) | clock, host time it stands for, whether PP 0 reads it | `rtcIo`, `rtcInit` | catching up in limited steps; a host clock that is set back | PP 0 loses no turn, no cycle is lost to rounding |

How they interact: the main thread calls devices through function pointers of the
channel (`func`, `io`, `activate`, `disconnect`); devices call `dtRead*` and `dtSend*`
on FETs they find in `portVec`; the network threads call back into the devices
(connection callback on open and close, data callback); PPs ask CPUs for exchanges
through `exchangeCpu`; CPUs and PPs share central memory.

### 1.2 Components that are not modelled

| Component | Why |
|---|---|
| DOELZ ring (`doelz.c`) | polls its connections as the NIU does (the `poll` case of FetLife) |
| Start up, device table, configuration (`init.c`, `device.c`) | runs once, before any thread |
| Trace, dump, log, character sets, black box recorder | output for people, constant tables |
| Pterm, dd60, dtoper | separate graphical programs |
| VHDL model, CDC decks, tools | not part of the program |

`PROJECT.json` lists the same components with their files, and the places in this
code that are hard to test, each at its line and with the properties that watch it.

## 2. Modules

    Ring ──────┬── SendRing                         ByteQueue is what both
    (pointer   └── RecvRing                         rings implement
    arithmetic)
    TapeDrive ── Mt669 ─┐  (what a drive promises)
    Dd8xx     UnitRecord ├─ Devices
    OldDevices     Rtc   │
    Multiplexers ────────┘
    FetLife     PortSet     PpChannel     CpuExchange     Niu     Pni     Console

    OnesComplement ─┬─ CpuArithmetic ── CpuInstructions ─┐
                    ├─ Ecs ─────────┬──────┘             ├─ Processors
                    │               └── Ddp ─────────────┤
                    └─ PpInstructions ───────────────────┘

| Module | Models | State ↔ code | Actions ↔ code |
|---|---|---|---|
| `Ring` | pointer macros of `dtnetsubs.h` | pointers are offsets from `first`; `end` is `Size` | `Data`, `Free` = `dtFetData`, `dtFetFree`…; `DataTorn`, `FreeTorn` the same macros when a pointer moves between their two reads; `Room`, `Avail` the piece up to the wrap |
| `ByteQueue` | what a ring promises | bounded queue of bytes | `Put`, `Take` |
| `SendRing` | transmit ring, main thread against `dtSendThread` | fields of the FET by their names, program counters `mpc`, `spc`, the locals of each routine | one action between two accesses to a shared field: `CallSend`…`FullSubtract` are `dtSend`; `Sendo*` is `dtSendo` in `dtSendTlv`; `CloseMark`, `CloseSocket`, `ClosePost` is `dtClose`; `Top`…`SendAdvance` is `dtSendThread` |
| `RecvRing` | receive ring, `dtDataThread`/`dtRead` against every reader | the same | `Call*` starts a reader; `GetToEnd`, `GetWrap`, `GetLast`, `GetLastOut` are `dtGetw`; `ReadoiByte`, `EndRead` are sockOp's read with `dtReadoi` and `dtUpdateOut`; `AfterNoData` the callers' test for a lost connection |
| `FetLife` | one connection, creation to `free` | the FET's flags and semaphores; a program counter per thread; rings reduced to a count of unsent bytes | `Creator` = `dtNewFet` and its callers; `dtClose(t)` by any thread; `DataThread`, `SendThread`; `MainSteps`, `ExtLook` the clients |
| `PortSet` | slots and count of a `NetPortSet` | `portVec`, `curPorts`, per FET its `dtClose` | one step per look at a slot, `curPorts++` and `--` as load and store |
| `PpChannel` | `ppStep` and one data channel | registers, `ioWaitType`, channel flags | `Execute` every I/O instruction; `Waits`, `Input`, `Take`, `Output`, `OutputIo` the loops of `ppStep`; `channelIo` an arbitrary device |
| `CpuExchange` | exchange jumps | `monitorCpu`, `exchangeCpu`, `exchangeTo`; a context is one value for all registers | `PpExchange` = `ppOpEXN`; `Top`…`Activate` = `cpuStep`, `cpOp01`, `cpuExchangeJump` |
| `Niu` | both channels of the NIU, logout handshake, alert box | flags of `PortParam`, scan state, both channels, the alert count and where the two threads that use it are | `Scan` (`ScanLogout`, `ScanClose`, `ScanKey`) and `SendKey` = `niuInIo`; `Welcome*` = `niuWelcome`; `niuOutIo` with `Flagged` = `niuSend` and `ToOperator` = `niuSendWord`; `Select`, `Deselect` = `niuInFunc`; `niuOpdata`, `niuThread`, `niuCheckAlert`, `Alarm` the alert box.  PLATO is external: `PlatoActs` is what `niu.c` expects of it |
| `Pni` | PNI | fields of `PortParam` and of the ECS tables by their names; per thread its `storeKey` | `ReadByte`, `WriteFlow`, `ForceLogout`, `Depart` = `pniDataCallback`; `StoreIndex`, `StoreSlot`, `StorePointer`, `StoreBit` = `storeKey`; `Arrive`, `Welcome` = `pniWelcome`; `pniCheck`, `Message`, `MessageDone`, `PortRequests` = `pniCheck`; `PniOn`, `PniOff` = `pniOp`.  PLATO, Framat and the terminals are external |
| `Console` | console | rings and tables by their names; what a display was sent last | `Characters`, `SetXY`, `Poll`, `KeyIn` = `consoleIo`; `SendOutput`, `consolePoll`, `CheckOutput`; `KeyByte` and `Queue*` = `consoleInput` and `consoleQueueKey` on each data thread |
| `Devices` | the devices below, one at a time | their variables; those of the others rest | a step of the device that `device` names |
| `Dd8xx` | 844 and 885 disks of a controller | `DiskParam` by its names; a container is a function from addresses to blocks | one action per function, with the words of its address; `ReadWord`, `WriteWord`, `DeadstartWord` = `dd8xxIo`; `NextPlace` = `dd8xxSeekNextSector`; `Load`, `Unload` = `dd8xxLoad` |
| `UnitRecord` | the 6681 with 3447, 3446 and a printer | `converter` is the `DccControl`; `reader`, `punch`, `printer` the contexts with their files | functions in mode 1 and 2, behind whose word the channel is disconnected; `MasterClear`, `DccStatus`, `StatusRequest`; `ReadWord`, `CardEnd`, `PunchTakes`, `PrintWord`, `Polled` the `Io` routines; `NextCard`, `NextDeck`, `FlushCard` by name; `Disconnect` |
| `OldDevices` | 607, 6603, 405, 1612 | a file and the fields of the `DevSlot` for each | one action per function; `TapeWord`, `DiskReads`, `DiskWrites`, `ReaderWord`, `PrinterWord` the `Io` routines |
| `Rtc` | the clock | `rtcClock`, `rtcPrev`, `mtr` | `RtcIo` |
| `Multiplexers` | 6676 and two port multiplexer | `PortParam` by its names; descriptors of the process | `LookAtPort`, `Accept`, `MarkActive` the thread; `InputWord`, `StatusWord`, `WriteChar`… the `Io` routines; `CloseLine`, `ClosedIsInactive` = `CheckInput` |
| `TapeDrive` | what a tape drive promises | a reel of blocks and a position between them | `Forward`, `Backward`, `Write`, `TakeWord`… |
| `OnesComplement` | `ppAdd18`, `cpuAdd18` and their like | a register of `M` values | `Add`, `Subtract`, `Value` |
| `CpuArithmetic` | `float.c`, `shift.c` | a word of sign, exponent and coefficient, each of a width that is a constant | operators by the functions' names |
| `CpuInstructions` | `cpuStep` and every opcode but exchange jumps | registers by their names; `parcels` is `opOffset / 15`; what stands in a word is arbitrary | `SetX`, `SetXB`, `SetB`, `SetA`, `Jump`, `RJ`, `PS`, `EcsTransfer`, `CmuMove`, `CmuCompare`; `Fetch`, `Continue`, `StopAt`, `ErrorExit` the ways an instruction ends |
| `PpInstructions` | the PP's opcodes without a channel | P, A, memory | `Load`, `Replace`, `Store` by the mode of the operand; `ShortJump`, `LJM`, `RJM`; `CRD`, `CWD`, `CRM`, `CWM` |
| `Ecs`, `Ddp` | ECS, its flag register; the DDP and its PP | `ecsMem`, `ecsFlagRegister`; the device's and the channel's fields | `FlagFunction` = `cpuEcsFlagRegister`; `DdpFunction`, `MasterClear` = `ddpFunc`; `GiveStatus`, `TakeAddress`, `GiveCell`, `TakeCell` = `ddpIo` |
| `Processors` | all of these on one machine | shared `cm`, `ecs`, `ecsFlagRegister` | one instruction, or one call of `ddpIo`, in a step |
| `Mt669` | the 669 controller | the file as cells of the TAP format, `TapeBuf` per unit | one action per function code: `ReadFwd`, `ReadBkw`, `Forespace`, `Backspace`, `Reposition`, `Write`, `WriteEOF`…; `WriteWord`, `ReadWord` = `mt669Io`; `Disconnect` |

The theorems about `X` are in `X_proofs`, for `SendRing`, `RecvRing`, `Niu` and `Processors`; those about `FetLife`, `PortSet` and
`Pni` are in `Connections_proofs`, those about `PpChannel`, `CpuExchange` and `Console` in `Mainframe_proofs`, and those about `Devices` in `Devices_proofs` and, for
the 844 and 885 disks and the 669 tapes, `Storage_proofs`; `DevicesInvariants` holds their invariants (section 5).  An `MC` module instantiates each specification for TLC.  The kind of client, server or
machine, or the amount of each thing that happens (`uses`, `server`, `setup`, `machine`,
`setting`), is a variable that `Init` chooses and no step changes, so that one run covers
several of them.

Data is abstracted to what the properties tell apart.  A byte or a channel word is its
serial number in the stream it belongs to: every misplaced, lost, doubled or overwritten
byte shows.  A key of the NIU is the number of the connection
that typed it; one of the PNI also has a class and a serial number.  A PP's memory is its
cell 0, the only cell a block transfer's control depends on.  A display item is the number of the
output word it comes from.  On tape a cell of the file is a length, a word of data or a pad byte.
Only in the processors are numbers numbers, since what they compute is the question there; there it is
the width of a word that is small.

## 3. Runs

All with `tlc -workers 2 -config <run's cfg> <its module>`.

### 3.1 Properties that hold

Invariants that belong together are checked under one name: `ReceiveSafe`, `FetSafe`, `SlotsSafe`,
`ChannelSafe`, `ExchangeSafe`, `NiuSafe`, `PniSafe`, `ConsoleSafe`, `ProcessorsSafe` and the properties of Devices are a
module's `TypeOK` and the invariants named in brackets; `SendThreadServes`, `StationsServed`, `CrashReported`,
`TrafficWhole`, `TransfersEnd` and `ResultsExact` are the properties in theirs.

**SendRing** (`MCSendRing`; 4 byte ring, sends of 1 or 3 bytes, TLV items with values
of 1 byte, or of 3 which never fit; 5 bytes in all; 302,000 states).  `WireInOrder`: the socket gets the stored
stream.  `NoDataRace`: no store into a cell `send ()` reads, whatever moved since the
pointers were copied.  `RefusedSendsNothing`: a `dtSend` that returns an error stored
nothing.  `SocketClosedOnce`: main and send thread do not both close the descriptor.
`SendThreadServes` [`StoredIsSent`, `CloseEndsThread`]: no wakeup is lost, neither for data nor for the close.
`IsQueue`: the ring implements `ByteQueue`.  `IInv`: the invariant of the proofs
(section 5).  *Bounds:* 3 usable bytes are the least for which a copy splits into two
pieces and either piece may be of more than one byte; 5 bytes make both pointers wrap
while the ring is filled and emptied again.  The proofs do without both bounds.

**RecvRing** (`MCRecvRing`; 4 byte ring, all seven readers, 5 bytes; 118,000 states).
`ReceiveSafe` [`NoDataRace`, `ReadInOrder`, `TlvWhole`] and `IsQueue` are as above, from the reader's
side: `dtGetw` hands back the part up to the wrap before it reads the rest.  `TlvWhole`: an item is taken
as a whole, though its length byte is read by one look at the ring and the item by
another.  `ReceivedIsRead`: a full ring does not stop the data thread for good.
*Bounds:* the stream repeats items with and without a value, so that length bytes fall
on every offset of the ring.

**FetLife** (`MCFetLife`; four kinds of use; 49,000 states).  `FetSafe` [`ThreadsSafe`, `MainSafe`,
`FreedIsClosed`].  `ThreadsSafe`: the data and
the send thread never use a freed FET.  `MainSafe`: where the main thread both polls and
closes (`niu.c`, `operator.c`) it does not either.  `FreedIsClosed`: no descriptor is
leaked.  `GoneIsFreed`: a closed FET is freed, and so is one whose peer is gone, if its
owner polls it or has a data callback.  The data thread may fail to be created.  The
connection does not end before its creator is done (`EarlyEnd` FALSE); section 4.2 says
what happens otherwise.  *Bounds:* two sends are enough for one to fail with another
still in the ring.

**PortSet** (`MCPortSet`; 2 slots, 3 FETs, three kinds of server; 692,000 states, FETs
symmetric).  `SlotsSafe` [`SlotsAgree`, `CallbacksAlternate`]: `portVec` and the FETs agree although one thread fills slots
while others clear them.  `CallbacksAlternate`: each port's owner sees open and close
in turn.  *Bounds:* a third FET makes the vector overflow and slots be used again;
`MaxDrift` only keeps the wrong `curPorts` finite.

**PpChannel** (`MCPpChannel`; 303,000 states) has two machines.  Two PPs with arbitrary
programs and no device (5 words, 3 sessions): `ChannelSafe` [`TakenInOrder`], `WordsKept`
(`WordStays`, `OneSession`), `TransfersEnd` [`InactiveResumes`, `ReturnsBehind`]: no PP hangs.  `OneSession` is the interesting one: a PP
suspended in a transfer never carries it over into the next session of its channel, because the
barrel always comes to its wait before the partner can disconnect *and* activate.  One PP with 3
cells against a device that does anything a device handler may: `ReturnsBehind`, by count, by
disconnect or by a last word, P comes back from cell 0 behind the IAM or OAM.  *Bounds:* one memory
cell is enough where P does not matter; 3 sessions allow a stale transfer to meet two later ones.
With 3 cells P wraps within a block; A counts modulo 4 in place of 01000000, so that a count of
0 runs through a whole block.

**CpuExchange** (`MCCpuExchange`; 2 CPUs, 5 contexts, with CPU threads and without, with
CEJ/MEJ (MXN, MAN and XJ) and without (EXN); two words per step; 672,000 states).
`ExchangeSafe` [`ContextsConserved`, `ModeMatches`].  `ContextsConserved`: no exchange loses a context or makes two of one.  `MonitorAlone`: one
CPU at most has a monitor's registers.  `ModeMatches`: `monitorCpu` tells which, except
for a CPU that is asked to exchange and has not yet; this is what makes XJ's test outside the lock
right.  `IssuedIsDone`: an accepted exchange is done, so the main thread's spin ends.
EXN does not touch `monitorCpu`, so the two mode properties are about machines without it.
*Bounds:* two CPUs are all the emulator has (`cpuCount` is 1 or 2); `cpuRatio` 2 lets
an exchange be asked for in mid step.

**Niu** (`MCNiu`; 2 stations; 81,000 states) has four settings: two users; one user with stray
bytes and frames of several words; the alert box with PLATO coming back after a shutdown or a
crash; the alert box with files that do not open.  `NiuSafe` [`FlagAgrees`]: the NIU's `loggedIn` never drifts
from PLATO's sessions once nothing is on its way.  `SessionNotInherited`: a key a user typed never
reaches a session another left.  `StationsServed` [`KnownIsLoggedOff`, `ForceEnds`, `KeyIsRead`]: the
handshake ends, a new user is not shut out for good, every station with a key is served.
`CrashReported` [`CrashOnce`, `SilenceIsReported`]: operators hear of a crash only when the last they heard was that PLATO is up.
When PLATO falls silent they hear of it, although the count is read and
reset by two threads without a lock.  *Bounds:* two stations are the least for a round robin; two users the least for
an inheritance; a new user comes when nothing of the old one is on its way (`"late"` lifts it);
three keepalives are one before, one between and one after a crash.  `KnownIsLoggedOff` and
`KeyIsRead` assume that the rings are in sequence from some time on; the alert properties assume that
keepalives do not come in the instant in which the alert thread looks at the count (every 10 seconds
or more) and that its files open; section 4 says what happens otherwise.

**Pni** (`MCPni`; one station, key buffer of 3, request ring of 2, transmit ring of 3; 387,000
states) has five settings: keys of two users; keys of all classes with cut off escape sequences and
the race for the bit list; output with its flow; PLATO loaded twice with early and late users; a key, an
XOFF and a message at once.  `PniSafe` [`KeysDecoded`, `Announced`]: what a connection decodes is what was typed on it,
whatever sequence the connection before it was cut off in.  `Announced`: a key that is stored is one PLATO is told of.
`SessionNotInherited` as in the NIU.  `PermitComes`: what Framat waits for comes.  *Bounds:* stations
share only the bit list and the ring to Framat; a key buffer of 3 is full with 2 keys; a request ring of 2 is full with
one; messages of 1 and 2 bytes fill the transmit ring or are refused.

**Console** (`MCConsole`; display ring of 5, 3 polls, key ring of 3, transmit ring of 3, one display;
759,000 states) has four settings: output, connections that come and go, typing in true
keyboard mode, the automatic date.  `ConsoleSafe` [`PollsInOrder`]: the polls divide the
unsent ring without a gap.  `TrafficWhole` [`FramesWhole`, `KeysHeard`]: a frame consists of whole items, in order, newer than the one
before.  `KeysHeard` (`KeysSeen`, `NoStuckKey`): with rollover every key that was taken is seen once and in order; in true mode no
key stays down that was released, also across changes of mode.  `OutputGoesOut`: stored output goes out, cycle or
not, full tables or not.  *Bounds:* a ring of 5 holds two items of 2 bytes and wraps within a behaviour of 5 or 6; 3
polls are full with 2.

**Devices** (`MCDevices`; 1,757,000 states) has nine devices, one at a time.
*669 tapes* (2 drives, records of up to 2 words; `MCTapePlans`: 2 writes and 1 load with every function from empty drives; 1 write and 1 load
beside a mounted reel, and 2 loads, with rewinds and forward reads; padded and plain reels).  `TapeSafe` [`HeadBetweenRecords`, `BlocksCounted`]: the records of what was last recorded can be found from
both sides and hold what was recorded, over padding, marks and the rest of an older recording.  The head is between two of them, except on a unit that is `lost`:
one whose head was repositioned over a padded record, which `mt669FuncReposition` does not know (`mt669.c:2141`), or that went from the last block into the rest of an older recording.
Until it is rewound, what a lost unit does is left open (`Astray`).  The block number is the number of blocks behind the head from a time at the load point on, until the unit
gets lost, is given another reel, or a connect between a write function and its words sends them to another unit (`mt669.c:1091`; then the one has counted a block too many and the other one too few).
`IsDrive`: the controller implements `TapeDrive`.  A forward read gives the words of the next block.  A backward read gives as many words as the block has, the first of which is
what lay behind the block in the buffer (`mt669FuncReadBkw` sets `bp` behind the last word, `mt669.c:1751`, and `mt669Io` reads before it steps back, `mt669.c:924`),
and then the block's words from the last to the second: the first word of the block does not come.  A write goes to one unit whole, also after such a connect, and makes its block the last one.
A write of more words than `ioBuffer` has, or one that a connect sent to a unit without a reel, ends the model (`crashed`): the code stores over what lies behind the buffer, or writes to no file.
*844 and 885 disks* (2 drives of 2 cylinders, 2 tracks and 4 sectors of 4 words; up to 3 transfers; half and full
tracking).  `DiskSafe` [`StoreExact`, `WherePpThinks`]: a container holds at each address the last whole block that was sent
there, and a drive that may go on without a seek is where the PP, who counts for itself, takes it to be.  `DiskSteps`
[`ReadsBack`, `FlawsKept`]: a word that is read is the one that was last written at its place; a flaw changes one entry of the map.
*Cards and paper* (cards of 4 columns, two decks, up to 5 words).  `PaperSafe` [`CardsInOrder`, `NothingLost`, `InterruptsShown`]:
cards come in the order of the decks, each followed by an end of information, however transfers are cut off in the midst of a card;
what is punched and printed lands on cards and paper once and in order, jobs in files of their own; the converter shows the
interrupts of each equipment that told it.  An equipment whose conditions changed without the converter being told is `stale`, until a function, a status request or a word makes it tell:
a master clear clears the flags (`dcc6681.c:363`) and neither masks nor conditions, and what reader and punch say meanwhile is noted for the equipment that was connected (`dcc6681.c:294`).
The disconnect behind the word of a connect or a function in mode 2 reaches the equipment that is connected then, as every disconnect does (`dcc6681.c:620`): it sets end of operation and may move a card.  *607, 6603, 405, 1612 and the clock.*  `OldSafe` [`TapeInOrder`, `DiskExact`,
`CardsOnce`, `PaperWhole`; `MonitorKeepsTime`, `NoDrift`, `NeverBack`]: a transfer that is left and taken up again goes on where it
was; PP 0 never loses a turn of the clock, no cycle is lost to rounding, readings do not go back unless the host's clock did.
*Multiplexers* (2 ports, 2 users, of both kinds).  `MuxSafe` [`OwnDescriptor`, `KeysInTurn`, `WrittenIsSent`]: an active port has
an open descriptor of its own though numbers are used again before a closed port is inactive; keys reach the PP once and in order; what is
written while a user is there is sent to that user.  *Bounds:* two units are the least for fields that are shared;
two writes overwrite a record in front of another; two tracks and four sectors are the least for interlace to turn at the end of a
track and of a cylinder; a third deck could only wait as the second does; the clock runs over two turns.  Which device, which drives, decks and
seeks there are is chosen in the beginning.

**Processors** (`MCProcessors`; 714,000 states) is one machine with sixteen kinds of program, its parts.  A word
has 9 bits (a sign, 4 of exponent, 4 of coefficient), an address 5, a cell 3, an ECS address 6.
`float` has every numeric instruction on 192 x 84 pairs of words: every exponent, both zeros,
coefficients that are 0, normalized or not; `shift` every word with counts at and around the width of a coefficient and a word; `sums` the
instructions that set B and X at the edges of an address; `compare` every pair of B registers; `tests` every word;
`memory` three instructions at the limit of a field, with and without exit mode, with one and two words a step;
`ecs` blocks that fit, that run off the field or off the end of ECS, and flag functions; `cmu` moves and
comparisons of fields that overlap, wrap over words or run over the limit; `memoryEnd`, `ecsEnd`, `cmuEnd` the same where the field ends with the last address, 777777 in the hardware's
width, of a memory that has every address, as the emulator's default of 01000000 words does (`init.c:284`), and `ecsHalf` in one of half as many words; `pp` every instruction of a PP on every A;
`ppblocks` two block transfers over cell 0 and around the end of either memory; `ddp` a CPU and a PP that lock each other
out; `ddpdata` a PP that reads and writes ECS, leaves off and begins anew.
`ResultsExact` [`ArithmeticExact`, `OrderExact`]: results are those of exact arithmetic on the numbers that the operands stand for, cut off where the
instruction says; the reference works with unlimited integers and knows neither 98 bit registers nor end-around
carries.  `Confined`: no instruction writes outside the field, in either memory, but for one word: `cpuAdd18` turns address 777777 into 0, so where a field ends with that address every instruction that
writes there writes word 0 of memory, wherever the field begins.  `Field` has this word; without it TLC finds `Confined` violated.  GE, LT and
the comparisons of fields order as numbers and as texts are ordered.  `BlocksMoved`: a block holds what it came from,
with zeros behind the end of ECS, and the exit taken tells; each word is where a load finds it, so word 0 stands for address 777777, which a block of ECS also skips (`cpu.c:1722`, `BlockWord`); only an error exit's word at RA may lie in a block that was read or moved.
It is stated of fields whose words are different ones (`WordsApart`: in a memory of less than 2^18 words a field with address 777777 may have word 0 twice, and a block written over itself), of transfers within the limits and below ECS's flag functions, of moves that are not refused, and of PP blocks that do not run
around the PP's memory or, writing, twice into a word.  `ProcessorsSafe`
[`LockExclusive`, `DdpExact`]: ready/select and selective clear make a lock between the CPU and PPs; words that cross the DDP are
whole and in their place, however the PP cuts its transfers off.  *Bounds:* 4 bits of coefficient are two halves of 2, so that the four products
of `floatMultiply` and both parts of its sums occur; 4 bits of exponent let alignments exceed two coefficients (the third case of
`floatAdd`); three cells or characters in a word are a first, a middle and a last one.  The widths are constants with
assumptions, and each operator is written for all of them.

### 3.2 Fairness

| Run | Assumed | Why |
|---|---|---|
| SendRing | WF of a call under way, WF of the send thread | the host schedules runnable threads; a peer that is there reads, so `send ()` returns.  Nobody has to call |
| RecvRing | WF of both threads, SF of `dtReado` | pollers call `dtReado` again and again (`niuInIo`, `opRequest`); other calls may come in between.  The peer need not send |
| FetLife | WF of creator, main, data, send thread and of the connect | the same; a connect is answered, if only by a refusal.  The Cyber program need not ask for anything |
| PpChannel | WF of `Next` | `main ()` calls `ppStep` for ever and no instruction blocks it |
| CpuExchange | WF of the PPs' steps and of each CPU's | each is a thread, or a call in the main loop |
| Niu | WF per data thread, WF of the input side, of PLATO, of `niuOutIo`, of selecting input, of `niuOpdata` and of the alert thread | PIO serves both channels as long as it runs.  Nobody has to connect, type or send keepalives |
| Pni | WF of each data and send thread, of PLATO, Framat and `pniCheck`, and of a terminal's XON | the main loop calls `pniCheck` again and again; a terminal that stopped output starts it again.  Nobody has to type or send |
| Processors, Devices | none | all their properties are safety; `main` may call the processors, a driver a device, in any order |
| Console | WF of `consoleCheckOutput`, of what a poll began and of each `consoleQueueKey` | the main loop calls `consoleCheckOutput` in every turn |

## 4. Divergences

### 4.1 Runs that show them

| Run | Shows |
|---|---|
| `FetCallbackUse` | `consoleInput` and `pniDataCallback` close the FET on its own data thread (`console.c:927`), which frees it at once; the main thread may hold the pointer it took from `portVec` and is about to send.  `dtnetsubs.c:1380` explains that the close is made by the main thread |

### 4.2 Further ones, stated in the modules and checked by hand

Each property below is defined in its module and kept out of the runs above.  TLC
refutes it under the run's cfg with the changes given.  `Setting` is the operator of the `MC` module.

| Property | Change to the cfg | What happens |
|---|---|---|
| `SendRing!ConnectedTlvWhole` | `Spec`, `Size` 5, `Ops` dtSendTlv, `MaxBytes` 9 | `dtSendTlv` tests the room for tag, length and value, stores tag and length, then `dtSend` tests again (`dtnetsubs.c:774`).  Its macro reads `sendin` and `sendout` twice; if the send thread wraps `sendout` in between, the room comes out too small by the ring's size, and the value is refused with its header already in the ring.  The same tearing never makes the room too *large*: that is `FreeTornSafe`, proved |
| `PortSet!CountInCallback` | | `curPorts++` and `curPorts--` run on different threads without a lock (`dtnetsubs.c:498`), and `dtClose` counts a listen FET down that was never counted up |
| `CpuExchange!IssuedIsDone` | `Machines <- MCLowerXJ`, `cpuRatio` 1 | an XJ that is refused backs up to be executed again (`cpu.c:2455`).  In the first parcel of a word the word ends and `cpuStep` comes round to its test of `exchangeCpu`.  In a later parcel the inner loop decodes the XJ again without end; if the exchange that is pending is this CPU's own, nobody ever serves it |
| `SendRing!SoftCloseFlushes` | `Spec` | the send thread finds the ring empty; the main thread stores and closes; the thread sees the soft close and shuts down with the data unsent (`dtnetsubs.c:1472`) |
| `RecvRing!ReadmaxCount`, `SocketInfoCount` | `Spec` | the torn `dtFetData` is negative: `dtReadmax` returns it as a count (`dtnetsubs.c:662`), the "get socket info" request reports it (`ext.c:879`) |
| `RecvRing!DrainedBeforeClose` | `Spec` | no data is seen, the last data comes and the connection ends, the connection is seen gone and the FET closed: the last data is lost (`ext.c:452`, `ext.c:658`, and every poller) |
| `FetLife!CreatorSafe`, `ThreadsSafe` | `Spec`, `Uses` accept/poll, `EarlyEnd` TRUE | a connection reset while it is accepted is closed and freed under the creator, and the data thread joins a thread id that is not stored yet (`dtnetsubs.c:1399`) |
| `FetLife!PointerSafe` | `Spec`, `Uses` connect/ext | `sockOp`'s read closes the FET, then asks whether it is connected (`ext.c:694`) |
| `FetLife!CloseCallbackComes` | `Uses` connect/ext, `EarlyEnd` TRUE, `CreateFails` FALSE | a failed connect marks the FET as closed itself (`dtnetsubs.c:1275`, `1285`); `dtClose` then does nothing: no callback, and the FET is never freed |
| `FreedIsClosed` without its condition | `Spec`, `Uses` accept/ext | on a soft close, a send error ends the send thread (`dtnetsubs.c:1524`) before anyone closed the descriptor |
| `FetLife!CreatedIsServed` | `Spec`, `CreateFails` TRUE | `pthread_create` returns positive errors, `dtCreateThread` looks for negative ones (`dtnetsubs.c:248`) |
| `Niu!SessionNotInherited` | `Spec`, one station, `Setting(2, 0, {"late"})` | a user's login is on its way to PLATO when he goes and the next one comes: the NIU does not know of the login, and does not keep the new user away (`niu.c:977`) |
| `Niu!GoneIsLoggedOff` | one station, `Setting(1, 0, {})` | the same login, with no next user: nobody logs the station out |
| `Niu!HeardAfterStray` | one station, `Setting(1, 0, {"stray"})`, `MaxKeys` 2, `MaxWords` 1 | one stray byte makes every later pair of bytes a sequence error (`niu.c:711`): all further keys are dropped.  The routine returns without moving `lastInPort`, so a station that keeps typing starves the others |
| `Niu!NoFalseCrash` | `Settings <- Restarted` | `niuLastAlertCount` is not reset when the alert is shut off or raised (`niu.c:1316`).  PLATO comes back, keepalives come, and the count that is found equals the one remembered from before: the operators are told of a crash, though "no progress has been seen since last time" is not so |
| `Niu!NoFalseCrash`, and `CrashOnce`, `SilenceIsReported` without their condition | `Setting(0, 3, {"overlap"})` | `niuOpdata` and `niuCheckAlert` read, change and reset the count in each other's midst: the first keepalive after a crash falls between the two resets and the watch is off, or a shutdown falls between the test and the comparison and a crash follows it |
| `CrashOnce`, `SilenceIsReported` without their condition | `Setting(0, 2, {"nofile"})` | an alert whose file cannot be opened is given up, and not tried again |
| `Niu!EndIsReported` | `Setting(0, 2, {})` | the comment at the end of `niuThread` has an alert raised when DtCyber ends with the watch on; `main` returns without waiting for the thread (`main.c:204`) |
| `Console!KeysSeen` | `Displays` and `Typists` two slots, `Settings <- TwoTypists` | two data threads are in `consoleQueueKey` at once: a key is overwritten or seen twice; likewise where somebody types while the automatic date is queued (`console.c:668`).  `console.c:157` promises the combination of all input |
| `Pni!PermitComes` | `Setting(1, 0, 1, 3, 1, {}, {"logout"})` | a user is logged out with output stopped: `newKbd` is FALSE from now on, his XON is not taken for one, and the station's output stays stopped (`pni.c:738`) |
| `Pni!PermitComes` | `Setting(1, 0, 1, 3, 1, {}, {"flow"})` | `flowFlags |= FLOW_XOFF` is interrupted by `pniCheck`, and a flag that it set or took back is lost (`pni.c:862`) |
| `Pni!Announced` | two stations, `Setting(2, 1, 0, 0, 1, {"norm"}, {"abt"})` | a station's bit is set from a word that PLATO or another thread has changed: a key is stored and never announced, although "nothing else can get in the middle of this" (`pni.c:1158`) |
| `Pni!SessionNotInherited` | `Setting(2, 3, 0, 0, 1, {"norm", "stop"}, {})` | a user goes and leaves the key buffer full, with `*offky2*` as its last key; the next user's stop key is stored in the place of the last key (`pni.c:1141`) and so replaces the logout: a key of the first user in front of it logs him in, and the stop key goes to his session |
| `Pni!SessionNotInherited` | `Setting(2, 2, 0, 0, 1, {"norm"}, {"late"})` | as in the NIU: the login is in the key buffer when the next user comes |
| `PpChannel!OneSession` | `Setups` TwoPps alone with 3 PPs, `Spec` | a third PP disconnects and activates the channel while the second waits |
| `PpChannel!TakenInOrder` without `NoDevice` | `Setups` OneDevice alone | a function no device claims leaves the channel active and full (`channel.c:301`): the last word is read once more |

Modelled as the code has it, and stated where the runs are described: `mt669FuncReadBkw` starts one word behind the record (`mt669.c:1751`, `924`), `mt669FuncReposition` knows no
padded records, `anyWrite` and `recordLength` belong to the controller, so that a write function followed by a connect writes on another unit (`mt669.c:1091`), and the words of
a write have no bound (`mt669.c:965`); `cpuAdd18` turns address 777777 into 0, so that a CPU whose field ends there writes word 0 of memory and a block of ECS skips the last word (`cpu.c:400`, `1722`).  Seen in reading, not in a model: `tp->initialStatus | St669Ready` is always true (`mt669.c:589`, `2097`); in
conversion mode 0 a write of less than two words underflows (`mt669.c:1124`).  An error exit of an instruction in the last parcel of a word leaves P at 1, not 0 (`cpu.c:1154`);
an RJ out of range that stops leaves P behind its target; with `cpuRatio` above 1 a CPU that stopped in fetching goes on
until its turn ends (`cpu.c:1179`).  A PP jump over either end of memory lands one cell further (`pp.c:44`), and `ppAdd18` and `cpuAdd18`
give -0 only for two -0.  A comparison of fields that ends by an address error without exit mode reports that they are equal
(`cpu.c:2176`).  `ddpFunc` leaves `discAfterInput` as an aborted transfer set it, and after an abort a write counts cells beyond 5 and is never ended
(`ddp.c:341`); the bit that asks for one word is part of the address that is looked up (`ddp.c:322`).  In `consoleSendFrame` the second part of a wrapped frame may be refused, when another thread
sends on the same FET; a key up is dropped when the ring is full.

And in the devices: a deadstart of the 844 always is one of unit 0, as the unit is taken from the function code after it was
replaced (`dd8xx.c:658`); the interlace of a seek is set on the drive that was selected before it (`dd8xx.c:710`), and a drive that is
loaded later has none until then; an unload in the midst of a transfer leaves a NULL `DiskParam` to the next word (the test is
commented out, `dd8xx.c:645`); a write that follows a cut off transfer without a seek goes on in the middle of the buffer;
`dd844SetClearFlaw` reads packed containers as classic ones (`dd8xx.c:1709`).  `cr3447Load` passes the reader's own device to
`dcc6681InterruptDev`, which takes its context for a `DccControl` (`cr3447.c:509`, so loads change no interrupt in the model); an unload with several decks waiting frees the wrong
element; input to the end of a record is marked to disconnect but the PP gets a word of the next card first (`cr3447.c:396`; `UnitRecord!EorEndsCard` does not hold); a
3447 gives the status of its next deck after the converter was told of the old one (`cr3447.c:540`).  `lp3000Func` releases interrupts without telling the
converter (`lp3000.c:489`).  A 607 keeps the count of words left when another unit is selected (`mt607.c:243`).  The multiplexers do not see that a user
left and another came between two polls, so that the new one has the old one's session, and take a zero or a character of eight bits for
no input (`mux6676.c:523`).

## 5. Proofs

TLAPS checks the theorems in the `_proofs` modules (`tlapm X_proofs.tla`).  They hold for every value of the
constants that satisfies the named assumptions of the modules: every ring size and length; any
number of slots, PPs, CPUs, packages, stations and users; without the bounds of the runs, or for every value of them.

| Theorem | States | Under |
|---|---|---|
| `SendRing_proofs!Invariance` | `Spec => []IInv` | |
| `TypeCorrect` | `Spec => []TypeOK`: pointers stay in the ring, no length is negative | |
| `WireCorrect` | `Spec => []WireInOrder` | |
| `RaceFree` | `Spec => []NoDataRace` | |
| `AdmissionSafe` | `Spec => []AdmittedFits`: what the torn test lets through fits | |
| `ImplementsQueue` | `Spec => IsQueue`: every step is a `Put`, a `Take` or a stutter of `ByteQueue` | |
| `SocketSafe` | `Spec => []SocketClosedOnce`, with an invariant of its own about who may still close | |
| `RefusalSafe` | `Spec => []RefusedSendsNothing` | |
| `RecvRing_proofs!ReceiveCorrect` | `Spec => []ReceiveSafe` | |
| `RecvRing_proofs!ImplementsQueue` | `Spec => IsQueue`, for every mix of the seven readers | |
| `Connections_proofs!FetCorrect` | `Spec => []FetSafe` | `EarlyEnd = FALSE`, as in the run |
| `Connections_proofs!SlotsCorrect` | `Spec => []SlotsSafe` | |
| `Mainframe_proofs!ChannelCorrect` | `Spec => []ChannelSafe` | |
| `ChannelKeepsWords` | `Spec => WordsKept` | at most two PPs where no device takes part |
| `BlocksReturn` | `Spec => ReturnsBehind` | |
| `ExchangeCorrect` | `ExchangeSpec => []ExchangeSafe` | |
| `MonitorExclusive` | `ExchangeSpec => []MonitorAlone` | |
| `Niu_proofs!NiuCorrect` | `Spec => []NiuSafe` | |
| `SessionKept` | `Spec => SessionNotInherited` | no setting has `"late"`, as in the run |
| `Connections_proofs!PniDecodes` | `PniSpec => [](PniTypes /\ KeysDecoded)` | |
| `PniCorrect` | `PniSpec => []PniSafe` | bits are set in one step or there is one station, as in the run |
| `Devices_proofs!MuxCorrect` | `Spec => []MuxSafe` | |
| `OldCorrect` | `Spec => []OldSafe` | |
| `PaperCorrect` | `Spec => []PaperSafe` | |
| `Storage_proofs!DisksCorrect` | `Spec => []DiskSafe` | a drive 0 that is loaded later was there before |
| `DisksReadBack` | `Spec => DiskSteps` | as for `DisksCorrect` |
| `TapesCorrect` | `Spec => []TapeSafe`; lost heads and block numbers as in section 4 | images are well formed |
| `TapesImplementDrive` | `Spec => IsDrive`: every step is a step of `TapeDrive` or a stutter, padded reels, backward reads with a wrong first word and lost units included | as for `TapesCorrect` |
| `Mainframe_proofs!DisplaysCorrect` | `ConsoleSpec => [](PollsInOrder /\ FramesWhole)` | |
| `ConsoleCorrect` | `ConsoleSpec => []ConsoleSafe` | one source of keys |
| `TrafficCorrect` | `ConsoleSpec => []TrafficWhole` | one source of keys |
| `Processors_proofs!CpuConfined` | `Spec => Confined`, word 0 counted to a field that ends with address 777777 | `FieldsFit` |
| `FlagsExclude` | `Spec => []LockExclusive` | `FieldsFit`, `FlagsApart` |
| `ProcessorsTypes` | `Spec => []TypeOK` | `FieldsFit` |
| `ProcessorsAreSafe` | `Spec => []ProcessorsSafe` | `FieldsFit`, `FlagsApart`, `DdpAlone` |
| `BlocksArrive` | `Spec => BlocksMoved`, which judges fields whose words are different ones | `FieldsFit` |
| `ComparedInOrder` | `Spec => OrderExact` | `FieldsFit` |
| `FreeTornSafe`, `RoomFits` (`SendRing_proofs`) | the torn free space is never more than the real one; a piece fits the ring and the room | |

Each module also has `Invariance`: its `IInv` is an invariant (`SlotsInvariance` for `PortSet`; `ExchangeInvariance` for `CpuExchange`; `DisplayInvariance` and `KeyInvariance` for `Console`; `MuxInvariance`,
`OldInvariance`, `PaperInvariance` in `Devices_proofs`, `DiskInvariance`, `TapeInvariance` in `Storage_proofs`; those of `Pni` and `Processors` are within the proofs of their theorems).  The conditions on the right are no
weakening of what the runs check: each holds in every run, for `EarlyEnd`, the third PP, `"late"`, bits that two stations set in two steps and a second source of keys section 4.2 shows what happens without
it, and those on drive 0, on images and on fields are explained below.  One source of keys (`OneSource`) is one operator, who does not type in a behaviour with
the automatic date; then only one thread at a time is in `consoleQueueKey`.  With two, `keyIn` can be set back, and a poll reads a cell that
was never stored.  `DisplaysCorrect` needs no such condition.

**Assumptions.**  Those on constants name the kinds of machine, server and client there may be, and say which constants are
sizes and bounds.  Some say more.  `PackagesAssumption` (`CpuExchange`) is what an operating system arranges with its
exchange packages, and neither the machine nor the emulator enforces: in the beginning no context is in two places, and every user has a
monitor address of its own, which no PP uses, with a monitor or the user's own package at it.  By `NiuAssumption` (`Niu`)
there are keepalives only where there is an operator's station to get them.
`StrokesAssumption` (`Pni`) says that what a terminal sends for a key is one key to the decoder: it leads from state `norm` back to `norm`, and the
key that it is for comes out at its last byte and no other before.
`DevicesAssumption` has drive 0 of the 844 and 885 disks mounted at the start where the operator also loads it: deadstart is the one transfer that needs no
seek before it, and a drive that was neither mounted nor sought on has no interlace yet (`dd8xxInit` leaves it at zero), so that there is no order of sectors to be in.
`TapeAssumption` says what the reels that the operator mounts contain: records in the TAP format, with equal lengths before and after the
data, padded or not, no longer than the buffer (`IsImage`).  `mt669.c` ends a motion at the first cell that is no such length, so that on another file
there is nothing to be right about.  Padded reels are not excluded anywhere: what happens on them is the state `lost`.
`ProgramsAssumption` and `StartsAssumption` (`Processors`) say no more than that instructions name registers and addresses there are, that a count of shifts or of
characters fits the field it comes from, and that registers and memories start as words; `CpuArithmeticAssumption` that a register for a count of shifts has just the bits it
needs, that an exponent fits an address and that an address is shorter than a word.
`ProcessorsAssumption` has memories of up to as many words as there are addresses, the default 2^18 included, and the widths of the hardware: a word is several cells of a PP, an address of central memory is an R of some bits behind one cell (6 and 12 of 18),
one of ECS is two cells, and the counts of characters and of words of ECS fit a word.
`FieldsFit` and `FlagsApart` are what an operating system does when it sets RA and FL, which neither the machine nor the emulator enforces: no field goes on past the
last address, which it may end with (RA + FL is at most 2^18), and a field of ECS ends before the addresses that are functions of the flag register which clear it.  (ECS has 2^21 words at most; an address has 24 bits, and the
functions begin at 2^23.  A block transfer that ran up to them would work the flag register word by word, `cpu.c:1712`.)
`DdpAlone` is the question that `DdpExact` asks: whether what a PP sends through a DDP arrives, where the CPU's program does not store into ECS meanwhile (no WE or WXE; it may
read, and set and clear flags).  TLC evaluates the three for the machines of the run.

**Inductive invariants.**  The properties are seldom inductive by themselves: each depends on where the threads
are and on what their old copies of shared fields still say about the fields now.  `IInv` of each
module adds exactly this.  TLC checked each on the run's instance before it was proved.

  - *SendRing.* `RingHolds`: the cells from `sendout` to `sendin` are the stream from the first
    byte not yet given back.  `SendPiece`: the send thread's piece lies in those cells and before the end.
    `Compared`: an old comparison `sendin >= sendout` that was true still is, since the send
    thread cannot undo it without wrapping, and it wraps only when `sendin` has.  `Entering`: until its copy loop
    an operation has stored no more than it published, and what it was admitted for still fits.  `Copying`: the
    cells between `sendin` and the copy loop's `in` hold the next bytes, and the loop's old copy of `sendout` errs to the safe side.
  - *RecvRing.* `RingHolds` likewise, from `fout`.  `DataPiece`: `recv ()` stores behind `fin`, in the free part.  `TakesByte`,
    `ReadsAhead`, `CopiesBlock`: how far each kind of reader is, and that what it was admitted for still waits; this is where a
    block that `dtGetw` reads in two parts, `dtReadoi`'s index ahead of `fout` and the two looks of `dtReadtlv` are accounted for.
  - *FetLife.* `Places`: which thread can be where, for each kind of client.  `Created`, `Lasting`: what there is of a FET before its
    creator is done.  `Opened`, `Marked`: how far the one thread that closes has come, and what the semaphores, slot and socket are
    then.  `Joined`, `Pointer`: the data thread frees only after the send thread has ended and when no pointer is held.
  - *PortSet.* `SlotFound`: a slot that was found empty stays so until it is filled, as only `dtNewFet` fills slots.
    `UpIsOpen`: a port's owner takes it to be up exactly between the two callbacks of the FET in its slot.
  - *PpChannel.* `Quiet`, `NewestWord`: on a channel without a device an inactive channel is empty, and the word in it is the last one put and
    not taken.  `Shown`: of two PPs, whoever waits began in this session, and before its partner can execute on an inactive channel it was
    shown that the channel is inactive; this is why no transfer runs on into the next session, and it fails for a third PP.
    `Sparing`: while a block that spares cell 0 is transferred the rest of it does, so cell 0 still holds where to go on.
  - *CpuExchange.* `OneAtATime`: while an exchange is pending no other CPU is in monitor mode.  `Direction`: the CPU that was
    asked goes from user to monitor or back, which decides whether the flag is set before or after it has moved.  `Leaving`,
    `Homes`: where a monitor's XJ and a user's monitor address lead, so that XJ's test outside the lock is right when it is used.
  - *Niu.* `LastTells`: the last word under way that tells of a station's login tells what PLATO believes; `Agrees` is
    `FlagAgrees` with words for the alert box counted out.  `OneBeat`, `Counted`: one keepalive is under way at a time, so the count never passes
    what was sent.  `SInv` for `SessionNotInherited`: keys under way to PLATO are of one user and the session is his or there is none (`OneTypist`); whoever
    finds another's session is kept away, and no word that could lift that is on its way (`KeptAway`).
  - *Pni.* `Decoder`: the bytes of a connection that are still to be read are the rest of one stroke, and the decoder is in the state in which that stroke
    has it (`MidStroke`), or one XON or XOFF (`FlowByte`); a stroke that was cut off left a line that is gone, whose decoder `pniWelcome` sets back.
    `AnnounceInv`: as long as keys wait in a station's buffer its bit is set, PLATO is taking them, or the thread that stored the last one has the bit still
    to set; a word of bits is written back late only where `"abt"` allows it (`WriteRight`), and with one station that word holds no other's bit.
  - *Console.* `DisplayInv`: what is unsent is whole items in the order of their numbers (`IsWhole`), every poll begins with an item
    (`PollsAtItems`), and each display's last frame, and what it was sent before, is older than what is unsent (`FrameIs`); so whatever
    two polls are sent between gives a whole, newer frame.  The weight is on the arithmetic of a ring that is read from `displayOut`: spans add up
    (`SpanSplits`), and `Byte` stores behind the last item or nothing (`ByteStores`).  `KeyInv`: the ring holds the keys taken last (`KeysHeld`);
    who has a key to store is alone, and what he found out about the ring still holds (`Queueing`); with rollover a key that is shown goes up before the next
    (`Rollover`), and what the PP takes to be down is down after the keys it read (`DownIs`).
  - *Devices, multiplexers.* `Lines`: the thread accepts only for a port that is not active and the main thread closes only lines of active ones, so
    that every port that is up, or about to be, holds a descriptor of its own.  `Functions`: each kind of multiplexer knows its functions, and a
    port whose character was announced is not looked at again.  `Typing`: what the PP got, the character that was
    announced and what is on the line are a user's keys in turn.  `Writing`: what was written for a user is what was sent and what his port buffers.
  - *Devices, the older ones and the clock.* `TapeInv`, `DeckInv`, `PaperInv` add types to the properties.  `DiskInv`: during a transfer the file's
    position is that of the next word of the sector that was asked for (`Transfers`), and no two words of sectors share a cell
    (`CellOne`).  `ClockInv`: `rtcPrev` is 0 only before the first reading; and what the clock gains at a reading is
    less than a turn and grows with the time since the last one.
  - *Devices, cards and paper.* `UnitInv`.  `ReaderFits`: the cards that are due are the card that is up, its deck and the decks behind it, each with its
    end of information.  `PunchFits`: the files, the card in work and the word in the channel are what was sent, and no card is longer than `Columns`.
    `PrinterFits`: the files are the jobs, one by one with separate files.  `UnitFlow`: a transfer is one with the connected equipment,
    and a word is in the channel only for the punch.  `Shown`: each step tells the converter what its equipment shows (`Told`), or changes nothing
    that shows but where it is marked stale (`Quiet`); those are the places where the code does not call `dcc6681Interrupt`, or calls it
    for another equipment than the one that changed, as in a master clear.
  - *Devices, the 844 and 885 disks.* `DInv`.  `DiskFiles`: the containers hold what was sent, loaded or not.  `Fresh`: every drive that may go on without a seek is
    where the PP takes it to be, has an empty buffer and knows its interlace.  `MidSector`: during a transfer so is the selected drive but for its buffer; the words
    that are left of a read are those behind the buffer's pointer (`OnWord`), and what was gathered of a write is in the buffer (`Gathered`).  `NextInTurn` is the
    arithmetic behind it: the sector that `dd8xxSeekNextSector` reaches by cases (`NextPlace`) is the next number of a cylinder's (`InTurn`), read as
    digits of track and sector with full tracking, and of half, track and sector with half tracking.
  - *Devices, the 669 tapes.* `TInv`.  `OnReel`: the file begins with records of the blocks that were recorded last (`HoldsBlocks`), whatever stands
    behind them.  `Placed`: the head of a unit that is not `lost` is behind one of these records and, while it is `counted`, the block number is its number, or one more from the write function
    until the record is written.  `InBuffer`: the controller's `anyWrite` and length belong to the unit that is selected while its transfer lasts,
    and what is left of a transfer is in its buffer.  The weight is on what each motion finds: from the end of any record the code's steps
    backward, which guess at the padding from the length behind the data, arrive at its start (`RecordIs`), and a record that is written
    over others or at the end leaves all those before it (`BlocksWritten`).

  - *Processors.* `NumbersFit`: registers, memories and what passes the DDP are numbers of their widths, and addresses where the code uses them as such.  That is enough for
    `Confined`, whose weight is on the arithmetic: what each instruction, of any of its operands, leaves in a register, with one's complement sums, shifts and floating point
    for words of every width, so that the next result is a word and the next address one; and on the loops over words and characters, where `Transfers` and `Memories` are what a
    loop has come to.  `Paced` relates the parcel that is next, the cycle and the stop (`InTurn`): only a CPU that has stopped stays at the end of a word, which `TypeOK` needs for `parcel`.
    `Locked`: flags that are held are set, and by one program; `Careful`: a cell on its way to the DDP completes no address that clears the CPU's flags.
    `Transfers` also says that blocks only set flags where `FlagsApart`.
    `Crossing` is what `DdpExact` needs.  `Begun`: how many words the DDP has moved follows from its address and the one it was given.  `Writing`: the cells of the word in work are the
    first ones of the word that the PP sends next, and those that were sent whole are in ECS (`SentWhole`).  `Reading`: what is left in the DDP's
    word are the last cells of the word that ECS has at its address (`Underway`), and the PP was given those before, in order (`Given`, `GivenCells`).  The weight is on the place of
    a cell: which word it is in and where, and that neither a shift of the DDP's word by a cell nor the step to the next address moves another.
    `RingIs` and `BlockWordIs` are what is said there of the last address: in a memory of every address a block goes round one word less, and the word for 777777 is word 0.
    `BlocksMoved` needs `NumbersFit` only, and arithmetic: a run of addresses no longer than a ring meets no place twice (`SameRemainder`), so no word of a block is
    written over by a later one (`ReadExact`, `WrittenExact`, `ReadToExact`, `WrittenFromExact`); a character that is put into a word changes no other digit of it
    (`DigitsApart`, `PutCharExact`); and a field that is moved onto its own tail repeats (`SourceIs`, `MovedExact`).
    `OrderExact` needs it too: the order of B registers is that of their ranks (`RanksCompare`), and X0 is as negative as the difference of the first characters that differ
    (`TableReached`, `LeftNegative`, `FieldsInOrder`).

In each proof `Init` implies the invariant, every action preserves it (a lemma per action or group of actions, and for what an
actor leaves alone a lemma on its frame), and it implies the property.

**What stays with TLC.**  Liveness under fairness (`SendThreadServes`, `ReceivedIsRead`, `GoneIsFreed`, `InactiveResumes`, `IssuedIsDone`, `StationsServed`,
`SilenceIsReported`, `PermitComes`, `OutputGoesOut`), which needs ENABLED; so also `TransfersEnd` and `CrashReported` as wholes, of
which `ReturnsBehind` is proved.  So does the `SessionNotInherited` of `Pni`, which is
true only under several conditions at once (no early end of the login, no stop key into a full buffer: section 4.2).  Of `ResultsExact` of `Processors`, `OrderExact` is proved and
`ArithmeticExact` is not: the exactness of floating arithmetic rests on identities between products and powers of several widths, which the SMT solver does not find by itself.

**Induction over data.**  The library's induction theorems take an operator as a parameter, which no prover here can instantiate.  `Devices_proofs!Induction`
states induction as a fact about sets instead (as does `Processors_proofs`; a set with 0 and with the successor of each of its numbers holds all of them), and proves it from
`NatLessThanWellFounded` and `WFMin`.  The fold `FlatRecords` is handled with it: `FlatExists` builds the function it chooses, `RecordsGrow` and `RecordsDrop` say
what a record more at either end does.

## 6. Limits

  - Memory is sequentially consistent: an `int` or pointer is read and written whole and
    in program order.  `volatile` and x86 give the ring pointers as much; compilers and
    weaker processors need not.
  - `SendRing` has one writer.  The NIU and the console also write from data threads
    (`niu.c:983`); this is listed as a hazard and planned.
  - `FetLife` is about one connection, `PortSet` about slots: a descriptor number that is used
    again by another connection is in neither.
  - `PpChannel` leaves out channels 14 to 17, the delays of CWM and `channelProbe`, and has one
    channel.  A PP's program is arbitrary, except that its words are bounded.
  - `CpuExchange` lets a PP name only packages with a monitor context for MXN, and a
    monitor only packages with a user context for XJ: the operating system's rule.
  - `Niu` and `Pni` have PLATO as their environment: it logs in, logs out and confirms as the
    code expects.  Words of output are left out where they change no flag; triples out of sync are not modelled.
  - `Pni` has the main thread's accesses to the flow flags as single steps, and PLATO stops while
    `pniCheck` runs, as both are in the main loop.
  - `Processors` has small words.  That a result at 4 bits of coefficient speaks for 48 is an argument by the form of the
    operators, which never use a width but as a parameter; it is not proved.  One CPU, one PP and one DDP take turns and an
    instruction is a step: two CPU threads in central memory or ECS at once are not modelled (flag functions hold `flagreg_mutex`).
    Words that only hold instructions have no content, tracing is left out, and which descriptor an indirect move finds is arbitrary.
  - `Console` leaves out the interval's clock: whether it is over is a choice.
  - `Mt669` has well formed images, whose data never looks like a length; it leaves out the code conversions and
    the detailed status except for the block number.  Where a lost head meets bytes that are no length, any outcome is admitted, and a write there
    leaves nothing recorded.  The PP announces a write on a ready unit with the ring in, rewinds, repositions and unloads a ready unit, gives a write at
    least one word and does not connect between a read and its words.
  - The devices' drivers keep the rules that each module's heading names, which are those of the operating systems' drivers: no transfer on
    a drive that is not there or whose seek was refused, a seek after a transfer that was cut off.  Card codes, form controls, the layout
    of sectors in a container, status words and failing files are left out.

## 7. Plan

The order is by weight: what several actors share comes first.

1. Done: `Ring`, `SendRing`, `RecvRing` with `ByteQueue` as their common abstraction;
   `FetLife`; `PortSet`; `PpChannel`; `CpuExchange`; `Niu`; `Pni`; `Console`; `Devices` with all of its devices;
   `Processors` with the instruction sets, ECS and the DDP;
   the proofs of both rings, `FetLife`, `PortSet`, `PpChannel`, `CpuExchange`, `Niu`, `Pni`, `Console`, and of `Devices` the multiplexers, the devices of the 6000
   series, the clock, cards and paper, the 844 and 885 disks, and the 669 tapes with their refinement; of `Processors`, `Confined`, `BlocksMoved`, `OrderExact` and `ProcessorsSafe`.
2. Next modules: a connection table that composes `FetLife` and `PortSet` over reused
   descriptors; two writers on one transmit ring; triples of the NIU out of sync; the ECS flag register of two CPU threads;
   the DOELZ ring; Pterm.
3. Next proofs: `ArithmeticExact` of `Processors`; `SessionNotInherited` of `Pni`; the lemmas of
   `OnesComplement` (a sum is exact modulo M - 1); `CrashOnce` of the alert box.
