# A TLA+ model of the Pico Bluetooth dongle with PC wake

The firmware in `src/` turns a Raspberry Pi Pico into a USB Bluetooth adapter
that, while the PC is off, takes over the Bluetooth controller, listens for a
controller or keyboard trying to reconnect, and wakes the PC by a pulse on its
power button or by a USB remote wake-up and a key press. This directory models
its core in TLA+, checks it with TLC and proves its safety with TLAPS.

## Inventory

One core, one endless loop (`main.c`), no threads. What makes the program hard
is the order in which polled inputs, USB callbacks, controller packets and
deadlines meet in that loop.

| Component | State it keeps | Operations | What makes it correct |
|---|---|---|---|
| Power supervisor, `power_supervisor.c` | power state, four deadlines, two debounced inputs, wake request, forced standby | `power_supervisor_task`, `request_wake`, `debug_force_standby` | pulses spaced, arming delay kept, a running PC never switched off, no trap state |
| Main loop, `main.c` | `last_state`, `standby_configured` | mode handlers, `backend_rx` | one owner of the controller, no accepted wake lost, a failed configuration repeated |
| Wake keyboard, `usb_hid_wake.c` | pending, pressed, release deadline | `request_keypress`, `task`, `set_standby` | each wake presses the key once and lets it go |
| USB bridge, `usb_bth_bridge.c` | two rings, transmission in flight, counters of answers to suppress, ACL reassembly buffer | `task`, `set_enabled`, `backend_packet`, the TinyUSB callbacks | packets in order, once and whole; one answer per command, unless the standby host left one behind; never wedged |
| Wake peers, `wake_policy.c` | table of peers, dirty flag and deadline, flash sector | learn, refresh, save, load, clear | an LRU list that survives power failures |
| Advertisement matching, `wake_policy.c` | none | `wake_policy_packet_matches` | reads only within the packet, matches what it claims |
| Standby HCI host, `hci_host_minimal.c` | command being waited for, its status | `send_cmd_sync`, `configure_standby_wake` | an answer is matched with its own command |
| H4 parser, `h4_parser.c` | parser state, header, packet | `feed_byte`, `reset` | bytes grouped into the packets that were sent |
| ESP32 UART backend | receive ring | interrupt, `task`, `reset_controller` | bytes in order, lost only when the ring is full |
| CYW43 backend | buffers | `reset_controller`, `send`, `task` | an answered reset flushes the line |
| Stub backend | none | `init`, `send`, `task` | a thin wrapper |
| BOOTSEL button | poll and hold times | `task` | fires after a whole hold, once per hold, and in the end |
| Debug log and console | log ring, command buffer | `debug_log`, `task` | wait-free log, commands |

Interactions: the loop calls the supervisor, runs the handler of a changed
state, then serves USB and the transport (host mode) or the transport alone.
The transport calls `backend_rx`, which feeds the bridge in host mode and the
standby host and the wake policy in standby; a match calls
`power_supervisor_request_wake`. The supervisor calls the keyboard and holds the
loop for the time of a button pulse. The bridge is switched by the mode
handlers and driven by TinyUSB callbacks from `tud_task`. The debug console and
the BOOTSEL button act on the supervisor and the peers from the end of the loop.
The standby configuration blocks the loop for up to a second per HCI command
while it keeps polling the transport, so `backend_rx` runs inside it. Only the
UART receive interrupt is truly concurrent.

The hazards are listed, with the line where each bites, in `PROJECT.json`.

## Modules

| Module | Models | Uses |
|---|---|---|
| `Platform` | deadlines of the Pico SDK | |
| `BuildOptions` | the build option two components read | |
| `PowerSupervisor` | `power_supervisor.c` | `Platform`, `BuildOptions` |
| `PowerSupervisorTiming` | the same with history variables for its timing promises | `PowerSupervisor` |
| `UsbHidWake` | `usb_hid_wake.c` | `Platform`, `BuildOptions` |
| `Firmware` | `main.c`, composing supervisor, keyboard, bridge switch and configuration | `PowerSupervisor`, `UsbHidWake` |
| `PacketChannel` | abstract: a bounded FIFO, cleared only when closed | |
| `UsbBthBridge` | `usb_bth_bridge.c` in its CYW43 build, its queues and quirks | refines `PacketChannel` |
| `AclReassembly` | `usb_bth_bridge.c`, the fragments of the PC's ACL packets | |
| `StandbyHost` | `hci_host_minimal.c` over `backend_cyw43.c` and `backend_esp32_uart.c` | |
| `RecentList` | abstract: a bounded list in order of use with a saved copy | |
| `WakePeers` | the peers of `wake_policy.c` | refines `RecentList` |
| `AdvertisingReports` | the parsers of `wake_policy.c`, as operators | |
| `AdvertisingReference` | what they have to find, and packets to compare on | `AdvertisingReports` |
| `WakePolicy` | packets, peers and `bootsel_button.c` together | `WakePeers`, `AdvertisingReference` |
| `H4Parser` | `h4_parser.c` | |
| `UartRing` | the receive ring of `backend_esp32_uart.c` | |
| `Esp32Uart`, `MCEsp32Uart` | the receive path: wire, interrupt, ring, task, parser | `UartRing`, `H4Parser`, refines `PacketChannel` |
| `PowerSupervisorProofs` | theorems about the supervisor and its timing | `PowerSupervisorTiming` |
| `UsbBthBridgeProofs` | theorems about the bridge and its refinement | `UsbBthBridge` |
| `FirmwareProofs` | theorems about the composition | `Firmware`, `PowerSupervisorProofs` |
| `AclReassemblyProofs` | theorems about the reassembly | `AclReassembly` |
| `StandbyHostProofs` | theorems about the standby configuration | `StandbyHost` |
| `AdvertisingProofs` | theorems about the parsers, for every packet | `AdvertisingReference` |
| `WakePolicyProofs` | theorems about peers, packets and button, and the refinement of `RecentList` | `WakePolicy`, `AdvertisingProofs` |
| `Esp32UartProofs` | theorems about parser, ring and the whole receive path, and the refinement of `PacketChannel` | `Esp32Uart` |

Definitions beginning with `Faulty` are plausible mistakes in the code. No
specification uses them; they show that each property can fail.

### How the models correspond to the code

**Time.** A deadline (`absolute_time_t`) is a countdown of ticks: setting it stores
a duration, `Tick` subtracts one, `time_reached` is "equals zero". `nil_time` is
time zero, always reached, hence zero as well. In the supervisor any number of
ticks may pass between two calls, except where `PowerSupervisorTiming` bounds
them by `MaxLoopGap`.

**PowerSupervisor.** Each state of the `switch` is one action (`TaskHostOff` to
`TaskShuttingDown`), which samples and debounces both inputs first, as the task
does. The pulse's `sleep_ms` is the only wait inside the task, so WAKE_PULSE is
`StartPulse` and `FinishPulse`, or `SkipPulse` when the button is not built in
or the sense is high. `EnterState` is `set_state`, with its effects on the arming deadline and
on the request. `POWER_STATE_UNKNOWN` is overwritten by `power_supervisor_init`
before the first task and `POWER_STATE_FAULT` is never assigned, so neither is a
value of `state`.

**Firmware.** `pc` names the step of the loop: supervise, mode, (configure),
service, hid, rest. `loopState` is the loop's local `state`, which a wake request
or debug command cannot change until the next turn. Entering standby and retrying
its configuration both go through `configure`, where packets still arrive.
`sessionSince` is a history variable. Bridge and TinyUSB appear only as
`bridgeEnabled`, `usbConnected` and `bus`; `UsbBthBridge` models the bridge itself.

**UsbBthBridge.** The ring towards the host is modelled with its slots and
indices, because TinyUSB reads from a slot after the call that named it; the
ring towards the controller is a sequence, because its slots are only read
inside the call. `phase` splits `usb_bth_bridge_task` at its three parts. Each of the four quirk
commands has a counter of its own, and the code is the same four times, so one of them is
modelled. Any Command Complete with its opcode goes through `DropsDelayed`, also the answer to
the standby host, which sends two of the four itself (LE Set Scan Parameters and LE Set Scan Enable,
`StandbySends`) and stops waiting after a second. `outstanding` and `standbyOwed` count
what the controller has yet to answer to the PC and to the standby host; the answers may come in
any session and any order, or never. A constant `StandbyMax` of 0 makes it one of the two
commands that only the PC sends. `transfer` (what TinyUSB is sending) and the
answers owed are external; `given` and `taken` (counts that answers to the standby host have used up and an answer
to the PC will miss) are history. Data is reduced to what the code distinguishes:
event or ACL packet, quirk command or plain. Large vendor events are dropped by
the code without a step. ACL packets of the PC arrive whole here; `AclReassembly` puts
them together. The stub and
ESP32 builds have no quirks: their behaviours are those in which the host
sends no quirk command and asks for no extended features.

**AclReassembly.** The fragments of a packet arrive one by one, and the turns of the
`while` loop are steps of their own, with nothing in between (`fragment` is what is left
of the fragment in hand). `held` is the used part of the buffer, so its length is
`usb_acl_len`. The PC is external: `rest` is what it has still to send, `due` its
packet. Lengths are computed modulo `Base^2`, as in the parser. `inStep` is history.

**StandbyHost.** `at` is the command the blocking configuration waits for; a step of the
configuration is an answer or a timeout, followed by the next command, whose sending may be
refused by the transport unseen. What the controller has not executed and what the
transport has not delivered are the two queues `commands` and `events`; `own` marks what
belongs to the present try and `flushed` whether the line was empty after its reset, both
history. The reset of a CYW43 is a command of its own with a stricter wait (`AwaitReset`);
that of an ESP32 is a pin, or, in the default build (`PIN_ESP32_RESET` is -1), nothing but
an emptied ring. In that build a scanner the PC left on refuses the scan parameters in every
try, although `docs/standby_hci_host_mode.md` names a reset first; the properties say so
where they except it. `Firmware` keeps only the result of all this.

**WakePolicy.** Packets are bytes, and `PacketMatches` is `wake_policy_packet_matches`
with what it teaches beside its answer; the loops over reports and AD structures are
recursive functions. The option set of the build is a parameter. `ObserveHostPacket` and
`StandbyPacket` are the two calls of `backend_rx`, over a few packets for each address;
a peer is its address type and one byte. Of the answer only the lesson reaches the table;
the wake is `MatchingPacket` of `Firmware`. The button is read by `ReadReleased`,
`ReadPressed` or `HoldFires`; `holdTime` is history.

**WakePeers.** `Remember` is `remember_ble_peer` with its three outcomes; `TaskSaves`,
`SaveRefused`, `Erase`, `Program`, `ProgramFails` are `wake_policy_task` and
`save_known_ble_peers`, cut where the power may fail. A sector that is erased,
half written or corrupted is one value, `NoTable`: the magic number and the
checksum of the loader reject all of them. The checksum is taken to detect every corruption.

**Esp32Uart.** The interrupt (`ByteArrives`) comes between any two steps of the loop, so
`esp32_task` is cut at its accesses to the ring (`TakeByte`, `AdvanceTail`, `FeedParser`) and
the clearing of the two indices into `ClearTail` and `ClearHead`, in the order in which
`rx_head = rx_tail = 0` stores them. A loop that is away from the transport is one
that takes no step. A byte that may not be read any more is `Gone`
from its slot. Controller and wire are external; `inStep` and `expected` are history:
no byte lost since all was at rest, and the packets then due. `H4Parser` keeps the bytes of
header and packet where the code keeps positions, and computes its lengths modulo `Base^2`
as the 16-bit fields do.

## What the runs check

`power` (100 000 states). All pins wired, button wake and debug console built in,
one poll delayed by up to the debounce time. Invariants: `TypeOK`,
`NoWakeInCooldown` (no accepted or started wake falls into an earlier pulse's
cooldown), `ArmDelayHonoured` (no standby or pulse before the arming delay
after a session, unless standby was forced). Actions: `PulsesSpaced`,
`NoPressOnRunningHost`. Liveness: `BridgeFollowsHost` (a host that stays on gets
its adapter for good), `StandbyFollowsOff` (a host that stays off is always
scanned for again). The durations, 1 to 4 ticks, keep the code's order where it
matters: the debounce is shorter than the settle time, the settle time shorter than the boot time. Equal
and smaller durations are covered by the proofs, which assume none of this.

`firmware` (47 000 states). `OneControllerOwner`: the bridge is off from the
first configuration command to the end of standby; it is on only with the bus
connected in host mode; a configuration is never believed in outside standby. `WakeDelivered`: an
accepted wake presses the key unless the host came up by itself or the console forced standby, which drops it.
`StandbyConfigurationRetried`: a failed configuration is repaired.
`WakeKeyReleasedInStandby`: outside a host session the key is let go.

`bridge` (1 002 000 states), for a command that the standby host sends too. `ImplementsChannel`:
towards the host the bridge implements `PacketChannel`; a packet is lost between being accepted and
being given to TinyUSB only in the step that disables the bridge, and packets are neither repeated
nor swapped, although the sent callbacks do not say which packet they are for. `InFlightIsOldest` is
the invariant behind it. `SuppressCovers`: the counter covers the answers the PC's commands are
still owed, but for the counts that late answers to the standby host have used up.
`SecondAnswerForTaken`: only in place of such an answer is the controller's own answer to a command
that the bridge has answered passed on, and at most once for each. That does happen, and is a defect
of the code (`usb_bth_bridge.c:260`): the standby host gives up on an answer, a session begins, the
PC sends the same command and gets the synthesized completion, the late answer is dropped and the
PC's own is passed on. What no property excludes, since the code does it, is that a late answer to
the standby host itself is passed on when the counter is zero: the PC then gets a completion it did
not ask for.

`OldestMovesOn`: no event order leaves the bridge stuck, also not a bus reset that swallows a
callback. Three slots hold two packets, so the ring fills, wraps and is used again; two late answers
make the counter span sessions, and one of them owed to the standby host is what a configuration
leaves, which starts with a reset and sends the command once. The counter saturates at its maximum:
more answers due at one time than it can count (255 in the code) are outside the bound
`OutstandingMax <= SuppressMax`.

`peers` (129 000 states). `ImplementsRecentList`: table and flash are an LRU list
with a copy that is replaced by the present list or lost, never by anything
else, with the power failing at every step. `PeersCompact`: used entries are a
prefix of distinct peers. `StoreIsCurrent`: when no save is due or running and
the last did not fail, the flash holds the table. `DirtyIsSaved`: once the order
stops changing, the save is not put off by the newest peer being seen again. (Two
peers seen in turn change the order each time and do put it off, for as long as
they keep on: every change moves the deadline.) `ReportsAgree`: over two layouts, all
pairs of ten AD structures, all options about them, and triples of reports cut at every
byte and claimed in a wrong number, under each table, the bytes are read as
`AdvertisingReference` means them: the first whole report with a reason decides and
only its own peer is learned; directed reports, cut likewise, are counted by their stride. `ClearsAfterHold`: BOOTSEL clears only after reads that were
all pressed and span the hold time less one poll, and once for each hold.
`HeldButtonClears`: a held button whose reads are not refused clears in the end. (The
button is sampled: that it was released between two reads is not seen.) Four peers and three entries make eviction, refresh and relearning
happen; two peers differ in their address type only. A hold of three polls of one tick is the
shortest that has a first, a middle and a last read.

`standby` (293 000 states), with all three builds. `ResetFlushes`: after a reset that was answered in its own try, whatever is under way belongs to this
try, whose commands all differ, so no late answer is taken for another. `ConfiguredScans`: then
a success means that the scanner is on. Without such a reset it may not be: a late
answer of an earlier try can be taken for the present one, and for the reset itself, which is why both properties
have `flushed` as a premise. `ScannerOffWhenConfigured`: scan parameters find the scanner off, whatever the PC
left behind. `ConfigurationSucceeds`: once the controller answers in time, the tries after it get through whatever is
left in the line. Four commands or answers under way span two tries (a late reset, its
repetition, a command of each); the receive loop takes two packets at a time instead of eight, so that it stops
before the last.

`acl` (56 000 states). `AclStreamWhole`: until a fragment is lost or a packet
abandoned by a bus reset, what is gathered, in hand and still to come is the packet being sent, and what
is queued is as it was sent; a session that begins between two packets is in step again,
since disabling clears the buffer. A bus reset alone does not: the fragment after it is joined to what was
gathered, and nothing in the protocol forces the bridge back into step before the next session. What still
holds then is `TypeOK` (the buffer is not overrun) and `AclLengthsHonest` (a queued
packet is as long as its header says). Byte values 0 to 3, a buffer of 8 and fragments of 5 make lengths that fit, that are too long and that
wrap, and packets of one fragment and of two, whose second can be read as a header.

`uart` (1 750 000 states). `ImplementsByteChannel`: the ring implements
`PacketChannel` for bytes, a byte is lost only on arrival and the ring only by a reset, whenever the
interrupt comes. `StreamWhole` and `DeliveredAsSent`: until a byte is lost, parser, ring and wire
together hold exactly the packets due, and they are delivered as sent. Once out of step, which an
overflow, a damaged byte or a reset in mid-packet brings about, nothing in the
protocol forces the parser back into step, and packets that were never sent are delivered;
what still holds is `UTypeOK` (nothing is written past the storage), `LengthsHonest` (a packet is as
long as its header says, although a length near 65535 wraps: the end of the storage
ends it) and `AlwaysBack` (the parser does not hang). Bytes 0 to 4 include
the packet types; the storage of 6 bytes is just filled by one packet, whose bytes,
read out of step, are also a header with a wrapping length; three slots make the ring fill and
wrap. SCO packets, which the parser treats alike with another header length, are not sent.

### Where the code departs from its documentation

| Run | What TLC finds |
|---|---|
| `power_sense` | host mode is entered on the sense input at once after a pulse; README.md says it is trusted again after ten seconds |
| `key_released` | a wake key pressed just before the host comes up stays down for the whole session, since the keyboard task is not called in host mode |
| `key_fresh` | a key press requested for one wake and not sent is sent after a later host session, with no new wake |
| `bridge_slots` | after a transmission timeout, or disabling and enabling, a slot is refilled while TinyUSB still sends from it |
| `peers_flash` | a save that failed is not repeated, so learned peers may not survive a power cycle |

### Fairness

`TFairSpec`: the task is called for ever and time passes for ever; both follow from the loop and the clock.
`FFairSpec` adds two strong conditions on the outside: a controller asked again
and again to be configured sometimes accepts, and a host that is offered a key report again and
again sometimes polls. The bridge's `FairSpec` states that the loop keeps calling
the task (strongly, since a callback or an unready bus can disable it in
between), that time passes, and that the host sometimes reads an endpoint that
is offered again and again; a host that reads never is not excluded from safety.
`WakePolicy`: the tasks are called in every turn (the button's strongly, since a save may
come between), a flash operation ends, time passes. `StandbyHost`: a configuration that failed is repeated, a wait ends by an answer or
by its deadline, the idle loop polls; nothing is asked of the controller, whose recovery is a premise of
`ConfigurationSucceeds`. `Esp32Uart`: the loop does not stop within
the task; that bytes keep coming is a premise of `AlwaysBack`. No fairness
is put on the world: pins, packets, commands, power failures.

## What is proved

`PowerSupervisorProofs`, for all build options and all durations, equal and zero
ones included: `SupervisorInv` is inductive, with `TypeOK` and
`NoWakeInCooldown` as its consequences. `NoWakeInCooldown` is not inductive
alone: a request alive in the settling state would meet the new cooldown, so
`RequestsInPlace` says in which states a request can be alive, and
`PressedInPulse` that the button is down only in WAKE_PULSE, which makes
`FinishPulse` harmless to the others.

The same module, for all values of these constants and of `MaxLoopGap`:
`TSpec => Spec` (the history only watches), the inductive `TimingInv`, and from
it `ArmDelayHonoured`, `PulsesSpaced` and `NoPressOnRunningHost`. The argument
relates each countdown of the code to the time that has really passed:
`CooldownCounts` (time since release plus cooldown left make up the settle time),
`ArmingCounts` (time since the session plus what the arming deadline still owes
make up the delay), `SenseLag` (how far the filtered sense can lag behind a
high pin, as a function of the debounce timer and of the time since the last
poll). The assumptions are those of the modules: durations are natural numbers,
options Boolean, and the loop gap is positive and not shorter than a pulse.

`UsbBthBridgeProofs`, for every depth of the rings, timeout and maximum of the
counter: `BridgeInv` (`TypeOK`, `InFlightIsOldest`, `SuppressCovers`, `OwnKeepsCounts`) is
inductive. The second part is what makes order hold: the callbacks do not name
their packet, so they are right only if the packet in flight is at the tail. An answer to the PC is
passed on only when the counter is zero, and then `SuppressCovers` says that a count was taken: hence
`SecondAnswerForTaken`. `OwnKeepsCounts` says that nothing is taken if the standby host never sends the
command, and so `NoSecondAnswer` follows from the assumption `StandbyMax = 0`, which describes Write Simple Pairing Mode and
LE Set Random Address; for the other two commands it is false. For `ImplementsChannel`, the ring seen
from tail to head is the channel's queue, a push appends to that view and a drop
takes its head (lemmas `QueuedPush`, `QueuedDrop`), and every other step
leaves the view alone. The assumptions are those of `BridgeBounds`, which include that
the controller owes at most as many late answers as the counter counts.

`FirmwareProofs`, for all options and durations: `FSpec => Spec`, so all that is
proved of the supervisor holds of the whole loop; `OneControllerOwner`; the types.
`OneControllerOwner` needs `LoopInPlace`: the loop compares its last state with the
present one, so the handler that disables the bridge runs only if no two
transitions fall between two comparisons. `OneTransition` states which
states can follow one turn, and that the pulse, which waits inside the task,
does not break this.

`AclReassemblyProofs`, for every buffer, endpoint and byte size with
`ReassemblyBounds` (a header fits the endpoint and the buffer, and the buffer is
shorter than the 16-bit lengths can say): `AclInv` is inductive, with `TypeOK`,
`AclStreamWhole` and `AclLengthsHonest` as parts. It needs `HeldHonest`, that
`usb_acl_expected` is at all times what the gathered header says and was accepted, so
that gathering stops within the buffer although the sum may have wrapped, and
`InStepFragments`, that in step a first fragment brings a whole header. From it
follows also `NoDropInStep`: a fragment is thrown away only out of step.

`StandbyHostProofs`, for every set of builds, every bound on what is under way and on
the receive loop: `HostInv` is inductive. Its parts say how the line looks: a reset is
the last of the commands of its try that the controller has not executed when it
flushes (`ResetIsLast`, `NoOtherReset`), own commands are in the order of the script
(`OwnAreSent`, `OwnInOrder`), older ones are followed by the reset
(`OlderBeforeReset`), and a scanner that runs before the end of the script has the
reset still before it (`ScannerIsReset`). They give `ResetFlushes`, `ConfiguredScans` and
`ScannerOffWhenConfigured`. None of the three is inductive alone: that an answer is of
this try says nothing of the commands that are still to answer.

`WakePolicyProofs`, for every set of peers, size of the table and save delay, and every
poll interval and hold: `PeerInv` (types, `PeersCompact`, `StoreIsCurrent`, and that
an erased sector holds no table, without which a failing programming step would break
the third) is inductive, and `PolicySpec => Spec`, so packets, button and tasks do nothing to the
peers that `WakePeers` does not say. `TableIsRecentList` is the
refinement of `RecentList`: `Count`, the search and the three outcomes of
`remember_ble_peer` are, on a compact table, appending, moving to the end and
dropping the first of the abstract list. `PacketsTeachPeers` joins the parsers to
the table: the packets of a session and of standby teach only members of `Peer`, because
each teaches at most the peer that one of its reports names. `ReportsAlwaysAgree` is
`ReportsAgree` for every table that can be learned. `ButtonInv` relates the count of polls to the
time they have spanned (`HoldClock`: at least `pressed - 1` intervals and the age
of the last poll) and gives `ClearsAfterHold`. Assumed are the modules' `PeerBounds`
and `PolicyBounds`, and `AddressesArePeers`: the four devices whose packets the model
sends are in `Peer`.

`AdvertisingProofs`, for every packet, whatever the build options and the table. Two
theorems say what the loops of `wake_policy.c` do with any bytes at all:
`FirstStructureDecides` and `FirstReportDecides`: of the structures (the whole and
claimed reports) that follow each other by their own lengths, the first that is a reason
decides. Over these, `DataReadAsMeant`, `PacketsReadAsMeant` and `DirectedReadAsMeant` say
that what `AdvertisingReference` puts into bytes is judged as it was meant: any number of
structures in a report, of reports in a packet, any event and address, any claimed
number, any cut. Only the single structure is one of the ten of `Structure`, which stand for
the ways a name, a service or an appearance can match or just fail to. The argument has
three parts. The parsers are recursive functions, that is, the `CHOOSE` of their
equation, so first the equation has to have a solution (`ScanExists`,
`CountedScanExists`): each step goes on to a later byte, or counts down the
claimed reports. Then a run of answers that each yield to the next is decided by the
first that wakes (`ChainDecides`). Last, `FlattenSeq` puts each sequence behind the ones
before it (`FlattenPlaces`), so the parser's next place is where the next structure or
report was put (`CountingRead`, `ReportRead`). No induction theorem is needed for any
of this: that a non-empty set of numbers has a least member (`LeastExists`), applied to the set of
counterexamples, does its work.

`Esp32UartProofs`, for every ring of two slots or more, every storage that takes a header
and is shorter than the 16-bit length can say, every base above the packet types and all
well-formed packets that fit the storage: `UInv` is inductive, with the interrupt
between any two steps of the loop. `RingInv` says that what waits between tail and
head was received, that `took` stands on a filled slot, and that a ring that is being
cleared has its tail at 0, so the interrupt cannot bring back what was cleared. With the
view of the ring from tail to head (lemmas `IrqAppends`, `TakeTakes`, `AdvanceKeeps`,
`ClearEmpties`) that is the refinement of `PacketChannel`. `ParserInv` adds to
the types that the length a payload is read to is what its header says modulo
16 bits (`PayloadHonest`); a packet longer than its header that has just this length has
the length meant (`SaidIsMeant`), which is why the wrapping does no harm. `StreamWhole`
needs `HeldIsPart`: in step the parser has begun, and not ended, the first
packet due. Then every byte it is fed continues or ends that packet (`FeedInStep`), and
`DeliveredAsSent` and the type of `expected` follow; both fail without it, since a
parser that ends a packet too many would take the tail of an empty sequence.

For the proofs some definitions were given another form, with the same meaning: the
position of the answer in a receive batch is picked from a set (`Answers`), `RecentList`
removes a peer by its position, and `StreamWhole` of the UART says where each
packet ends instead of flattening a sequence. The loops over a packet are functions of a position, and
of the reports left, with every position in their domain, and `Extent` is the length of the
first reports put into bytes. `ClearsAfterHold` is stated with
`Spanned` and so also holds when one poll is enough.

Only model-checked is liveness (`BridgeFollowsHost`, `StandbyFollowsOff`, `WakeDelivered`,
`StandbyConfigurationRetried`, `WakeKeyReleasedInStandby`, `OldestMovesOn`, `DirtyIsSaved`,
`HeldButtonClears`, `ConfigurationSucceeds`, `AlwaysBack`): fairness and `ENABLED` are out
of the prover's reach. Every invariant and every other action property, and all
three refinements, of the runs that pass are theorems.

## Plan

Done: the power supervisor with its timing, the loop with the keyboard, the bridge's
queues, the composition's owner, the peers with the packets that teach them and the
button that clears them, the advertisement parsers, the UART receive path, the standby
host, the reassembly of ACL packets, and the proofs of all their safety properties.
Left: the completions that a full queue towards the host loses while the
controller's own are suppressed, and the commands a session leaves unanswered, which need
a model of the PC's driver.

Not modelled: USB descriptors, the CMake files beyond their options, the stub
backend, the power-up exchange of the CYW43, the log ring and the console's line
buffer, status LEDs, log texts, and the PC-side scripts, none of which
keeps state the rest depends on.
