# Verification of lxa-iobus in TLA+

`lxa-iobus` is a server that talks CANopen (SDO, LSS) to small devices on a CAN
bus, lists them, sets and reads their pins, updates their firmware, and offers
all that over HTTP. This directory holds TLA+ modules that model the server's
logic, TLC configurations that check them on small instances, and proofs that
TLAPS checks for every value of the constants. Paths below are relative to
`src/`; line numbers are those of the modelled commit.

`PROJECT.json` has the machine-readable form: which definition models which
lines (`map`), the runs, the mutants that show that each property can fail, the
hazards, the findings and the theorems.

## 1. The system

### Components

| Component | State | Operations | Module |
|---|---|---|---|
| SDO client, `lxa_iobus/node/bus_node.py` | asyncio lock, one pending future, locals of the transfer | `sdo_read`, `sdo_write`, `set_sdo_response` (receive thread) | `SdoClient` |
| LSS master, `lxa_iobus/network.py` 252-508 | pending LSS future, known bits, cache of addresses | `lss_request`, `_fast_scan`, `fast_scan_known_range_all`, one round of `lss_fast_scan` | `FastScan` |
| Bus connection, `network.py` 42-250, 413-571 | `nodes`, `interface_state`, `_running`, id generator, two threads, three tasks | `run`, `update_interface_state`, `lss_fast_scan`, `lss_ping`, `shutdown` | `Network` |
| Firmware updates, `server/server.py` 161-191, 750-781, `lpc11xxcanisp/can_isp.py` | job queue, the current job, protocol position | `firmware_update`, `flash_worker`, `invoke_isp`, `flash_image`, `reset` | `Flash` |
| Pin and locator control, `server/server.py` 40-81, 483-640, 707-748, `node/object_directory.py` 476-590, 770-792 | cached `locator_state`, last message of a stream | `set_pin`, `toggle_locator`, `ping`, pin-info stream | `Controls` |
| Object directory, `node/object_directory.py`, `node/base_node.py`, `network.py` 209-250, 485-508 | objects of a node, their caches, `_node_in_setup`, the list | `scan`, `_try_protocol_setup`, `info`, `ping`, `recv` | `Directory` |
| Status stream, `server/server.py` 286-349 | iteration over `nodes`, message | `get_status` | `Directory` |
| ISP console, `server/server.py` 134-159, 351-376 | ring of 100 lines, one queue per reader | log, stream with `Last-Event-ID` | planned |
| Lists and raw SDO access, `server/server.py` 193-280, 378-480 | none of their own | `get_nodes`, `get_node`, ... | not modelled, see section 6 |
| Sender and receiver threads, `network.py` 163-250 | outgoing queue, socket | `send`, `recv` | `SdoClient` (one node), `Directory` (which node), `Network` (their ends) |
| Address cache file, product table, HTTP client, command line, web pages | - | - | not modelled, see section 6 |

The devices are external: their SDO server, LSS slave, boot loader, output
register, locator LED and button are modelled from the way the code uses them
and from CiA 301, CiA 305 and the LPC11Cxx boot loader that the code names.
The map marks those definitions `external`.

### Interactions

* REST handlers, the status stream, the ping task and the update worker are
  asyncio tasks that call `sdo_read` and `sdo_write` of the same node object;
  its lock orders them.
* Two threads connect the event loop with the socket. `send` takes frames from
  an outgoing queue; `recv` completes futures of the event loop from outside.
* `lss_fast_scan` adds nodes to `LxaNetwork.nodes`, `lss_ping` removes them,
  streams and handlers look them up, and a queued update keeps a node object
  without looking it up again.
* Node ids tie it together. The scan hands them out; a device that was
  reset, or that was not polled for a while, gives its id up; whoever has the id
  answers to it. While a device is in its boot loader it answers to a fixed id.

### What is hard

* *Interleaving*: the receive thread tests a future and sets it while the event
  loop may cancel it; requests for one node wait for each other between the
  exchanges of one command, not only between commands.
* *Late and lost frames*: every request has a time-out, replies carry little that
  tells what they answer, and the send thread drops frames.
* *Distributed search*: the bitwise LSS scan has half of its state in devices
  that join, leave and miss requests.
* *Stale references*: cached locator state, cached names and versions, queued
  updates, ids in the list, a node object that is looked up twice.
* *Failure of one step of many*: a device unplugged during set-up, an interface
  that goes down, an update cut off between two blocks.
* *Ends*: five tasks and two threads have to see a shutdown or an outage before
  `run` returns or connects again.

`hazards` in PROJECT.json lists each at its line with the properties about it.

### What makes each component correct

* SDO client: a read returns one content the object really had during the call,
  a write that returns has written, calls never take each other's replies, and
  every call ends.
* LSS master: an address the scan returns belongs to the one device that is now
  selected; only that device takes the id that follows; no device is missed.
* Bus connection: no two devices answer to a listed id; the list follows the bus;
  an outage and a shutdown are each dealt with completely.
* Object directory: an entry appears complete and goes as a whole, with objects
  of its own device; what fails costs one protocol; cached values are those of
  the firmware that runs; replies find their node object.
* Status stream: what it shows of a node is of one firmware. That a message is the
  list of one moment is neither promised nor so (section 4).
* Firmware updates: only the asked-for device is written; what is written is in
  its place; the configuration sector is never touched; the job ends.
* Controls: commands for different pins do not disturb each other, the cached
  locator state is right, the page comes to show the truth.

## 2. Modules

| Module | What it is |
|---|---|
| `SdoClient` | the SDO client of one node, its future, the receive thread, the bus and the device's SDO server |
| `SdoStore` | what callers of the client may rely on: an object store with whole reads and writes |
| `FastScan` | one scan after the other for devices without a node id |
| `Network` | the life of a bus connection: all tasks of `LxaNetwork.run` |
| `Directory` | the objects of a node from the id of its device to the end of its entry, and who reads them |
| `Inventory` | what handlers may rely on when they look into the list of nodes |
| `Flash` | firmware updates from the button to the device's return |
| `Controls` | pins, locator and page of one node |
| `MC...` | model values and small constants for TLC |
| `SdoClientProofs`, `FastScanProofs`, `NetworkProofs`, `DirectoryProofs`, `FlashProofs`, `ControlsProofs` | theorems about the module of that name |
| `SdoTransferProofs` | builds on `SdoClientProofs`: what a transfer delivers, and the refinement of `SdoStore` |
| `FlashUpdateProofs` | builds on `FlashProofs`: which device and which sectors an update writes |

The modules are layers. `SdoClient` says what a single read or write does;
`Network`, `Flash` and `Controls` take that as one step (or as request and
reply) with an outcome. `FastScan` says what one search does; `Network` takes
it as the step "search". `Directory` takes the steps between "found" and
"listed", and from one ping to the next, apart into single exchanges, which
`Network` has as one outcome each. `Network` says how ids are given and taken; `Flash` has
that as `Join` and `Drop`. Each layer's properties are what the next relies on:
`ImplementsStore` and `OneAtATime`, `FoundIsSelected`, `OnlyFoundTakesId` and
`EveryNodeGetsId`, `ListedIsAddressed` and `GoneLeaveList`, `ImplementsInventory`.

### State and actions against the code

**SdoClient.** `lock` is the asyncio lock, holder first and waiters in FIFO
order; `pc[t]` says whether task `t` is outside, waits for the lock or awaits the
future; `pending` and `answer` are the future and its result; `xfer` holds the
locals of `sdo_read`/`sdo_write` that live across an await. `Enter*` is the
call up to the lock; `Start` takes the lock and sends the initiate frame;
`ReadInitiated`, `ReadSegment`, `WriteInitiated`, `WriteSegment` are the code
from one await to the next, errors included; `Timeout` is `wait_for` giving up.
`RxCheck` and `RxSet` are the two halves of `set_sdo_response` in the receive
thread, which are not atomic with respect to the event loop; the second one ends
the process when the future was cancelled in between. Bytes are triples (object,
content, index), so that a mixture of two contents is visible. The history
`seen[t]` collects what the object of a call held while the call was under way.

**FastScan.** An address part is the set of its one-bits. The master's
variables `lss`, `mask`, `sub`, `bit` are the locals of `_fast_scan`, `stage`
the three searches of `fast_scan_known_range_all`, `phase` the request due next.
Each request action contains the slaves' reaction and the reply, or the time-out
(`LssRequest`); `late` holds replies that are still on their way when the request
has timed out, and `Arrive` lets them complete the next request. Slaves
join and leave between any two requests.

**Network.** One variable per task that `run` gathers: `watch`, `threads`,
`scan`, `ping`; `run` itself; `running` and `ifState`, the two flags all of them
poll; `nodes`. A device's own id `devId` is apart from the id under which the
server lists it; the difference is what the properties are about. `Connected`
has what a step of a task does when the interface is up, `Exchange` that a
request succeeds, is lost, or runs into a device that is gone.

**Directory.** Node objects are numbered as they are made; `node[k]` has the
objects of its directory (`od`), those whose exchange was lost (`lost`, history)
and its caches (`info`). `call[k]` is the exchange for which node object `k` is
locked, with the task that holds the lock and the reply once it has come. `Reads`
is the table of the exchanges of `scan` and the `new` of every class; `plan` is
what is left of it for the node in set-up. `RxTake` and `RxGive` (or `RxCrash`)
are the test and the use in `recv`, between which the event loop runs. `Ask` sends
a request, which every device with that id answers (`Hearing`). `PingFromCache` is
a ping that a cache answers, as `add_sub` has it. `StatusGoesOn` runs the loop of
`get_status` to its next await: it takes along the entries whose values are
cached, stops at the first one to be read, and fails where the iterator of a dict
does, when the size differs from that at the start or when it has offered that
many entries and there is one more. The iterator keeps a position among slots,
which are not given back when an entry is deleted; an insertion that finds no slot
left moves the entries up, and the iterator passes over some of them without a word
(`Passed`; `Came` tells whether anything was inserted). When the slots are used up
is left open, so after every insertion the position may be any later one. What the
loop collects into the message is not modelled, nor are the reads of pins that may
come between the loop and the push.
`fw` is renewed whenever a device returns, so that a cached value of an earlier
firmware is visible. `stray` and `late` say that exchanges were mixed up: a request
reached a device it was not meant for, or a reply came after its time-out.

**Inventory.** The list as its readers see it: an entry per id, with its device
and objects; `Add`, `Remove`, and nothing else.

**Flash.** `step` and `block` are the position of the worker in `invoke_isp`,
`flash_image` and `reset`: an action is an SDO write of the boot loader protocol
together with those that only prepare it (the addresses of `write_to_ram`,
`copy_ram_to_flash` and `go`, the unlock of `isp_exec`). That an image leaves the
configuration sector free (`can_isp.py:405-417`) is an assumption on `Blocks`.
A request to the boot loader reaches every device that is in it, with its own
lock, prepared sectors and RAM, as the fixed id makes them do (`Take`). The
contents of a sector are a block of somebody's firmware, erased, the factory's,
or garbage when it was written without having been erased. A device that is reset
starts its firmware when block 0 is there.

**Controls.** An SDO exchange has two steps, the request the node carries out
(`Ask`) and the resumption of its caller (`Answered`, `Failed`); `busy` is the
holder of the node's lock. `toggle` is two exchanges, a ping reads the locator,
the stream takes the cached locator state first and the outputs later, as
`_get_pin_info_once` does. `last` and `unsure` are history variables: what each
pin was last set to, and whether anybody can know the LED's state.

## 3. Runs

`tlc -config <run>.cfg <module>` repeats each. Every listed property has a
mutant in PROJECT.json: a plausible bug in one definition that makes TLC find
that property violated under the same configuration.

| Run | Question | States | Bounds |
|---|---|---|---|
| `MCSdoTimely` | Are reads whole and fresh, writes carried out, requests and replies in step, does every call end, and is the client an object store, when frames get lost? | 45k | 2 tasks, 1 object, which the node changes too, contents of one frame and of two full segments, at most 3 frames under way |
| `MCSdoLate` | What is left when replies come after their time-out, and do calls still end? | 145k | 1 task, 2 objects, one-frame contents |
| `MCSdoToggle` | Does a wrong toggle bit end a read? (violated) | - | 1 task, segmented contents |
| `MCFastScan` | Is the device found the one selected, alone, and is none missed? | 55k | 3 devices, 2 parts of 2 bits, 1 cached address, 1 unplug, good or lossy bus |
| `MCNetworkServes` | Are ids unique, does the list follow the bus, does shutdown end everything? | 59k | 2 devices, 3 ids to give and one refused, 2 unplugs, no loss |
| `MCNetworkOutage` | Is an outage overcome, from a clean start? | 309k | 2 devices, one of them without enumeration, refusals, 1 loss, 1 unplug, 1 outage |
| `MCNetworkUnplug` | Does the server go on listing after a device is unplugged in set-up? (violated) | - | 2 devices |
| `MCDirectory` | Does the receive thread find its nodes, is an error contained, are caches current, is what one node object has collected of one firmware, do entries come and go as a whole, does a stale one go? | 215k | 2 devices, one without locator and with a protocol of the wrong version, one with a protocol the server does not know, 2 ids, 2 node objects, 1 upset |
| `MCFlash` | Is the right device written, in place, completely; is the configuration safe; do updates end? | 77k | 3 devices, one without boot loader object, 4 sectors, images of 3 and 1 blocks, 2 jobs, one fault of any kind |
| `MCFlashStale` | Does the update button update its own node? (violated) | - | 2 devices, 2 jobs, no loss |
| `MCControls` | Is the cached locator state right, do commands keep to their pins, does the page come to show the truth? | 294k | 2 requests, 2 pins, 2 commands, one press or lost message |
| `MCControlsToggle` | Does toggling a pin invert it? (violated) | - | 2 requests, 2 pins, 2 commands |

Why the bounds are enough to be of interest:

* Two tasks make the lock necessary, two objects make confusions of late replies
  visible (replies that come in time are those of the pending request, whatever
  its object, by the theorem `InStep`), and two segments (one of them the last) exercise both toggle values, offsets and
  the end of a transfer. `even` fills its last segment exactly, `long` does
  not; a frame carries one byte or two instead of four and seven, which keeps
  the case distinctions and shortens the sequences.
* Two parts of two bits contain every case of the search: a first and a last
  part, a first, a middle (after one test) and a last bit, and addresses that
  share prefixes. One address is outside the range mask, one is cached.
* Id 2 is the boot loader's and the last id is one that is offered and then
  refused, as 125 and 128 are in the code, so that both gaps are met with two
  devices.
* Two node objects are two devices at the same time, or one that left and came
  back with another firmware under the same or another id; the two devices differ
  in what ping asks for, and cover a class without `new`, one that raises, one
  that takes two exchanges and an unknown protocol. One upset is a lost request or
  reply, a late reply, or a device that leaves at any point of any exchange. Once
  exchanges are mixed up (`Mixed`), the calls under way are followed to their
  ends and no new ones begin.
* Three sectors and the configuration sector let an image fill all it may;
  one fault at a time already reaches a device left in its boot loader, a
  queued job that is out of date, and a firmware that starts incomplete.
* Two requests overlap in every way the exchanges of two commands can.

No run uses `SYMMETRY`: most check liveness, for which it would be unsound.
`CHECK_DEADLOCK FALSE` stands where the program may stop: the process ends
(`alive`, `killed`), `run` has returned, or a bound is used up.

### Fairness

* Tasks and threads (`SdoClient`, `Network`): weak fairness for each task's next
  step. Every await in the code ends in a reply or in a time-out
  (`bus_node.py:46`, `network.py:262-278`), sleeps are finite, and the event loop
  runs what is ready. Nothing is assumed about replies: they may always be
  lost when the configuration says so.
* The lock (`SdoClient`) needs no assumption: asyncio's lock is FIFO and modelled
  so. `Controls` leaves the order of waiters open and assumes strong
  fairness of the exchanges instead, which FIFO order implies.
* `Network`: the interface comes up again (`InterfaceUp`), without which the
  server waits for it, as it should; and a device that nobody polls gives its id
  up (`Expire`; docstring of `ServerTimeout`, `object_directory.py:907`), without
  which a device that was taken off the list while it kept its id would answer
  to no scan.
* `Directory`: the receive thread and the status request go on (weak fairness), the
  ping gets its turn at the lock of a node (strong fairness, which the FIFO order
  of the lock implies). The scan may hang.
* `Flash`: the worker goes on, scans find devices, pings find out that nobody
  answers.
* Nothing is assumed of users, of devices that are plugged, of power, nor of
  what the bus loses.

## 4. Findings

Each is a run that TLC ends with a counterexample (`findings` in PROJECT.json).

1. `MCSdoToggle`: `sdo_read` builds an exception for a wrong toggle bit and does
   not raise it (`bus_node.py:142-148`), so a late segment of an earlier read is
   taken into a later one.
2. `MCNetworkUnplug`: a device that stops answering while it is set up raises a
   `TimeoutError` through `lss_fast_scan` out of `run`; the process stays up but
   lists no device any more.
3. `MCFlashStale`: a queued update addresses a node id, not a device. Clicked
   twice, an update can write the firmware of one device into another one.
4. `MCControlsToggle`: two overlapping toggles of a pin invert it once.

Met while modelling and without a run of their own:

* With late LSS replies a scan can return an address that no device has
  (`network.py:281`, against the docstring at 326-328). `FoundIsSelected`, and
  its theorem, therefore say "unless replies come late".
* `object_directory.py:969` formats `node.node`, which no node class has: a device
  without protocol enumeration ends the scan by an `AttributeError`. `Network` has
  it as `EnumerateRefused`.
* When an LSS switch or invalidate request is lost, `lss_fast_scan` logs it and
  goes on, and two devices can come to answer to one listed id.
  `ListedIsAddressed` is about a bus that loses nothing.
* "Flashing done" (`doc/source/upgrade.rst:63-64`) can be logged for another device
  after two lost messages, because `invoke_isp` takes any time-out for success.
  `DoneMeansFlashed` is about updates that nothing disturbs.
* The receive thread ends the process when a reply meets the time-out of its
  own request (`RxSet` with `alive' = FALSE`, reached with late replies in
  `MCSdoLate`), and when a late reply is looked up while the ping takes its node off
  the list (`RxCrash`, `network.py:236-240`).
* A status message need not be the list of any moment (`server.py:324`). The loop
  awaits between the entries of a dict that other tasks change. A changed size ends
  the request with a `RuntimeError`, but one entry that goes and one that comes leave
  the size. If the five slots of the dict hold A, B, two deleted entries and C, and
  during the read of C the ping drops B and the scan lists D, the insertion moves
  the entries up to A, C, D; the position of the iterator is past the last of them,
  and the message has A, B, C. An entry that is listed throughout can be passed over
  in the same way. With pins in the query the push comes after more
  awaits (`server.py:331-339`), and a message for which only the pins are due repeats
  the nodes of the message before. `StatusGoesOn` has the iterator; no document
  promises a consistent message, so no property does either.
* A node without a locator is pinged by its name, which is cached: from the second
  round on the ping is answered without the bus (`base_node.py:32-35`,
  `object_directory.py:299-301`) and the node is never taken off the list. When its
  device comes back it is listed a second time, under another id and the same
  name. `StaleLeave` is therefore about nodes with a locator.
* A ping whose one reply is lost frees the id of a device that still answers to it.
  The next device found gets that id, both answer, and the objects of one may be
  entered for the other. `Directory` has this as `stray`.
* `ServerTimeout.enable` and `disable` (`object_directory.py:940-944`) create the
  coroutine of `set_status` and do not await it, so they send nothing.

## 5. Proofs

All theorems are about `Spec`, without fairness, and hold for every value of the
constants that the `ASSUME` of the module admits. Each is an inductive invariant
`Init => Inv`, `Inv /\ [Next]_vars => Inv'`, with one lemma or step per action.
Every safety invariant, action property and refinement that a passing run checks
is a theorem; the runs show that they are not true for want of interesting states,
and check what the provers cannot.

| Theorem | Says | Inductive invariant |
|---|---|---|
| `SdoClientProofs!TypeCorrect`, `InStep` | types; at most one request or reply under way per node (`OneAtATime`) | `IInv` = `TypeOK`, `Calling`, `HolderAwaits`, `WriteLeft`, `OneAtATime` |
| `SdoTransferProofs!ReadsAreFresh`, `WritesTakeEffect` | `ReadIsFresh`, `WriteTookEffect`, assuming `~MayBeLate` | `XInv` = `IInv`, `SeesObject`, `Exchange`, `ReadIsFresh`, `WriteTookEffect` |
| `SdoTransferProofs!ClientImplementsStore` | every behaviour of the client is one of `SdoStore` (`ImplementsStore`), assuming `~MayBeLate`: a refinement proved in full | `XInv` |
| `SdoTransferProofs!ShortReadsAreOfTheirObject` | `ExpeditedReadIsOfItsObject`, with late replies | `ShortInv` = `IInv`, `ObjectsShort`, `FramesShort`, `CallsOpen` |
| `FastScanProofs!ScanTypeCorrect`, `ScanIsSound` | types; a returned address is that of a selected device (`FoundIsSelected`) | `SInv` = `TypeOK`, `Progress`, `Prompt`, and `Agreement` unless replies come late |
| `FastScanProofs!IdGoesToFound` | on a good bus, only the device found takes the id (`OnlyFoundTakesId`) | `SInv`, and `Exact` on a good bus |
| `FastScanProofs!FullScanAlwaysFinds` | on a good bus a full scan does not fail while all stay (`FullScanFinds`) | `SInv`, and `Full` = `StillThere`, `AllIsSearched`, `SomeFits` until a device leaves |
| `NetworkProofs!NetworkTypeCorrect` | types; the boot loader's id is never listed | `TypeOK` alone |
| `NetworkProofs!StartsAreFresh` | a new connection starts from an empty list (`FreshStart`), with losses and outages | `Fresh` = `NothingYet`, `SetupOver` |
| `NetworkProofs!IdsAreUnique` | no second device answers to a listed id (`ListedIsAddressed`), assuming `MaxLosses = 0` and `MaxDowns = 0` | `NInv` = `TypeOK`, `Steady`, `Addressing` |
| `DirectoryProofs!DirectoryTypeCorrect` | types | `TypeOK`, `Shape` |
| `DirectoryProofs!ReceiverAlwaysSurvives`, `FailuresAlwaysContained`, `InfoAlwaysCurrent`, `InfoAlwaysOfOneFirmware` | `ReceiverSurvives`, `FailuresAreContained`, `InfoIsCurrent`, `InfoIsOfOneFirmware` | `IInv` = `TypeOK`, `Shape`, and unless exchanges are mixed up `Traffic`, `Current`, `Whole`, `Built` |
| `DirectoryProofs!DirectoryImplementsInventory` | every behaviour is one of `Inventory` (`ImplementsInventory`): a refinement proved in full | `IInv` |
| `FlashProofs!FlashTypeCorrect`, `ConfigIsSafe` | types; the configuration sector never changes (`ConfigSurvives`) | `FInv` = `TypeOK`, `ConfigSurvives` |
| `FlashUpdateProofs!BlocksGoInPlace` | `BlocksInPlace`, whatever goes wrong | `PInv` = `FInv`, `BlocksInPlace`, `InStepWithJob` |
| `FlashUpdateProofs!OnlyItsNodeWritten`, `DoneIsFlashed` | `OnlyTargetWritten`, `DoneMeansFlashed` | `UInv` = `PInv`, and until something disturbs it `Alone`, `Queued`, `Progress` |
| `ControlsProofs!ControlsTypeCorrect`, `CacheIsTrue`, `PinsAreApart` | types; `LocatorIsCached`; `PinsKeepLastCommand` | `CInv` = `TypeOK`, `PinsKeepLastCommand`, `Held`, `Known` |

Why the strengthenings are needed:

* `OneAtATime` is not inductive alone: that a new request goes out only when none
  is under way rests on `HolderAwaits` (whoever awaits is at the head of the
  lock's queue, so only one task does). `Calling` and `WriteLeft` give
  the frames their types: a segmented write has `left = Len(data) - segment *
  PacketSize` bytes to go, so every segment lies within the data.
* `Exchange` says what the one frame under way means: a request fits where its
  caller stands and the node expects it; a reply fits the request, and what the
  caller has so far, the reply and what the node still has to send make up a
  content that the object held (or, for a write, what the node has is the part
  of the data already sent). `SeesObject` starts that chain. The refinement maps
  the step in which the node stores the last frame of a write to the abstract
  `Write`, the begin and the end of a call to `Ask` and `Answer`, and every other
  frame to a stutter.
* With late replies nothing ties a frame to a request. `ShortInv` does without:
  a content short enough for one frame is never the result of a mixed-up
  segmented transfer, because those announce more than one frame, so every
  object and every frame that holds a short content holds one of its own
  object, whose index the reply carries and `sdo_read` compares.
* `Agreement` is the loop invariant of the bitwise search: a device that has
  moved on to part `k` agrees with the master on all parts before `k`, and no
  device is ahead of the master. At the last confirmation the device
  agrees on every part, so its address is the one returned. `Prompt` (no late
  reply) is what ties a confirmation to the request it answers.
* `Exact` follows the configuration mode: the switch before the search has ended it
  everywhere, no request of the search but the last begins it, and by
  `Agreement` those that answer the last have the address found. It needs a
  good bus: a lost switch leaves an earlier device in configuration mode.
* `SomeFits` is the other half of the search: some device has every bit decided so
  far. Either one confirms that a bit is zero, and then that one fits, or
  none does, and then the bit is one in every device that fitted. That the bits
  not yet decided are zero in `lss` is part of it. So each part, and the last
  request, is confirmed. `StillThere` is why the stages before the full one leave
  somebody to find.
* `FreshStart` is inductive with two facts: a `run` that waits has neither a list nor
  a scan, and a scan that has raised ends `run` (`NothingYet`, `SetupOver`).
* `Addressing` follows the id through the scan: old ids are taken away
  in two steps (`IdsNeedPower`), only the device found listens when an id is
  given (`OneConfigured`), the id was free and stays so until it is listed
  (`ChosenIsFree`), and a device that has an id is listed under it or about to be
  (`IdsAreKnown`).
* `Shape` says where node objects can be: made, in set-up, listed, dropped, in this
  order, and which task can hold the lock of which. `Traffic` ties every frame to
  the one node object that awaits it: the object is listed, or in set-up, and
  stays so until the reply has come, since only the task that waits for it would
  take it off. That is why the second look of the receive thread finds what
  the first one found. `Current` follows the firmware through frame, reply and
  cache; a device that returns has lost its id, so nothing read before is about
  the id any more. `Built` counts the set-up: every protocol a device reports is
  set up, lost, refused, or still in `plan`, and one that is refused still has the
  exchange in `plan` that will tell so.
* `Whole` says the same of a node object that is no longer on the list, or whose
  device has no id any more, where `Current` is silent: a frame or a reply under way
  for a node object is of the device and the firmware of what the object has
  collected already. When a device answers this is `Current`, since only a device
  that has the id answers, and a device that returns has no id until it is found
  again, as another node object.
* `InStepWithJob`: every device that is in its boot loader and unlocked is at the
  step of the worker, has the block in RAM that the worker sent, and has all sectors
  erased that the worker has not reached; one that joins or restarts is locked
  until the next job. So even a device that takes part in the job of another one
  gets each block into its erased place.
* `Alone` and `Queued` say why nobody else takes part while nothing is disturbed:
  only the device of the job is in its boot loader, and each queued job names
  an id to which its own device answers. `Progress` counts its blocks.
* `Known` carries the truth of the locator state through an exchange: when
  nothing is unsure, either the cached state is true or the exchange under way
  will make it so.

Only model-checked: the liveness properties (`CallsEnd`, `EveryNodeGetsId`,
`EveryNodeListed`, `GoneLeaveList`, `StaleLeave`, `ShutdownEnds`, `OutageIsOvercome`,
`UpdatedComesBack`, `JobsEnd`, `PageAgrees`), which need fairness and ENABLED.
`IdsAreUnique` is proved for a bus without losses and outages, on which
`MCNetworkServes` checks it; with a loss it is false (section 4).

## 6. Not modelled

* Frame layout, bit fields, logging, HTML and JSON wording: no property is about
  them yet.
* `get_nodes`, `get_node`, `get_server_info`, raw SDO access: one look at the list
  or one SDO call each, without state of their own.
* In `Directory`: outages and shutdowns (in `Network`), devices without protocol
  enumeration (`EnumerateRefused` in `Network`), the fields of `info` that are read
  like the name and the version, the contents of a status message, and how many
  slots the dict of nodes has: `Passed` lets any insertion be the one that moves the
  entries. The order of the entries of a dict is that in which node objects are
  made; an entry that replaces another under a freed id comes last, as in CPython.
  `InfoIsOfOneFirmware` and the other properties hold until exchanges are mixed up:
  with two devices on one id a node object can collect values of both.
* The address cache file: `FastScan` starts with any cache, which covers what a
  lost or damaged file can do.
* `setup_single_node`, `CanIsp` reading, comparing and identification: used by
  command line tools only, straight-line code over the same SDO writes.
* The HTTP client, product table, command line, `optick.py`, web pages: no state
  that outlives a call.
* The timing of frames and time-outs: a time-out may fire whenever a reply is
  not there (or not there yet, with late replies).
* The devices' firmware beyond the protocols the server uses.

## 7. Plan

In this order; the first part extends the model, the second proves more.

1. `IspConsole`: the ring of 100 log lines with its ids, the queues of the
   readers, and a browser that reconnects with `Last-Event-ID`
   (`server.py:134-159, 351-376`): no line missed or out of order, against an
   abstract log.
2. Pure algorithms over bounded inputs: sub-index and mask encodings
   (`object_directory.py:515-564`), `fix_checksum` and padding of images
   (`can_isp.py:309-427`), addresses and node names (`base_node.py:16`,
   `remote_node.py:41`).
3. `Flash` with `Directory` in one composition, instead of `Join` and `Drop`.
4. Proofs: every safety property of the runs is proved. Left are the properties
   of the modules above as they come, and the layers themselves: that the
   step `Search` of `Network` is what `FastScan` promises (`ScanIsSound`,
   `IdGoesToFound`), and `Join` and `Drop` of `Flash` what `Network` promises.
