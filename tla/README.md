# JaszczurHAL in TLA+

Specifications of the parts of JaszczurHAL (`src/`) whose correctness depends
on the order of things: flash writes cut short by a power loss, an update that
exchanges two firmware images sector by sector, radio frames that are lost,
garbled or repeated, an interrupt that feeds a task, two cores that want the
flash at once, a socket closed while another task is inside the network stack,
a radio that two stacks share and either may restart, a wireless session whose
link goes while its frames are on their way.
TLC checks them on small instances; TLAPS proves the most important invariants
for every value of the constants. Paths below are relative to `src/src/hal/`
unless they start with `src/`, `doc/` or `tests/`.

1. [The system](#1-the-system)
2. [What is modelled](#2-what-is-modelled)
3. [The runs](#3-the-runs)
4. [What is proved](#4-what-is-proved)
5. [Disagreements between the documentation and the code](#5-disagreements-between-the-documentation-and-the-code)
6. [What is not modelled](#6-what-is-not-modelled)
7. [The plan](#7-the-plan)

## 1. The system

JaszczurHAL is a hardware abstraction layer for microcontrollers (RP2040/RP2350
first; ESP32 and STM32G474 as further targets). An application is a `setup` and
a `loop`, optionally a second pair for the other core, and every peripheral and
service is a C interface, `hal_<name>.h`, over a provider. There are about 40
subsystems. Most are drivers: one task, one bus transfer, one conversion. The
ones below have state that survives a call, a step or a reset, and more than
one actor.

| Part | State it keeps | Operations | With whom it interacts | What is hard | What makes it correct |
|---|---|---|---|---|---|
| Key-value store, `storage/hal_kv.cpp` | RAM image of one bank (`s_bank`, `s_used_offset`, `s_flash_end`, `s_index`), `s_dirty`, `s_needs_publish`; two banks in flash, each header + body + log | set, delete, commit, gc, prepare, init | flash provider, which runs flash transactions | power loss at any write; a write that fails, or lands and says it failed; RAM image rearranged before anything is written | a restart finds a committed map, whole; a clean store is durable; the last valid bank is never lost |
| Flash provider, `storage/jh_eeprom_flash_provider.cpp`, `impl/rp2040/drivers/flash/rp_flash_storage.cpp` | RAM mirror of the partition | replace region (erase, body, header), append, erase | hal_kv, hal_eeprom; flash transactions | a mirror that disagrees with the medium; one retry | the retry happens once; an append never programs a cell twice |
| OTA boot, `impl/rp2040/ota/rp_ota_boot.cpp`, `network/ota/jh_ota_swap_engine.cpp`, `jh_ota_image.cpp` | program slot, staging slot, scratch sector, journal marks, two state records | boot decision, exchange of the slots, trial, rollback | the storage writer, through the flash only | power loss inside each copy, mark, erase, record write; wrapping sequence numbers | no image is lost; only whole images run; every reset ends in a launch |
| OTA storage and service, `.../rp_ota_storage.cpp`, `impl/rp2040/hal_ota.cpp`, `network/ota/jh_ota_protocol.cpp` | the upload writer, the session | begin, write, finish, abort, confirm, mark for rollback; invitation, authentication, transfer | boot image (flash), TCP/UDP, application callbacks | upload while a trial runs; failure of the last write | as above; an upload starts only where it can overwrite nothing of value |
| LoRa link, `radio/hal_lora_link.cpp`, `jh_lora_link_frame.cpp` | per link: send in progress, reassembly, receive buffer, table of peers with a duplicate window, sequence counter | create, destroy, process, send, receive, cancel | the radio service, which is shared and asynchronous | lost, garbled, repeated, late frames; retries; wrap of the sequence; the peer table at its limit; half duplex | acknowledged means delivered; in order, once; whole messages; no nonce twice |
| LoRa radio, `radio/hal_lora_radio.cpp`, `jh_lora_modem.cpp`, `sx126x/`, `sx127x/` | one operation and its status | transmit, receive, CAD, cancel, service | the modem, the link | time-outs, failed calls, a cancel that fails | one operation at a time; its result is read once |
| Ring, `core/jh_spsc_ring.h` | storage, head, tail | push, pop, peek, drop, clear | an interrupt or the other core on one side, a task on the other | every load and store of the other side in between | first in first out, no slot written while read |
| Flash transaction, `storage/flash/jh_flash_transaction_engine.cpp`, `impl/rp2040/drivers/flash/rp_flash_transaction.cpp`, `core/hal_mutex_once.h` | lazily created mutex, owner, active | execute an operation with the other core parked and USB paused | every flash writer; USB; the other core | two first callers; re-entry; a failure in the middle | one at a time; nothing left locked, paused or owned; no false refusal |
| USB, `impl/rp2040/hal_usb.cpp` | initialised, mutex, flash pause and its owner | init, deinit, task, CDC; pause and resume | flash transaction | deinit and init while paused | the pause is its owner's and ends |
| Handle pool and sockets, `core/jh_handle_pool.cpp`, `network/hal_tcp.cpp`, `hal_udp.cpp` | slots: token, generation, operations in progress, closing | open, accept, use, close, reset all | tasks; the network backend; loss of the interface | the mutex is not held while the backend works | a lease reaches its own object; each object closed once |
| Network service and radio runtime, `network/jh_network_service.cpp`, `network/cyw43/jh_cyw43_radio_runtime.cpp`, `jh_cyw43_radio.cpp` | state of the chip, references of Wi-Fi and Bluetooth, the stack's mutex and its entered context, operations in flight | acquire, release, restart, enter, leave, begin and finish an operation | both clients, tasks in the stack | start and stop while a task is in the stack; entered after the check, not with it; a task inside that stops the radio | nobody in a stack that is stopping; nobody waits for a mutex it has; READY exactly while referenced |
| Bluetooth host, `bluetooth/jh_bluetooth_host_runtime.c`, `jh_bluetooth_controller_cyw43.c`, `jh_btstack_host.c` | the posted transition and its verdict, profile slots, references, flags | acquire and release a profile, service, invalidate | the radio runtime; every task that makes a service pass | the transition runs in whichever pass comes first; the radio is restarted underneath; each part of a start may fail | a reference that is current has BTstack, profile, handler and radio under it; a failed call leaves nothing behind |
| lwIP adapters, `network/jh_lwip_tcp.cpp`, `jh_lwip_udp.cpp` | per connection: receive buffers, accept queue, errors | callbacks of lwIP, calls of tasks | lwIP's thread | callback after close; queue full | a connection is in one queue; bytes once, in order |
| CAN, `can/` | receive and transmit queues, filters, error state | send, receive, poll, interrupt | controller interrupt | overrun, bus-off | no frame repeated or reordered; overruns counted |
| BLE stream, `bluetooth/hal_ble_stream.cpp`, `jh_ble_stream_session.c`, `hal_ble.cpp`, `jh_ble_btstack_backend.c` | session, keys and counters, both queues, backoff; BLE's state and generation; the backend's link and one notification | initialize, deinitialize, send, receive, secret, close; start, stop, poll | BTstack's callbacks in a service pass, the BLE task, the stream's task; any client in range | a mutex for each layer and none across them; frames still on their way when a session, the link or BLE ends; repeated failures | no payload or frame crosses sessions; no nonce twice; no session without a link; a backoff holds |
| Time, `time/hal_time_ntp.cpp` | request in progress, last sync | begin, process | UDP, DNS | a late answer to an old request | the clock is set only by the answer awaited |
| Timers, `timers/` | pool of alarm slots | start, cancel, the callback in an interrupt | interrupt, task | cancel racing the callback | no callback after a cancel returned |
| Application entry and multicore watchdog, `src/src/hal_app_entry.cpp`, `src/src/utils/multicoreWatchdog.cpp` | started flags, per-core heartbeats | setup, loop, feed | two cores, hardware watchdog | order of the start of the cores | fed only while both cores run |
| Command router and serial sessions, `commands/`, `serial/hal_serial_session.cpp` | routes, session, authentication | register, dispatch | transports (serial, BLE, LoRa, sockets) | two transports at once | a command answered on the transport it came from |
| WireGuard, TLS, HTTP, WebSocket, MQTT, `network/...` | one connection each; WireGuard: peers, keys, replay window | connect, send, receive, timers | sockets | reconnects, replay | replayed packets refused |
| Drivers: ADC, audio, GPIO, I2C, SPI, modem, sensors, RTC, GPS, NFC, display, input, power, temperature | registers and buffers | one call each | a bus | bus errors | conversions |

`PROJECT.json` lists the same parts with their sources and status, and under
`hazards` the places in the code where the behaviours of the column "what is
hard" bite, each with the properties that would show it going wrong.

## 2. What is modelled

| Module | Models | Abstract specification |
|---|---|---|
| `KvStore` | hal_kv on its flash provider | `DurableMap` |
| `OtaBoot` | boot image, swap engine, state records, storage writer | `TwoSlotUpdate` |
| `LoraLink` | LoRa links of several nodes over one channel, with their radios | – |
| `SpscRing` | the ring, at its loads and stores | `Fifo` |
| `FlashTransaction` | transaction engine, mutex publication, USB pause | – |
| `NetSockets` | TCP/UDP facade over the handle pool and a backend | – |
| `RadioRuntime` | network service and CYW43 radio runtime, at the sections of their two mutexes | – |
| `BluetoothHost` | the Bluetooth host on that radio, with Wi-Fi tasks beside it; extends `RadioRuntime` | `RadioRuntime` |
| `BleStream` | the BLE stream, its sessions, the part of hal_ble and of the backend it lives on | – |

`MC<Module>` extends a module with what TLC needs (symmetry, topologies);
`<Module>Proofs` holds its theorems. An operator marked `mutant` is a plausible
bug in the definition below it and is used by no specification: the property
named for it in `PROJECT.json` fails when the definition is replaced by it.

The modules meet at the code's own seams: `KvStore` takes a flash write as
something that completes, fails or is torn, which is what `FlashTransaction`
and the driver below it return; `OtaBoot` does the same for its copies, marks
and erases (the boot image runs alone, without transactions); `LoraLink`
includes the part of the radio service the link sees; `BluetoothHost` is
composed with `RadioRuntime` itself, every step of the host being one of the
radio or none; `BleStream` takes a service pass, of which there is one at a
time by `StackQuiet`, as the place where BTstack runs.

### KvStore

A bank is a function on `0..BankCells`: cell 0 is the header, the others hold
one record each (`Put`, `Del`, `Commit`), or are `Erased` or `Torn`. A CRC is
modelled by what it covers: the header carries the body it was computed over,
a commit record the batch. Record lengths are one unit, so alignment and the
arithmetic of lengths are not covered. `ram` is the static state of
`hal_kv.cpp`: `img` is `s_bank` up to `s_used_offset`, `index` is `s_index`,
`flashEnd` `s_flash_end`, and `dirty`, `needsPublish`, `active`, `gen` the
scalars of these names. `pc` says which write the running call is waiting for.
The provider's mirror equals the medium after every operation (it is re-read
when one fails), so it is not a variable.

`Set`, `Delete`, `CommitEx`, `Gc`, `Prepare`, `Recover` and `Format` are the
public calls; `s_kv_mutex` is held for the whole of one, so calls do not
interleave. A call that writes goes through `BeginAppend` (log batch with its
commit record) or `BeginPublish` (compaction into the other bank: erase, body,
header) and ends in a flash step: `AppendDone`, `AppendFails`,
`AppendUnwritable`, `EraseDone`, `BodyDone`, `HeaderDone`, `ReplaceFails`,
`ReplaceRefused`, `PrepareReturns`. A write that fails or is cut by `PowerLoss`
leaves one of `TornBanks`: nothing, everything, garbage in what changed with or
without the header, and for an append a prefix of whole records, a torn first
or a torn last one. A write may therefore land and still report failure. A
refused call changes nothing and is a stuttering step. `s_auto_commit` is a
choice of each call. The application may call init again at any time
(`Recover` when idle); when that fails the store is down, as after a power loss.

`DurableMap` keeps three maps: `live`, what callers see; `stable`, what a
restart would find; `base`, what the running store has made durable. A commit
that returned OK is durable; one that failed or was cut is all or nothing, and
may still be what a restart finds.

### OtaBoot

`flash` is everything that survives: `program` and `staging` (a function from
sectors to `<<image, sector>>` or `Junk`), `scratch`, `phase` (the journal mark
of each sector: erased `FF`, then `FE`, `FC`, `F8`, or `bad`), and the two
state records. A digest is modelled by the identity of the image: a slot
`Holds` an image when every sector is that image's. A record that does not
decode (CRC, magic, mode, attempts over the limit) is `NoRecord`. `run` says who
runs and at what: off, the application, or the boot image or storage writer
about to copy, mark, erase, or write a record, with what follows (`then`) and
what follows its failure (`otherwise`). `upload` is the storage writer and its
session; `tries` counts, as history, the launches of a trial.

Each copy of a sector, mark, erase and record write is one step that completes,
fails (`SwapFails`, `WriteStateFails`, ...) with the power on, or is cut
(`PowerLoss`, `Reset`), leaving a torn sector, mark or record. The boot
decision (`BootLaunch`, `BootPending`, `BootTrial`, `BootRollback`) is
`jh_ota_boot_apply`; the journal position is read from the marks each time, as
the code does. `StagingDecays` lets a staged image go bad before its swap
starts, which is what the second digest check is for. In the application:
`BeginTransfer`, `ReceiveTransfer`, `TransferFails`, `EraseForUpdate`,
`ConfirmBoot`, `OtaBegin`; the service mutex makes each atomic up to its first
flash write. An erase that reports success is trusted, as the code trusts it.

`TwoSlotUpdate` is a device whose two images change places in one step, that
counts its trial boots, restores the old image when none is left, and keeps a
new one only when the application confirms it.

### LoraLink

`link[n]` is the context of node n's link with its radio: `state`, `radio`
(standby, continuous receive, single receive, transmitting, error), `air` (the
frame being transmitted), `heard` (the frame received and not yet read), `late`
(the deadline of the state has passed), `session`, `taken` (sequence numbers
used), `tx` (the send in progress), `rx` (the readable message), `asm` (the
reassembly), `peers` (the table with its duplicate windows, least recently used
first out). `aired` and `delivered` are histories.

One step is one API call on one node (`SendStart`, `Receive`, `Cancel`,
`Recreate`, or one `hal_lora_link_process`, which is `ProcessReceive`,
`ProcessTransmit`, `ProcessAckWait`, `ProcessRetryWait` or `ProcessError` by
state), since the context's mutex is held for the whole call; or `FrameEnds`, a
frame leaving the air, which every listening node separately hears, hears
garbled or misses, so that loss, collision and half-duplex deafness are
covered; or `Deadline`. A frame cannot be duplicated by the channel; repeats
come from the link's own retries. `Recreate` is destroy and create with a fresh
session identifier, as the API asks when encryption is on. The radio's calls
fail when `RadioFails` holds. CRC-32 and AEAD never accept what differs. The
expiry of a reassembly may happen at any process call.

### SpscRing

Every load and store of `head` and `tail` is a step, and so is each half of the
`memcpy` of an element, which therefore has two parts: a slot read too early or
overwritten too early shows. The acquire loads and release stores of the code
give the order in which the steps are written; a weaker memory order is not
modelled. A push into a full ring and a pop from an empty one change nothing.
`Fifo` sees the elements from the tail (or from where a clear in progress will
put it: the clear takes effect when it loads the head) to the head.

### FlashTransaction

A caller is a task or a core, what `current_owner_token` returns. Every load
and store of `s_active`, `s_owner`, the mutex pointer, and of the USB flags is a
step. The mutex is created by its first callers, published with a
compare-exchange, and destroyed by the loser. A wait with a timeout may end
whenever a try finds the lock taken. `UsbInit`, `UsbDeinit`, `UsbEnter`,
`UsbLeave` are the rest of the program; deinit clears `s_initialized` before it
takes the USB mutex, as in the code. The operation may succeed, fail, be refused
by a DMA channel or by the other core not parking in time.

### NetSockets

`slots` is the handle pool, `task[k]` where task k is in its call: it has opened
an object and not made a handle, is inside the backend with a lease, or has
tokens to close. A step is what a call does under the facade mutex, or one call
of the backend. `issued` is every handle the application ever got, so that stale
handles are used too. The backend reuses tokens; `life` counts how often, as
history, so that properties tell objects apart where the code cannot. Sockets,
listeners and UDP sockets have the same code over a pool each; an accept is an
operation on one and an open on another. A generation is a natural number: its
wrap after 2^19 - 1 reuses of one slot is not modelled.

### RadioRuntime

`state` and `refs` are the runtime's, `running`, `owner`, `depth` and `pending`
the network service's, `ready` the driver's, `stack` is who holds the platform's
stack mutex, `capability` what the board publishes. A section under the state
mutex is one step; `pc[t]` and `job[t]` say between which of them task t is. So
the chip starts with no lock held (`StartChip`), stops under the stack mutex
(`LockToStop`, `StopChip`), and `Enter` looks at state and references long before
`EnterService`, `TakeStack` and `Admit` take the stack and look again. A restart
is a stop and a start in one call. The snapshot that the wrappers publish as the
board's capability is read in one section and written in another (`Snapshot`,
`Publish`). `op[t]` is an operation that outlives the call that began it, of the
service's generation or of an earlier one.

### BluetoothHost

One task makes the Bluetooth calls, which the manual asks for ("Call
`hal_ble_poll()` frequently from one task or cooperative loop",
`doc/api/en/20_bluetooth.md`); the others use Wi-Fi. An acquire or a release
posts `transition` and makes a pass (`Execute`, `Served`); the pass of any task
runs it (`PassDriver`, `RunTransition`, `ClearTransition`), since the handler is
the radio's and not the caller's. `base` is BTstack: down, up, or an orphan on a
chip that was stopped under it; `live` are the profiles started in it.
`WarnHost` is the invalidation that a restart sends, in the task that restarts.
`strayed` is a history: a transition was run by somebody else's pass or its
verdict was read wrongly, or the radio refused to take its reference back.

### BleStream

`pass` is the service pass and the event it carries from the backend (`back`)
to hal_ble (`ble`) to the stream (`stream`), one mutex at a time; between the
three, the BLE task (`task`) and the stream's task (`app`) do what they like.
`OnWrite` is one frame of the client: a HELLO withdraws what was staged and opens
session `begun + 1`, a proof is right or wrong, a data frame is sealed or
forged. `Flush` seals and hands over at most one frame, which `TakeFrame` copies
in a later pass and L2CAP sends, refuses or loses. `hal_ble_stream_initialize`
is five steps (`Look`, `Rebind` or `Begin`, `Publish`, `Commit`, `Unpublish` with
`Clear`), because it reads BLE's state, publishes the service and commits under
different locks. Keys and proofs are left out: the client decides whether what
it sends is right. Lengths and the MTU are left out too. `nonces` and `forgotten`
are histories.

## 3. The runs

Each run asks one question of one module. All of them check deadlock except the
LoRa runs, whose applications send a bounded number of messages and then stop.
The types of the variables are proved (section 4), those of `LoraLink` as a part
of `LinkListens`.

| Run | Instance | Checks | What it shows |
|---|---|---|---|
| `kv_store` | 2 keys, index of 1, banks of 4 records | `IndexIsReplay`, `CleanIsDurable`, `AppendIsSafe`, `TearIsAtomic`, `RecoveryFits` | the index is what a replay of the image would build; a clean store is what a restart finds; an append only programs erased cells behind what a restart accepts; a torn write is all or nothing; a log written within the key limit never needs more of the index when it is replayed |
| `kv_refines` | 1 key, banks of 4 records | `ImplementsDurableMap`, `BankSurvives`, `CallsReturn` | `KvStore` implements `DurableMap`; no step takes the last valid bank; every call that writes ends |
| `ota_boot` | 3 images, 2 sectors, 1 attempt | `NothingLost`, `LaunchIsWhole`, `RecordsAdvance`, `ImplementsTwoSlotUpdate`, `Launches` | whatever is cut or fails, both images can be put together from slots, scratch and journal; only whole images run; the boot chain implements `TwoSlotUpdate`; every reset ends in a launch |
| `ota_rollback` | 2 images, 2 sectors, 1 attempt | `RollbackRestores` | violated: [section 5](#5-disagreements-between-the-documentation-and-the-code) |
| `lora_three` | 2 senders, 1 receiver, 2 fragments | `WholeMessages` | interleaved reassemblies never mix messages |
| `lora_sessions` | 2 nodes, 2 sessions, radios that fail, wrap of the sequence | `AckMeansDelivered`, `NonceOnce`, `InOrderOnce` | lost acknowledgements, failed radios and new sessions never make a send succeed that was not delivered, deliver twice, or encrypt twice under one nonce |
| `lora_ends` | 2 nodes that both send | `LinkListens`, `SendEnds`, `ListensAgain` | a handler never starts a busy radio; sends end; both listen again |
| `spsc_ring` | 3 slots, 2 values | `NoDataRace`, `ImplementsFifo` | the ring, load by load, is a bounded queue |
| `flash_transaction` | 3 callers, 1 USB user | `OneTransaction`, `NoFalseRefusal`, `SafeZone`, `NothingLeftBehind`, `CallsReturn` | one flash operation at a time, in a safe zone, nothing left behind, every call returns |
| `net_sockets` | 2 tasks, 2 slots, 3 tokens, 2 opens each | `LeaseHolds`, `OnePlace`, `ClosesFinish` | an operation keeps its object, every object is in one place and is closed once |
| `radio_host` | a Wi-Fi task and the Bluetooth task, 2 profiles, 2 references, entries nested 2 deep | `StackQuiet`, `NoHoldAndWait`, `ReferenceIsBacked`, `RolledBack` | whoever is inside has the stack and a running chip to itself; nobody holds the stack and waits for it; a current Bluetooth reference has all it rests on, and a failed call leaves nothing behind |
| `ble_stream` | queues of 2, counters to 3, 2 attempts, 3 sessions, 2 generations of BLE that end | `PayloadsStay`, `FramesStay`, `PendingIsReal`, `NoneOutlivesLink`, `BackoffHolds`, `NonceOnce` | sessions do not mix and outlive no link, no nonce is used twice, no stream waits for a notification that is not on its way, and whoever failed too often waits |

### Bounds

- **KV.** Compaction can only go wrong in the order of keys with two keys, hence
  `kv_store`; a batch behind a batch needs a log of two, hence the four cells of
  both runs; recovery against a full index needs fewer index slots than keys,
  hence `MaxKeys = 1`, with which a key still takes the place of another that was
  deleted. One value is enough, since a record either
  is the latest of its key or is not; `NoVal` is the other. `GenHalf = 2` lets
  the generation wrap modulo 4, as it does modulo 2^32 in the code, and both
  banks then change places across the wrap. `BankSurvives` exempts the first
  format alone, which may erase the bank it has just written when it retries.
- **OTA.** With two sectors there is one before, one in and one behind the
  sector being exchanged. Three images tell the stable, the trial and the next
  upload apart. `SeqHalf = 2` wraps the sequence of the records. One attempt
  makes the last attempt, the one before it and the one after it three
  different boots. `tries` is a history that stops at `MaxAttempts + 1`.
- **LoRa.** One retry: the second copy of a frame is the only kind of duplicate
  there is. A window of 2 and `SeqMod = 16` put both the near and the far end of
  the window, and its wrap, within reach; `FirstSeq` starts near the wrap.
  `MaxTakes` bounds the sequence numbers used. The table of peers has room for
  every sender: with more senders than `HAL_LORA_LINK_MAX_PEERS` the least
  recently used window is forgotten, and a repeat of that sender would be
  delivered again, as the code accepts.
- **Ring.** Positions run over twice the capacity, so three slots wrap at 6 and
  distinguish an off-by-one from a lap.
- **Flash transaction.** Three callers: one holds, one waits, one is about to
  come. One worker is enough to keep the USB mutex from them.
- **Sockets.** Two slots, three tokens and two opens per task let a slot be
  reused behind a stale handle and a token come back from the backend. The wrap
  of the generation (2^19 - 1 reuses of a slot) is out of the bound.
- **Radio and host.** Two tasks are enough for one to be anywhere while the other
  is anywhere else, and the invariants of the radio are proved for any number.
  Two references put a client's counter at its limit, two levels tell a nested
  entry from an outer one, two profiles the first and last reference of the host
  from one in between. Every start, pass and stop may fail.
- **BLE stream.** A counter that ends at 3 makes a session run out of nonces; two
  places in a queue tell full from not empty; two failed attempts tell the last
  from the one before it; a third session follows one that was replaced and one
  that was closed; BLE stops or fails twice, so that a generation read before
  the first end is stale twice over.

### Fairness

- `KvStore`: `WF(FlashStep)`, since the flash driver always returns. Nothing
  makes a caller call, nor the power stay on.
- `OtaBoot`: `WF(BootStep)`, the boot image runs while there is power, and
  `Faults` stop eventually: with endless resets no boot loader launches.
- `LoraLink`: for each node, weak fairness of `hal_lora_link_process` (the owner
  keeps polling), of the end of a frame on the air, and of a deadline (time
  passes). `SendEnds` excepts a link whose cancel failed in the radio: it
  stays in TRANSMITTING and waits for a transmission that nobody ends, until
  the application cancels again or destroys it.
- `FlashTransaction`: a call that has begun takes its next step (cores and tasks
  keep running). Nothing says that a lock is ever given: `CallsReturn` holds
  because waits time out.
- `NetSockets`: a task that is inside the backend comes back, the backend's
  calls having time-outs of their own.
- `RadioRuntime`, `BluetoothHost` and `BleStream` state safety alone. Nothing in
  the code bounds how long a task stays inside the stack, and the stream goes on
  only while somebody polls.

## 4. What is proved

Eight modules hold theorems; every leaf is checked by TLAPS. They hold for every
value of the constants under the named assumptions beside each module's
constants.

**`KvStoreProofs`**. First what needs no more than the shape of the image and the
banks (`KvInvariance`, `TypeCorrect`, `ValidBankSurvives`). The
type invariant is not inductive: an append writes at `s_flash_end` and grows the
image, so it fits its bank only because what was staged fits, and an index entry
is in range only because the records it names are those of the image. `KvInv`
adds: the index names put records of the image that hold its key
(`IndexSound`); what lies behind `s_flash_end` is a batch without a commit
record (`StagedSound`); the active bank of a ready store is valid and an append
starts behind its body (`ActiveOK`); and at each `pc` what the running call may
count on, such as a header written over the body it was computed from
(`PhaseOK`). `ValidBankSurvives` follows because a compaction
writes only into the other bank, until its header is down.

What a restart finds needs the contents (`KvDeepInvariance`, and from it
`IndexAlwaysReplays`, `CleanStoresAreDurable`, `AppendsAreSafe`, `RecoveriesFit`,
`TearsAreAtomic`). None of those five is inductive: that the index is a replay of
the image says nothing of the flash, and a failed commit leaves an image that is
ahead of it. `KvDeep` says what the image has to do with the two banks: it replays
to its index (`ImageOK`); the store stands on the bank that a restart would pick,
and its cells up to `s_flash_end`, or up to `Used` when nothing is owed, are those
of the image, unless a publish is owed (`Grounded`); a bank that is being built
holds what was programmed of the image so far (`BuildOK`); and no prefix of a
valid bank has more keys than index slots (`BankOK`), which is why recovery fits.
A torn write is then split by where it stopped: before the commit record a
replay ends where it did, behind it the whole batch counts. The replay is a
recursive function over the length of the log; the proofs never unfold more than
one record of it, each step appends one.

`StoreIsDurableMap` is the refinement of `DurableMap`: every step of the store is
a step of the abstract map or a stutter. On top of `KvDeep` it needs that a first
format publishes the empty map (`FormatSound`).

**`OtaBootProofs`** (`OtaInvariance`, `TypeCorrect`, `NoImageLost`,
`WholeLaunch`, `RecordsOnlyAdvance`, `SlotsAreTwoSlotUpdate`). `NothingLost` says that the selected
record and the journal account for every sector. Alone it is not inductive: a
record about to be written must already be true of the flash (`Staged`), a copy
that waits for its mark has arrived (`Copied`), whoever runs is where the
journal says (`RunOK`), and an upload only has a staging slot that nothing
needs (`UploadOK`). Sequence numbers wrap, so `RecordsOnlyAdvance` rests on a
lemma that a successor is newer for every width.

`SlotsAreTwoSlotUpdate` is the refinement of `TwoSlotUpdate`. The write of a
record is what swaps, confirms or gives up in the abstract machine; the record
itself is planned some steps earlier, from the one then in charge. `Planned` says
that nothing comes between the plan and its end: the record in charge is still
the one it was made from, and where the code goes on afterwards fits it. While the
application runs, the program slot holds the image in use (`RunningIs`, from
`OtaInv`), so every launch is one of the abstract machine.

**`LoraLinkProofs`** (`LinkInvariant`, `MessagesAreWhole`, `AcksMeanDelivered`,
`NoncesOnce`, `LinksListen`, `DeliversInOrder`). The proof has two layers. The
first says what one call makes of one context: it goes on with the send it found
(`Goes`), ends it (`Rests`), acknowledges a frame (`Acks`) or accepts one
(`Takes`). The second, `Inv`, relates the contexts to everything that was aired
and delivered. An acknowledgement means a delivery because each link of the chain
is an invariant: a number of a session is taken once and stands for one message
(`Numbered`, `NumberOnce`); the newest number of each known peer was made readable
(`Known`); a frame that is still to be handled is no older than it
(`HeardInOrder`), so whatever looks like a repetition is one of what was
delivered, and only that is acknowledged again (`Confirmed`). Numbers wrap: the
comparison by halves is right because `2 * MaxTakes <= SeqMod`, no more numbers
are taken in a session than half of the space. `NoneIsNoMessage` says that the
empty buffer is no message.

`DeliversInOrder` is an action property with an invariant of its own, `Order`: a
message has one number (`MessageOnce`); the latest message that a node made
readable of a source is the newest that its window remembers (`Recalls`); what is
heard is no earlier than it (`Hears`). It holds when the table has room for every
source and session, or when a pair of nodes talks alone (`PeersFit`). That is not
an accident of the proof: `find_peer` gives the entry of the oldest peer away
when the table is full, and with three nodes and `MaxPeers = 1` TLC finds a retry
that is made readable a second time. The other five theorems hold without it.

**`SpscRingProofs`** (`RingInvariance`, `TypeCorrect`, `SlotsNeverShared`,
`RingIsFifo`). `RingInv` says that a slot being written is not among the used
ones, whatever the other side has stored since (`RoomOK`), that a slot being
read is, and a clear never moves the tail past the head (`FrontOK`), and that
the halves copied so far are those of the element (`CopiedIn`, `CopiedOut`). The
store of the head refines a `Put`, the store of the tail a `Take`, the load of
the head by clear a `Clear`, every other step a stutter, so the ring implements
`Fifo` for every capacity and element.

**`FlashTransactionProofs`** (`FlashInvariance`, `TypeCorrect`,
`TransactionsExclude`, `MutexOutlivesItsUsers`, `RefusalsAreTrue`,
`OperationsAreSafe`, `NothingIsLeft`). `FlashInv` says of each shared flag at
which steps of which call it is set: the lock from `locked` to `unlock`,
`s_owner` from `activate` to `disown`, `s_active` from `quiesce` to `release`,
the USB mutex from `pauseowner` to `usbunlock`, the pause in between. Every step
moves one call and changes at most the flags of the boundary it crosses, so the
proof has a frame lemma per flag and one short lemma per action.
`RolesAssumption` (no task of the set that uses USB is in the set that runs
transactions) is used for the steps of the USB worker: inside one call no task
does both; a task that does one after the other is a member of each set.

**`NetSocketsProofs`** (`TypeCorrect`, `LeasesHold`, `ObjectsHaveOnePlace`). That
a lease holds does not follow from itself. `IInv` adds: a slot counts exactly
the tasks that work on it (`Counted`); only operations in progress delay a close
(`Slotted`); a lease is on a slot that still has its token and generation
(`Leased`); no token is had twice, and none that is closed (`Held`), which with
`Somewhere` is one place for every open object; and a handle with the generation
of its slot names the object in it (`Known`), so that a stale handle resolves to
nothing. The actions are compositions of the pool's functions, so the lemmas are
about what each of those does to one slot.

**`BluetoothHostProofs`**. The radio first (`TypeCorrect`, `StackIsQuiet`,
`HolderNeverWaits`, `RadioSettles`, `PendingIsExact`). `IInv` says which steps are
taken with the stack mutex and which with an entered context (`Places`), what a
start or a stop finds at each of its steps (`Phases`), and that a service that
does not run has nobody inside (`Contexts`). The argument for `StackQuiet` is in
`TryStop`: it stops the service only when nobody is inside, in one section, and
from then on `Admit` turns everybody away, whatever `Enter` had seen.
`PendingCounts` is about the cardinality of a set of tasks, and needs
`Operations`: no operation is of the current generation while the service is
stopped. Every step of the host is a step of the radio or leaves it alone
(`HostUsesRadio`), so all of that holds of the host's use, for any number of
Wi-Fi tasks (`HostKeepsStackQuiet`, `HostNeverWaits`, `HostSettles`).

What the host promises (`ReferencesAreBacked`, `FailuresAreRolledBack`) has an
invariant of its own, `HInv`. Bluetooth's reference is moved by the host's call
alone (`HostPlaces`, `HostReference`), and whoever comes to stop the chip under a
reference the host counts on has told it (`Warned`): a release of Wi-Fi's would
not have stopped the radio, by `Phases`, and a reference cannot appear while
somebody stops it, by `Settled`. So as long as the host was not told, what its
references stand on is up (`Backed`); and as long as nothing strayed, where its
call is says exactly what of BTstack has been done (`Rolled`).

**`BleStreamProofs`** (`TypeCorrect`, `PayloadsStayHome`, `BackoffIsHeld`,
`NonceIsUsedOnce`, `FramesStayHome`, `PendingIsBacked`, `NoneOutlives`). The
stream's sections are compositions of operators on its
record, so the invariant is one about a record and the set of used counters
(`Good`): each operator is shown to keep it, and each action is a lemma of a few
lines. For the nonces it says that in a session that has begun `sent` is the
counter and no greater one was used (`Counted`), and that none was used during a
handshake (`Fresh`); a flush that is refused for now puts the counter back to
`sent`, any other refusal ends the session, so a counter goes out only once.
The other three are about the stream, the backend and the events between them
at once, and share the invariant `Link`: a session, a pending notification and a
write that is on its way each have a link that is up, or the news of its end on
its way (`SessionHasLink`, `PendingHasNews`, `WriteHasLink`); the backend's
frame is the one the stream waits for (`StagedIsPending`), and none is handed
over while a completion is on its way (`OneAtATime`). `NoneIsNoFrame` says that
the backend's empty slot is none of the frames.

Every safety property of a run that passes has a theorem, and so has every refinement.
Only model-checked are the liveness properties (`CallsReturn` of the store and of
the flash transaction, `Launches`, `SendEnds`, `ListensAgain`, `ClosesFinish`):
they need `ENABLED` and fairness, which is beyond the prover.

`tlapm` 1.4.5 gives its SMT solver, for any `s` whose `Len` occurs in an
obligation, `DOMAIN s = 1..Len(s)`, which holds of sequences only. No proof here
leans on it: all of them were also run with that axiom restricted to
sequences.

## 5. Disagreements between the documentation and the code

- **Trial boots.** `doc/api/en/15_connectivity.md:1485-1486`:
  an unconfirmed trial is reverted "after `HAL_RP_OTA_MAX_BOOT_ATTEMPTS` boots".
  `complete_swap` (`network/ota/jh_ota_swap_engine.cpp:168`) launches it with
  `attempts = 0` straight behind the exchange, and the boots that follow count
  from 1 to the limit: it is launched once more than documented.
  `OtaBootProofs` bounds the launches of a trial, `tries`, by the limit plus one.
- **Rollback** (`ota_rollback`). `doc/en/OTAWorkflow.md:758`: at the limit "the
  installer swaps the slots again and restores the previous image as stable".
  When the first sector copy or mark of that swap fails with the power on,
  `complete_swap` (`jh_ota_swap_engine.cpp:76`) finds the journal blank, writes
  `RECOVERY` and launches what is in the program slot. For a pending update
  that is the proven image; for a rollback it is the one that failed its trial,
  and from `RECOVERY` neither a confirmation nor an upload is accepted.
- **A transition in another task's pass.**
  `tests/test_bluetooth_host_runtime.cpp:257-294` asserts that a failed start is
  rolled back. The transition that an acquire posts is run by the next service
  pass, a Wi-Fi task's if that comes first
  (`bluetooth/jh_bluetooth_host_runtime.c:142`). The acquire then clears the
  verdict (`:191`), its own pass finds nothing to do, and it fails: its rollback
  marks the base as not prepared without stopping BTstack, and the next start is
  refused. An ADD that went this way reports `HAL_EIO` with the profile live, and
  a REMOVE that was not run stays posted. `RolledBack` holds where this did not
  happen; `strayed` is the history that says so.
- **A release that the radio refuses.** `controller_stop`
  (`bluetooth/jh_bluetooth_controller_cyw43.c:61`) reports it, and the host goes on
  all the same: it forgets a reference that the radio keeps, and the next start
  is refused for as long as Bluetooth has one. `RolledBack` excepts this
  too.
- **After a restart.** `jh_cyw43_radio_runtime_restart` invalidates the host, whose
  handler then refuses every pass with `HAL_EHW`, a Wi-Fi task's too, until
  Bluetooth has been released. No code of the repository calls the restart.
- **The published capability.** `publish_runtime_state`
  (`network/cyw43/jh_cyw43_radio.cpp:24`) reads the state in one section and
  publishes it in another: two calls that end together may publish in the other
  order, and `FAILED` that is published so refuses every later acquire.
- **A frame of the last session.** `bluetooth/hal_ble_stream.cpp:663-664`:
  "Payloads queued by the previous authenticated session must never cross it."
  A second `hal_ble_stream_initialize` after BLE was restarted clears
  `notification_pending` (`:348`) while the backend may still have a frame; a
  HELLO that follows has nothing to withdraw, and the old frame goes out in the
  new session, sealed with the old key. `FramesStay` holds where this did not
  happen; `forgotten` says where it did.
- **Deinitialize and the backoff.** The comment over `register_auth_failure_locked`
  (`hal_ble_stream.cpp:94`) speaks of a bounded backoff window; it outlives the
  session, the link and a new secret (`BackoffHolds`), but not a deinitialize
  and initialize of the stream by the application.

## 6. What is not modelled

`PROJECT.json` gives the reason per component. In short: drivers (registers,
one bus transfer, one conversion: no interleaving to check), third-party code
(lwIP, BTstack, BearSSL, FreeRTOS, LittleFS, lodepng, cJSON), computations on
data (hashes, AEAD, CRC, parsers, fonts, codecs, PID), the other targets'
providers, and the build tools. Most of the repository's lines are of these
kinds, so the modules cover the part of it that has state and several actors
and not a share of all its lines.

Inside the modelled parts:

- KV: lengths and alignment of records, generic reads; `hal_eeprom_write` on the
  same partition and the AT24C256 provider; calls from an interrupt and with bad
  arguments, which are refused at once (so in every module).
- OTA: discovery, authentication, UDP, events and callbacks of `hal_ota`.
- LoRa: ports, lengths, diagnostics, the event callback, CAD, the pool of link
  handles.
- Ring: memory orders weaker than those the code asks for.
- Sockets: `jh_handle_pool_invalidate_all`, data and addresses. An object that
  the backend opens while the interface goes down is published behind the reset
  (`network/hal_wifi.cpp:33`): nothing promises that no handle survives one.
- Radio: the driver's registers and firmware, IPv4 addresses (an entry may fail
  for want of one), other platforms' mutexes.
- Bluetooth host: a second reference of a profile (its backend keeps one), the
  power state of HCI, what BTstack does in a pass.
- BLE stream: advertising, scanning, the event queue of hal_ble, lengths and the
  MTU, time-outs as clocks (a deadline may pass at any call that looks at it).

## 7. The plan

Order: what loses data or bricks a device first, then what hangs, then the rest.

1. Done: `KvStore` with `DurableMap`, `OtaBoot` with `TwoSlotUpdate`, `LoraLink`,
   `SpscRing` with `Fifo`, `FlashTransaction`, `NetSockets`, `RadioRuntime`,
   `BluetoothHost`, `BleStream`; their safety properties and refinements
   proved.
2. `CanQueues` (`can/`: interrupt, poll and send, overrun and bus-off),
   `OtaSession` (`impl/rp2040/hal_ota.cpp`: session, event queue, composed with the
   writer of `OtaBoot`), the event queue of `hal_ble`.
3. `TcpAccept` (`network/jh_lwip_tcp.cpp` below `NetSockets`), `NtpClient`,
   `TimerPool`, `TwoCores` (application entry and multicore watchdog),
   `ReplayWindow` (WireGuard, against a reference definition), the command
   router.
4. Proofs with each of these modules, as far as for the present ones. What stays
   with TLC for good: liveness, and whatever needs an induction over the length
   of a log or a queue that is not the steps' own.
