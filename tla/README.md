# Formal models of the network beacon

TLA+ specifications of the nRF54L15 network beacon (`src/Network_Beacon_nrf54`) and of the
base station that reads it out (`src/Network_Base_nrf54`), their TLC configurations, and
TLAPS proofs: every safety property that a run of a modelled component checks is also a
theorem, for all values of the constants. Paths below are relative to
`src/Network_Beacon_nrf54/src` unless they say otherwise.

A beacon (a worn tag) scans for other tags and records who was near (contacts), when its
button was held (self-reports) and when it was in energy conservation (eco log). Entries
go through a ring in RAM to a ring of blocks in flash. The tag advertises how much it
holds; a base station connects over the Nordic UART Service (NUS), is sent everything,
acknowledges packet by packet, and the tag drops what was acknowledged. A control transmitter
advertises commands, which every tag in range queues, applies and saves. What is wrong with a
tag, how much it holds and how its battery does is in two status bytes that it advertises.

## 1. Inventory

| component | state it keeps | operations | talks to |
|---|---|---|---|
| flash ring store (`flash_ring_store.c`) | blocks and one metadata record in NVS; a copy of the metadata in RAM, dirty or not | init (mount, load, clear, rebuild, rescue), append, peek, drop, sync, count | NVS; called by the domains' storage wrappers under one mutex per domain |
| domain stores (`network_storage.c`, `self_report_storage.c`, `eco_log_storage.c`) | one store each | configure and lock the store | fault bits of the device |
| RAM log ring (`ram_log_ring.c`) | ring, reserved export, reserved flush, full flag, flush work item | push, flush handler, export begin / commit / abort, sync | flash store, storage and transfer work queues |
| contact pipeline (`network.c`) | contact ring, reserved export and flush, full flag, two work items; RSSI thresholds and the tracking flag | evaluate contact, flush handler, export begin / commit / abort, data level; init with migration, command begin / apply / commit | contact store, status byte, advertising |
| beacon NUS (`nus.c`) | current connection, transfer state, one send slot, one acknowledgement gate, idle timer | connect and disconnect callbacks, received data, transfer work, sent callback, idle timeout | the three domains' exports, the Bluetooth host |
| base connection and NUS client (`src/Network_Base_nrf54/src/radio.c`, `nus.c`) | scan and connection state, requested stop, discovery, idle timer | scan, connect, discover, subscribe, start, acknowledge, disconnect, rescan | the link, output queue |
| beacon radio (`radio.c`) | parameters, mode in force, eco override, burst state, advertising data, command queue | apply mode, override, scan burst, command batch, status update, recycling | every domain's commands; eco log |
| motion (`motion.c`) | parameters, eco flag, inactivity timer | timeout, trigger, command | radio, LED, status byte |
| device (`device.c`) | radio and network status bytes; one aggregate of faults and one of full stores, a bit per domain | set a fault, set full, set network bits | every domain, from three threads; advertising |
| LED (`led.c`) | parameters, three LEDs, blink, firework and flash work items | blink, flash and firework handlers, suspend, resume, command, load and save | motion, commands, self-report button |
| self-report button (`self_report.c`) | debounced button, debounce and long-press work items | edge interrupt, debounce, long press | RAM log ring, LED |
| eco log (`eco_log.c`) | an open session | enter, leave | RAM log ring; called by radio |
| base output (`output.c`, `message_parser.c`) | output queue | put, format | UART or RTT |
| parameter storage (`param_storage.c`) | one record per domain in the settings | load, load of older formats, save | called by every domain |
| control transmitter (`src/Network_Control_nrf54/src/main.c`) | the command in its firmware, two work items, LED | start, stop | the air, and so every tag's scanner |
| battery (`battery_voltage.c`) | a periodic work item | measure | status byte |
| start-up, identity table, host tools | little or none | | |

**What runs at the same time.** On the beacon: the Bluetooth receive thread (contacts,
commands, connection callbacks; cooperative), the system work queue (timers, motion
trigger, scan bursts, data level; cooperative), the storage work queue (flushes, and
commands; preemptible, priority 10) and the transfer work queue (the readout; preemptible,
priority 5). Locks are released around every storage call, so state is read, left alone and
used again throughout. On the base everything is cooperative.

**What is hard.** A reset between any two flash writes, or any of them failing
(flash store); the ring changing while a batch of it is written or exported (rings);
acknowledgements, sent callbacks, timeouts and disconnections in any order, over several
connections (NUS); commands that change parameters without a lock while timers and triggers
use them, and handlers that were dequeued before the state changed (eco mode); commands that
are repeated on air while earlier ones wait, with a restart before the save; a status bit
derived from a snapshot that a thread of higher priority has made stale. The 40 hazards
in `PROJECT.json` list them at their lines, each with the properties that would catch it or
the reason why none does.

**What makes a component correct.** Store: what was committed is there after a reset, in order,
counted exactly, and a reset replays less than a block. Rings: no entry lost, doubled or
reordered except as the oldest one of a full ring or store; what a commit removes is what was
sent; a due flush happens. NUS: nothing leaves the beacon that the base has not put out; nothing
of a connection reaches into the next; every transfer ends; in the end all is read out. Eco mode:
motion domain, radio and status byte agree; a tag does not get stuck asleep or awake; the
override stays on top of the commands; what is advertised is current. LEDs: whatever handlers ran
while a command was changing them, the firework is as asked and no light stays on by mistake.
Button: a press is timed and handled once. Commands: none stays in the queue, flash holds whole
commands and what is in force, no start-up spoils the record, and a command that got into the
queue is applied in the end. Status: the bits are what the aggregates say, each field what its
owner reported last, and what is advertised follows.

## 2. Modules

```
DurableQueue <--- implemented by --- FlashRingStore <- FlashRingStoreProofs <- MCFlashRingStore
RamLogRing     <- RamLogRingProofs, MCRamLogRing
                                     (flash store seen as a queue of blocks)
ContactLog     <- ContactLogProofs, MCContactLog
                                     (likewise, with blocks of any length)
NusWire <- BeaconNus, BaseNus <- NusTransfer <- NusTransferProofs, MCNusTransfer
                                     (the rings seen through export begin / commit / abort)
EcoMode        <- EcoModeProofs, MCEcoMode
Led <- SelfReport <- SelfReportProofs, MCSelfReport
Transmitter, NetworkParams <- Commands <- CommandsProofs, MCCommands
DeviceStatus   <- DeviceStatusProofs, MCDeviceStatus
```

Each layer sees the one below as what that one is checked to be: the rings take the store as
a FIFO of blocks whose calls happen at once or fail; the readout takes a ring as a log with a
reserved prefix. They are not composed into one module: the product of their states is far
beyond TLC, and the interfaces are narrow (one mutex around the store; begin, commit, abort
at the ring). `EcoMode` and `Led` take their part of a command as given; `Commands` has the way
there. `DeviceStatus` takes the calls of the domains in any order.

* **DurableQueue**: the abstract promise of a storage domain: `head .. tail - 1` is queued,
  `stable` is where a reset starts again, `head - stable` is less than a block.
* **FlashRingStore** (`flash_ring_store.c`). `nv_blocks` and `nv_meta` are what is in NVS,
  `meta` and `meta_dirty` are `store->meta` and `store->meta_dirty`. A call runs up to one
  durable effect per action, and `pc` names the effect that comes next, so `Reset` can come
  between any two and any one can fail. Blocks hold entries by number. The three domains
  differ in constants: `FlushBatch` is the batch of self-reports and eco log, and 0 for
  contacts (`network_storage.c:44`), whose blocks have any length. `EraseMayStop` says whether
  erasing the partition after a failed mount may fail, or the power with it, when only some of
  the records are gone (`EraseStops`).
* **RamLogRing** (`ram_log_ring.c`): one action per critical section, storage call or
  submission; `pc[t]` is where thread `t` stands. The loggers may be several threads.
* **ContactLog** (`network.c`): the same for contacts, with the scanner, the storage queue,
  the transfer queue and the system queue, which counts contacts in two halves, sets the
  data level and then waits for the radio (`UpdateAdvertised`); until that is over the work item
  is pending for `k_work_delayable_is_pending`, and no other update is scheduled. Three ghosts:
  `flush_missed` (a flush or commit failed and asked for no new flush), `level_missed` (the
  update could not read the count) and `uncounted` (contacts heard since the last count).
* **NusWire, BeaconNus, BaseNus, NusTransfer** (`nus.c` of both programs, `radio.c` of the base):
  the link, the two ends, and what the acknowledgement protocol promises. One action of the
  beacon's transfer thread is a lock section, an atomic operation, a semaphore operation or a
  call. Callbacks are atomic. `got` and `heard` are ghosts: what the base ever put out, and on
  this connection. The base's `bt_le_scan_start` is two actions, since it waits for the
  controller after `start_scanning` has set its flags: `StartScanning` and `ScanStarts`, with the
  thread that waits, the buttons' or the receive thread, in `scan_start`; the other one may run
  meanwhile. `asked` is what the operator pressed last. The base is in the RAW output format,
  which its `prj.conf` selects.
* **EcoMode** (`motion.c`, `radio.c`, `device.c`): the system work queue and the command thread.
  What `radio_operation_lock` protects is one action; `motion_lock` is a variable, since it is
  held across several. A command notes the radio and motion parameters, changes them, commits,
  takes back and saves them step by step; the intervals are reduced to whether they stay, change
  or become invalid. The parameters in flash are `stored_mode` and `stored_motion`; a start may
  find a record it cannot read, a save may fail, and `params_fault` holds the fault bits that say
  so. A work item is a set of "delayed" and "queued", and its handler first leaves the queue,
  then waits for its lock. A command sets mode, intervals and detection any number of times and
  in any order, and other threads may run between two settings. The ghost `detection_set` says
  how often it has set the detection, `adv_missed` that the last update of the advertising data
  failed. The status LED, which motion suspends and resumes, is in `Led`.
* **Led, SelfReport** (`led.c`, `self_report.c`): handlers of the cooperative system work
  queue are one action each; a command on the storage work queue sets its parameters any
  number of times and then goes on in steps (`pc`) between which any handler may run. Motion
  is there as a suspension that comes and goes. `Loads` has the record's older formats and
  their migration. What `led.c:442` makes of the blinking in eco mode is in the model and in
  section 3; no property excuses it.
* **Transmitter, NetworkParams, Commands** (`src/Network_Control_nrf54/src/main.c`;
  `network.c`, `param_storage.c`; `radio.c`): two components and their composition over the air.
  The transmitter's buttons submit work; the work starts or stops the advertisement, or fails.
  `Hear` is `scan_cb` in the receive thread, which comes between any two steps of
  `command_work_handler`; that one is `StartHandler`, then `Reject` or `Begin`, one `ApplyTriple`
  for each triple and `Commit`, until the queue is empty. `NetworkParams` has the record in each
  of its formats (this one, two older ones with a header, a bare byte, none, spoilt) with the
  loads that are tried one after the other (`network.c:201-289`) and what each may make of it.
  The ghost `unloaded` says that start-up failed before it came to the record.
* **DeviceStatus** (`device.c`, with its callers): a call of the storage work queue in steps (`pc`), one
  per access to an aggregate or a byte; the calls of the transfer and system work queues, which
  nothing on the storage queue can interrupt, are one action each. The ghosts name the gaps of
  this code without locks: `torn`, a snapshot of an aggregate went stale before its bits were
  written (`device.c:76-80`); `reverted`, a field was undone by a write of a byte read before
  (`device.c:126-133`); `unseen`, a change that a call's comparison with the byte before it
  missed (`device.c:82-84`). A ghost says which call is excused and is cleared by the next one
  that is not; outside of it the property is unconditional.

## 3. Runs

Each run checks what could be wrong; type invariants are left to the proofs where there are
some (the store's is part of `IInv`), and are stated in every module. Every property has a mutant in
`PROJECT.json`: a plausible bug in one mapped definition under which TLC finds it violated.

| run | what it asks | bounds |
|---|---|---|
| `store_batch` | self-report and eco log store: committed blocks are present (`CommittedBlocksPresent`), the queue in use is intact (`QueueIntact`), boot never clears own data (`BootKeepsOwnData`), a reset replays less than a block (`BoundedReplay`); the inductive invariant of the proofs (`IInv`); refinement of `DurableQueue` | 3 slots, blocks of 2, 6 blocks appended (the ring wraps twice), 2 failing calls, 3 resets, 2 formats of the partition; erasing a partition that does not mount is atomic |
| `store_variable` | contact store: after any boot the count is exactly what peek and drop go through (`CountExact`) | 3 slots, blocks of 1 or 2, 4 blocks, 2 failures, 2 resets; erasing may stop anywhere |
| `log_ring` | RAM ring: order, pinned copies, no unexplained loss; with fair threads a due flush happens | ring of 4, threshold 3, batch 2, 2 flash blocks, 2 loggers, 7 entries (RAM and flash both overflow), 2 failures, 2 exports |
| `contact_log` | the same for contacts; when no update is to come the level is that of the latest count, which lacks at most the contacts heard while it was under way (`LevelFollowsContacts`) | ring of 4, threshold 3, blocks of 2, 2 flash blocks, 7 contacts, 1 failure, 1 export; level thresholds 0, 1, 3, 5 and a count capped at 4 |
| `nus_transfer` | readout: what was dropped the base has put out (`DroppedWereReceived`), nothing twice on a connection, the sent callback finds its own packet, no leftovers on a new connection, nothing is begun after a stop, however it falls into a start that waits (`StopIsFinal`), a start command is never refused on a ready connection (`StartHonoured`), and all is read out (`EverythingIsReadOut`) | a contact and an eco entry, packets of one, 2 adverse events, 2 button presses, as many connections as it takes |
| `eco_mode` | eco mode: agreement, nothing stuck (`NeverStuck`), the override on top of any command (`OverrideOnTop`), scanning (`ScanningGoesOn`), advertising; flash holds what commands left in force (`StoredInForce`) | 2 commands of any number of settings (any mode, any detection setting, other parameters same, changed or invalid); 1 event: a failing controller or flash call (at start-up too), a connection or a level change; any number of timeouts and triggers |
| `self_report` | LEDs and button: between commands the firework is as asked, no light burns without a handler to end it and flash holds the parameters (`LedsSettle`); a press is timed and handled once (`PressIsTimed`) | 1 command of any number of settings, 1 failing call or restart, any number of edges and eco transitions, any record at start-up; defaults off |
| `commands` | from the transmitter's button to the record in flash: the operator's LED tells the truth; no command is stranded; in force is what is stored (`InForceIsStored`) and the other way round in one piece (`StoredWhole`); a start-up leaves the record's meaning alone; what got into the queue is applied (`HeardIsApplied`) | 4 commands (two triples for all, three for this tag with one out of range and one of another group, one for another tag, one cut off), a record of every format at the start, 3 presses or reflashes, a queue of 2 instead of 4, 2 failing calls, 1 restart |
| `device_status` | bits follow aggregates, fields are as reported, what is advertised follows | 2 stores, 1 parameter record, levels 0 and 1, 5 calls of all threads together (an interrupted call, two that interrupt it, and two after it) |

A run's bound is large enough when one more cannot show a new kind of step: rings wrap and
overflow, failures hit a call and its repair, two connections follow each other, a command
follows another. The counters of the code that carry no bound (sequence numbers, entries) are
bounded in guards by `MaxSeq`, `MaxEntries`, `MaxContacts` and `Backlog`.
Deadlock is checked except for `nus_transfer`, `commands` and `device_status`: there the operator
may press stop, or presses and calls may be used up, and nothing has to follow.

Three runs are expected to find a violation; each is a disagreement of the code with its own
documentation or intent, quoted in `PROJECT.json`:

* `contacts_reboot`: boot checks `pending_entries` against `pending_blocks * flush_batch`;
  `flush_batch` is 0 for contacts, so a reboot clears every stored contact
  (`flash_ring_store.c:275`).
* `data_level`: the contact count is cut to 16 bits, so levels 5 to 7 (100000 contacts and
  more) are never advertised (`network.c:459`).
* `manual_eco`: eco mode chosen by a command never scans: `eco_scan_handler` returns unless
  the override is active (`radio.c:440`); such a tag hears no further command.

Others were met on the way and have no run; the models have them (the last one in that hearing a
command is not fair), and the properties stop short of them in the way their comments say:

* *Lost entries are not reported.* The STORAGE_FULL bits follow -ENOSPC, which a store that
  discards its oldest block never returns, so that they are not set when entries are lost as
  `device.h:58-60` and `DECISIONS.md:239-240` say (`ram_log_ring.c:71`; `FlashFull`).
* *Rebuilding may change the order.* A rebuild rules out "metadata from a partial scan caused by
  an I/O error" (`flash_ring_store.c:138`), but only in its first loop: when the first read of the
  second one fails (`:151`), the metadata are reset to sequence 0 and saved (`:162`), while the
  blocks of higher sequences stay in flash. Once a block has been written under sequence 0, the
  next boot takes the old one of sequence 1 for its uncommitted successor (`:183`), so that older
  entries follow newer ones. It takes a contact store, a clear that stops halfway and one failing
  read: TLC finds it in a store of two slots with three resets. As long as the erasure after a
  failed mount is whole, the batch stores never clear what their own format wrote, so that they
  never rebuild from it: `BootKeeps` and `QueueIntactHolds` prove it.
* *An interrupted erasure breaks a batch store.* A mount that fails, if only for once, erases the
  partition (`flash_ring_store.c:245-256`). If the power fails meanwhile the metadata may survive
  blocks that they count; boot finds the record plausible, and from then on every peek fails. With
  `EraseMayStop = TRUE` in `StoreBatch.cfg` TLC finds `CommittedBlocksPresent`, `QueueIntact` and
  `BoundedReplay` violated.
* *The level may stay behind.* `network_schedule_tag_update_once` skips a level update when
  `k_work_delayable_is_pending` (`network.c:343`), which is true while the handler runs as well.
  What is heard after the handler has counted, while it waits for the radio in `adv_update`, is
  counted with the next contact, flush or commit only.
* *A command that sets the detection twice.* A timeout (`motion.c:163-167`) or motion that is
  handled between the triples of `[MOTION_ACTIVE 0, MOTION_ACTIVE 1]` finds the detection off and
  arms no timer, and the commit finds nothing changed (`motion.c:336-338`): the tag is awake with
  the detection on and no timer, until the next motion. The other way round a tag may be in
  eco mode though the detection is off.
* *A refused mode may stay.* When eco mode ends while a command has written a mode that is then
  refused and taken back without a lock (`radio.c:481`, `:388-392`), or that the same command sets
  back so that the commit finds nothing changed (`:388`), the radio stays in that mode, although
  `DECISIONS.md:86-87` and `:130-132` have motion return to the stored one.
* *Blinking and eco mode.* A command that changes a LED parameter starts the blinking of a tag
  whose blinking is suspended, and a handler that runs while the command has the blinking off
  ends it for good (`led.c:440-443`). `DECISIONS.md:80-85` and `Production_HowTo.md:109` (of the
  repository) have the suspension on top of the stored preferences.
* *A stop leaves a scan running.* `start_scanning` of the base sets its flags and then waits in
  `bt_le_scan_start` (`src/Network_Base_nrf54/src/radio.c:530-538`). A stop that comes meanwhile
  has nothing to stop, and the scan starts after it: no connection is begun
  (`StopIsFinal`), but the scanner runs, with its LED on, until the next stop.
* *A command kept on air may not be heard.* `Production_HowTo.md:148` says that every listening
  tag applies it as long as advertising runs. A tag in eco mode by command never scans
  (`radio.c:440`), a scan that fails to start is not tried again (`:356-360`), and only listed
  addresses are let through (`:345`). `[P_SET_RAD_ACTIVE 0, P_RSSI_NETWORK n]` with the radio's
  parameters saved, the network's not, and a restart, is an example: the tag no longer hears the
  command that would repair it. What is checked is therefore what follows once a command is in
  the queue (`HeardIsApplied`).

## 4. Fairness

`log_ring`: weak fairness of the steps a thread has begun: the kernel
schedules every ready work queue, and a begun export is committed or aborted because the
transfer work ends by a timeout at the latest. Beginning an export or logging is not fair.

`nus_transfer`: weak fairness of the transfer thread, of the beacon's callbacks taken together,
of the base's handlers together (scanning included: a scan that was requested starts or fails,
and a beacon in range is heard), of connecting, and of the two idle timers when nothing is under
way. Nothing is assumed of the operator, of recording, or of adverse events; those are limited in
number, so "in the end" means after the last one. With three adverse events liveness does not
hold: if discovery fails and each side's single `bt_conn_disconnect` is refused, the connection
stays up for good, because neither retries (`nus.c:243`, and `radio.c:180` of the base).

`commands`: weak fairness of `command_work_handler` alone, which the storage work queue runs as
long as it is submitted. Nothing is assumed of the receive thread: that a tag hears a command is
not certain (section 3). Presses, failures and restarts are not fair.

The other runs check safety only.

## 5. Proofs

**The store.** `FlashRingStoreProofs` proves about `FlashRingStore`, for any number of slots, block
capacity, failures and resets:

| theorem | of | states |
|---|---|---|
| `TypeCorrect` | every store, see below | `Spec => []TypeOK` |
| `CountIsExact` | every store, see below | `Spec => []CountExact` |
| `StoreInvariant` | batch stores | `Spec => []IInv` |
| `BootKeeps` | batch stores | `Spec => []BootKeepsOwnData` |
| `CommittedPresent` | batch stores | `Spec => []CommittedBlocksPresent` |
| `QueueIntactHolds` | batch stores | `Spec => []QueueIntact` |
| `ReplayBounded` | batch stores | `Spec => []BoundedReplay` |
| `StoreImplementsQueue` | batch stores | `Spec => ImplementsDurableQueue` |

The batch stores are those of self-reports and eco log (`FlushBatch # 0`), and `~EraseMayStop` is
assumed of them: an erasure that stops halfway breaks them (section 3). The first two theorems
assume it of batch stores only, `FlushBatch = 0 \/ ~EraseMayStop`; contact stores are in them
whatever stops. Of the contact store (`FlushBatch = 0`)
`BootKeepsOwnData`, and with it the refinement, are false: its boot clears what flash holds
(`contacts_reboot`), and what `CommittedBlocksPresent` and `BoundedReplay` say of metadata it can
use comes down to an empty queue. `QueueIntact` is false of it as well: the count stays exact, but
blocks may come back in another order (section 3). `CountExact` is what holds.

None of the safety invariants is inductive alone: that committed blocks are present after an
append depends on what was in the other slots, on the step of boot that came before, and on
how far the RAM copy of the metadata may differ from the one in flash. `IInv` is their
common strengthening, in named parts:

* `RecordsSane`: no record is of a later format, and no block of the running format is there
  without its metadata;
* `FlashQueue`: the metadata in flash count only blocks that are there, each full and each
  holding the entries its sequence number says; nothing lies ahead but possibly one
  uncommitted block; the entries already consumed are within one block of the head;
* `BootQueue`: what each step of boot has found out when it gets there;
* `RamQueue`: a store in use differs from its metadata in flash only by entries of the oldest
  block dropped since the last save.

The proof has one lemma per action, over lemmas on slots (two sequence numbers less than a
ring apart use different slots), on queues under an append, a drop and a delete, and on what
a block read back means. Assumptions are the modules' `ASSUME`s: at least one slot, at least
one entry a block, a batch that fits the block. TLC checks `IInv` too, in `store_batch`.

The contact store has an invariant of its own, `CountInv`: its metadata count blocks that are
all there, and the sum of their entries from the offset on (`Counted`); metadata in flash that
count a block count an entry, so that boot either clears the store or starts from an empty queue
(`Saved`); and what each step of a call or a boot has in hand (`AtStep`). The sum is a recursive
function (`Sums`), which the prover cannot unfold; the lemmas `SumExists`, `SumsAre`, `SumsType`
and `InStep` do it by way of the least number for which they would fail (`LeastNumber`, from the
library's `WFMin`), and from them follow the entries of one block more or less at either end.
`CountIsExact` joins it with `IInv`, for which the sum is a product.

The refinement needs `IInv`, too. A step that saves the metadata, or moves the head in
RAM, is an operation of the queue: the append is there with the save that counts its block, not
with the block's write; a boot that finds no usable metadata is the queue's loss of everything.
Every other step, the deletion of a retired block among them, leaves the queue alone, and this
is the part that has to be proved: that no read of what flash holds depends on it.

**The RAM ring.** `RamLogRingProofs` proves, for any sizes of ring, batch, store and export
buffer, and any number of logging threads, failures and exports: `TypeOK` (`RingTypes`),
`CopiedEntriesStay` (`CopiesStay`), `LogOrdered` (`LogInOrder`) and the action property
`EntriesLeaveRightly` (`NothingLostOnTheWay`). Its `IInv` adds what none of them says alone: the
ring's slots hold consecutive numbers up to the newest (`RingHolds`, over the arithmetic of the
wrapping indices); the flags taken under the lock tell where the two work queues stand outside
it, and never both are set (`Phases`); what each of them has copied is the oldest there is
(`FlushHolds`, `ExportHolds`); a batch written is at once the newest of flash and the oldest of
the ring (`BatchWritten`); flash holds whole blocks (`WholeBlocks`) in order (`FlashOrder`).
Besides the sizes' assumptions it takes the bounds on entries, failures and exports to be
natural numbers (`BoundAssumption`), of any size.

**Commands.** `CommandsProofs` proves, for any set of commands with any triples, any depth of the
queue, any record and defaults, and any number of presses, failures and restarts: `TypeOK`
(`CommandsTypes`), `NoCommandStranded` (`CommandsAreTaken`), `InForceIsStored`
(`ParametersAgree`) and the action property `GoodRecordSurvives` (`RecordSurvivesBoot`).
`InForceIsStored` speaks of the time between commands; what carries it over a command is
`OldIsStored`: while one is applied, flash holds what was in force before it, and so a result
equal to that needs no save. `IInv` joins the two with the type invariant. `LightTellsTheTruth`
(`LightIsTrue`) concerns the transmitter alone; `StoredWhole` (`CommandsStoredWhole`) needs that
the parameters while a command is applied are those after its triples so far (`Underway`), where
the result of the triples, a recursive function, is unfolded as the sums of the store are.

**Status.** `DeviceStatusProofs` proves, for any stores and parameter records, any levels and any
number of calls: `TypeOK` (`StatusTypes`), `BitsFollowAggregates` (`BitsFollow`),
`NetworkAsReported` (`NetworkFollows`) and `AdvertisedIsStatus` (`AdvertisedFollows`). Its `IInv` says
what each step of an interrupted call has in hand: a snapshot that is not torn is the aggregate,
and the first of the two bits is right already; a network byte read for writing is what the
owners gave but for fields that will be reverted; a radio byte that a call nobody disturbed
finds unchanged is advertised or about to be.

**Eco mode.** `EcoModeProofs` proves, for any number of commands, failing calls, connections and
level changes, everything the `eco_mode` run checks: `EcoAgrees` (`EcoAlwaysAgrees`),
`NeverStuck` (`EcoNeverStuck`), `OverrideOnTop` (`EcoOverrideOnTop`), `ScanningGoesOn`
(`EcoScanningGoesOn`), `AdvertisedIsCurrent` (`EcoAdvertisedIsCurrent`), `StoredInForce`
(`EcoStoredInForce`), and `TypeOK` (`EcoTypes`). What the properties say of a free lock, or of
the time between commands, its `IInv` says at each step in between:

* `Locks`: which steps of the two threads hold `motion_lock`;
* `Tracks`: how far a change of eco mode has come while it is held, so that the override, when
  it is set, always changes, and the status byte written by a command always differs;
* `CommandNotes`: which of the parameters before a command are noted at each of its steps;
* `MotionHolds`: a command that has changed the detection, and has not committed it, is the only
  reason for eco mode without detection, or for being awake without a timer, as long as no
  command has set it twice (`MotionGuarded`);
* `StoredHolds`: while a command's radio parameters are not accepted, flash is measured against
  those before it (`old_mode`), afterwards against its own.

One lemma per conjunct, one step per action; `ApplyModeDoes` says once what applying a mode
achieves, whichever call of the controller fails. `BoundAssumption` as for the ring.

**The contacts.** `ContactLogProofs` proves, for any sizes of ring, block, store and export
buffer, any level thresholds, and any number of contacts, failures and exports: `TypeOK`
(`ContactTypes`), `FlushOnItsWay` (`FlushComes`), `LevelFollowsContacts` (`LevelSettles`),
`CopiedContactsStay` (`CopiesStay`), `LogOrdered` (`LogInOrder`) and the action property
`ContactsLeaveRightly` (`NothingLostOnTheWay`). Its `IInv` adds:

* `Phases`: which steps of the two work queues go with a flush or an export reserved under the
  lock, and that there is never one of each;
* `FlushHolds`, `BlockWritten`: the block being flushed is the oldest of the ring, and once
  written it is in flash;
* `ExportHolds`: an export has the oldest of the oldest block, or the oldest of the ring while
  flash is empty;
* `Order`: flash and ring are each sorted and follow each other, but for the block that is in
  both, and everything delivered lies ahead;
* `LevelFollows`: unless a thread is still going to ask for an update (`Unsettled`), the update
  under way has the right numbers so far, but for contacts heard since (`uncounted`), or the level
  is that of its count.

`LevelFollowsContacts` is not inductive because an update reads the count in two halves, between
which anything may happen: it is `Unsettled` that accounts for a count that is out of date. What flash
holds is the concatenation of blocks of any length (`FlattenSeq`); the lemmas on it, with one
block more at the end, one less in front or a shorter first one, are proved by way of the
shortest counterexample.

**The readout.** `NusTransferProofs` proves, for any backlog of the three domains, any packet
size and any number of button presses and adverse events: `TypeOK` (`TypeCorrect`),
`DroppedWereReceived` (`DropsOnlyReceived`), `NotSentTwice` (`NothingSentTwice`),
`SendConfirmsItself` (`SendIsConfirmedByItself`), `CleanBetweenConnections`
(`NothingLeftBehind`), `StopIsFinal` (`StopHolds`) and the action property `StartHonoured`
(`StartIsHonoured`). `StopIsFinal` is inductive together with the types and `Ends`: the base's
rescanning clears a stop only in the step that has looked for one. An acknowledgement names its
domain and a number of entries and nothing else; that the one which lets a batch go answers that
batch is what the invariant has to show:

* `Stages`: which steps of the transfer thread hold a reservation, of its own domain only;
* `Ends`, `Starts`: what may be on the link while one end, or neither, is connected; on a
  connection whose transfer has not begun, nothing has been sent, and its start command comes
  before everything else;
* `Active`: a transfer is marked active only as long as it holds its connection;
* `Sends`: slot, semaphore and callbacks still to come account for each other as long as the
  connection is ready;
* `Packets`: of a domain at most one packet or its acknowledgement is on its way, and it is the
  batch that is reserved; domains still to come have none;
* `Acks`: an expectation that is set, or was met, is that of the batch at hand; one that was
  left by a packet never sent is met by nothing.

**LEDs and button.** `SelfReportProofs` proves, for any defaults, any record in flash and any
number of commands, failing calls and restarts: `TypeOK` (`ReportTypes`), `LedsSettle`
(`LedsAlwaysSettle`) and `PressIsTimed` (`PressesAreTimed`). `LedsSettle` speaks of the time
between commands; its `IInv` says at each step of one what the LEDs go by, which until the commit
are the parameters before it (`InForce`): the firework is switched and its work item pending
(`FireworkHolds`), every light that burns has a handler to end it (`LightsHold`), flash is behind
only until the save (`KeptHolds`). `ButtonHolds`, that the long press is never waiting for its
time and for the work queue at once, makes its handler the end of it.

**Only model-checked** are the liveness properties (`DueFlushHappens`, `EverythingIsReadOut`,
`HeardIsApplied`): liveness under fairness and `ENABLED` are out of the prover's reach. The
library's induction theorems are, too, since they take an operator as a parameter; where a proof
needs induction over a number or a sequence, it takes the least counterexample instead. Every
assumption of the theorems is an `ASSUME` of the modules: sizes that are positive, bounds that
are natural numbers, threads and sentinels that differ.

## 6. Assumptions and what is left out

* NVS replaces and deletes a record atomically, and a call that reports an error changed
  nothing; `nvs_clear` is not atomic. Memory is not corrupted.
* Sequence numbers do not wrap at 2^32.
* Time is left out: a timer may fire at any moment after it was started, except where a
  property needs the idle timers to wait for quiet; firing early there is an adverse event.
* A failed mount erases the partition: modelled, and allowed by `DurableQueue` at boot. That the
  erasure may stop halfway is modelled too, and left out of the run and the proofs of the batch
  stores, which it breaks (section 3).
* In `DeviceStatus` a storage-fault call of the system work queue (`network.c:454`, by way of
  `flash_ring_store_init`) is the one of the transfer queue; that it might come between the steps
  of such a call, rather than of one on the storage work queue, is left out.
* The link delivers in order; a notification may be lost only as an adverse event.
* Not modelled: parsing, formatting and display, the base's output queue, which blocks its
  producer, and the PARSED output format, in which the base never acknowledges; the identity
  table; the values of the radio's, motion's and LEDs' intervals, and lengths and checksums of
  the records (reduced to the format they tell apart); RSSI tests of a contact: the parameters
  are in `NetworkParams`, `ContactLog` has the contacts that passed; GPIO failures, a motion
  sensor that does not answer, the ADC; the contents of reports and of eco log entries; scan
  levels of the base; transmit power; synthetic contacts of development builds; the host tools.
* Left alone on purpose: `device.c`'s bits that `radio.c` and `motion.c` set directly, from which
  nothing is derived, and its two whole-byte setters, which nobody calls.

## 7. Plan

1. Done: store, rings, contact pipeline, readout, eco mode, LEDs and self-report button,
   control transmitter, command queue and network parameters, status bytes: modelled, checked,
   and their safety and action properties proved; the store's refinement proved.
2. Model next: the base's output queue between its callbacks and its output thread; the
   PARSED output format; contacts judged by parameters that a command is changing.
3. Prove next: that `RamLogRing` and `ContactLog`, with their flash store, implement a
   `DurableQueue` of log entries.
