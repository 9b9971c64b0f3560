# A TLA+ model of HIDShift

HIDShift connects USB keyboards and mice to computers over Bluetooth LE (BLE).
The default build runs on one ESP32-S3. The `dual-s3-wired` build adds a second
chip that presents the devices to a computer by cable, the *Wired* target.

## The parts of the system

| Part | State | What changes it | What is hard about it |
|---|---|---|---|
| Settings journal (`src/storage.rs`) | two flash slots of records, RAM cache, append positions | boot scan, persist, erase, write, verify, factory reset | power loss at any point, failed flash operations, generation wrap |
| Storage task and write policy (`storage_task.rs`, `src/storage.rs`) | pending snapshot, priority, deadline, failures | commands, timers, results of writes | writes deferred for connected hosts, retries, full queues |
| Quiesce protocol (storage, BLE, USB hub tasks, runtime owner) | capacity-one channels, who holds the radio | requests, answers, timeouts | four tasks waiting for each other; a timeout resets the chip |
| Bridge (`src/bridge/`, `src/output_target.rs`) | host table, target, suppression, LEDs | host, device, selection and Wired events | keys held while targets, links and devices come and go |
| Input aggregation (`src/input/`) | what each interface holds | frames, detach | several devices, six-key reports, newest usage wins |
| Runtime (`src/runtime.rs`, `src/runtime/`) | settings, generation, health, pairing, delayed switches | messages, ticks, management | rollback of a change whose commands do not fit |
| Interchip link (`src/interchip/`) | send window, sequences, session, delivery queue | SPI cells, timeouts, resets | loss, repetition, session change with records in flight |
| Profile transfer and presentation (`src/mirror/`, `profile_transfer.rs`) | staged and committed profile, active presentation | begin, chunk, commit, USB state | replay after a reset, transitions racing input |
| BLE connections (`src/ble_connection.rs`) | slots, revocations, pairing backoff | connect, disconnect, pair, clear | a revoked peer reconnecting, slots running out |
| Management, buttons, watchdog, USB host | sessions, press timers, heartbeats, device slots | requests, samples, attach and detach | late answers, allowances against timeouts |
| Descriptor parsing, report and record encoding | none | | pure functions over bytes |
| Companion, web manager, tools | | | programs on the computer |

`PROJECT.json` lists all of them with their status.

## The modules

**FlashJournal** models `NorFlashStorageBackend` and `persist_storage_state`. One
flash operation is one step, so power can be lost between any two and within
each. A record is an image (generation and payload), erased, or torn. `op` is the
operation in progress; `acked` and `attempted` are history. `Faults` chooses the
faults: failing erase, read, boot scan, write, torn erase, interrupted reset.

**StorageTask** models how a change reaches flash: `storage_command_task`,
`StoragePersistence`, `StorageTaskPolicy`, and the handshakes with the BLE task,
the hub task and the runtime owner. A snapshot is its generation. `pc` fields name
the await a task is in, `channels` are the capacity-one channels, `inputs` and
`commands` the bounded queues. As in `startup_task`, the runtime's queue starts
with the health `Initializing`, so changes are rejected until the storage task
reports.

**Bridge** models what each computer has been told is pressed (`seen`), for both
builds (`Dual`). Each action is one `RuntimeInput` with everything its bridge event
dispatches. `physical` and `carried` are history: what is really held, and what
has been held since the last switch. The dual build is modelled with the Fallback
presentation, that is without a Mirror target.

**FlashJournalProofs** and **JournalRestoreProofs** hold the theorems; the `MC`
modules give TLC its constants.

## The runs

| Run | What it shows |
|---|---|
| `journal_faults` | with every fault, a persist touches only the slot without the acknowledged image, which stays in flash |
| `journal_powerloss` | with power loss and benign faults, a reboot restores the acknowledged image or a newer attempted one, across the wrap |
| `journal_writefault` | *violated*: see finding 1 |
| `storage_safety` | flash is written only while radio and runtime stand still; no handshake times out; only the current state is written |
| `storage_liveness` | a critical change does not stay pending although hosts stay connected (it is written, or a reset drops it); a failed write is retried when no host is connected; quiet and current writes also across resets caused by long enumerations |
| `storage_degraded` | *violated*: see finding 2 |
| `bridge_single` | switching, fallback, detach and quiesce neither leak, stick nor lose a control; the key limit |
| `bridge_usages` | consumer usages of two devices, LEDs of two hosts |
| `bridge_dual` | exclusive routing and LEDs with Wired |
| `bridge_held_usage`, `bridge_dual_stuck`, `bridge_dual_failover` | *violated*: see findings 3 to 5 |

### Bounds

- Journal: two records per slot, so every second persist into a slot erases it;
  generations wrap at 4 or 6, so wrapping happens; two interchangeable payloads.
- Storage: one tick stands for a second or more. The code's delays (1 and 5 s
  debounce, 1 s retry, 5 s until a critical write is forced, 2 s handshakes, 10 and
  30 s operations) are shortened, keeping the order of the ones that race. Queues
  hold two messages so that they fill. `Burst` events may happen per tick; two are
  needed to fill the command queue, so `storage_safety` uses 2 and the larger
  temporal check uses 1. `MaxFailures = 1` is below `FailureLimit`.
- `EnumMax` is below `Handshake` in `storage_safety`, which is an assumption, not a
  fact of the code: `enumerate_hub_port_with_retries` may take four attempts of 5 s
  while the storage handshake has 2 s. With `EnumMax = Handshake` a snapshot falling
  due during an enumeration resets the chip, and `NoHandshakeTimesOut` fails.
  `storage_liveness` therefore runs with `EnumMax = Handshake`, without that property:
  resets happen there, and the other properties must survive them.
- Bridge: two hosts, up to two devices, a key limit of one with two keys, so that
  the window overflows. Interfaces, keys and usages are symmetric.

The bridge runs switch deadlock checking off: a bridge with nothing to do may stop.

### Fairness

Only StorageTask has liveness. `WF(TaskStep)`: an executor polls every task that
can run. `WF(Tick)`: time passes. Nothing is assumed of hosts, devices or users.
Time passes only when no task can run, since steps are short against a second; a
flash write is counted among them.

## What is proved

For every number of records, generation modulus, payload set and choice of faults:

- `JournalInvariant`, `JournalTypeOK`, `AcknowledgedStaysOnFlash`. `AckedOnFlash` is
  not inductive: one must know that an operation works on the slot without the
  newest image (`BusyOk`), that the acknowledged image is the cache's newest and in
  its slot (`AckedOk`), and that generations stay within half the modulus
  (`GenerationsOk`). `JournalInv` is their conjunction with `TypeOK`.
- `RestoreInvariant`, `AcknowledgedIsRestored`, `OnlyErasedIsProgrammed`, for benign
  faults (failing erase, read or scan). `RestoreInv` adds the layout of a slot
  (images, then at most one torn record, then erased ones) and that cache and flash
  agree. Benign faults are needed: finding 1 is a counterexample otherwise.

The assumptions are those on the constants in FlashJournal. Everything about
StorageTask and Bridge, and all liveness, is checked by TLC only.

## Findings

1. A record that fails its write or verification hides later records of its slot
   from the boot scan, so an acknowledged image may not be restored.
2. After one failed write of a change that is not critical, the runtime rejects every
   change while the retry is deferred for as long as a host stays connected.
   There is a second way into this state: after `STORAGE_RETRY_FAILURE_LIMIT` failures
   the retry waits for a new snapshot, which the degraded runtime refuses to take. The
   runs stay below the limit; with `MaxFailures = FailureLimit` TLC finds this case too,
   with no host connected.
3. Two devices hold consumer usages during a switch: only the newest is captured,
   and releasing it shows the older one to the new target.
4. With Wired selected and no Mirror target, unplugging a device sends no release.
5. `docs/dual-s3.md` says that a lost selection never fails over; the code does, and a
   test expects it.

Two more disagreements of the dual build were seen with TLC and have no run. A frame
dropped during a presentation transition is unknown to the capture of the next
switch, so a key held across it is shown to the new target. Clearing the selected
host leaves `output_target.active` naming it until the next refresh.

## Limits of the model

- **One payload per generation.** FlashJournal assumes it. The code could break it: the
  quiesce snapshot may write generation g before the queued `Persist` of g is staged,
  and a host connecting in between adds an empty profile without a new generation.
  Two slots would then have equal generations, and a tie prefers slot A.
- The capacity check and the send to the storage queue are one step; the button task,
  its second producer, cannot come between.
- Arrivals per tick are bounded, so input that never pauses, which the runtime polls
  before the barrier, is not explored. Changes are bounded too, so an endless stream
  of critical changes, each restarting the deadline, is not.
- The factory reset of StorageTask may be requested at any time; the code offers it at
  power-on only.

## Plan

1. Interchip link: `ReliableSender`, `ReliableReceiver`, `ReliableDeliveryQueue` and
   `DeviceLink` over a lossy channel, refining an abstract in-order delivery.
2. Runtime: pairing and delayed switches, rollback; then presentation transitions and
   profile transfer, composed with Bridge.
3. BLE connection slots and backoff, USB topology, buttons, watchdog allowance.
4. Proofs: type correctness and exclusive routing of Bridge, `QuietWhileBusy` of
   StorageTask, safety of the link; an abstract durable register that FlashJournal
   implements.

The map covers about 2,700 source lines so far, a small part of the roughly 31,600
lines of implementation; items 1 to 3 are the larger parts still missing.
