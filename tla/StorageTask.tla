----------------------------- MODULE StorageTask -----------------------------
(***************************************************************************)
(* How a settings change reaches flash on the Host-role chip: the storage  *)
(* task with its debounce (StoragePersistence, StorageTaskPolicy), and the *)
(* handshakes by which it, the USB hub task, the BLE task and the runtime  *)
(* owner stop the radio and the runtime for a flash write or for the       *)
(* enumeration of a hub port.                                              *)
(*                                                                         *)
(* A snapshot of the settings is its generation.  Time advances in ticks,  *)
(* and only when no task can run: a task step takes no time, a flash write *)
(* included, an enumeration takes a chosen number of ticks, and a          *)
(* handshake that is not answered in time resets the chip.                 *)
(***************************************************************************)
EXTENDS Integers, Sequences, FiniteSetsExt

CONSTANTS
    InputCap, CommandCap,           \* capacity of the runtime and storage queues
    NormalDelay, LazyDelay,         \* STORAGE_PERSIST_DEBOUNCE_MS, _LAZY_MS
    ActiveRetry,                    \* STORAGE_ACTIVE_BLE_RETRY_MS
    ForceAfter,                     \* STORAGE_CRITICAL_FORCE_QUIESCE_MS
    RetryBase, RetryMax,            \* STORAGE_RETRY_BASE_MS, _MAX_MS
    FailureLimit,                   \* STORAGE_RETRY_FAILURE_LIMIT
    Handshake,                      \* the three handshake timeouts of 2 s
    StorageOperation, UsbOperation, \* STORAGE_ and USB_QUIESCE_OPERATION_TIMEOUT_MS
    EnumMax,                        \* longest enumeration of a hub port
    Backends,                       \* health of the flash backend at boot: Persistent
                                    \* or UnavailableHealth
    MaxGen,                         \* bound: snapshots taken
    Burst,                          \* bound: outside events per tick
    MaxFailures,                    \* bound: flash writes and snapshots that fail
    StartGens                       \* generations found in flash at first boot

ASSUME StorageTaskAssumption ==
    /\ {InputCap, CommandCap, ActiveRetry, RetryBase, FailureLimit,
        Handshake, StorageOperation, UsbOperation} \subseteq Nat \ {0}
    /\ {NormalDelay, LazyDelay, ForceAfter, RetryMax, EnumMax,
        MaxGen, Burst, MaxFailures} \subseteq Nat
    /\ StartGens \subseteq 0 .. MaxGen
    /\ Backends \subseteq {1, 3}

Initializing == 0
Persistent == 1
UnavailableHealth == 3
Degraded == 4
Healths == {Initializing, Persistent, UnavailableHealth, Degraded}

Lazy == 0
Normal == 1
Critical == 2
Priorities == {Lazy, Normal, Critical}

NoState == -1                     \* Option::None for a snapshot or a priority
NoDeadline == -1 - ForceAfter     \* Option::None for a deadline
Empty == -2                       \* an empty capacity-one channel
Unit == 0

VARIABLES
    inputs,          \* the runtime input queue
    commands,        \* the storage command queue
    channels,        \* the capacity-one channels of the handshakes
    runtime,         \* runtime owner: [pc, generation, health]
    persistence,     \* StoragePersistence; deadlines are relative to now
    storage,         \* storage task: [pc, timer, backend, reported, plan]
    ble,             \* BLE task: [pc, owner, timer]
    connections,     \* BLE_ACTIVE_CONNECTIONS
    usb,             \* USB hub task: [pc, timer], and history: long
    stored,          \* generation of the newest image in flash
    credit,          \* outside events left in this tick
    failures_left,   \* flash writes and snapshots that may still fail
    timed_out        \* history: a handshake timed out without a long enumeration

vars == <<inputs, commands, channels, runtime, persistence, storage, ble,
          connections, usb, stored, credit, failures_left, timed_out>>

Channels == {"restore", "request", "ready", "done",
             "usb_request", "usb_ready", "usb_done",
             "barrier", "barrier_done", "resume"}

Message(kind, arg) == [kind |-> kind, arg |-> arg]
Messages ==
    [kind : {"change"}, arg : Priorities] \cup [kind : {"health"}, arg : Healths]
        \cup [kind : {"restore"}, arg : 0 .. MaxGen]
        \cup [kind : {"input", "report"}, arg : {Unit}]
StorageCommands == [kind : {"persist"}, state : 0 .. MaxGen, priority : Priorities]
                   \cup [kind : {"reset"}]

Full(c) == channels[c] # Empty
Send(c, v) == [channels EXCEPT ![c] = v]
Receive(c) == [channels EXCEPT ![c] = Empty]

-----------------------------------------------------------------------------
(* StoragePersistence. *)

NothingPending ==
    [state |-> NoState, priority |-> NoState, deadline |-> NoDeadline,
     failures |-> 0, suspended |-> FALSE]

Delay(priority) ==
    CASE priority = Critical -> 0
      [] priority = Normal -> NormalDelay
      [] priority = Lazy -> LazyDelay

(* stage(): a new generation forgets earlier failures, the higher priority
   wins, and the deadline is only kept when the staged priority is lower. *)
Stage(p, state, priority) ==
    LET merged == Max({p.priority, priority})
        fresh == p.state # state
    IN  [state |-> state,
         priority |-> merged,
         deadline |-> IF p.deadline # NoDeadline /\ merged # priority
                      THEN Min({p.deadline, Delay(merged)}) ELSE Delay(merged),
         failures |-> IF fresh THEN 0 ELSE p.failures,
         suspended |-> IF fresh THEN FALSE ELSE p.suspended]

\* Mutant: the snapshot staged by the command is kept.
KeepsStaged(p, state) == p

(* stage_quiesce_snapshot() *)
StageQuiesceSnapshot(p, state) ==
    IF p.state = state THEN p ELSE Stage(p, state, Critical)

(* record_failure() *)
RecordFailure(p) ==
    IF p.failures + 1 >= FailureLimit
    THEN [p EXCEPT !.failures = @ + 1, !.suspended = TRUE, !.deadline = NoDeadline]
    ELSE [p EXCEPT !.failures = @ + 1,
                   !.deadline = Min({RetryBase * 2 ^ p.failures, RetryMax})]

EffectiveHealth(p, backend) ==
    IF backend = Persistent /\ p.failures > 0 THEN Degraded ELSE backend

\* Mutant: an overdue critical snapshot waits for the last connection to go.
NeverForced(p) ==
    p.state # NoState /\ ~p.suspended /\ p.deadline <= 0 /\ connections = 0

(* StorageTaskPolicy::evaluate, the QuiesceAndPersist cases. *)
MustPersist(p) ==
    /\ p.state # NoState /\ ~p.suspended /\ p.deadline <= 0
    /\ \/ connections = 0
       \/ p.priority = Critical /\ p.deadline # NoDeadline /\ -p.deadline >= ForceAfter

-----------------------------------------------------------------------------
StorageBoots(backend) ==
    [pc |-> "boot", timer |-> 0, backend |-> backend, reported |-> backend,
     plan |-> <<>>]

(* startup_task queues this before any task that changes settings runs. *)
FirstInputs == <<Message("health", Initializing)>>

(* software_reset(): every task starts again. *)
PoweredUp(backend) ==
    /\ inputs' = FirstInputs
    /\ commands' = <<>>
    /\ channels' = [c \in Channels |-> Empty]
    /\ runtime' = [pc |-> "select", generation |-> 0, health |-> Persistent]
    /\ persistence' = NothingPending
    /\ storage' = StorageBoots(backend)
    /\ ble' = [pc |-> "restore", owner |-> "none", timer |-> 0]
    /\ connections' = 0
    /\ usb' = [pc |-> "idle", timer |-> 0, long |-> FALSE]

Init ==
    /\ inputs = FirstInputs
    /\ commands = <<>>
    /\ channels = [c \in Channels |-> Empty]
    /\ runtime = [pc |-> "select", generation |-> 0, health |-> Persistent]
    /\ persistence = NothingPending
    /\ \E backend \in Backends :
          storage = StorageBoots(backend)
    /\ ble = [pc |-> "restore", owner |-> "none", timer |-> 0]
    /\ connections = 0
    /\ usb = [pc |-> "idle", timer |-> 0, long |-> FALSE]
    /\ stored \in StartGens
    /\ credit = Burst
    /\ failures_left = MaxFailures
    /\ timed_out = FALSE

bounds == <<credit, failures_left, timed_out>>

-----------------------------------------------------------------------------
(* The storage task: boot. *)

StorageGoes(pc) == storage' = [storage EXCEPT !.pc = pc]
Tell(message) == Len(inputs) < InputCap /\ inputs' = Append(inputs, message)

BootReportsHealth ==
    /\ storage.pc = "boot"
    /\ Tell(Message("health", storage.backend))
    /\ StorageGoes("restore_ble")
    /\ UNCHANGED <<commands, channels, runtime, persistence, ble, connections, usb,
                   stored, bounds>>

(* restore_latest_storage_state; an unavailable backend has no image. *)
RestoredState == IF storage.backend = UnavailableHealth THEN 0 ELSE stored

BootRestoresBle ==
    /\ storage.pc = "restore_ble"
    /\ channels' = Send("restore", RestoredState)
    /\ StorageGoes("restore_runtime")
    /\ UNCHANGED <<inputs, commands, runtime, persistence, ble, connections, usb,
                   stored, bounds>>

BootRestoresRuntime ==
    /\ storage.pc = "restore_runtime"
    /\ Tell(Message("restore", RestoredState))
    /\ StorageGoes("loop")
    /\ UNCHANGED <<commands, channels, runtime, persistence, ble, connections, usb,
                   stored, bounds>>

-----------------------------------------------------------------------------
(* The storage task: the command loop. *)

Working == storage.backend # UnavailableHealth

(* quiesce_ble_for_flash_write: the request, and the time its answer has. *)
Requests(pc) ==
    /\ channels' = Send("request", Unit)
    /\ storage' = [storage EXCEPT !.pc = pc, !.timer = Handshake]

(* A command arrives while the task awaits one or sleeps. *)
ReceiveCommand ==
    /\ \/ storage.pc = "loop" /\ (Working => ~MustPersist(persistence))
       \/ storage.pc = "sleep"
    /\ commands # <<>>
    /\ commands' = Tail(commands)
    /\ \/ /\ ~Working
          /\ storage' = [storage EXCEPT !.pc = "complete", !.plan = <<"report">>]
          /\ UNCHANGED <<persistence, channels>>
       \/ /\ Working /\ Head(commands).kind = "persist"
          /\ persistence' = Stage(persistence, Head(commands).state,
                                  Head(commands).priority)
          /\ StorageGoes("loop")
          /\ UNCHANGED channels
       \/ /\ Working /\ Head(commands).kind = "reset"
          /\ Requests("reset_ready")
          /\ UNCHANGED persistence
    /\ UNCHANGED <<inputs, runtime, ble, connections, usb, stored, bounds>>

(* WaitForDeadline and DeferForActiveBle. *)
FallAsleep ==
    /\ storage.pc = "loop" /\ Working /\ commands = <<>>
    /\ persistence.state # NoState /\ ~persistence.suspended
    /\ ~MustPersist(persistence)
    /\ storage' = [storage EXCEPT !.pc = "sleep",
                      !.timer = IF persistence.deadline > 0
                                THEN persistence.deadline ELSE ActiveRetry]
    /\ UNCHANGED <<inputs, commands, channels, runtime, persistence, ble,
                   connections, usb, stored, bounds>>

WakeUp ==
    /\ storage.pc = "sleep" /\ storage.timer = 0
    /\ StorageGoes("loop")
    /\ UNCHANGED <<inputs, commands, channels, runtime, persistence, ble,
                   connections, usb, stored, bounds>>

QuiesceAndPersist ==
    /\ storage.pc = "loop" /\ Working
    /\ MustPersist(persistence)
    /\ Requests("ready")
    /\ UNCHANGED <<inputs, commands, runtime, persistence, ble, connections, usb,
                   stored, bounds>>

(* The BLE task has stopped and hands over the runtime's snapshot; without one
   the persist is abandoned. *)
QuiesceReady ==
    /\ storage.pc = "ready" /\ Full("ready")
    /\ channels' = Receive("ready")
    /\ \/ /\ channels["ready"] = NoState
          /\ storage' = [storage EXCEPT !.pc = "complete", !.plan = <<"release">>]
          /\ UNCHANGED persistence
       \/ /\ channels["ready"] # NoState
          /\ persistence' = StageQuiesceSnapshot(persistence, channels["ready"])
          /\ StorageGoes("write")
    /\ UNCHANGED <<inputs, commands, runtime, ble, connections, usb, stored, bounds>>

\* Mutant: the reports are sent before the quiesce is released.
ReportsBeforeRelease(change) ==
    IF change THEN <<"health", "report", "release">> ELSE <<"report", "release">>

(* QuiescedPersistCompletion: the order of what follows a flash write. *)
Completion(change) ==
    IF change THEN <<"release", "health", "report">> ELSE <<"release", "report">>

(* persist_due: nothing to write, or the write succeeds or fails. *)
Outcomes ==
    IF persistence.deadline = NoDeadline \/ persistence.deadline > 0 THEN {"not_due"}
    ELSE {"written"} \cup IF failures_left > 0 THEN {"failed"} ELSE {}

PersistDue ==
    /\ storage.pc = "write"
    /\ \E outcome \in Outcomes :
          /\ failures_left' = failures_left - (IF outcome = "failed" THEN 1 ELSE 0)
          /\ stored' = IF outcome = "written" THEN persistence.state ELSE stored
          /\ persistence' = CASE outcome = "written" -> NothingPending
                              [] outcome = "failed" -> RecordFailure(persistence)
                              [] OTHER -> persistence
    /\ LET health == EffectiveHealth(persistence', storage.backend)
       IN  storage' = [storage EXCEPT !.pc = "complete", !.reported = health,
                          !.plan = Completion(health # storage.reported)]
    /\ UNCHANGED <<inputs, commands, channels, runtime, ble, connections, usb,
                   credit, timed_out>>

(* complete_quiesced_persist, one await at a time. *)
Complete ==
    /\ storage.pc = "complete"
    /\ LET step == Head(storage.plan)
       IN  /\ IF step = "release" THEN channels' = Send("done", Unit)
                                  ELSE UNCHANGED channels
           /\ CASE step = "release" -> UNCHANGED inputs
                [] step = "health" -> Tell(Message("health", storage.reported))
                [] step = "report" -> Tell(Message("report", Unit))
    /\ storage' = [storage EXCEPT !.plan = Tail(@),
                      !.pc = IF Len(storage.plan) = 1 THEN "loop" ELSE "complete"]
    /\ UNCHANGED <<commands, runtime, persistence, ble, connections, usb, stored,
                   bounds>>

(* FactoryReset: the snapshot is ignored and both slots are erased. *)
ResetReady ==
    /\ storage.pc = "reset_ready" /\ Full("ready")
    /\ channels' = Receive("ready")
    /\ StorageGoes("erase")
    /\ UNCHANGED <<inputs, commands, runtime, persistence, ble, connections, usb,
                   stored, bounds>>

EraseSucceeds ==
    /\ storage.pc = "erase"
    /\ stored' = 0
    /\ \E backend \in Backends : PoweredUp(backend)
    /\ UNCHANGED bounds

(* A failed erase may already have erased some or all of the images. *)
EraseFails ==
    /\ storage.pc = "erase"
    /\ failures_left > 0
    /\ failures_left' = failures_left - 1
    /\ stored' \in 0 .. stored
    /\ storage' = [storage EXCEPT !.pc = "complete", !.plan = Completion(FALSE)]
    /\ UNCHANGED <<inputs, commands, channels, runtime, persistence, ble,
                   connections, usb, credit, timed_out>>

-----------------------------------------------------------------------------
(* The runtime owner. *)

(* ensure_capacity, for the storage queue. *)
HasRoom == Len(commands) < CommandCap

(* push_storage_snapshot, then dispatch: a change that cannot be persisted is
   rolled back, generation included. *)
ApplyChange(priority) ==
    IF runtime.health = Persistent /\ HasRoom
    THEN /\ runtime' = [runtime EXCEPT !.generation = @ + 1]
         /\ commands' = Append(commands, [kind |-> "persist", priority |-> priority,
                                          state |-> runtime.generation + 1])
    ELSE UNCHANGED <<runtime, commands>>

RuntimeProcesses ==
    /\ runtime.pc = "select"
    /\ inputs # <<>>
    /\ inputs' = Tail(inputs)
    /\ LET message == Head(inputs)
       IN  CASE message.kind = "change" -> ApplyChange(message.arg)
             [] message.kind = "health" ->
                  /\ runtime' = [runtime EXCEPT !.health = message.arg]
                  /\ UNCHANGED commands
             [] message.kind = "restore" ->
                  /\ runtime' = [runtime EXCEPT !.generation = message.arg]
                  /\ UNCHANGED commands
             [] OTHER -> UNCHANGED <<runtime, commands>>
    /\ UNCHANGED <<channels, persistence, storage, ble, connections, usb, stored,
                   bounds>>

(* select() polls the input queue first. *)
BarrierTurn == inputs = <<>> /\ Full("barrier")

(* The runtime stops behind the barrier and answers with its storage state;
   storage_state() may fail. *)
RuntimeStops ==
    /\ runtime.pc = "select"
    /\ BarrierTurn
    /\ runtime' = [runtime EXCEPT !.pc = "held"]
    /\ \E state \in {runtime.generation} \cup IF failures_left > 0 THEN {NoState} ELSE {} :
          /\ channels' = [channels EXCEPT !["barrier"] = Empty, !["barrier_done"] = state]
          /\ failures_left' = failures_left - (IF state = NoState THEN 1 ELSE 0)
    /\ UNCHANGED <<inputs, commands, persistence, storage, ble, connections, usb,
                   stored, credit, timed_out>>

RuntimeResumes ==
    /\ runtime.pc = "held" /\ Full("resume")
    /\ channels' = Receive("resume")
    /\ runtime' = [runtime EXCEPT !.pc = "select"]
    /\ UNCHANGED <<inputs, commands, persistence, storage, ble, connections, usb,
                   stored, bounds>>

-----------------------------------------------------------------------------
(* The BLE task. *)

BleStarts ==
    /\ ble.pc = "restore" /\ Full("restore")
    /\ channels' = Receive("restore")
    /\ ble' = [ble EXCEPT !.pc = "run"]
    /\ UNCHANGED <<inputs, commands, runtime, persistence, storage, connections, usb,
                   stored, bounds>>

Request(owner) == IF owner = "storage" THEN "request" ELSE "usb_request"
Ready(owner) == IF owner = "storage" THEN "ready" ELSE "usb_ready"
Done(owner) == IF owner = "storage" THEN "done" ELSE "usb_done"
Operation(owner) == IF owner = "storage" THEN StorageOperation ELSE UsbOperation

(* select3 polls the storage request before the USB one.  The connections are
   dropped and the runtime is asked to stop. *)
BleStops(owner) ==
    /\ ble.pc = "run"
    /\ Full(Request(owner))
    /\ owner = "usb" => ~Full("request")
    /\ connections' = 0
    /\ channels' = [channels EXCEPT ![Request(owner)] = Empty, !["barrier"] = Unit]
    /\ ble' = [pc |-> "barrier", owner |-> owner, timer |-> Handshake]
    /\ UNCHANGED <<inputs, commands, runtime, persistence, storage, usb, stored, bounds>>

\* Mutant: the BLE task answers before the runtime has stopped.
AnswersAtOnce == ble.pc = "barrier"

(* disconnect_runtime_hosts_before_quiesce: the runtime has answered. *)
RuntimeAnswered == ble.pc = "barrier" /\ Full("barrier_done")

BleStopped ==
    /\ RuntimeAnswered
    /\ channels' = [channels EXCEPT !["barrier_done"] = Empty,
                       ![Ready(ble.owner)] = IF ble.owner = "storage"
                                             THEN channels["barrier_done"] ELSE Unit]
    /\ ble' = [ble EXCEPT !.pc = "hold", !.timer = Operation(ble.owner)]
    /\ UNCHANGED <<inputs, commands, runtime, persistence, storage, connections, usb,
                   stored, bounds>>

BleResumes ==
    /\ ble.pc = "hold" /\ Full(Done(ble.owner))
    /\ channels' = [channels EXCEPT ![Done(ble.owner)] = Empty, !["resume"] = Unit]
    /\ ble' = [pc |-> "run", owner |-> "none", timer |-> 0]
    /\ UNCHANGED <<inputs, commands, runtime, persistence, storage, connections, usb,
                   stored, bounds>>

-----------------------------------------------------------------------------
(* The USB hub task: enumerating a hub port. *)

UsbReady ==
    /\ usb.pc = "ready" /\ Full("usb_ready")
    /\ channels' = Receive("usb_ready")
    /\ \E d \in 0 .. EnumMax :
          usb' = [pc |-> "enumerate", timer |-> d, long |-> d >= Handshake]
    /\ UNCHANGED <<inputs, commands, runtime, persistence, storage, ble, connections,
                   stored, bounds>>

UsbEnumerated ==
    /\ usb.pc = "enumerate" /\ usb.timer = 0
    /\ channels' = Send("usb_done", Unit)
    /\ usb' = [usb EXCEPT !.pc = "idle"]
    /\ UNCHANGED <<inputs, commands, runtime, persistence, storage, ble, connections,
                   stored, bounds>>

-----------------------------------------------------------------------------
(* Any of the waits of a handshake runs into its timeout: the chip resets. *)
HandshakeTimesOut ==
    /\ \/ storage.pc \in {"ready", "reset_ready"} /\ storage.timer = 0
       \/ ble.pc \in {"barrier", "hold"} /\ ble.timer = 0
       \/ usb.pc = "ready" /\ usb.timer = 0
    /\ timed_out' = (timed_out \/ ~usb.long)
    /\ \E backend \in Backends : PoweredUp(backend)
    /\ UNCHANGED <<stored, credit, failures_left>>

TaskStep ==
    \/ BootReportsHealth \/ BootRestoresBle \/ BootRestoresRuntime
    \/ ReceiveCommand \/ FallAsleep \/ WakeUp
    \/ QuiesceAndPersist \/ QuiesceReady \/ PersistDue \/ Complete
    \/ ResetReady \/ EraseSucceeds \/ EraseFails
    \/ RuntimeProcesses \/ RuntimeStops \/ RuntimeResumes
    \/ BleStarts \/ BleStopped \/ BleResumes
    \/ \E owner \in {"storage", "usb"} : BleStops(owner)
    \/ UsbReady \/ UsbEnumerated
    \/ HandshakeTimesOut

CountDown(n) == IF n > 0 THEN n - 1 ELSE 0

TimePasses ==
    /\ persistence' = [persistence EXCEPT !.deadline =
                          IF @ = NoDeadline THEN @ ELSE Max({@ - 1, -ForceAfter})]
    /\ storage' = [storage EXCEPT !.timer = CountDown(@)]
    /\ ble' = [ble EXCEPT !.timer = CountDown(@)]
    /\ usb' = [usb EXCEPT !.timer = CountDown(@)]
    /\ credit' = Burst
    /\ UNCHANGED <<inputs, commands, channels, runtime, connections, stored,
                   failures_left, timed_out>>

(* Time passes when every task waits. *)
Tick == ~ENABLED TaskStep /\ TimePasses

-----------------------------------------------------------------------------
(* The outside: input and settings changes, BLE hosts, hub ports, and the button
   held at power-on (here: at any time). *)

Spend == credit > 0 /\ credit' = credit - 1

ChangesIn(s) == Cardinality({i \in DOMAIN s : s[i].kind = "change"})
Changes == ChangesIn(inputs)
NewestGen == Max({stored, runtime.generation})

Arrive(message) ==
    /\ Spend
    /\ message.kind = "change" => NewestGen + Changes < MaxGen
    /\ Tell(message)
    /\ UNCHANGED <<commands, channels, runtime, persistence, storage, ble,
                   connections, usb, stored, failures_left, timed_out>>

HostConnects ==
    /\ Spend
    /\ ble.pc = "run" /\ connections = 0
    /\ connections' = 1
    /\ UNCHANGED <<inputs, commands, channels, runtime, persistence, storage, ble,
                   usb, stored, failures_left, timed_out>>

HostDisconnects ==
    /\ Spend
    /\ ble.pc = "run" /\ connections = 1
    /\ connections' = 0
    /\ UNCHANGED <<inputs, commands, channels, runtime, persistence, storage, ble,
                   usb, stored, failures_left, timed_out>>

DeviceDetected ==
    /\ Spend
    /\ usb.pc = "idle"
    /\ channels' = Send("usb_request", Unit)
    /\ usb' = [usb EXCEPT !.pc = "ready", !.timer = Handshake]
    /\ UNCHANGED <<inputs, commands, runtime, persistence, storage, ble,
                   connections, stored, failures_left, timed_out>>

FactoryResetPressed ==
    /\ Spend
    /\ Len(commands) < CommandCap
    /\ commands' = Append(commands, [kind |-> "reset"])
    /\ UNCHANGED <<inputs, channels, runtime, persistence, storage, ble,
                   connections, usb, stored, failures_left, timed_out>>

Outside ==
    \/ \E priority \in Priorities : Arrive(Message("change", priority))
    \/ Arrive(Message("input", Unit))
    \/ HostConnects \/ HostDisconnects
    \/ DeviceDetected
    \/ FactoryResetPressed

Next == TaskStep \/ Tick \/ Outside

Spec == Init /\ [][Next]_vars /\ WF_vars(TaskStep) /\ WF_vars(Tick)

-----------------------------------------------------------------------------
PersistenceOK ==
    /\ DOMAIN persistence = DOMAIN NothingPending
    /\ persistence.state \in {NoState} \cup 0 .. MaxGen
    /\ persistence.priority \in {NoState} \cup Priorities
    /\ persistence.failures \in 0 .. FailureLimit /\ persistence.suspended \in BOOLEAN
    /\ persistence.state = NoState => persistence = NothingPending

TypeOK ==
    /\ inputs \in Seq(Messages) /\ Len(inputs) <= InputCap
    /\ commands \in Seq(StorageCommands) /\ Len(commands) <= CommandCap
    /\ DOMAIN channels = Channels
    /\ \A c \in Channels : channels[c] \in {Empty, NoState} \cup 0 .. MaxGen
    /\ runtime.generation \in 0 .. MaxGen /\ runtime.health \in Healths
    /\ PersistenceOK
    /\ connections \in 0 .. 1
    /\ stored \in 0 .. MaxGen

(* While flash is written or erased, and while a hub port is enumerated, the
   radio is off, the runtime stands still, and the other one of the two is not
   under way (the SAFETY comment of UsbInterruptQuiesceGuard relies on it). *)
QuietWhileBusy ==
    /\ storage.pc \in {"write", "erase"} =>
          ble.pc = "hold" /\ ble.owner = "storage" /\ runtime.pc = "held"
    /\ usb.pc = "enumerate" =>
          ble.pc = "hold" /\ ble.owner = "usb" /\ runtime.pc = "held"

(* No handshake runs into its timeout unless the latest enumeration of a hub port
   took as long as the timeout: no task waits in a circle with the others until
   one of them resets the chip, whatever the queues hold. *)
NoHandshakeTimesOut == ~timed_out

(* What is written to flash is what the runtime holds at that moment, and never
   older than what flash already has: not a snapshot staged before a later change,
   nor one the runtime took before it restored the settings at boot. *)
StoredIsCurrent ==
    [][stored' # stored =>
          \/ stored' = runtime.generation /\ stored' > stored
          \/ storage.pc = "erase" /\ stored' < stored]_vars

(* What is staged gets written.  A critical change does not stay pending although
   hosts stay connected, once the changes stop (a reset of the chip, by factory
   reset or by a handshake that timed out, also ends its being pending, without a
   write).  And a degraded storage, which rejects every change, recovers when no
   host stays connected and fewer than FailureLimit writes of a snapshot failed:
   the retry is not deferred and not suspended. *)
StagedIsWritten ==
    /\ persistence.priority = Critical ~> persistence.state = NoState
    /\ <>[](connections = 0) => (runtime.health = Degraded ~> runtime.health # Degraded)

-----------------------------------------------------------------------------
(***************************************************************************)
(* The inductive invariant.                                                *)
(***************************************************************************)

Plans == {<<"release", "health", "report">>, <<"release", "report">>,
          <<"health", "report">>, <<"report">>, <<"release">>}

Shape ==
    /\ DOMAIN storage = {"pc", "timer", "backend", "reported", "plan"}
    /\ storage.pc \in {"boot", "restore_ble", "restore_runtime", "loop", "sleep", "ready",
                      "write", "complete", "reset_ready", "erase"}
    /\ storage.backend \in {Persistent, UnavailableHealth} /\ storage.reported \in Healths
    /\ storage.pc = "complete" => storage.plan \in Plans
    /\ storage.pc \in {"ready", "reset_ready", "write", "erase"} => Working
    /\ DOMAIN ble = {"pc", "owner", "timer"} /\ DOMAIN usb = {"pc", "timer", "long"}
    /\ \/ ble.pc \in {"restore", "run"} /\ ble.owner = "none"
       \/ ble.pc \in {"barrier", "hold"} /\ ble.owner \in {"storage", "usb"}
    /\ usb.pc \in {"idle", "ready", "enumerate"}
    /\ DOMAIN runtime = {"pc", "generation", "health"}
    /\ runtime.pc \in {"select", "held"}

(* The barrier between the BLE task and the runtime. *)
BarrierAgrees ==
    LET asked == /\ ~Full("barrier_done")
                 /\ runtime.pc = "held" <=> Full("resume")
        answered == ~Full("barrier") /\ runtime.pc = "held" /\ ~Full("resume")
    IN  \/ ble.pc \in {"restore", "run"} /\ ~Full("barrier") /\ asked
        \/ ble.pc = "barrier" /\ Full("barrier") /\ asked
        \/ ble.pc = "barrier" /\ Full("barrier_done") /\ answered
        \/ ble.pc = "hold" /\ ~Full("barrier_done") /\ answered

(* Where the request of a task that asks the BLE task to stop may be. *)
Serves(owner, phase) ==
    LET owned == ble.owner = owner
        idle == IF Full(Done(owner)) THEN owned /\ ble.pc = "hold" ELSE ~owned
        request == Full(Request(owner))
        ready == Full(Ready(owner))
    IN  CASE phase = "idle" -> idle /\ ~request /\ ~ready
          [] phase = "waits" ->
               \/ idle /\ request /\ ~ready
               \/ /\ owned /\ ~request /\ ~Full(Done(owner))
                  /\ ble.pc = IF ready THEN "hold" ELSE "barrier"
          [] phase = "busy" ->
               owned /\ ble.pc = "hold" /\ ~request /\ ~ready /\ ~Full(Done(owner))

StoragePhase ==
    IF storage.pc \in {"ready", "reset_ready"} THEN "waits"
    ELSE IF \/ storage.pc \in {"write", "erase"}
            \/ storage.pc = "complete" /\ storage.plan[1] = "release" THEN "busy"
    ELSE "idle"

UsbPhase ==
    CASE usb.pc = "idle" -> "idle" [] usb.pc = "ready" -> "waits"
      [] usb.pc = "enumerate" -> "busy"

HandshakesAgree ==
    /\ BarrierAgrees
    /\ Serves("storage", StoragePhase)
    /\ Serves("usb", UsbPhase)

(* What is on its way to flash is the runtime's state. *)
SnapshotsAgree ==
    /\ \A c \in {"barrier_done", "ready"} :
          channels[c] \in {Empty, NoState, runtime.generation}
    /\ storage.pc = "write" => persistence.state = runtime.generation
    /\ storage.pc \in {"ready", "write"} =>
          persistence.state # NoState /\ ~persistence.suspended
    /\ ~persistence.suspended => persistence.failures < FailureLimit

(* The runtime has not restored the stored settings yet. *)
Restoring ==
    \/ storage.pc \in {"boot", "restore_ble", "restore_runtime"}
    \/ \E i \in DOMAIN inputs : inputs[i].kind = "restore"

RestoresFirst ==
    /\ \A i \in DOMAIN inputs :
          inputs[i].kind = "restore" => inputs[i].arg = RestoredState
    /\ Restoring => ~(ble.owner = "storage" /\ (ble.pc = "hold" \/ Full("barrier_done")))
    /\ Working /\ ~Restoring => stored <= runtime.generation

StorageInv ==
    /\ TypeOK
    /\ Shape
    /\ HandshakesAgree
    /\ SnapshotsAgree
    /\ RestoresFirst
    /\ NewestGen + Changes <= MaxGen

=============================================================================
