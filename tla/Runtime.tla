------------------------------ MODULE Runtime ------------------------------
(***************************************************************************)
(* The runtime of the single-board build: the one owner of hosts, pairing  *)
(* window, delayed target switch, settings and input profiles.  Messages   *)
(* of the BLE task, the USB task, the button, the management transports    *)
(* and the storage task are handled one at a time; a message that fails is *)
(* rolled back.                                                            *)
(*                                                                         *)
(* rt      what BridgeRuntime keeps (src/src/runtime.rs)                   *)
(* saved   the last snapshot handed to the storage task; a restart begins  *)
(*         from it (StorageTask models the way to the flash)               *)
(* link    the state of the BLE link of every host number                  *)
(* plug    the USB devices: which physical device, which of its interfaces *)
(*         have been announced, and whether the metadata message that      *)
(*         follows an announcement is still on its way                     *)
(* clock   time; tick is the one periodic message that may be queued       *)
(* reply   the request answered in the last step, if there was one         *)
(* budget  how many events of each kind the environment may still make     *)
(* ghost   what the last failed message left behind                        *)
(*                                                                         *)
(* Reports, suppression and keyboard lights are the subject of Bridge, the *)
(* queues towards the other tasks of TaskSink.                             *)
(***************************************************************************)
EXTENDS Integers, FiniteSets, Sequences, FiniteSetsExt, Functions

CONSTANTS
    Hosts,          \* the valid host numbers, 1..HOSTS
    Interfaces,     \* interface numbers of the USB host
    DeviceOf,       \* the device number of an interface
    Identities,     \* vendor, product and serial of the physical devices
    Capacity,       \* INPUT_PROFILE_CAPACITY
    PairingTimeout, \* PAIRING_MODE_TIMEOUT_MS
    Generations,    \* storage generations wrap at this number
    LastEvent,      \* the environment acts up to this time ...
    Horizon,        \* ... and time runs up to this one
    Requests,       \* the management requests considered
    Scenarios       \* initial configurations and budgets

ASSUME RuntimeConstants ==
    /\ Hosts = 1..Cardinality(Hosts) /\ Hosts # {}
    /\ Capacity \in Nat \ {0} /\ PairingTimeout \in Nat \ {0}
    /\ Generations \in Nat \ {0}
    /\ LastEvent + PairingTimeout < Horizon

VARIABLES rt, saved, link, plug, clock, tick, reply, budget, ghost

vars == <<rt, saved, link, plug, clock, tick, reply, budget, ghost>>

None == <<>>

Devices == {DeviceOf[i] : i \in Interfaces}

Profiles == 1..Capacity

Blank == [connected |-> FALSE, encrypted |-> FALSE, bonded |-> FALSE,
          stored |-> FALSE, session |-> FALSE, name |-> 0]

Allows(health) == health \in {"Persistent", "VolatileTest"}

---------------------------------------------------------------------------
(* Storage snapshots.                                                      *)

\* What is stored of a host: not whether it is connected at the moment.
StoredHost(h) == [Blank EXCEPT !.bonded = h.bonded, !.stored = h.stored,
                               !.name = h.name]

\* The hosts are kept in an array in the order in which they became known.
Known(r, h) == h \in Range(r.slots)

storage_state(r) ==
    [order |-> SelectSeq(r.slots, LAMBDA h : h # 0),
     host |-> [h \in Hosts |-> StoredHost(r.host[h])],
     active |-> IF r.active # None /\ Known(r, r.active[1]) THEN r.active ELSE None,
     global |-> r.global,
     profile |-> [p \in Profiles |->
                    IF r.profile[p] = None THEN None
                    ELSE <<[r.profile[p][1] EXCEPT !.connected = FALSE,
                                                   !.armed = TRUE]>>],
     gen |-> r.gen]

\* A change that must be stored fails when the storage accepts none.
push_storage_snapshot(r) ==
    IF ~Allows(r.health) THEN [r EXCEPT !.err = TRUE]
    ELSE LET next == [r EXCEPT !.gen = (@ + 1) % Generations]
         IN  [next EXCEPT !.snap = <<storage_state(next)>>]

---------------------------------------------------------------------------
(* Bridge events, as far as hosts and pairing are concerned.  A state that *)
(* is being computed has two more fields: err, the message has failed, and *)
(* snap, the snapshot it has produced.                                     *)

\* Every status that names no pairable host ends the pairing window.
StatusChanged(r) == IF r.pairable = None THEN [r EXCEPT !.pairing = None] ELSE r

Upserted(r, h) ==
    IF Known(r, h) THEN r
    ELSE [r EXCEPT !.slots[Min({s \in Hosts : r.slots[s] = 0})] = h]

can_send(r, h) == LET host == r.host[h]
                  IN  host.connected /\ host.encrypted /\ host.bonded /\ host.session

\* The first candidate behind the current host, else the first one (which may
\* be the current host itself).
next_target_after(r, current, Candidate(_)) ==
    LET here == {s \in Hosts : r.slots[s] # 0 /\ Candidate(r.slots[s])}
        at == {s \in here : current = <<r.slots[s]>>}
        behind == {s \in here : current = None \/ \E c \in at : s > c}
    IN  IF here = {} THEN None
        ELSE <<r.slots[Min(IF behind # {} THEN behind ELSE here)]>>

next_connected_target(r) ==
    next_target_after(r, r.active, LAMBDA h : r.host[h].connected)

pairing_candidate(r) ==
    LET free == {h \in Hosts : ~r.host[h].bonded}
    IN  IF r.active # None /\ Known(r, r.active[1]) /\ r.active[1] \in free
        THEN r.active
        ELSE IF free # {} THEN <<Min(free)>> ELSE None

transition_ble_target(r, h) ==
    IF r.active = <<h>> THEN r
    ELSE push_storage_snapshot([Upserted(r, h) EXCEPT !.active = <<h>>])

SwitchTarget(r, h) == StatusChanged(transition_ble_target(r, h))

\* Mutant: a host that connects starts as a new one.
ConnectedAfresh(r, h) ==
    StatusChanged([Upserted(r, h) EXCEPT !.host[h] = [Blank EXCEPT !.connected = TRUE]])

HostConnected(r, h) ==
    StatusChanged([Upserted(r, h) EXCEPT !.host[h].connected = TRUE,
                                         !.host[h].encrypted = FALSE,
                                         !.host[h].session = FALSE])

Unlinked(r, h) == [r EXCEPT !.host[h].connected = FALSE,
                            !.host[h].encrypted = FALSE,
                            !.host[h].session = FALSE]

HostDisconnected(r, h) ==
    LET fallback == r.active = <<h>> /\ can_send(r, h)
        gone == Unlinked(r, h)
        target == next_target_after(gone, <<h>>, LAMBDA x : can_send(gone, x))
    IN  StatusChanged(IF fallback /\ target # None
                      THEN transition_ble_target(gone, target[1]) ELSE gone)

\* A new bond ends the pairing window that was opened for its host.
HostSecurityChanged(r, h, encrypted, bonded) ==
    LET known == Upserted(r, h)
        stored == bonded \/ known.host[h].bonded
        next == [known EXCEPT
            !.host[h].encrypted = encrypted,
            !.host[h].bonded = stored,
            !.host[h].session =
                IF known.host[h].connected /\ encrypted /\ stored
                THEN known.host[h].stored
                ELSE encrypted /\ @,
            !.pairable = IF bonded /\ @ = <<h>> THEN None ELSE @,
            !.pairing = IF bonded /\ @ # None /\ @[1].host = h THEN None ELSE @]
    IN  StatusChanged(IF stored # known.host[h].bonded
                      THEN push_storage_snapshot(next) ELSE next)

CccdChanged(r, h, enabled) ==
    LET known == Upserted(r, h)
        next == [known EXCEPT !.host[h].stored = enabled, !.host[h].session = enabled]
    IN  StatusChanged(IF known.host[h].stored # enabled
                      THEN push_storage_snapshot(next) ELSE next)

SetHostName(r, h, name) ==
    LET next == [Upserted(r, h) EXCEPT !.host[h].name = name]
    IN  StatusChanged(IF r.host[h].name # name
                      THEN push_storage_snapshot(next) ELSE next)

\* Both callers set pairing_mode before the event.
EnterPairingMode(r, h, now) ==
    StatusChanged([r EXCEPT
        !.pairable = <<h>>,
        !.pairing = <<[host |-> h, deadline |-> now + PairingTimeout]>>])

PairingModeExpired(r, h) ==
    LET next == [r EXCEPT
            !.pairing = IF @ # None /\ @[1].host = h THEN None ELSE @]
    IN  IF r.pairable = <<h>>
        THEN StatusChanged([next EXCEPT !.pairable = None]) ELSE next

ClearHost(r, h) ==
    LET next == [r EXCEPT
            !.pairing = IF @ # None /\ @[1].host = h THEN None ELSE @,
            !.pairable = IF @ = <<h>> THEN None ELSE @,
            !.host[h] = Blank,
            !.slots = [s \in Hosts |-> IF @[s] = h THEN 0 ELSE @[s]],
            !.active = IF @ = <<h>> THEN None ELSE @]
    IN  IF Known(r, h) THEN StatusChanged(push_storage_snapshot(next)) ELSE next

---------------------------------------------------------------------------
(* The delayed target switch.                                              *)

request_target_switch(r, h, now) ==
    IF r.global.delay = 0 THEN SwitchTarget([r EXCEPT !.pending = None], h)
    ELSE [r EXCEPT !.pending = <<[target |-> h, deadline |-> now + r.global.delay]>>]

\* Mutant: a tick without a switch does nothing.
TickSwitchOnly(r, now) ==
    IF r.pending = None THEN r
    ELSE LET due == now >= r.pending[1].deadline
         IN  IF due THEN SwitchTarget([r EXCEPT !.pending = None], r.pending[1].target) ELSE r

\* The switch first: when it fails, the window is not looked at.
handle_tick(r, now) ==
    LET due == r.pending # None /\ now >= r.pending[1].deadline
        switched == IF due
                    THEN SwitchTarget([r EXCEPT !.pending = None], r.pending[1].target)
                    ELSE r
        open == switched.pairing
    IN  IF ~switched.err /\ open # None /\ now >= open[1].deadline
        THEN PairingModeExpired(switched, open[1].host) ELSE switched

---------------------------------------------------------------------------
(* Input profiles.                                                         *)

Of(r, identity) == {p \in Profiles : r.profile[p] # None
                                  /\ r.profile[p][1].identity = identity}

Fresh(identity, seen) == <<[identity |-> identity, connected |-> TRUE, seen |-> seen,
                            shortcut |-> 0, armed |-> TRUE]>>

\* observe: the profile of the device, else a free number, else the number of
\* the profile that has been away longest.
observe(r, identity) ==
    LET known == Of(r, identity)
        free == {p \in Profiles : r.profile[p] = None}
        away == {p \in Profiles \ free : ~r.profile[p][1].connected}
        oldest == {p \in away : \A q \in away : r.profile[p][1].seen <= r.profile[q][1].seen}
        chosen == IF known # {} THEN known ELSE IF free # {} THEN {Min(free)} ELSE oldest
        next == [r EXCEPT !.seq = @ + 1]
    IN  IF chosen = {} THEN [state |-> [r EXCEPT !.err = TRUE], id |-> 1]
        ELSE LET p == Min(chosen)
             IN  [state |-> IF known # {}
                            THEN [next EXCEPT !.profile[p][1].connected = TRUE,
                                              !.profile[p][1].seen = r.seq]
                            ELSE [next EXCEPT !.profile[p] = Fresh(identity, r.seq)],
                  id |-> p]

disconnect(r, p) ==
    [r EXCEPT !.seq = @ + 1,
              !.profile[p][1].connected = FALSE,
              !.profile[p][1].seen = r.seq,
              !.profile[p][1].armed = TRUE]

register_usb_hid_interface(r, i) ==
    [r EXCEPT !.usb[i] = <<[device |-> DeviceOf[i], profile |-> None]>>]

UsbDeviceMetadataUpdated(r, d, identity) ==
    LET isNew == Of(r, identity) = {}
        seen == observe(r, identity)
        next == [seen.state EXCEPT !.usb = [i \in Interfaces |->
                    IF r.usb[i] # None /\ r.usb[i][1].device = d
                    THEN <<[device |-> d, profile |-> <<seen.id>>]>> ELSE r.usb[i]]]
    IN  IF isNew /\ Allows(r.health) /\ ~next.err
        THEN push_storage_snapshot(next) ELSE next


\* The last interface of a device frees its profile, unless another device
\* with the same identity uses it.
unregister_usb_device(r, i) ==
    LET next == [r EXCEPT !.usb[i] = None]
        of(j) == next.usb[j] # None /\ next.usb[j][1].device = DeviceOf[i]
        profile == IF r.usb[i] = None THEN None ELSE r.usb[i][1].profile
        uses(j) == next.usb[j] # None /\ next.usb[j][1].profile = profile
    IN  IF (\E j \in Interfaces : of(j)) \/ profile = None
           \/ (\E j \in Interfaces : uses(j)) THEN next
        ELSE IF Allows(r.health) THEN push_storage_snapshot(disconnect(next, profile[1]))
        ELSE disconnect(next, profile[1])

---------------------------------------------------------------------------
(* The button, as configured.                                              *)

ConfiguredAction(r, intent) ==
    CASE intent = "NextConnectedTarget" -> r.global.short
      [] intent = "EnterPairingMode"    -> r.global.long
      [] OTHER                          -> r.global.veryLong

\* 0 nothing, 1 the next connected host, 2 pairing, 3 clear the active host.
handle_button_intent(r, intent, now) ==
    LET action == ConfiguredAction(r, intent)
        target == next_connected_target(r)
        free == pairing_candidate(r)
    IN  CASE action = 1 /\ target # None -> request_target_switch(r, target[1], now)
          [] action = 2 /\ free # None -> EnterPairingMode(r, free[1], now)
          [] action = 3 /\ r.active # None -> ClearHost(r, r.active[1])
          [] OTHER -> r

---------------------------------------------------------------------------
(* Management requests.                                                    *)

Valid(h) == h \in Hosts

management_command_requires_storage(command) ==
    command \in {"SelectHost", "StartPairing", "ForgetHost", "SetHostName", "SetSetting"}

Ranges == [delay |-> 0..1000, short |-> 0..3, long |-> 0..3, veryLong |-> 0..3,
           boot |-> 0..4, restore |-> 0..1, shortcut |-> 0..65535]

\* SettingTarget::Global or an input profile, as the scope of the setting asks.
setting_value(r, q) ==
    IF q.id = "shortcut"
    THEN IF q.profile \in Profiles /\ r.profile[q.profile] # None
         THEN <<r.profile[q.profile][1].shortcut>> ELSE None
    ELSE IF q.profile # 0 THEN None ELSE <<r.global[q.id]>>

validate_setting_value(id, value) == value \in Ranges[id]

\* A changed profile forgets how far a chord was pressed (reset_profile_inputs).
set_setting(r, q) ==
    IF q.id = "shortcut"
    THEN [r EXCEPT !.profile[q.profile][1].shortcut = q.value,
                   !.profile[q.profile][1].armed = IF setting_value(r, q) # <<q.value>>
                                                   THEN TRUE ELSE @]
    ELSE [r EXCEPT !.global[q.id] = q.value]

Reply(r, result) == [state |-> r, result |-> result]



SetSetting(r, q) ==
    IF ~validate_setting_value(q.id, q.value) \/ setting_value(r, q) = None
    THEN Reply(r, "InvalidSetting")
    ELSE Reply(push_storage_snapshot(set_setting(r, q)), "Ok")

\* CANCEL_PAIRING acts on the runtime's side of the window.
CancelPairing(r) ==
    IF r.pairing = None THEN Reply(r, "NotFound")
    ELSE Reply(PairingModeExpired(r, r.pairing[1].host), "Ok")

StartPairing(r, q, now) ==
    CASE ~Valid(q.host) -> Reply(r, "InvalidHost")
      [] Valid(q.host) /\ r.host[q.host].bonded -> Reply(r, "HostAlreadyBonded")
      [] OTHER -> Reply(EnterPairingMode(r, q.host, now), "Ok")

OnKnownHost(r, q, Do(_)) ==
    CASE ~Valid(q.host) -> Reply(r, "InvalidHost")
      [] Valid(q.host) /\ ~Known(r, q.host) -> Reply(r, "HostNotFound")
      [] OTHER -> Reply(Do(r), "Ok")

execute_management_command(r, q, now) ==
    IF management_command_requires_storage(q.op) /\ ~Allows(r.health)
    THEN Reply(r, "Unavailable")
    ELSE CASE q.op = "SelectHost" ->
                OnKnownHost(r, q, LAMBDA s : request_target_switch(s, q.host, now))
           [] q.op = "StartPairing" -> StartPairing(r, q, now)
           [] q.op = "ForgetHost" -> OnKnownHost(r, q, LAMBDA s : ClearHost(s, q.host))
           [] q.op = "SetHostName" ->
                OnKnownHost(r, q, LAMBDA s : SetHostName(s, q.host, q.value))
           [] q.op = "CancelPairing" -> CancelPairing(r)
           [] q.op = "SetSetting" -> SetSetting(r, q)
           [] q.op = "GetSetting" ->
                Reply(r, IF setting_value(r, q) # None THEN "Ok" ELSE "InvalidSetting")
           [] OTHER -> OnKnownHost(r, q, LAMBDA s : s)

---------------------------------------------------------------------------
(* One message.                                                            *)

Staged(r) == [r EXCEPT !.err = FALSE, !.snap = None]

Spend(kind) == /\ budget[kind] > 0
               /\ clock <= LastEvent
               /\ budget' = [budget EXCEPT ![kind] = @ - 1]

\* process_runtime_message: the new state and its snapshot, or neither.
Commit(r) ==
    /\ rt' = IF r.err THEN rt ELSE Staged(r)
    /\ saved' = IF r.err \/ r.snap = None THEN saved ELSE r.snap[1]

\* The last message failed; torn: it was an input frame, which is not rolled back.
Failed(kind, r) == ghost' = [ghost EXCEPT !.failed = IF r.err THEN <<kind>> ELSE None]

Handle(kind, r) == Commit(r) /\ Failed(kind, r)

---------------------------------------------------------------------------
(* The BLE task: connections, encryption, subscriptions and names.         *)

HostLinked(h) ==
    /\ Spend("ble") /\ link[h] = "down"
    /\ link' = [link EXCEPT ![h] = "up"]
    /\ Handle("ble", HostConnected(rt, h))
    /\ reply' = None
    /\ UNCHANGED <<plug, clock, tick>>

HostSecured(h) ==
    /\ Spend("ble") /\ link[h] = "up"
    /\ link' = [link EXCEPT ![h] = "secured"]
    /\ \E bonded \in BOOLEAN : Handle("ble", HostSecurityChanged(rt, h, TRUE, bonded))
    /\ reply' = None
    /\ UNCHANGED <<plug, clock, tick>>

HostSubscribes(h) ==
    /\ Spend("ble") /\ link[h] = "secured"
    /\ \E enabled \in BOOLEAN : Handle("ble", CccdChanged(rt, h, enabled))
    /\ reply' = None
    /\ UNCHANGED <<link, plug, clock, tick>>

\* A name or a light report of a host makes it known; neither is stored.
HostSpeaks(h) ==
    /\ Spend("ble") /\ link[h] # "down"
    /\ Handle("ble", Upserted(rt, h))
    /\ reply' = None
    /\ UNCHANGED <<link, plug, clock, tick>>

HostLost(h) ==
    /\ Spend("ble") /\ link[h] # "down"
    /\ link' = [link EXCEPT ![h] = "down"]
    /\ Handle("ble", HostDisconnected(rt, h))
    /\ reply' = None
    /\ UNCHANGED <<plug, clock, tick>>

\* The barrier of a quiesce: every link is gone, the runtime is told without an
\* event, and an open pairing window is handed to the BLE task again.
Quiesce ==
    /\ Spend("quiesce")
    /\ link' = [h \in Hosts |-> "down"]
    /\ rt' = [rt EXCEPT !.host = [h \in Hosts |->
                IF link[h] = "down" THEN @[h] ELSE Unlinked(rt, h).host[h]]]
    /\ reply' = None
    /\ ghost' = [ghost EXCEPT !.failed = None]
    /\ UNCHANGED <<saved, plug, clock, tick>>

---------------------------------------------------------------------------
(* The button, the management transports and the storage task.             *)

Press(intent) ==
    /\ Spend("button")
    /\ Handle("button", handle_button_intent(rt, intent, clock))
    /\ reply' = None
    /\ UNCHANGED <<link, plug, clock, tick>>

Request(q) ==
    /\ Spend("request") /\ q.op \in budget.ops
    /\ \E answer \in {execute_management_command(rt, q, clock)} :
          /\ Handle("request", answer.state)
          /\ reply' = IF answer.state.err THEN None
                      ELSE <<[request |-> q, result |-> answer.result]>>
    /\ UNCHANGED <<link, plug, clock, tick>>

HealthChanges(health) ==
    /\ Spend("health") /\ health # rt.health
    /\ Handle("health", [rt EXCEPT !.health = health])
    /\ reply' = None
    /\ UNCHANGED <<link, plug, clock, tick>>

---------------------------------------------------------------------------
(* The USB task: a device appears with one of the identities, each of its  *)
(* interfaces is announced and followed by the metadata of the device, and *)
(* the interfaces are removed one by one.                                  *)

Announce(i, identity) ==
    LET d == DeviceOf[i]
    IN  /\ Spend("usb") /\ i \notin plug[d].known /\ ~plug[d].meta /\ ~plug[d].leaving
        /\ plug[d].known # {} => identity = plug[d].identity
        /\ plug' = [plug EXCEPT ![d] = [identity |-> identity, known |-> @.known \union {i},
                                        meta |-> TRUE, leaving |-> FALSE]]
        /\ Handle("usb", register_usb_hid_interface(rt, i))
        /\ reply' = None
        /\ UNCHANGED <<link, clock, tick>>

Describe(d) ==
    /\ plug[d].meta
    /\ plug' = [plug EXCEPT ![d].meta = FALSE]
    /\ Handle("usb", UsbDeviceMetadataUpdated(rt, d, plug[d].identity))
    /\ reply' = None
    /\ UNCHANGED <<link, clock, tick, budget>>

Remove(i) ==
    LET d == DeviceOf[i]
    IN  /\ i \in plug[d].known /\ ~plug[d].meta
        /\ IF plug[d].leaving THEN UNCHANGED budget ELSE Spend("usb")
        /\ \A j \in plug[d].known : i <= j
        /\ plug' = [plug EXCEPT ![d].known = @ \ {i},
                                ![d].leaving = plug[d].known # {i}]
        /\ Handle("usb", unregister_usb_device(rt, i))
        /\ reply' = None
        /\ UNCHANGED <<link, clock, tick>>

\* keys: exactly the chord, a part of it, or nothing of it.
capture_target_switch_shortcut(profile, keys) ==
    IF profile.shortcut = 0 THEN [triggered |-> FALSE, armed |-> TRUE]
    ELSE LET armed == profile.armed \/ keys = "clear"
         IN  [triggered |-> armed /\ keys = "chord",
              armed |-> armed /\ keys # "chord"]

\* An input frame is handled in place: what it did before it failed stays.
Uncommitted(r) == Staged(r)

TypeKeys(i, keys) ==
    LET profile == IF rt.usb[i] = None THEN None ELSE rt.usb[i][1].profile
        p == profile[1]
    IN  /\ Spend("keys") /\ i \in plug[DeviceOf[i]].known /\ profile # None
        /\ \E c \in {capture_target_switch_shortcut(rt.profile[p][1], keys)} :
           \E seen \in {[rt EXCEPT !.profile[p][1].armed = c.armed]} :
           \E target \in {next_connected_target(seen)} :
           \E r \in {IF c.triggered /\ target # None
                     THEN request_target_switch(seen, target[1], rt.now) ELSE seen} :
              /\ rt' = IF r.err THEN Uncommitted(r) ELSE Staged(r)
              /\ saved' = IF r.err \/ r.snap = None THEN saved ELSE r.snap[1]
              /\ ghost' = [ghost EXCEPT !.failed = IF r.err THEN <<"keys">> ELSE None,
                                        !.torn = @ \/ (r.err /\ rt' # rt)]
        /\ reply' = None
        /\ UNCHANGED <<link, plug, clock, tick>>

---------------------------------------------------------------------------
(* Time and restarts.                                                      *)

\* control_task: one tick is queued at most; the queue of the runtime may be
\* full, then this one is dropped and the next one tries again.
ControlTick ==
    /\ clock' = Min({clock + 1, Horizon})
    /\ \/ tick' = IF tick = None THEN <<clock'>> ELSE tick
       \/ tick' = tick /\ budget.full > 0
    /\ budget' = IF tick = None /\ tick' = None THEN [budget EXCEPT !.full = @ - 1] ELSE budget
    /\ reply' = None
    /\ ghost' = [ghost EXCEPT !.failed = None]
    /\ UNCHANGED <<rt, saved, link, plug>>

RuntimeTick ==
    /\ tick # None
    /\ tick' = None
    /\ Handle("tick", handle_tick([rt EXCEPT !.now = tick[1]], tick[1]))
    /\ reply' = None
    /\ UNCHANGED <<link, plug, clock, budget>>

boot_target(image) ==
    IF image.global.boot # 0
    THEN IF image.global.boot \in Range(image.order) THEN <<image.global.boot>> ELSE None
    ELSE IF image.global.restore = 1 THEN image.active ELSE None

restore_storage_state(image) ==
    [slots |-> [s \in Hosts |-> IF s <= Len(image.order) THEN image.order[s] ELSE 0],
     host |-> image.host, active |-> boot_target(image),
     pairable |-> None, pairing |-> None, pending |-> None,
     global |-> image.global, profile |-> image.profile,
     seq |-> Max({1} \union {image.profile[p][1].seen + 1 :
                             p \in {x \in Profiles : image.profile[x] # None}}),
     usb |-> [i \in Interfaces |-> None], now |-> 0, health |-> "Persistent",
     gen |-> image.gen, err |-> FALSE, snap |-> None]

Unplugged(identity) == [identity |-> identity, known |-> {}, meta |-> FALSE, leaving |-> FALSE]

Restart ==
    /\ Spend("restart")
    /\ rt' = restore_storage_state(saved)
    /\ link' = [h \in Hosts |-> "down"]
    /\ plug' = [d \in Devices |-> Unplugged(plug[d].identity)]
    /\ tick' = None
    /\ reply' = None
    /\ ghost' = [ghost EXCEPT !.failed = None, !.torn = FALSE]
    /\ UNCHANGED <<saved, clock>>

---------------------------------------------------------------------------
(* A scenario: the stored image, the hosts that are linked and ready, and  *)
(* the events that may follow.                                             *)

Linked(r, up) ==
    [r EXCEPT !.host = [h \in Hosts |->
        IF h \in up THEN [@[h] EXCEPT !.connected = TRUE, !.encrypted = TRUE,
                                      !.session = r.host[h].stored]
        ELSE @[h]]]

Init ==
    \E s \in Scenarios :
        /\ saved = s.image
        /\ rt = Linked(restore_storage_state(s.image), s.up)
        /\ link = [h \in Hosts |-> IF h \in s.up THEN "secured" ELSE "down"]
        /\ plug = [d \in Devices |-> Unplugged(CHOOSE x \in Identities : TRUE)]
        /\ clock = 0 /\ tick = None /\ reply = None
        /\ budget = s.budget
        /\ ghost = [failed |-> None, torn |-> FALSE]

Next ==
    \/ \E h \in Hosts : HostLinked(h) \/ HostSecured(h) \/ HostSubscribes(h)
                        \/ HostSpeaks(h) \/ HostLost(h)
    \/ Quiesce
    \/ \E intent \in {"NextConnectedTarget", "EnterPairingMode", "ClearActiveHostBond"} :
          Press(intent)
    \/ \E q \in Requests : Request(q)
    \/ \E health \in {"Persistent", "Degraded"} : HealthChanges(health)
    \/ \E i \in Interfaces : \E identity \in Identities : Announce(i, identity)
    \/ \E d \in Devices : Describe(d)
    \/ \E i \in Interfaces : Remove(i)
    \/ \E i \in Interfaces : \E keys \in {"chord", "part", "clear"} : TypeKeys(i, keys)
    \/ ControlTick \/ RuntimeTick
    \/ Restart

\* control_task samples and ticks for ever, and the runtime takes its messages.
Fairness == WF_vars(ControlTick) /\ WF_vars(RuntimeTick)

Spec == Init /\ [][Next]_vars /\ Fairness

---------------------------------------------------------------------------
(* Properties.                                                             *)

HostStates == [connected : BOOLEAN, encrypted : BOOLEAN, bonded : BOOLEAN,
               stored : BOOLEAN, session : BOOLEAN, name : 0..1]

\* The state keeps its shape: a host number is in the array at most once, the
\* active host is known, identities are unique among the profiles, and a
\* session is ready only on a link.
TypeOK ==
    /\ \A h \in Hosts : rt.host[h] \in HostStates
    /\ \A a, b \in Hosts : rt.slots[a] = rt.slots[b] => a = b \/ rt.slots[a] = 0
    /\ rt.active # None => Known(rt, rt.active[1])
    /\ \A h \in Hosts : rt.host[h] # Blank => Known(rt, h)
    /\ \A p, q \in Profiles : (rt.profile[p] # None /\ rt.profile[q] # None /\ p # q)
            => rt.profile[p][1].identity # rt.profile[q][1].identity
    /\ rt.gen \in 0..(Generations - 1) /\ ~rt.err /\ rt.snap = None
    /\ tick # None => tick[1] <= clock


\* What OK promises the client.
Promised(r, store, q) ==
    CASE q.op = "SelectHost" -> \/ r.active = <<q.host>>
                                \/ r.pending # None /\ r.pending[1].target = q.host
      [] q.op = "StartPairing" -> r.pairable = <<q.host>> /\ r.pairing # None
      [] q.op = "ForgetHost" -> ~Known(r, q.host) /\ r.pairable # <<q.host>>
      [] q.op = "SetHostName" -> store.host[q.host].name = q.value
      [] q.op = "CancelPairing" -> r.pairable = None
      [] q.op = "SetSetting" -> setting_value(r, q) = <<q.value>>
                                /\ setting_value(store, q) = <<q.value>>
      [] OTHER -> TRUE


\* A bond ends only when somebody asks for it, by FORGET_HOST or the button: no
\* link loss, quiesce, rollback or restart loses one.  And a host number that was
\* forgotten becomes known again only through its own link or through the
\* delayed switch that was pending when it was forgotten.
OnlyRequestsForget ==
    [][\A h \in Hosts :
          /\ rt.host[h].bonded /\ ~rt'.host[h].bonded =>
               \/ reply' # None /\ reply'[1].request.op = "ForgetHost"
                                /\ reply'[1].request.host = h
               \/ rt.active = <<h>> /\ budget'.button < budget.button
          /\ ~Known(rt, h) /\ Known(rt', h) =>
               \/ link'[h] # "down"
               \/ rt.pending # None /\ rt.pending[1].target = h]_vars

\* pairing_mode of the runtime, which the deadline, CANCEL_PAIRING and the
\* barrier use, and pairable_host of the bridge, which the BLE task was told
\* and the status shows, name the same host after every message.
WindowAgrees ==
    IF rt.pairing = None THEN rt.pairable = None
    ELSE rt.pairable = <<rt.pairing[1].host>>


\* Every pairing window closes, and every delayed switch is made, as long as
\* the storage accepts changes.  With a storage that accepts none a switch that
\* is due makes every tick fail, and the window behind it stays open.
DeadlinesAreKept ==
    /\ []<>(rt.pairing = None \/ ~Allows(rt.health))
    /\ []<>(rt.pending = None \/ ~Allows(rt.health))

=============================================================================
