------------------------------- MODULE Bridge -------------------------------
(***************************************************************************)
(* The routing core of HIDShift (src/bridge/mod.rs, with the host table of *)
(* src/bridge/host_state.rs, the target state of src/output_target.rs and  *)
(* the input aggregator of src/input/): which computer receives the keys,  *)
(* buttons and consumer usages held on the USB input devices, and what it  *)
(* has been told so far.  Each action is one RuntimeInput handled by       *)
(* BridgeRuntime, the commands its bridge event dispatches included.       *)
(*                                                                         *)
(* Dual selects the build: FALSE is the default single-S3 firmware, which  *)
(* only has BLE hosts; TRUE is the dual-s3-wired feature, which adds the   *)
(* Wired target served by the second chip.                                 *)
(*                                                                         *)
(* A host is abstracted to what routing reads of it: whether it is         *)
(* connected and for which report kinds can_send holds.  Keys, modifiers,  *)
(* mouse buttons and consumer usages are "controls", each of one report    *)
(* kind.  Movement, which is never remembered, the pairing mode, which     *)
(* routing never reads, and the Mirror presentation are left out.          *)
(***************************************************************************)
EXTENDS Integers, FiniteSets

CONSTANTS
    Dual,       \* the dual-s3-wired feature
    Kinds,      \* the report kinds of the instance
    HostCount,  \* host slots (HOST_SLOT_COUNT = 4)
    Keys,       \* non-modifier keys
    Modifiers,  \* modifier keys, which never count against KeyLimit
    Buttons,    \* mouse buttons
    Usages,     \* consumer usages
    KeyLimit,   \* KEYBOARD_6KRO_KEY_CAPACITY
    Interfaces, \* USB HID interfaces, one input entry each
    DeviceOf,   \* the USB device every interface belongs to
    Repertoires, \* the controls the interfaces may be able to report
    Leds,       \* keyboard LED states
    Off         \* the empty LED state

ASSUME DualAssumption == Dual \in BOOLEAN
ASSUME KindsAssumption ==
    /\ "Keyboard" \in Kinds
    /\ Kinds \subseteq {"Keyboard", "Mouse", "Consumer"}
ASSUME HostCountAssumption == HostCount \in Nat \ {0}
ASSUME KeyLimitAssumption == KeyLimit \in Nat /\ IsFiniteSet(Keys)
ASSUME LedsAssumption == Off \in Leds
ASSUME InterfacesAssumption == IsFiniteSet(Interfaces)
ASSUME RepertoiresAssumption ==
    Repertoires \subseteq [Interfaces -> SUBSET (Keys \cup Modifiers \cup Buttons
                                                  \cup Usages)]
ASSUME ControlsAssumption ==
    /\ Keys \cap (Modifiers \cup Buttons \cup Usages) = {}
    /\ Modifiers \cap (Buttons \cup Usages) = {}
    /\ Buttons \cap Usages = {}

VARIABLES
    repertoire,         \* the controls each interface can report; it never changes
    hosts,              \* BleHostStateMachine, as routing sees it
    output_target,      \* OutputTargetState of the dual build
    wired_availability, \* availability of the Wired target
    wired_ble_host,     \* the BLE host on the same computer as Wired
    pending,            \* presentation_transition_pending
    registered,         \* usb_hid_interfaces
    held,               \* input_devices: the controls of every interface
    recent,             \* consumer_generation of the interfaces that hold a usage
    suppression,        \* controls hidden from the target until released
    leds,               \* keyboard_leds of each target
    shown,              \* the LED state last written to each interface
    physical,           \* history: controls really held on each interface
    carried,            \* history: controls held since the last switch
    seen                \* history: controls each target was told are pressed

inputVars == <<registered, held, recent, physical>>
wiredVars == <<wired_availability, wired_ble_host>>
ledVars == <<leds, shown>>
vars == <<repertoire, hosts, output_target, wired_availability, wired_ble_host,
          pending, registered, held, recent, suppression, leds, shown, physical,
          carried, seen>>

-----------------------------------------------------------------------------
(* Targets and controls *)

Hosts == 1..HostCount
Wired == 0
None == -1
Targets == Hosts \cup {Wired}

Controls == Keys \cup Modifiers \cup Buttons \cup Usages
Availabilities == {"Ready", "ConnectedNotReady", "Unavailable"}

\* The controls that reports of the given kinds carry.
Of(kinds) ==
    {c \in Keys \cup Modifiers : "Keyboard" \in kinds}
        \cup {c \in Buttons : "Mouse" \in kinds}
        \cup {c \in Usages : "Consumer" \in kinds}

\* The report kinds in use: a host may subscribe to others, which stay empty.
UsedKinds ==
    {k \in Kinds : k = "Keyboard"
        \/ \E i \in Interfaces : repertoire[i] \cap Of({k}) # {}}

\* Keys and buttons are merged over the interfaces; of the consumer usages only
\* the one with the newest generation is active.
Aggregate(entries, order) ==
    ((UNION {entries[i] : i \in Interfaces}) \ Usages)
        \cup UNION {entries[i] \cap Usages :
                    i \in {i \in Interfaces : /\ order[i] # 0
                                              /\ \A j \in Interfaces : order[j] <= order[i]}}

\* Of the generations only the order counts: those of the interfaces that keep
\* their usage are numbered from 1, and 0 stands for no usage.
Holding(order) == {i \in Interfaces : order[i] # 0}
Renumbered(order, kept) ==
    [i \in Interfaces |-> IF i \in kept
                          THEN Cardinality({j \in kept : order[j] <= order[i]}) ELSE 0]

PhysicallyHeld(entries) == UNION {entries[i] : i \in Interfaces}

-----------------------------------------------------------------------------
(* The host table *)

Registered(hs, h) == \E s \in Hosts : hs.table[s] = h

FirstFree(hs) ==
    CHOOSE s \in Hosts :
        hs.table[s] = None /\ \A r \in Hosts : r < s => hs.table[r] # None

Upsert(hs, h) ==
    IF Registered(hs, h) THEN hs ELSE [hs EXCEPT !.table[FirstFree(hs)] = h]

OnConnected(hs, h) ==
    [Upsert(hs, h) EXCEPT !.connected = @ \cup {h}, !.ready[h] = {}]

OnDisconnected(hs, gone) ==
    [hs EXCEPT !.connected = @ \ gone,
               !.ready = [h \in Hosts |-> IF h \in gone THEN {} ELSE @[h]]]

RemoveHost(hs, h) ==
    [OnDisconnected(hs, {h}) EXCEPT
        !.table = [s \in Hosts |-> IF @[s] = h THEN None ELSE @[s]],
        !.active = IF @ = h THEN None ELSE @]

\* next_target_after: the next candidate behind current in slot order, else the
\* first candidate.
NextTargetAfter(hs, current, candidates) ==
    LET slots == {s \in Hosts : hs.table[s] \in candidates}
        behind == {s \in slots : \E r \in slots :
                                    hs.table[r] = current /\ r < s}
        first(S) == CHOOSE s \in S : \A r \in S : s <= r
    IN  IF slots = {} THEN None
        ELSE hs.table[first(IF behind = {} THEN slots ELSE behind)]

-----------------------------------------------------------------------------
(* The output target of the dual build *)

BleTargetReady(hs, h) == "Keyboard" \in hs.ready[h]

\* The target at an index of the computer cycle, where index 0 is the wired
\* computer with its linked BLE host.
ComputerAt(hs, index) ==
    IF index = 0
    THEN IF wired_availability = "Ready" THEN Wired
         ELSE IF wired_ble_host # None /\ BleTargetReady(hs, wired_ble_host)
              THEN wired_ble_host ELSE None
    ELSE IF index # wired_ble_host /\ BleTargetReady(hs, index)
         THEN index ELSE None

NextReadyOutputTarget(hs, selected) ==
    LET start == IF selected = wired_ble_host THEN 0 ELSE selected
        at(offset) == ComputerAt(hs, (start + offset) % (HostCount + 1))
        ready == {o \in 1..HostCount : at(o) # None}
    IN  IF ready = {} THEN None
        ELSE at(CHOOSE o \in ready : \A p \in ready : o <= p)

SetAvailability(ot, availability) ==
    [ot EXCEPT !.availability = availability,
               !.active = IF availability = "Ready" THEN ot.selected ELSE None]

RefreshSelectedTargetAvailability(ot, hs) ==
    SetAvailability(ot,
        IF ot.selected = Wired THEN wired_availability
        ELSE IF BleTargetReady(hs, ot.selected) THEN "Ready"
        ELSE IF ot.selected \in hs.connected THEN "ConnectedNotReady"
        ELSE "Unavailable")

\* Only the dual build has an output target to refresh.
Refreshed(hs) ==
    IF Dual THEN RefreshSelectedTargetAvailability(output_target, hs)
    ELSE output_target

-----------------------------------------------------------------------------
(* Reports *)

\* The logical selection, and the target input frames are sent to.
Selected == IF Dual THEN output_target.selected ELSE hosts.active
Active == IF Dual THEN output_target.active ELSE hosts.active

\* ready_active_target: the kinds of report the active target accepts.
ReadyKinds ==
    IF Active = None THEN {}
    ELSE IF Active = Wired THEN Kinds ELSE hosts.ready[Active]

\* A report of some kinds replaces what its target knows of these kinds.
Notify(told, target, kinds, pressed) ==
    [told EXCEPT ![target] = (@ \ Of(kinds)) \cup (pressed \cap Of(kinds))]

\* External: a computer forgets the controls of a report it no longer receives.
Forget(told, hs) ==
    [t \in Targets |-> IF t \in Hosts THEN told[t] \cap Of(hs.ready[t])
                                      ELSE told[t]]

\* Mutant: the LED command is not sent.
NoLedsPushed(value) == shown

PushUsbKeyboardLeds(value) ==
    [i \in Interfaces |-> IF i \in registered THEN value ELSE shown[i]]

-----------------------------------------------------------------------------
(* Boot: the state after RestoreStorage *)

\* The slots in use are the first ones, in the order of the stored profiles.
PackedTables ==
    {t \in [Hosts -> Hosts \cup {None}] :
        /\ \A r, s \in Hosts : r < s /\ t[s] # None => t[r] \notin {None, t[s]}}

\* Restored from storage with the default boot_target and restore_last_target:
\* the single build selects the last active host, or host 1, registered or not;
\* the dual build selects the stored target.
Init ==
    \E table \in PackedTables, selected \in Targets :
        LET active == IF selected = Wired THEN None ELSE selected
        IN  /\ repertoire \in Repertoires
            /\ Dual \/ selected # Wired
            /\ \/ selected = IF Dual THEN Wired ELSE 1
               \/ \E s \in Hosts : table[s] = selected
            /\ hosts = [active |-> active, table |-> table, connected |-> {},
                        ready |-> [h \in Hosts |-> {}]]
            /\ output_target = [selected |-> selected, active |-> None,
                                availability |-> "Unavailable"]
            /\ wired_availability = "Unavailable"
            /\ wired_ble_host \in (IF Dual THEN Hosts ELSE {}) \cup {None}
            /\ pending = FALSE
            /\ registered = {}
            /\ held = [i \in Interfaces |-> {}]
            /\ recent = [i \in Interfaces |-> 0]
            /\ suppression = {}
            /\ leds = [t \in Targets |-> Off]
            /\ shown = [i \in Interfaces |-> Off]
            /\ physical = [i \in Interfaces |-> {}]
            /\ carried = {}
            /\ seen = [t \in Targets |-> {}]

-----------------------------------------------------------------------------
(* Input frames *)

\* Keys that a frame shows beyond the limit: the ones already visible stay, and
\* of the keys pressed in this frame as many are hidden as do not fit.
BeyondLimit(visible, fresh) ==
    {S \in SUBSET (fresh \cap Keys) :
        LET fits == Cardinality((visible \cap Keys) \ S)
        IN  fits <= KeyLimit /\ (S # {} => fits = KeyLimit)}

\* Mutant: a released control stays hidden.
RetainedForever(parts, new) == suppression

\* retain_pressed_by: a frame of some parts ends the suppression of the controls
\* of these parts that are no longer pressed.
Retained(parts, new) == (suppression \ Of(parts)) \cup (suppression \cap new)

\* A report of interface i that sets the controls of the given kinds.  While a
\* Wired presentation is being changed the frame is dropped.
InputFrame(i, parts, pressed) ==
    /\ i \in registered
    /\ Cardinality(pressed \cap Usages) <= 1
    /\ physical' = [physical EXCEPT ![i] = (@ \ Of(parts)) \cup pressed]
    /\ carried' = carried \cap PhysicallyHeld(physical')
    /\ IF Dual /\ pending /\ output_target.selected = Wired
       THEN UNCHANGED <<held, recent, suppression, seen>>
       ELSE LET old == Aggregate(held, recent)
                new == Aggregate(held', recent')
                kept == Retained(parts, new)
            IN  /\ held' = [held EXCEPT ![i] = (@ \ Of(parts)) \cup pressed]
                /\ recent' =
                    IF "Consumer" \notin parts THEN recent
                    ELSE LET others == Holding(recent) \ {i}
                         IN  [Renumbered(recent, others) EXCEPT
                                ![i] = IF pressed \cap Usages = {} THEN 0
                                       ELSE Cardinality(others) + 1]
                /\ \E beyond \in BeyondLimit(new \ kept, new \ old) :
                    suppression' = kept \cup beyond
                /\ seen' = IF ReadyKinds \cap parts = {} THEN seen
                           ELSE Notify(seen, Active, ReadyKinds \cap parts,
                                       new \ suppression')
    /\ UNCHANGED <<hosts, output_target, wiredVars, pending, registered, ledVars>>

-----------------------------------------------------------------------------
(* Selecting a target *)

\* Mutant: nothing is released.
NotReleased(hs, ot, told) == told

\* push_release_reports to the target in use; Wired gets none while its
\* presentation is being changed.
Released(hs, ot, told) ==
    LET previous == IF Dual THEN ot.active ELSE hs.active
    IN  IF previous = None \/ (previous = Wired /\ pending) THEN told
        ELSE Notify(told, previous,
                    IF previous = Wired THEN Kinds ELSE hs.ready[previous], {})

\* Mutant: the mouse buttons held are not captured.
CapturedNoButtons == Aggregate(held, recent) \ Buttons

\* capture_from: everything the aggregate holds becomes hidden.
Captured == Aggregate(held, recent)

\* Mutant: the BLE host stays active when Wired is selected.
StillActive(hs) == hs

Deselected(hs) == [hs EXCEPT !.active = None]

\* transition_ble_target / transition_output_target, from a host table hs, an
\* output target ot and reports told: release the previous target if asked to,
\* hide what is held, and route to the new one.
Transition(hs, ot, told, target, release) ==
    LET switched == [Upsert(hs, target) EXCEPT !.active = target]
    IN  /\ suppression' = Captured
        /\ carried' = PhysicallyHeld(physical)
        /\ seen' = IF release THEN Released(hs, ot, told) ELSE told
        /\ IF target = Wired
           THEN \* ActivateWired holds the target until the presentation is up
                LET availability == IF wired_availability = "Unavailable"
                                    THEN "Unavailable" ELSE "ConnectedNotReady"
                IN  /\ hosts' = Deselected(hs)
                    /\ wired_availability' = availability
                    /\ output_target' =
                        SetAvailability([ot EXCEPT !.selected = Wired], availability)
                    /\ shown' = IF wired_availability = "Ready"
                                THEN PushUsbKeyboardLeds(leds[Wired]) ELSE shown
           ELSE /\ hosts' = switched
                /\ output_target' =
                    IF ~Dual THEN ot
                    ELSE RefreshSelectedTargetAvailability(
                            [ot EXCEPT !.selected = target], switched)
                /\ shown' = PushUsbKeyboardLeds(leds[target])
                /\ UNCHANGED wired_availability
        /\ pending' = Dual
        /\ UNCHANGED <<wired_ble_host, inputVars, leds>>

SelectTarget(target) ==
    /\ Dual \/ target # Wired
    /\ Selected # target
    /\ Transition(hosts, output_target, seen, target, TRUE)

\* The button and the keyboard shortcut, with no switch_release_delay_ms.
NextConnectedTarget ==
    LET target == IF Dual THEN NextReadyOutputTarget(hosts, output_target.selected)
                  ELSE NextTargetAfter(hosts, hosts.active, hosts.connected)
    IN  target # None /\ SelectTarget(target)

-----------------------------------------------------------------------------
(* BLE host events *)

\* A host event that only changes the table, ending in the refresh.
HostsBecome(hs) ==
    /\ hosts' = hs
    /\ output_target' = Refreshed(hs)
    /\ seen' = Forget(seen, hs)
    /\ UNCHANGED <<wiredVars, pending, inputVars, suppression, carried, ledVars>>

HostConnected(h) == HostsBecome(OnConnected(hosts, h))

\* A new encryption or bond state: which reports can be sent follows from it.
HostSecurityChanged(h) ==
    \E kinds \in SUBSET UsedKinds :
        /\ h \in hosts.connected \/ kinds = {}
        /\ HostsBecome([Upsert(hosts, h) EXCEPT !.ready[h] = kinds])

\* A subscription to one report; it has no effect on can_send before the link
\* is encrypted.
CccdChanged(h, kind, enabled) ==
    \E kinds \in {hosts.ready[h] \cup {kind}, hosts.ready[h]} :
        /\ h \in hosts.connected \/ kinds = {}
        /\ hosts.ready[h] # {} => kind \in kinds
        /\ HostsBecome([Upsert(hosts, h) EXCEPT
                           !.ready[h] = IF enabled THEN kinds ELSE @ \ {kind}])

\* The link is gone; if the host was in use the next ready target takes over.
HostDisconnected(h) ==
    LET hs == OnDisconnected(hosts, {h})
        ot == Refreshed(hs)
        inUse == IF Dual THEN output_target.active = h
                 ELSE hosts.active = h /\ "Keyboard" \in hosts.ready[h]
        target == IF ~inUse THEN None
                  ELSE IF Dual THEN NextReadyOutputTarget(hs, ot.selected)
                  ELSE NextTargetAfter(hs, h,
                           {g \in Hosts : "Keyboard" \in hs.ready[g]})
    IN  IF target = None THEN HostsBecome(hs)
        ELSE Transition(hs, ot, Forget(seen, hs), target, FALSE)

\* Forget a host: it is released, then removed from the table.
ClearHost(h) ==
    LET hs == RemoveHost(hosts, h)
    IN  /\ Registered(hosts, h)
        /\ hosts' = hs
        /\ wired_ble_host' = IF wired_ble_host = h THEN None ELSE wired_ble_host
        /\ leds' = [leds EXCEPT ![h] = Off]
        /\ shown' = IF hosts.active = h THEN PushUsbKeyboardLeds(Off) ELSE shown
        /\ seen' = Forget(IF hosts.active = h
                          THEN Notify(seen, h, hosts.ready[h], {}) ELSE seen, hs)
        /\ UNCHANGED <<output_target, wired_availability, pending, inputVars,
                       suppression, carried>>

HostKeyboardLedChanged(h, value) ==
    /\ hosts' = Upsert(hosts, h)
    /\ leds' = [leds EXCEPT ![h] = value]
    /\ shown' = IF hosts.active = h THEN PushUsbKeyboardLeds(value) ELSE shown
    /\ UNCHANGED <<output_target, wiredVars, pending, inputVars, suppression,
                   carried, seen>>

\* The runtime side of a flash quiesce: the BLE task has dropped its links, the
\* mask names the hosts it knew as connected; what is held is hidden, and neither
\* fallback nor refresh is run.
QuiesceBarrier(mask) ==
    /\ hosts' = OnDisconnected(hosts, mask)
    /\ suppression' = Captured
    /\ carried' = IF Selected = Wired THEN carried ELSE PhysicallyHeld(physical)
    /\ seen' = [t \in Targets |-> IF t \in Hosts THEN {} ELSE seen[t]]
    /\ UNCHANGED <<output_target, wiredVars, pending, inputVars, ledVars>>

-----------------------------------------------------------------------------
(* USB input devices *)

\* apply_active_host_leds: with a new keyboard, whose LEDs are off, every keyboard
\* is sent the LEDs of the current target, if there is one.
UsbHidInterfaceConnected(i) ==
    /\ i \notin registered
    /\ registered' = registered \cup {i}
    /\ LET target == IF Dual /\ Selected = Wired THEN Wired ELSE hosts.active
       IN  shown' = [j \in Interfaces |->
                        IF j \in registered' /\ target # None THEN leds[target]
                        ELSE IF j = i THEN Off ELSE shown[j]]
    /\ UNCHANGED <<hosts, output_target, wiredVars, pending, held, recent,
                   suppression, leds, physical, carried, seen>>

\* Mutant: a detach tells the host only about the keyboard.
KeyboardChanged(old, new) ==
    {k \in hosts.ready[hosts.active] \cap {"Keyboard"} :
        old \cap Of({k}) # new \cap Of({k})}

\* The report kinds whose aggregate a detach changed.
Changed(old, new) ==
    {k \in hosts.ready[hosts.active] : old \cap Of({k}) # new \cap Of({k})}

\* The entries of some interfaces leave the aggregate.  Only a BLE host that is
\* the active host is told, kind by kind where the aggregate changed.
Detach(gone) ==
    LET old == Aggregate(held, recent)
        new == Aggregate(held', recent')
    IN  /\ held' = [i \in Interfaces |-> IF i \in gone THEN {} ELSE held[i]]
        /\ recent' = Renumbered(recent, Holding(recent) \ gone)
        /\ physical' = [i \in Interfaces |-> IF i \in gone THEN {} ELSE physical[i]]
        /\ carried' = carried \cap PhysicallyHeld(physical')
        /\ IF hosts.active = None THEN UNCHANGED <<suppression, seen>>
           ELSE /\ suppression' = suppression \cap new
                /\ seen' = Notify(seen, hosts.active, Changed(old, new),
                                  (new \ suppression') \cup (new \cap Usages))
        /\ UNCHANGED <<hosts, output_target, wiredVars, pending, ledVars>>

UsbDeviceRemoved(i) ==
    /\ i \in registered
    /\ registered' = registered \ {i}
    /\ Detach({i})

\* A changed input profile drops what its device holds; whatever the device
\* reports next counts as pressed anew.
ResetInputDevice(device) ==
    /\ UNCHANGED registered
    /\ Detach({i \in Interfaces : DeviceOf[i] = device})

-----------------------------------------------------------------------------
(* The Wired target *)

\* wired_availability_changed, with stillPending the transition flag at dispatch.
\* External: a computer that has not configured the device forgets its input.
WiredBecomes(availability, stillPending) ==
    /\ Dual
    /\ pending' = stillPending
    /\ wired_availability' = availability
    /\ LET up == output_target.selected = Wired /\ availability = "Ready"
           told == IF availability = "Ready" THEN seen
                   ELSE Notify(seen, Wired, Kinds, {})
       IN  /\ output_target' = IF output_target.selected = Wired
                               THEN SetAvailability(output_target, availability)
                               ELSE output_target
           /\ seen' = IF up /\ ~stillPending THEN Notify(told, Wired, Kinds, {})
                      ELSE told
           /\ shown' = IF up THEN PushUsbKeyboardLeds(leds[Wired]) ELSE shown
    /\ UNCHANGED <<hosts, wired_ble_host, inputVars, suppression, leds, carried>>

\* The Device chip reports its USB port: configured with the fallback
\* presentation, configured with another one, attached only, or detached.
DeviceUsbState(state) ==
    CASE state = "fallback" -> WiredBecomes("Ready", FALSE)
      [] state = "mismatch" -> WiredBecomes("ConnectedNotReady", TRUE)
      [] state = "attached" -> WiredBecomes("ConnectedNotReady", pending)
      [] state = "detached" -> WiredBecomes("Unavailable", pending)

WiredKeyboardLedChanged(value) ==
    /\ Dual
    /\ leds' = [leds EXCEPT ![Wired] = value]
    /\ shown' = IF output_target.selected = Wired
                THEN PushUsbKeyboardLeds(value) ELSE shown
    /\ UNCHANGED <<hosts, output_target, wiredVars, pending, inputVars,
                   suppression, carried, seen>>

SetWiredHostLink(h) ==
    /\ Dual
    /\ wired_ble_host' = h
    /\ UNCHANGED <<hosts, output_target, wired_availability, pending, inputVars,
                   suppression, carried, ledVars, seen>>

-----------------------------------------------------------------------------
Step ==
    \/ \E i \in Interfaces, parts \in (SUBSET UsedKinds) \ {{}} :
            \E pressed \in SUBSET (Of(parts) \cap repertoire[i]) :
                InputFrame(i, parts, pressed)
    \/ \E target \in Targets : SelectTarget(target)
    \/ NextConnectedTarget
    \/ \E h \in Hosts : HostConnected(h)
    \/ \E h \in Hosts : HostSecurityChanged(h)
    \/ \E h \in Hosts, kind \in UsedKinds, enabled \in BOOLEAN :
            CccdChanged(h, kind, enabled)
    \/ \E h \in Hosts : HostDisconnected(h)
    \/ \E h \in Hosts : ClearHost(h)
    \/ \E h \in Hosts, value \in Leds : HostKeyboardLedChanged(h, value)
    \/ \E mask \in SUBSET Hosts : QuiesceBarrier(mask)
    \/ \E i \in Interfaces : UsbHidInterfaceConnected(i)
    \/ \E i \in Interfaces : UsbDeviceRemoved(i)
    \/ \E i \in Interfaces : ResetInputDevice(DeviceOf[i])
    \/ \E state \in {"fallback", "mismatch", "attached", "detached"} :
            DeviceUsbState(state)
    \/ \E value \in Leds : WiredKeyboardLedChanged(value)
    \/ \E h \in Hosts \cup {None} : SetWiredHostLink(h)

Next == Step /\ UNCHANGED repertoire

Spec == Init /\ [][Next]_vars

-----------------------------------------------------------------------------
(* Properties *)

\* A host has one slot.
HostTables ==
    {hs \in [active : Hosts \cup {None}, table : [Hosts -> Hosts \cup {None}],
             connected : SUBSET Hosts, ready : [Hosts -> SUBSET Kinds]] :
        \A r, s \in Hosts : hs.table[r] = hs.table[s] /\ r # s => hs.table[s] = None}

\* The dual build routes to its selected target or nowhere.
OutputTargets ==
    {ot \in [selected : Targets, active : Targets \cup {None},
             availability : Availabilities] : ot.active \in {None, ot.selected}}

\* Type correctness of the routing state.
TypeOK ==
    /\ repertoire \in Repertoires
    /\ hosts \in HostTables
    /\ output_target \in OutputTargets
    /\ wired_availability \in Availabilities
    /\ wired_ble_host \in Hosts \cup {None}
    /\ pending \in BOOLEAN
    /\ registered \subseteq Interfaces
    /\ held \in [Interfaces -> SUBSET Controls]
    /\ recent \in [Interfaces -> Nat]
    /\ suppression \subseteq Controls
    /\ leds \in [Targets -> Leds]
    /\ shown \in [Interfaces -> Leds]
    /\ physical \in [Interfaces -> SUBSET Controls]
    /\ carried \subseteq Controls
    /\ seen \in [Targets -> SUBSET Controls]

\* Exclusive routing: a BLE host other than the selected one never believes that
\* a control is pressed; transition_* releases a target before leaving it.  The dual
\* build releases only a target that is ready, and ready means that it takes
\* keyboard reports: there the promise is about keys.
OnlySelectedHostHolds ==
    \A h \in Hosts \ {Selected} :
        seen[h] \cap (IF Dual THEN Of({"Keyboard"}) ELSE Controls) = {}

\* A key or button held when the target was switched stays hidden from the new
\* target until it is physically released (capture_from, retain_pressed_by).
HeldAcrossSwitchIsHidden ==
    Selected # None => seen[Selected] \cap (carried \ Usages) = {}

\* No stuck input: the selected target believes pressed only what is physically
\* held on some device, however devices and hosts come and go; and a report never
\* lists more keys than the 6KRO report holds (suppress_visible_after,
\* debug_assert!(!build.truncated)).
NoStuckInput ==
    /\ Selected # None => seen[Selected] \subseteq PhysicallyHeld(physical)
    /\ \A t \in Targets : Cardinality(seen[t] \cap Keys) <= KeyLimit

\* A frame that presses a key, while fewer than KeyLimit keys are visible, shows
\* it to the ready target: suppression never outlives the press it was for.
ShowsFreshPress ==
    \A c \in Keys \cup Modifiers \cup Buttons :
        /\ c \notin PhysicallyHeld(physical)
        /\ c \in PhysicallyHeld(physical')
        /\ c \in Of(ReadyKinds)
        /\ Cardinality(PhysicallyHeld(physical') \cap Keys) <= KeyLimit
        => c \in seen'[Selected]
FreshPressIsShown == [][ShowsFreshPress]_vars

\* Every registered keyboard shows the LEDs of the target in use: the active BLE
\* host, or Wired once it is ready.
LedsFollowTarget ==
    \A i \in registered :
        /\ hosts.active # None => shown[i] = leds[hosts.active]
        /\ Dual /\ output_target.active = Wired => shown[i] = leds[Wired]

\* The active BLE host of the dual build is the selected target.
ActiveHostIsSelected ==
    Dual /\ hosts.active # None => output_target.selected = hosts.active

-----------------------------------------------------------------------------
(* The inductive invariants *)

\* A host is only told of what it can be sent.
TellsWhatIsReady == \A h \in Hosts : seen[h] \subseteq Of(hosts.ready[h])

\* The output target is refreshed whenever its target becomes ready.
RefreshedWhenReady ==
    Dual => /\ output_target.selected = Wired /\ wired_availability = "Ready" =>
                    output_target.active = Wired
            /\ output_target.selected \in Hosts
                 /\ "Keyboard" \in hosts.ready[output_target.selected] =>
                    output_target.active = output_target.selected

RoutingInv ==
    /\ TypeOK
    /\ TellsWhatIsReady
    /\ RefreshedWhenReady
    /\ OnlySelectedHostHolds
    /\ ActiveHostIsSelected
    /\ LedsFollowTarget

\* The single build knows what is held, hides what was held at the last switch
\* and shows no more keys than fit.  With an active host nothing stays hidden
\* after its release, and the host was told of nothing that has left the aggregate.
SingleInv ==
    LET aggregate == Aggregate(held, recent)
    IN  /\ held = physical
        /\ seen[Wired] = {}
        /\ carried \subseteq PhysicallyHeld(physical)
        /\ carried \ Usages \subseteq suppression
        /\ Cardinality((aggregate \ suppression) \cap Keys) <= KeyLimit
        /\ hosts.active # None =>
              /\ suppression \ Usages \subseteq aggregate
              /\ seen[hosts.active] \subseteq aggregate
              /\ seen[hosts.active] \cap (carried \ Usages) = {}
              /\ Cardinality(seen[hosts.active] \cap Keys) <= KeyLimit

InputInv == RoutingInv /\ (~Dual => SingleInv)

=============================================================================
