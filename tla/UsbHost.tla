------------------------------ MODULE UsbHost ------------------------------
(***************************************************************************)
(* The USB host side of the bridge: the task that enumerates a direct      *)
(* device or a hub with its children, one reader task per HID interface,   *)
(* the hub task, the topology with its reusable ids, the movement          *)
(* coalescer in front of a full runtime queue, and what the runtime keeps  *)
(* of it: the registered interfaces and the power policy of the bus.       *)
(*                                                                         *)
(* Sources: firmware/src/platform/usb_host_task.rs, src/usb_hid/topology.rs,*)
(* src/usb_hid/power.rs, src/input/movement_queue.rs and the USB parts of  *)
(* src/runtime.rs (the build without dual-s3-wired; module Presentation    *)
(* has the Mirror captures of the other one).                              *)
(*                                                                         *)
(* Every plugging of a device gets a number, `inc`, which the code does    *)
(* not have: it only tells one plugging from another in the properties.    *)
(* Every device has the interfaces 0 .. Composite - 1.  A report is a      *)
(* movement under the buttons held, or a change of the buttons (a key is   *)
(* the same: it is never coalesced).  Descriptors, names and metadata are  *)
(* reduced to whether attaching an interface succeeds.                     *)
(***************************************************************************)
EXTENDS Integers, Sequences, SequencesExt, FiniteSets

CONSTANTS
    Ports,        \* tracked ports of the root hub
    Fates,        \* how the interfaces of a device may fare when attached
    DeviceMax,    \* USB_TOPOLOGY_DEVICES_MAX
    InterfaceMax, \* USB_TOPOLOGY_INTERFACES_MAX
    SlotMax,      \* MAX_ACTIVE_USB_INTERFACES, also the pool of reader tasks
    ReaderCap,    \* USB_READER_QUEUE_CAPACITY
    RuntimeCap,   \* RUNTIME_INPUT_QUEUE_CAPACITY
    CommandCap,   \* RUNTIME_USB_COMMAND_QUEUE_CAPACITY
    Attempts,     \* enumeration attempts on a hub port
    MaxEvents     \* bound: pluggings, reports, suspensions, changes

ASSUME FatesAssumption ==
    \A f \in Fates : f \in Seq({"ok", "nopipe", "error"})
ASSUME SizesAssumption ==
    /\ {DeviceMax, InterfaceMax, SlotMax, ReaderCap, RuntimeCap,
        CommandCap, Attempts, MaxEvents} \subseteq Nat \ {0}

HubCap == 2       \* capacity of USB_HUB_EVENT_QUEUE
RootCap == 4      \* capacity of USB_ROOT_EVENT_QUEUE

VARIABLES
    plug,      \* what is plugged in: the root port and the ports of a hub
    rootq,     \* USB_ROOT_EVENT_QUEUE
    hub,       \* usb_hub_task
    hubq,      \* USB_HUB_EVENT_QUEUE
    readers,   \* the running usb_interface_reader_tasks
    readerq,   \* USB_READER_QUEUE
    usb,       \* the session, the topology and the slots of usb_input_task
    moves,     \* UsbMovementCoalescer: what is pending, oldest first
    outbox,    \* messages usb_input_task is waiting to send
    inbox,     \* RUNTIME_INPUT_CHANNEL
    rt,        \* the runtime: registered interfaces, bus policy, a computer
    cmdq,      \* USB_COMMAND_CHANNEL
    bus,       \* the root port is running or suspended
    count      \* bound: the events so far

envVars == <<plug, rootq>>
hubVars == <<hub, hubq>>
readerVars == <<readers, readerq>>
taskVars == <<usb, moves, outbox>>
runtimeVars == <<inbox, rt, cmdq>>
vars == <<plug, rootq, hub, hubq, readers, readerq, usb, moves, outbox,
          inbox, rt, cmdq, bus, count>>

Incs == 1 .. MaxEvents
Root == -1                       \* UsbDeviceRoute::Direct

PluggedIncs ==
    IF plug.root = "none" THEN {}
    ELSE {plug.inc} \union ({plug.child[p] : p \in Ports} \ {0})

(***************************************************************************)
(* Topology: the lowest free ids are given out again                       *)
(***************************************************************************)
LowestFree(used, max) ==
    LET free == (1 .. max) \ used
    IN  IF free = {} THEN 0 ELSE CHOOSE i \in free : \A j \in free : i <= j

DeviceIds(u) == {d.id : d \in u.devs}
InterfaceIds(u) == {i.id : i \in u.ifaces}

alloc_device_id(u) == LowestFree(DeviceIds(u), DeviceMax)
alloc_interface_id(u) == LowestFree(InterfaceIds(u), InterfaceMax)

\* connect_device fails when the route is taken or no id is left.  The parent
\* of a downstream device is the root hub of the session.
CanConnect(u, route) ==
    /\ alloc_device_id(u) # 0
    /\ ~\E d \in u.devs : d.route = route
    /\ route # Root => \E d \in u.devs : d.route = Root
connect_device(u, route, inc) ==
    [u EXCEPT !.devs =
        @ \union {[id |-> alloc_device_id(u), route |-> route, inc |-> inc]}]

\* The device and, when it is the root hub, everything downstream of it.
Removed(u, dev) ==
    IF \E d \in u.devs : d.id = dev /\ d.route = Root
    THEN DeviceIds(u) ELSE {dev}
remove_device(u, dev) ==
    [u EXCEPT !.devs = {d \in @ : d.id \notin Removed(u, dev)},
              !.ifaces = {i \in @ : i.dev \notin Removed(u, dev)}]

(***************************************************************************)
(* Removal of devices and interfaces                                       *)
(***************************************************************************)
Disconnected(slots) ==
    LET gone == SetToSeq(slots)
    IN  [k \in 1 .. Len(gone) |->
            [kind |-> "disconnect", iface |-> gone[k].iface]]

\* Mutant: only the slots of the removed device itself are detached.
DetachedWithoutChildren(u, dev) == {s \in u.slots : s.dev = dev}

DetachedBy(u, dev) == {s \in u.slots : s.dev \in Removed(u, dev)}

remove_device_and_notify(u, dev) ==
    [usb |-> [remove_device(u, dev) EXCEPT !.slots = @ \ DetachedBy(u, dev)],
     out |-> Disconnected(DetachedBy(u, dev))]

remove_interface_and_notify(u, iface) ==
    [usb |-> [u EXCEPT !.ifaces = {i \in @ : i.id # iface},
                       !.slots = {s \in @ : s.iface # iface}],
     out |-> Disconnected({s \in u.slots : s.iface = iface})]

(***************************************************************************)
(* Attaching the interfaces of a device                                    *)
(***************************************************************************)
\* A ghost: a number for the attachment that no message or slot still carries.
FreshReg ==
    LET messages == {m \in ToSet(inbox \o outbox \o moves) :
                        m.kind # "disconnect"}
        used == {x.reg : x \in messages \union usb.slots \union rt.ifaces
                                       \union readers}
    IN  CHOOSE n \in 1 .. Cardinality(used) + 1 :
            /\ n \notin used
            /\ \A k \in 1 .. n - 1 : k \in used

\* An interface whose reader has its pipe: the runtime is told, with its
\* metadata, and the slot is taken.
Announce(acc, id, dev, inc, reg) ==
    [acc EXCEPT
        !.usb.slots = @ \union {[iface |-> id, dev |-> dev, inc |-> inc,
                                 buttons |-> 0, reg |-> reg]},
        !.out = Append(@, [kind |-> "connect", iface |-> id, dev |-> dev,
                           inc |-> inc, reg |-> reg])]

\* One interface.  `acc` is what the loop has done so far; `how` is the fate
\* of the control requests, the descriptors and the reader's pipe.
AttachInterface(acc, dev, inc, reg, how) ==
    LET id == alloc_interface_id(acc.usb)
        registered == [acc EXCEPT !.usb.ifaces =
                          @ \union {[id |-> id, dev |-> dev]}]
    IN  CASE ~acc.ok -> acc
          [] acc.ok /\ Cardinality(acc.usb.slots) = SlotMax -> acc
          [] acc.ok /\ Cardinality(acc.usb.slots) < SlotMax /\ id = 0 ->
                [acc EXCEPT !.ok = FALSE]
          [] OTHER ->
                CASE how = "error" -> [registered EXCEPT !.ok = FALSE]
                  [] how = "nopipe" -> acc
                  [] how = "ok" -> Announce(registered, id, dev, inc, reg)

\* The readers are started last, as far as the pool has tasks.
StartReaders(slots) ==
    LET room == SlotMax - Cardinality(readers)
    IN  IF Cardinality(slots) <= room THEN slots
        ELSE CHOOSE r \in SUBSET slots : Cardinality(r) = room

\* Mutant: a failed device is dropped without telling the runtime.
ForgetDevice(u, dev) ==
    [usb |-> remove_device_and_notify(u, dev).usb, out |-> <<>>]

\* Undoing a failed attachment.
AttachFails(u, dev) == remove_device_and_notify(u, dev)

\* Every HID interface of the device; when one fails, none is served or a
\* reader cannot be started, the device is removed (readers started stay).
attach_hid_interfaces_for_device(u, dev, inc, reg, how) ==
    LET done == FoldLeft(
            LAMBDA acc, h : AttachInterface(acc, dev, inc, reg, h),
            [usb |-> u, out |-> <<>>, ok |-> TRUE], how)
        mine == {s \in done.usb.slots : s.dev = dev}
        started == IF done.ok THEN StartReaders(mine) ELSE {}
        ok == done.ok /\ mine # {} /\ started = mine
        undone == AttachFails(done.usb, dev)
    IN  [usb |-> IF ok THEN done.usb ELSE undone.usb,
         out |-> IF ok THEN done.out ELSE done.out \o undone.out,
         readers |-> {[inc |-> inc, dev |-> dev, iface |-> s.iface,
                       buttons |-> 0, reg |-> s.reg] : s \in started},
         ok |-> ok]

(***************************************************************************)
(* Initial state: nothing is plugged in                                    *)
(***************************************************************************)
NoSession == [kind |-> "none", dev |-> 0]
HubOff == [state |-> "off", inc |-> 0, port |-> Root, attempt |-> 0,
           seen |-> [p \in Ports |-> 0], out |-> <<>>]
UsbStart == [sess |-> NoSession, devs |-> {}, ifaces |-> {}, slots |-> {},
             ports |-> [p \in Ports |-> 0]]
RuntimeStart == [ifaces |-> {}, policy |-> "Running", armed |-> FALSE,
                 computer |-> FALSE, lost |-> FALSE]

Init ==
    /\ plug = [root |-> "none", inc |-> 0, child |-> [p \in Ports |-> 0]]
    /\ rootq = <<>> /\ hub = HubOff /\ hubq = <<>>
    /\ readers = {} /\ readerq = <<>>
    /\ usb = UsbStart /\ moves = <<>> /\ outbox = <<>>
    /\ inbox = <<>> /\ rt = RuntimeStart /\ cmdq = <<>> /\ bus = "Running"
    /\ count = 0

(***************************************************************************)
(* Pluggings, and the root event task that reports those of the root port  *)
(***************************************************************************)
PlugRoot(kind) ==
    /\ plug.root = "none" /\ count < MaxEvents /\ Len(rootq) < RootCap
    /\ plug' = [plug EXCEPT !.root = kind, !.inc = count + 1]
    /\ count' = count + 1
    /\ rootq' = Append(rootq, "conn")
    /\ UNCHANGED <<hubVars, readerVars, taskVars, runtimeVars, bus>>

\* An overcurrent is reported, and handled, like a disconnection.  The driver
\* leaves suspend by itself when the root port is disconnected.
UnplugRoot ==
    /\ plug.root # "none" /\ Len(rootq) < RootCap
    /\ plug' = [root |-> "none", inc |-> 0, child |-> [p \in Ports |-> 0]]
    /\ rootq' = Append(rootq, "disc") /\ bus' = "Running"
    /\ UNCHANGED <<hubVars, readerVars, taskVars, runtimeVars, count>>

PlugChild(p) ==
    /\ plug.root = "hub" /\ plug.child[p] = 0 /\ count < MaxEvents
    /\ plug' = [plug EXCEPT !.child[p] = count + 1]
    /\ count' = count + 1
    /\ UNCHANGED <<rootq, hubVars, readerVars, taskVars, runtimeVars, bus>>

UnplugChild(p) ==
    /\ plug.child[p] # 0
    /\ plug' = [plug EXCEPT !.child[p] = 0]
    /\ UNCHANGED <<rootq, hubVars, readerVars, taskVars, runtimeVars, bus,
                   count>>

(***************************************************************************)
(* The hub task                                                            *)
(***************************************************************************)
HubAlive == plug.root = "hub" /\ plug.inc = hub.inc
HubReady == hub.state = "idle" /\ hub.out = <<>>

HubSees(p) ==
    /\ HubReady /\ HubAlive /\ hub.seen[p] # plug.child[p]
    /\ hub' = IF hub.seen[p] # 0
              THEN [hub EXCEPT !.seen[p] = 0,
                        !.out = <<[kind |-> "removed", port |-> p]>>]
              ELSE [hub EXCEPT !.seen[p] = plug.child[p], !.state = "asked",
                        !.port = p]
    /\ UNCHANGED <<envVars, hubq, readerVars, taskVars, runtimeVars, bus,
                   count>>

HubFails ==
    /\ HubReady /\ ~HubAlive
    /\ hub' = [hub EXCEPT !.state = "failing", !.out = <<[kind |-> "failed"]>>]
    /\ UNCHANGED <<envVars, hubq, readerVars, taskVars, runtimeVars, bus,
                   count>>

\* quiesce_ble_for_usb_enumeration: the BLE task answers ...
BleIsQuiet ==
    /\ hub.state = "asked"
    /\ hub' = [hub EXCEPT !.state = "quiet", !.attempt = 1]
    /\ UNCHANGED <<envVars, hubq, readerVars, taskVars, runtimeVars, bus,
                   count>>

\* ... or the handshake times out and the chip is reset.
Resets ==
    /\ hub.state = "asked" /\ count < MaxEvents
    /\ count' = count + 1
    /\ rootq' = IF plug.root = "none" THEN <<>> ELSE <<"conn">>
    /\ hub' = HubOff /\ hubq' = <<>> /\ readers' = {} /\ readerq' = <<>>
    /\ usb' = UsbStart /\ moves' = <<>> /\ outbox' = <<>>
    /\ inbox' = <<>> /\ rt' = RuntimeStart /\ cmdq' = <<>>
    /\ bus' = "Running"
    /\ UNCHANGED plug

\* One attempt of enumerate_hub_port_with_retries; BLE resumes when they end.
\* A device that came after the one detected is enumerated in its place.
EnumerateAttempt(ok) ==
    /\ hub.state = "quiet"
    /\ ok => HubAlive /\ plug.child[hub.port] # 0
    /\ hub' = CASE ok ->
                      [hub EXCEPT !.state = "idle", !.attempt = 0,
                          !.out = <<[kind |-> "enumerated", port |-> hub.port,
                                     inc |-> plug.child[hub.port]]>>]
                [] ~ok /\ hub.attempt < Attempts ->
                      [hub EXCEPT !.attempt = @ + 1]
                [] OTHER -> [hub EXCEPT !.state = "idle", !.attempt = 0]
    /\ UNCHANGED <<envVars, hubq, readerVars, taskVars, runtimeVars, bus,
                   count>>

HubSends ==
    /\ hub.out # <<>> /\ Len(hubq) < HubCap
    /\ hubq' = Append(hubq, hub.out[1])
    /\ hub' = IF hub.state = "failing" THEN HubOff
              ELSE [hub EXCEPT !.out = <<>>]
    /\ UNCHANGED <<envVars, readerVars, taskVars, runtimeVars, bus, count>>

(***************************************************************************)
(* The reader tasks                                                        *)
(***************************************************************************)
\* The pipe of the reader works: its device is plugged in and was not
\* enumerated again since.
Serves(r) == /\ r.inc \in PluggedIncs
             /\ ~\E s \in usb.slots : s.inc = r.inc /\ s.reg # r.reg

\* A report of a device: it moves, or (press) its buttons change.
Reads(r, press) ==
    /\ Serves(r) /\ bus = "Running"
    /\ Len(readerq) < ReaderCap /\ count < MaxEvents
    /\ LET now == [r EXCEPT !.buttons = IF press THEN 1 - @ ELSE @]
       IN  /\ readers' = (readers \ {r}) \union {now}
           /\ readerq' = Append(readerq,
                 [kind |-> "report", dev |-> r.dev, iface |-> r.iface,
                  inc |-> r.inc, buttons |-> now.buttons, press |-> press])
    /\ count' = count + 1
    /\ UNCHANGED <<envVars, hubVars, taskVars, runtimeVars, bus>>

\* The device is gone, or a transfer fails for good; the task ends.
ReadFails(r) ==
    /\ Len(readerq) < ReaderCap
    /\ \/ ~Serves(r) /\ count' = count
       \/ /\ Serves(r) /\ count < MaxEvents
          /\ count' = count + 1
    /\ readers' = readers \ {r}
    /\ readerq' = Append(readerq, [kind |-> "fatal", dev |-> r.dev,
                                   iface |-> r.iface, inc |-> r.inc])
    /\ UNCHANGED <<envVars, hubVars, taskVars, runtimeVars, bus>>

(***************************************************************************)
(* usb_input_task.  It handles one event at a time and waits for room in   *)
(* the runtime queue with every message of the one before; `select` polls  *)
(* the hub first, then the readers, the commands and the root port.        *)
(***************************************************************************)
Idle == outbox = <<>>
Direct == usb.sess.kind = "direct"
OnHub == usb.sess.kind = "hub"
NoHubEvent == OnHub => hubq = <<>>

SendsToRuntime ==
    /\ outbox # <<>> /\ Len(inbox) < RuntimeCap
    /\ inbox' = Append(inbox, Head(outbox)) /\ outbox' = Tail(outbox)
    /\ UNCHANGED <<envVars, hubVars, readerVars, usb, moves, rt, cmdq, bus,
                   count>>

EndSession(result) ==
    /\ usb' = [result.usb EXCEPT !.sess = NoSession,
                                 !.ports = [p \in Ports |-> 0]]
    /\ outbox' = result.out

\* No session: wait for a connection, clear the slots, enumerate.
RootDisconnects ==
    /\ Idle /\ usb.sess = NoSession /\ rootq # <<>> /\ Head(rootq) = "disc"
    /\ rootq' = Tail(rootq)
    /\ UNCHANGED <<plug, hubVars, readerVars, taskVars, runtimeVars, bus,
                   count>>

\* The requests of an enumeration wait while the root port is suspended.
Connecting ==
    /\ Idle /\ usb.sess = NoSession /\ rootq # <<>> /\ Head(rootq) = "conn"
    /\ bus = "Running"
    /\ rootq' = Tail(rootq)
    /\ UNCHANGED <<plug, moves, runtimeVars, bus, count>>

\* The enumeration, the topology or the registration of the hub fails, or the
\* task of a former hub still runs.
ConnectFails ==
    /\ Connecting
    /\ usb' = [usb EXCEPT !.slots = {}]
    /\ UNCHANGED <<outbox, hubVars, readerVars>>

HubConnects ==
    /\ Connecting /\ plug.root = "hub" /\ hub.state = "off"
    /\ CanConnect(usb, Root)
    /\ LET u == connect_device([usb EXCEPT !.slots = {}], Root, plug.inc)
       IN  usb' = [u EXCEPT !.sess = [kind |-> "hub",
                                      dev |-> alloc_device_id(usb)],
                            !.ports = [p \in Ports |-> 0]]
    /\ hub' = [HubOff EXCEPT !.state = "idle", !.inc = plug.inc]
    /\ hubq' = <<>>
    /\ UNCHANGED <<outbox, readerVars>>

DeviceConnects(how) ==
    /\ Connecting /\ plug.root = "device" /\ CanConnect(usb, Root)
    /\ \E dev \in {alloc_device_id(usb)}, reg \in {FreshReg} :
       \E a \in {attach_hid_interfaces_for_device(
                     connect_device([usb EXCEPT !.slots = {}], Root, plug.inc),
                     dev, plug.inc, reg, how)} :
           /\ usb' = [a.usb EXCEPT !.sess = IF a.ok
                          THEN [kind |-> "direct", dev |-> dev] ELSE NoSession]
           /\ outbox' = a.out /\ readers' = readers \union a.readers
    /\ UNCHANGED <<hubVars, readerq>>

\* Any root event, even a connection, ends the session.
SessionEnds ==
    /\ Idle /\ usb.sess # NoSession /\ rootq # <<>>
    /\ NoHubEvent /\ readerq = <<>> /\ cmdq = <<>>
    /\ rootq' = Tail(rootq)
    /\ EndSession(remove_device_and_notify(usb, usb.sess.dev))
    /\ UNCHANGED <<plug, hubVars, readerVars, moves, runtimeVars, bus, count>>

HubEvent(kind) ==
    /\ Idle /\ OnHub /\ hubq # <<>> /\ Head(hubq).kind = kind
    /\ hubq' = Tail(hubq)
    /\ UNCHANGED <<envVars, hub, readerq, moves, runtimeVars, bus, count>>

handle_hub_device_enumerated(how) ==
    /\ HubEvent("enumerated")
    /\ \/ /\ ~CanConnect(usb, Head(hubq).port)
          /\ UNCHANGED <<usb, outbox, readers>>
       \/ /\ CanConnect(usb, Head(hubq).port)
          /\ \E e \in {Head(hubq)}, dev \in {alloc_device_id(usb)},
                reg \in {FreshReg} :
             \E a \in {attach_hid_interfaces_for_device(
                           connect_device(usb, e.port, e.inc),
                           dev, e.inc, reg, how)} :
                /\ usb' = IF a.ok THEN [a.usb EXCEPT !.ports[e.port] = dev]
                          ELSE a.usb
                /\ outbox' = a.out /\ readers' = readers \union a.readers

\* Mutant: the port keeps the id of the device removed from it.
RemovedPortKept ==
    /\ HubEvent("removed")
    /\ LET port == Head(hubq).port
           r == remove_device_and_notify(usb, usb.ports[port])
       IN  IF usb.ports[port] = 0 THEN UNCHANGED <<usb, outbox>>
           ELSE /\ usb' = r.usb
                /\ outbox' = r.out
    /\ UNCHANGED readers

handle_hub_device_removed ==
    /\ HubEvent("removed")
    /\ LET port == Head(hubq).port
           r == remove_device_and_notify(usb, usb.ports[port])
       IN  IF usb.ports[port] = 0 THEN UNCHANGED <<usb, outbox>>
           ELSE /\ usb' = [r.usb EXCEPT !.ports[port] = 0]
                /\ outbox' = r.out
    /\ UNCHANGED readers

HubSessionFails ==
    /\ HubEvent("failed")
    /\ EndSession(remove_device_and_notify(usb, usb.sess.dev))
    /\ UNCHANGED readers

(***************************************************************************)
(* Reports on their way to the runtime                                     *)
(***************************************************************************)
SlotOf(e) == {s \in usb.slots : s.iface = e.iface /\ s.dev = e.dev}

Frame(e, s) == [kind |-> "frame", iface |-> e.iface, dev |-> e.dev,
                buttons |-> e.buttons, edge |-> e.press \/ e.buttons # s.buttons,
                reg |-> s.reg]

\* UsbMovementCoalescer::push.  The movement is added to the one pending for
\* its interface; how far they go is left out.  One of another device, or
\* under other buttons, than the one pending is refused and lost.
Push(pending, f) ==
    LET same == {k \in DOMAIN pending : pending[k].iface = f.iface}
    IN  IF same = {} /\ Len(pending) < SlotMax THEN Append(pending, f)
        ELSE pending

\* Mutant: a change of the buttons overtakes the movements that wait.
ForwardAtOnce(f, movementOnly) ==
    LET free == RuntimeCap - Len(inbox)
        k == IF free < Len(moves) THEN free ELSE Len(moves)
        flushed == inbox \o SubSeq(moves, 1, k)
        rest == SubSeq(moves, k + 1, Len(moves))
    IN  \/ /\ movementOnly
           /\ IF Len(flushed) < RuntimeCap
              THEN inbox' = Append(flushed, f) /\ moves' = rest
              ELSE inbox' = flushed /\ moves' = Push(rest, f)
           /\ UNCHANGED outbox
        \/ /\ ~movementOnly
           /\ inbox' = flushed /\ outbox' = <<f>> /\ moves' = rest

\* forward_usb_input: what waits goes first, as far as there is room.  A
\* movement never waits for room; anything else waits behind the movements.
forward_usb_input(f, movementOnly) ==
    LET free == RuntimeCap - Len(inbox)
        k == IF free < Len(moves) THEN free ELSE Len(moves)
        flushed == inbox \o SubSeq(moves, 1, k)
        rest == SubSeq(moves, k + 1, Len(moves))
    IN  \/ /\ movementOnly
           /\ IF Len(flushed) < RuntimeCap
              THEN inbox' = Append(flushed, f) /\ moves' = rest
              ELSE inbox' = flushed /\ moves' = Push(rest, f)
           /\ UNCHANGED outbox
        \/ /\ ~movementOnly
           /\ inbox' = flushed /\ outbox' = Append(rest, f) /\ moves' = <<>>

ReaderEvent(kind) ==
    /\ Idle /\ usb.sess # NoSession /\ NoHubEvent
    /\ readerq # <<>> /\ Head(readerq).kind = kind
    /\ readerq' = Tail(readerq)
    /\ UNCHANGED <<envVars, hubVars, readers, rt, cmdq, bus, count>>

\* A report without a slot is dropped.
ReportArrives ==
    /\ ReaderEvent("report")
    /\ LET e == Head(readerq)
       IN  IF SlotOf(e) = {} THEN UNCHANGED <<usb, moves, outbox, inbox>>
           ELSE \E s \in SlotOf(e) :
                  /\ usb' = [usb EXCEPT !.slots = (@ \ {s}) \union
                                {[s EXCEPT !.buttons = e.buttons]}]
                  /\ forward_usb_input(Frame(e, s), ~Frame(e, s).edge)

\* The interface goes, and with the last one the device.
AfterFatal(u, e) ==
    LET one == remove_interface_and_notify(u, e.iface)
        all == remove_device_and_notify(one.usb, e.dev)
        ports == [p \in Ports |-> IF u.ports[p] = e.dev THEN 0 ELSE u.ports[p]]
    IN  IF \E s \in one.usb.slots : s.dev = e.dev THEN one
        ELSE [usb |-> [all.usb EXCEPT !.ports = ports,
                          !.sess = IF @.kind = "direct" THEN NoSession ELSE @],
              out |-> one.out \o all.out]

FatalArrives ==
    /\ ReaderEvent("fatal")
    /\ LET r == AfterFatal(usb, Head(readerq))
       IN  IF SlotOf(Head(readerq)) = {} THEN UNCHANGED <<usb, outbox>>
           ELSE usb' = r.usb /\ outbox' = r.out
    /\ UNCHANGED <<moves, inbox>>

(***************************************************************************)
(* Commands of the runtime                                                 *)
(***************************************************************************)
Command(kind) ==
    /\ Idle /\ usb.sess # NoSession /\ NoHubEvent /\ readerq = <<>>
    /\ cmdq # <<>> /\ Head(cmdq).kind = kind
    /\ cmdq' = Tail(cmdq)
    /\ UNCHANGED <<envVars, hubVars, readerVars, moves, outbox, inbox, rt,
                   count>>

SetBusState ==
    /\ Command("bus")
    /\ bus' = Head(cmdq).state
    /\ UNCHANGED usb

\* The report of the LEDs is written to the slot found, if any; which LEDs, and
\* that a write already made is skipped, is left out.
KeyboardLedWrite ==
    /\ Command("led")
    /\ UNCHANGED <<usb, bus>>

(***************************************************************************)
(* The runtime: registrations, and the power policy after every message    *)
(* that is not an input frame                                              *)
(***************************************************************************)
\* UsbHostPowerPolicy::update; `due` says that the delay has passed.
PowerUpdate(r, due) ==
    CASE r.ifaces = {} \/ r.computer ->
             [r EXCEPT !.armed = FALSE, !.policy = "Running"]
      [] r.ifaces # {} /\ ~r.computer /\ r.policy = "Suspended" -> r
      [] OTHER -> IF r.armed /\ due
                  THEN [r EXCEPT !.armed = FALSE, !.policy = "Suspended"]
                  ELSE [r EXCEPT !.armed = TRUE]

\* The message takes effect with its commands, or, when there is no room for
\* them, is rolled back and lost; `lost` records that of a registration.
Commit(r, due) ==
    LET new == PowerUpdate(r, due)
    IN  IF new.policy = rt.policy THEN rt' = new /\ UNCHANGED cmdq
        ELSE IF Len(cmdq) = CommandCap
        THEN /\ rt' = [rt EXCEPT !.lost = @ \/ r.ifaces # rt.ifaces]
             /\ UNCHANGED cmdq
        ELSE /\ rt' = new
             /\ cmdq' = Append(cmdq, [kind |-> "bus", state |-> new.policy])

RuntimeReceives ==
    /\ inbox # <<>>
    /\ inbox' = Tail(inbox)
    /\ LET m == Head(inbox)
           others == {i \in rt.ifaces : i.iface # m.iface}
       IN  CASE m.kind = "connect" ->
                    Commit([rt EXCEPT !.ifaces = others \union
                        {[iface |-> m.iface, dev |-> m.dev, inc |-> m.inc,
                          reg |-> m.reg]}], FALSE)
             [] m.kind = "disconnect" -> Commit([rt EXCEPT !.ifaces = others], FALSE)
             [] m.kind = "frame" -> UNCHANGED <<rt, cmdq>>
    /\ UNCHANGED <<envVars, hubVars, readerVars, taskVars, bus, count>>

\* A tick after the delay: the bus is idle.  (A tick before it changes nothing
\* that the message before it has not changed.)
RuntimeTicks ==
    /\ rt.armed /\ count < MaxEvents
    /\ count' = count + 1
    /\ Commit(rt, TRUE)
    /\ UNCHANGED <<envVars, hubVars, readerVars, taskVars, inbox, bus>>

ComputerChanges ==
    /\ count < MaxEvents
    /\ count' = count + 1
    /\ Commit([rt EXCEPT !.computer = ~@], FALSE)
    /\ UNCHANGED <<envVars, hubVars, readerVars, taskVars, inbox, bus>>

\* The active host writes its LEDs: one command per registered interface.
\* (The pending slots of a full channel belong to module TaskSink.)
LedsChange ==
    /\ count < MaxEvents /\ rt.ifaces # {}
    /\ Len(cmdq) + Cardinality(rt.ifaces) <= CommandCap
    /\ count' = count + 1
    /\ UNCHANGED rt
    /\ cmdq' = cmdq \o LET to == SetToSeq(rt.ifaces)
                       IN  [k \in 1 .. Len(to) |->
                               [kind |-> "led", iface |-> to[k].iface,
                                dev |-> to[k].dev]]
    /\ UNCHANGED <<envVars, hubVars, readerVars, taskVars, inbox, bus>>

-----------------------------------------------------------------------------
Environment ==
    \/ \E kind \in {"device", "hub"} : PlugRoot(kind)
    \/ UnplugRoot
    \/ \E p \in Ports : PlugChild(p) \/ UnplugChild(p)
    \/ \E r \in readers, press \in BOOLEAN : Reads(r, press)
    \/ RuntimeTicks \/ ComputerChanges \/ LedsChange
    \/ Resets

System ==
    \/ \E p \in Ports : HubSees(p)
    \/ HubFails \/ BleIsQuiet \/ HubSends
    \/ \E ok \in BOOLEAN : EnumerateAttempt(ok)
    \/ \E r \in readers : ReadFails(r)
    \/ SendsToRuntime
    \/ RootDisconnects \/ ConnectFails \/ HubConnects
    \/ \E how \in Fates : DeviceConnects(how)
    \/ SessionEnds
    \/ \E how \in Fates : handle_hub_device_enumerated(how)
    \/ handle_hub_device_removed \/ HubSessionFails
    \/ ReportArrives \/ FatalArrives
    \/ SetBusState \/ KeyboardLedWrite
    \/ RuntimeReceives

Next == Environment \/ System
Spec == Init /\ [][Next]_vars /\ WF_vars(System)

(***************************************************************************)
(* Properties                                                              *)
(***************************************************************************)
TypeOK ==
    /\ plug.root \in {"none", "device", "hub"} /\ plug.inc \in 0 .. MaxEvents
    /\ plug.child \in [Ports -> 0 .. MaxEvents]
    /\ Len(rootq) <= RootCap /\ Len(hubq) <= HubCap
    /\ Len(readerq) <= ReaderCap /\ Len(inbox) <= RuntimeCap
    /\ Len(cmdq) <= CommandCap /\ Len(moves) <= SlotMax
    /\ hub.state \in {"off", "idle", "asked", "quiet", "failing"}
    /\ hub.attempt \in 0 .. Attempts
    /\ usb.sess.kind \in {"none", "direct", "hub"}
    /\ usb.ports \in [Ports -> 0 .. DeviceMax]
    /\ Cardinality(usb.devs) <= DeviceMax
    /\ Cardinality(usb.ifaces) <= InterfaceMax
    /\ Cardinality(usb.slots) <= SlotMax /\ Cardinality(readers) <= SlotMax
    /\ \A s \in usb.slots : s.buttons \in {0, 1} /\ s.dev \in 1 .. DeviceMax
    /\ rt.policy \in {"Running", "Suspended"} /\ bus \in {"Running", "Suspended"}

\* The tables stay within their bounds; every slot has its own interface id, which the topology gives to the same
\* device; every device of the topology except the hub is served by a slot and
\* known by its port, so that its removal will find it and no other.  A session
\* that has ended leaves nothing behind, which would use up the ids and refuse
\* the next device its route.
TopologyAgrees ==
    /\ TypeOK
    /\ \A s, t \in usb.slots : s.iface = t.iface => s = t
    /\ \A s \in usb.slots :
          \E i \in usb.ifaces : i.id = s.iface /\ i.dev = s.dev
    /\ \A i \in usb.ifaces : \E d \in usb.devs : d.id = i.dev
    /\ \A c, d \in usb.devs : c.id = d.id \/ c.route = d.route => c = d
    /\ \A d \in usb.devs : d.route # Root =>
          /\ usb.ports[d.route] = d.id
          /\ \E s \in usb.slots : s.dev = d.id /\ s.inc = d.inc
    /\ \A p \in Ports : usb.ports[p] # 0 =>
          \E d \in usb.devs : d.id = usb.ports[p] /\ d.route = p
    /\ usb.sess = NoSession =>
          usb.devs = {} /\ usb.ifaces = {} /\ usb.slots = {}
          /\ usb.ports = [p \in Ports |-> 0]

\* Once every message has arrived the runtime has registered exactly the
\* interfaces the USB task serves, unless it had to drop a registration; once every
\* command has, too, the bus is suspended exactly when the policy wants it.
RuntimeAgrees ==
    outbox = <<>> /\ inbox = <<>> /\ ~rt.lost =>
        /\ rt.ifaces = {[iface |-> s.iface, dev |-> s.dev, inc |-> s.inc,
                         reg |-> s.reg] : s \in usb.slots}
        /\ usb.sess # NoSession /\ rootq = <<>> /\ cmdq = <<>> => bus = rt.policy

\* A pending movement, and every one on its way to the runtime, comes before
\* the changes of the buttons that came later: otherwise a drag would become a
\* move, or a move a drag.  (What is left of an interface that was removed is
\* not counted.)
MovementKeepsItsButtons ==
    LET all == inbox \o outbox \o moves
        Before(k, kind) == {j \in 1 .. k - 1 : all[j].kind = kind
                                             /\ all[j].iface = all[k].iface}
        Edges(k) == {j \in Before(k, "frame") : all[j].edge
                                             /\ all[j].reg = all[k].reg}
    IN  \A k \in DOMAIN all :
            all[k].kind = "frame" =>
                LET edges == Edges(k)
                IN  edges # {} /\ ~all[k].edge =>
                        all[k].buttons = all[Max(edges)].buttons

\* A device that was unplugged loses its slots, and the runtime its keys; and
\* the radio, silenced for an enumeration, is released again.
UnpluggedIsForgotten ==
    /\ []<>(rt.lost \/ \A i \in rt.ifaces : i.inc \in PluggedIncs)
    /\ []<>(hub.state # "quiet")

=============================================================================
