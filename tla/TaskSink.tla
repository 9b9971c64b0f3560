------------------------------ MODULE TaskSink ------------------------------
(***************************************************************************)
(* How the commands of one runtime message reach the other tasks.          *)
(*                                                                         *)
(* The runtime owner turns a message into a batch of commands              *)
(* (RuntimeOwner, RuntimeCommandQueues), checks that every task has room    *)
(* (ChannelTaskSink::ensure_capacity) and sends them one by one.  Reports   *)
(* for a BLE host travel on one of two lanes: edges and releases on the     *)
(* control lane, plain input on the notify lane, mouse movement through an  *)
(* accumulator that merges what the notify lane has no room for.  The BLE   *)
(* task serves the control lane first and drops input for a host whose      *)
(* input gate a release has closed.  Keyboard-light commands wait in one    *)
(* pending slot per keyboard, status snapshots in a single slot.            *)
(*                                                                         *)
(* The bridge that decides what is sent is module Bridge, the connections   *)
(* are module BleHost and the storage task is module StorageTask; here the  *)
(* bridge is reduced to which host is active, what is physically held, what *)
(* is hidden from the active host since the last switch, and each host's    *)
(* keyboard lights.                                                        *)
(***************************************************************************)
EXTENDS Integers, Sequences, FiniteSets, SequencesExt

CONSTANTS Hosts,      \* the BLE hosts, 1 .. n
          Targets,    \* the keyboards with lights
          CtlCap,     \* RUNTIME_BLE_CONTROL_COMMAND_QUEUE_CAPACITY
          NtfCap,     \* RUNTIME_BLE_NOTIFY_COMMAND_QUEUE_CAPACITY
          UsbCap,     \* RUNTIME_USB_COMMAND_QUEUE_CAPACITY
          StoCap,     \* RUNTIME_STORAGE_COMMAND_QUEUE_CAPACITY
          StaCap,     \* RUNTIME_STATUS_COMMAND_QUEUE_CAPACITY
          AxisMax,    \* the movement one report can carry on an axis
          Scenarios   \* the bounds of a behaviour: the kinds of message it
                      \* sends, how many messages, rebuilds and reconnections,
                      \* and how many notifications fail or time out

ASSUME SinkAssumption ==
  /\ Hosts = 1 .. Cardinality(Hosts)
  /\ {CtlCap, NtfCap, UsbCap, StoCap, StaCap, AxisMax} \subseteq Nat \ {0}
  /\ \A s \in Scenarios : s.events \in Nat /\ s.faults \in Nat

VARIABLES
  rt,          \* the runtime: active host, held, hidden, lights
  batch,       \* the message being dispatched
  mouse,       \* MouseReportAccumulator: one pending state per host
  ctl, ntf,    \* the two BLE lanes
  usb,         \* the USB task's lane
  pendingUsb,  \* the pending light command of each keyboard
  sto,         \* how many commands wait for the storage task
  sta,         \* the status task's lane; 0 is a snapshot, h a response to h
  pendingSta,  \* whether a snapshot waits in its slot
  gate,        \* BleInputGate: the hosts whose input is blocked
  conn,        \* the hosts that are connected
  seen,        \* what each computer was last told
  lit,         \* the lights of each keyboard
  ghost,       \* movement sent and lost, answers asked and given
  budget       \* events and faults left, and the kinds of message sent

vars == <<rt, batch, mouse, ctl, ntf, usb, pendingUsb, sto, sta, pendingSta,
          gate, conn, seen, lit, ghost, budget>>

Devs == {"key", "mouse"}

Zero == [h \in Hosts |-> 0]

-----------------------------------------------------------------------------
(* Commands, their lane and their class.                                   *)

Command(op, h, dev, down, move, why) ==
  [op |-> op, host |-> h, dev |-> dev, down |-> down, move |-> move, why |-> why]

Notify(h, dev, down, move, why) == Command("notify", h, dev, down, move, why)

Plain(op, h) == Command(op, h, "none", FALSE, 0, "none")

Lane(c) == IF c.op = "notify" /\ c.why = "Input" THEN "notify" ELSE "control"

Coalesced(c) == c.op = "notify" /\ c.dev = "mouse" /\ c.why = "Input"

-----------------------------------------------------------------------------
(* The runtime: what a message changes and the batch it produces.           *)

Visible(r, d) == r.held[d] /\ ~r.hidden[d]

Lights(r) == {[led |-> TRUE, target |-> t, on |-> r.leds[r.active]] : t \in Targets}

Batch(r, ble, lights, others, full) ==
  [rt |-> r, ble |-> ble, usb |-> SetToSeq(lights) \o others.usb,
   sto |-> others.sto, sta |-> others.sta, full |-> full]

Quietly == [usb |-> <<>>, sto |-> 0, sta |-> <<>>]

\* The reports that let go of everything on the host a switch leaves.
Releases(h) ==
  IF h \in conn THEN <<Notify(h, "key", FALSE, 0, "TargetSwitchRelease"),
                       Notify(h, "mouse", FALSE, 0, "TargetSwitchRelease")>>
  ELSE <<>>

\* A frame changes what is held; a held usage that was hidden stays hidden
\* until it is let go.
Frame(d, down) ==
  [rt EXCEPT !.held[d] = down, !.hidden[d] = @ /\ down]

Reported(r, d, move, why) ==
  IF rt.active \in conn THEN <<Notify(rt.active, d, Visible(r, d), move, why)>> ELSE <<>>

KeyFrame(down) ==
  LET r == Frame("key", down)
      why == IF rt.held["key"] /\ ~down THEN "InputRelease" ELSE "Input"
  IN Batch(r, Reported(r, "key", 0, why), {}, Quietly, FALSE)

MouseFrame(down, move) ==
  LET r == Frame("mouse", down)
      why == IF rt.held["mouse"] # down THEN "InputEdge" ELSE "Input"
  IN Batch(r, Reported(r, "mouse", move, why), {}, Quietly, FALSE)

\* One report with a keyboard, a mouse and a consumer part, nothing let go.
ComboFrame ==
  Batch(rt, Reported(rt, "key", 0, "Input") \o Reported(rt, "mouse", 1, "Input")
            \o (IF rt.active \in conn THEN <<Notify(rt.active, "media", FALSE, 0, "Input")>>
                ELSE <<>>),
        {}, Quietly, FALSE)

\* A switch by a button, a management request or the delayed switch.
Switched(h) ==
  LET r == [rt EXCEPT !.active = h, !.hidden = rt.held]
  IN IF h = rt.active THEN Batch(rt, <<>>, {}, [Quietly EXCEPT !.sta = <<0>>], TRUE)
     ELSE Batch(r, Releases(rt.active) \o <<Plain("activate", h)>>, Lights(r),
                [usb |-> <<>>, sto |-> 1, sta |-> <<0>>], TRUE)

LightsChange(h, on) ==
  LET r == [rt EXCEPT !.leds[h] = on]
  IN Batch(r, <<>>, IF h = rt.active THEN Lights(r) ELSE {}, Quietly, TRUE)

PowerChange ==
  Batch(rt, <<>>, {}, [Quietly EXCEPT !.usb = <<[led |-> FALSE, target |-> "bus", on |-> TRUE]>>],
        TRUE)

Request(h) == Batch(rt, <<>>, {}, [Quietly EXCEPT !.sta = <<h>>], TRUE)

Messages ==
     (IF "key" \in budget.kinds THEN {KeyFrame(down) : down \in BOOLEAN} ELSE {})
  \union (IF "mouse" \in budget.kinds
          THEN {MouseFrame(down, move) : down \in BOOLEAN, move \in 0 .. 1} ELSE {})
  \union (IF "combo" \in budget.kinds THEN {ComboFrame} ELSE {})
  \union (IF "switch" \in budget.kinds THEN {Switched(h) : h \in Hosts} ELSE {})
  \union (IF "leds" \in budget.kinds
          THEN {LightsChange(h, on) : h \in Hosts, on \in BOOLEAN} ELSE {})
  \union (IF "power" \in budget.kinds THEN {PowerChange} ELSE {})
  \union (IF "request" \in budget.kinds THEN {Request(h) : h \in conn} ELSE {})

Runtime0 == [active |-> 1, held |-> [d \in Devs |-> FALSE],
             hidden |-> [d \in Devs |-> FALSE], leds |-> [h \in Hosts |-> FALSE]]

NoBatch == [on |-> FALSE, ble |-> <<>>, usb |-> <<>>, sto |-> 0, sta |-> <<>>,
            ordered |-> FALSE, saved |-> Runtime0]

-----------------------------------------------------------------------------
(* The mouse accumulator.                                                  *)

StillMouse == [buttons |-> FALSE, move |-> 0, pending |-> FALSE]

CanPush(m, c) == c.down = m.buttons \/ ~m.pending

\* Mutant: a merged report replaces the movement it joins.
PushReplaces(m, c) == [buttons |-> c.down, move |-> c.move, pending |-> TRUE]

Push(m, c) == [buttons |-> c.down, move |-> m.move + c.move, pending |-> TRUE]

Part(m) == IF m.move > AxisMax THEN AxisMax ELSE m.move

TakeNext(m) == [m EXCEPT !.move = @ - Part(m), !.pending = m.move > AxisMax]

Taken(h, m) == Notify(h, "mouse", m.buttons, Part(m), "Input")

\* flush_mouse_accumulator: one report for every host in turn while the
\* notify lane has room.
FlushMouse(lane, m) ==
  FoldLeft(LAMBDA acc, h :
             IF Len(acc.lane) < NtfCap /\ acc.mouse[h].pending
             THEN [lane |-> Append(acc.lane, Taken(h, acc.mouse[h])),
                   mouse |-> [acc.mouse EXCEPT ![h] = TakeNext(@)]]
             ELSE acc,
           [lane |-> lane, mouse |-> m], SetToSortSeq(Hosts, <))

-----------------------------------------------------------------------------
(* The pending slots of keyboard lights and of the status snapshot.         *)

PendingTargets(p) == {t \in Targets : p[t] # <<>>}

LightCommand(t, on) == [led |-> TRUE, target |-> t, on |-> on]

\* flush_usb_commands: every pending command, while the lane has room.
FlushUsb(lane, p) ==
  FoldLeft(LAMBDA acc, t :
             IF Len(acc.lane) < UsbCap /\ acc.p[t] # <<>>
             THEN [lane |-> Append(acc.lane, LightCommand(t, acc.p[t][1])),
                   p |-> [acc.p EXCEPT ![t] = <<>>]]
             ELSE acc,
           [lane |-> lane, p |-> p], SetToSeq(Targets))

\* flush_status_snapshot
FlushStatus(lane, p) ==
  IF p /\ Len(lane) < StaCap THEN [lane |-> Append(lane, 0), p |-> FALSE]
  ELSE [lane |-> lane, p |-> p]

\* The three flushes that open and close every dispatch.
Flushed(ble, m, u, p, s, ps) ==
  [ble |-> FlushMouse(ble, m), usb |-> FlushUsb(u, p), sta |-> FlushStatus(s, ps)]

FlushAll == Flushed(ntf, mouse, usb, pendingUsb, sta, pendingSta)

SetFlushed(f) ==
  /\ ntf' = f.ble.lane /\ mouse' = f.ble.mouse
  /\ usb' = f.usb.lane /\ pendingUsb' = f.usb.p
  /\ sta' = f.sta.lane /\ pendingSta' = f.sta.p

-----------------------------------------------------------------------------
(* Dispatch.                                                               *)

Count(s, Test(_)) == Len(SelectSeq(s, Test))

\* What a batch needs of each lane, counted before any of it is sent.
Demand(b) ==
  LET control == Count(b.ble, LAMBDA c : Lane(c) = "control")
  IN [control |-> control,
      notify |-> Len(b.ble) - control - Count(b.ble, Coalesced),
      lights |-> {b.usb[i].target : i \in {j \in DOMAIN b.usb : b.usb[j].led}},
      critical |-> Count(b.usb, LAMBDA u : ~u.led),
      answers |-> Count(b.sta, LAMBDA s : s # 0)]

\* ensure_capacity, on the lanes as the opening flush leaves them.
EnsureCapacity(b, f) ==
  LET need == Demand(b)
      pending == PendingTargets(f.usb.p)
  IN /\ Len(ctl) + need.control <= CtlCap
     /\ Len(f.ble.lane) + need.notify <= NtfCap
     /\ sto + b.sto <= StoCap
     /\ Len(f.sta.lane) + need.answers <= StaCap
     /\ Len(f.usb.lane) + need.critical <= UsbCap
     /\ Cardinality(pending \cup need.lights) <= UsbCap

Moves(s, h) ==
  FoldLeft(LAMBDA n, c : n + (IF c.host = h THEN c.move ELSE 0), 0, s)

Answers(s, h) == Count(s, LAMBDA x : x = h)

\* process_runtime_message up to the capacity check.  A batch that does not
\* fit is discarded: a full checkpoint restores the runtime, an input frame
\* stays committed.
ProcessMessage ==
  /\ ~batch.on /\ budget.events > 0
  /\ budget' = [budget EXCEPT !.events = @ - 1]
  /\ \E b \in Messages : \E f \in {FlushAll} :
       /\ SetFlushed(f)
       /\ IF EnsureCapacity(b, f)
          THEN /\ rt' = b.rt
               /\ batch' = [on |-> TRUE, ble |-> b.ble, usb |-> b.usb, sto |-> b.sto,
                            sta |-> b.sta, ordered |-> FALSE,
                            saved |-> IF b.full THEN rt ELSE b.rt]
               /\ ghost' = [ghost EXCEPT
                    !.moved = [h \in Hosts |-> @[h] + Moves(b.ble, h)],
                    !.asked = [h \in Hosts |-> @[h] + Answers(b.sta, h)]]
          ELSE /\ rt' = IF b.full THEN rt ELSE b.rt
               /\ ghost' = [ghost EXCEPT !.refused = @ \/ b.ble # <<>>]
               /\ UNCHANGED batch
  /\ UNCHANGED <<ctl, sto, gate, conn, seen, lit>>

\* Mutant: a message without commands skips the flushes.
TickWithoutFlush == ~batch.on /\ UNCHANGED vars

\* A tick has no commands of its own: only the flushes matter.
Tick ==
  /\ ~batch.on
  /\ \E f \in {FlushAll} : SetFlushed(f)
  /\ UNCHANGED <<rt, batch, ctl, sto, gate, conn, seen, lit, ghost, budget>>

Next1(b) == [b EXCEPT !.ble = Tail(@), !.ordered = FALSE]

\* A plain mouse report joins the accumulator, which is flushed at once.
MergeMouse ==
  /\ batch.ble # <<>> /\ ~batch.ordered
  /\ LET c == Head(batch.ble) IN
       /\ Coalesced(c) /\ CanPush(mouse[c.host], c)
       /\ LET f == FlushMouse(ntf, [mouse EXCEPT ![c.host] = Push(@, c)])
          IN ntf' = f.lane /\ mouse' = f.mouse
  /\ batch' = Next1(batch)
  /\ UNCHANGED <<rt, ctl, usb, pendingUsb, sto, sta, pendingSta, gate, conn, seen, lit,
                 ghost, budget>>

NeedsOrder(c) ==
  /\ c.op = "notify" /\ c.dev = "mouse"
  /\ c.why = "Input" => batch.ordered \/ ~CanPush(mouse[c.host], c)

\* flush_mouse_accumulator_ordered: older movement goes to the control lane
\* ahead of the report that changes the buttons.
OrderedFlush ==
  /\ batch.ble # <<>>
  /\ LET c == Head(batch.ble) IN
       /\ NeedsOrder(c) /\ mouse[c.host].pending
       /\ Len(ctl) < CtlCap
       /\ ctl' = Append(ctl, Taken(c.host, mouse[c.host]))
       /\ mouse' = [mouse EXCEPT ![c.host] = TakeNext(@)]
  /\ batch' = [batch EXCEPT !.ordered = TRUE]
  /\ UNCHANGED <<rt, ntf, usb, pendingUsb, sto, sta, pendingSta, gate, conn, seen, lit,
                 ghost, budget>>

\* Every other command, and the mouse report once its movement is out: the
\* accumulator takes the new buttons and the command its lane.
SendControl ==
  /\ batch.ble # <<>>
  /\ LET c == Head(batch.ble) IN
       /\ Lane(c) = "control" \/ NeedsOrder(c)
       /\ NeedsOrder(c) => ~mouse[c.host].pending
       /\ Len(ctl) < CtlCap
       /\ ctl' = Append(ctl, c)
       /\ mouse' = IF NeedsOrder(c) THEN [mouse EXCEPT ![c.host].buttons = c.down] ELSE mouse
  /\ batch' = Next1(batch)
  /\ UNCHANGED <<rt, ntf, usb, pendingUsb, sto, sta, pendingSta, gate, conn, seen, lit,
                 ghost, budget>>

\* A realtime command is never waited for: without room the rest of the
\* batch is given up and the checkpoint restored.
SendNotify ==
  /\ batch.ble # <<>>
  /\ LET c == Head(batch.ble) IN
       /\ Lane(c) = "notify" /\ ~Coalesced(c)
       /\ \/ /\ Len(ntf) < NtfCap
             /\ ntf' = Append(ntf, c)
             /\ batch' = Next1(batch)
             /\ UNCHANGED <<rt, ghost>>
          \/ /\ Len(ntf) = NtfCap
             /\ rt' = batch.saved
             /\ batch' = NoBatch
             /\ ghost' = [ghost EXCEPT !.refused = TRUE,
                  !.lost = [h \in Hosts |-> @[h] + Moves(batch.ble, h)]]
             /\ UNCHANGED ntf
  /\ UNCHANGED <<mouse, ctl, usb, pendingUsb, sto, sta, pendingSta, gate, conn, seen, lit,
                 budget>>

\* Mutant: a light command passes an older one that still waits in its slot.
SendUsbAtOnce ==
  /\ batch.on /\ batch.ble = <<>> /\ batch.usb # <<>>
  /\ LET u == Head(batch.usb) IN
       \/ /\ ~u.led /\ Len(usb) < UsbCap
          /\ usb' = Append(usb, u)
          /\ UNCHANGED pendingUsb
       \/ /\ u.led
          /\ IF Len(usb) < UsbCap THEN usb' = Append(usb, u) /\ UNCHANGED pendingUsb ELSE
             LET f == FlushUsb(usb, [pendingUsb EXCEPT ![u.target] = <<u.on>>])
             IN usb' = f.lane /\ pendingUsb' = f.p
  /\ batch' = [batch EXCEPT !.usb = Tail(@)]
  /\ UNCHANGED <<rt, mouse, ctl, ntf, sto, sta, pendingSta, gate, conn, seen, lit, ghost,
                 budget>>

\* send_usb_with_policy: a power command waits for room, a light command
\* takes the slot of its keyboard and the slots are flushed.
SendUsb ==
  /\ batch.on /\ batch.ble = <<>> /\ batch.usb # <<>>
  /\ LET u == Head(batch.usb) IN
       \/ /\ ~u.led /\ Len(usb) < UsbCap
          /\ usb' = Append(usb, u)
          /\ UNCHANGED pendingUsb
       \/ /\ u.led
          /\ LET f == FlushUsb(usb, [pendingUsb EXCEPT ![u.target] = <<u.on>>])
             IN usb' = f.lane /\ pendingUsb' = f.p
  /\ batch' = [batch EXCEPT !.usb = Tail(@)]
  /\ UNCHANGED <<rt, mouse, ctl, ntf, sto, sta, pendingSta, gate, conn, seen, lit, ghost,
                 budget>>

\* send_storage_with_policy and send_status_with_policy, then the closing
\* flushes end the dispatch.
SendStorage ==
  /\ batch.on /\ batch.ble = <<>> /\ batch.usb = <<>> /\ batch.sto > 0
  /\ sto < StoCap
  /\ sto' = sto + 1
  /\ batch' = [batch EXCEPT !.sto = @ - 1]
  /\ UNCHANGED <<rt, mouse, ctl, ntf, usb, pendingUsb, sta, pendingSta, gate, conn, seen, lit,
                 ghost, budget>>

SendStatus ==
  /\ batch.on /\ batch.ble = <<>> /\ batch.usb = <<>> /\ batch.sto = 0 /\ batch.sta # <<>>
  /\ LET s == Head(batch.sta) IN
       \/ /\ s = 0
          /\ LET f == FlushStatus(sta, TRUE) IN sta' = f.lane /\ pendingSta' = f.p
       \/ /\ s # 0 /\ Len(sta) < StaCap
          /\ sta' = Append(sta, s)
          /\ UNCHANGED pendingSta
  /\ batch' = [batch EXCEPT !.sta = Tail(@)]
  /\ UNCHANGED <<rt, mouse, ctl, ntf, usb, pendingUsb, sto, gate, conn, seen, lit, ghost,
                 budget>>

EndDispatch ==
  /\ batch.on /\ batch.ble = <<>> /\ batch.usb = <<>> /\ batch.sto = 0 /\ batch.sta = <<>>
  /\ \E f \in {FlushAll} : SetFlushed(f)
  /\ batch' = NoBatch
  /\ UNCHANGED <<rt, ctl, sto, gate, conn, seen, lit, ghost, budget>>

-----------------------------------------------------------------------------
(* The tasks at the other end of the lanes.                                *)

\* Mutant: a release leaves the gate open.
GatedNever(c) == IF c.op = "activate" THEN gate \ {c.host} ELSE gate

\* BleControlState::apply_command
Gated(c) ==
  CASE c.op = "notify" /\ c.why = "TargetSwitchRelease" -> gate \union {c.host}
    [] c.op = "activate" -> gate \ {c.host}
    [] OTHER -> gate

Drops(c, g) == c.op = "notify" /\ c.why = "Input" /\ c.host \in g

Shown(s, c) ==
  IF c.op # "notify" \/ c.dev = "media" THEN s
  ELSE [s EXCEPT ![c.host][c.dev] = c.down, ![c.host].pos = @ + c.move]

Lost(c) ==
  [ghost EXCEPT !.lost[c.host] = @ + c.move,
                !.missed[c.host] = @ \/ (c.op = "notify" /\ Lane(c) = "control"),
                !.unanswered[c.host] = @ + (IF c.op = "response" THEN 1 ELSE 0)]

\* The BLE task takes the next command, from the control lane if it holds
\* one, and passes it to the host's connection.
Received(c) ==
  \E g \in {Gated(c)} :
    /\ gate' = g
    /\ \/ /\ Drops(c, g) \/ c.host \notin conn
          /\ ghost' = Lost(c)
          /\ UNCHANGED <<seen, budget>>
       \/ /\ ~Drops(c, g) /\ c.host \in conn
          /\ seen' = Shown(seen, c)
          /\ ghost' = [ghost EXCEPT
               !.answered[c.host] = @ + (IF c.op = "response" THEN 1 ELSE 0)]
          /\ UNCHANGED budget
       \/ /\ ~Drops(c, g) /\ c.host \in conn
          /\ c.op \in {"notify", "response"}
          /\ budget.faults > 0
          /\ budget' = [budget EXCEPT !.faults = @ - 1]
          /\ ghost' = Lost(c)
          /\ UNCHANGED seen

ReceiveBleCommand ==
  /\ \/ /\ ctl # <<>>
        /\ Received(Head(ctl))
        /\ ctl' = Tail(ctl) /\ UNCHANGED ntf
     \/ /\ ctl = <<>> /\ ntf # <<>>
        /\ Received(Head(ntf))
        /\ ntf' = Tail(ntf) /\ UNCHANGED ctl
  /\ UNCHANGED <<rt, batch, mouse, usb, pendingUsb, sto, sta, pendingSta, conn, lit>>

\* status_command_task: a response waits for the control lane; a snapshot
\* tells every connected host as far as there is room.
StatusCommand ==
  /\ sta # <<>>
  /\ \/ /\ Head(sta) # 0 /\ Len(ctl) < CtlCap
        /\ ctl' = Append(ctl, Plain("response", Head(sta)))
     \/ /\ Head(sta) = 0
        /\ ctl' = FoldLeft(LAMBDA q, h :
                     IF h \in conn /\ Len(q) < CtlCap THEN Append(q, Plain("event", h)) ELSE q,
                   ctl, SetToSortSeq(Hosts, <))
  /\ sta' = Tail(sta)
  /\ UNCHANGED <<rt, batch, mouse, ntf, usb, pendingUsb, sto, pendingSta, gate, conn, seen, lit,
                 ghost, budget>>

UsbCommand ==
  /\ usb # <<>>
  /\ usb' = Tail(usb)
  /\ lit' = IF Head(usb).led THEN [lit EXCEPT ![Head(usb).target] = Head(usb).on] ELSE lit
  /\ UNCHANGED <<rt, batch, mouse, ctl, ntf, pendingUsb, sto, sta, pendingSta, gate, conn,
                 seen, ghost, budget>>

StorageCommand ==
  /\ sto > 0
  /\ sto' = sto - 1
  /\ UNCHANGED <<rt, batch, mouse, ctl, ntf, usb, pendingUsb, sta, pendingSta, gate, conn, seen,
                 lit, ghost, budget>>

\* A quiesce rebuilds the BLE stack (in the scenarios that have it): the
\* notify lane and the accumulator are emptied, held usages hidden, the gates
\* are new, and every host is gone.
Rebuild ==
  /\ ~batch.on /\ budget.events > 0 /\ "rebuild" \in budget.kinds
  /\ budget' = [budget EXCEPT !.events = @ - 1]
  /\ ntf' = <<>>
  /\ mouse' = [h \in Hosts |-> StillMouse]
  /\ gate' = {} /\ conn' = {}
  /\ rt' = [rt EXCEPT !.hidden = rt.held]
  /\ seen' = [h \in Hosts |-> [seen[h] EXCEPT !.key = FALSE, !.mouse = FALSE]]
  /\ ghost' = [ghost EXCEPT
       !.lost = [h \in Hosts |-> @[h] + Moves(ntf, h) + mouse[h].move]]
  /\ UNCHANGED <<batch, ctl, usb, pendingUsb, sto, sta, pendingSta, lit>>

Reconnect(h) ==
  /\ h \notin conn /\ ~batch.on /\ budget.events > 0
  /\ budget' = [budget EXCEPT !.events = @ - 1]
  /\ conn' = conn \union {h}
  /\ ghost' = [ghost EXCEPT !.missed[h] = FALSE]
  /\ UNCHANGED <<rt, batch, mouse, ctl, ntf, usb, pendingUsb, sto, sta, pendingSta, gate, seen,
                 lit>>

Init ==
  /\ rt = Runtime0
  /\ batch = NoBatch
  /\ mouse = [h \in Hosts |-> StillMouse]
  /\ ctl = <<>> /\ ntf = <<>> /\ usb = <<>> /\ sta = <<>> /\ sto = 0
  /\ pendingUsb = [t \in Targets |-> <<>>] /\ pendingSta = FALSE
  /\ gate = {} /\ conn = Hosts
  /\ seen = [h \in Hosts |-> [key |-> FALSE, mouse |-> FALSE, pos |-> 0]]
  /\ lit = [t \in Targets |-> FALSE]
  /\ ghost = [moved |-> Zero, lost |-> Zero, asked |-> Zero, answered |-> Zero,
              unanswered |-> Zero, missed |-> [h \in Hosts |-> FALSE], refused |-> FALSE]
  /\ budget \in Scenarios

Dispatch == MergeMouse \/ OrderedFlush \/ SendControl \/ SendNotify \/ SendUsb \/ SendStorage
            \/ SendStatus \/ EndDispatch

Tasks == ReceiveBleCommand \/ StatusCommand \/ UsbCommand \/ StorageCommand \/ Tick

Environment == ProcessMessage \/ Rebuild \/ \E h \in Hosts : Reconnect(h)

Next == Dispatch \/ Tasks \/ Environment

Spec == Init /\ [][Next]_vars /\ WF_vars(Dispatch \/ Tasks)

-----------------------------------------------------------------------------
(* Properties.                                                             *)

\* The lanes never exceed their capacity and every variable its type.
TypeOK ==
  /\ Len(ctl) <= CtlCap /\ Len(ntf) <= NtfCap /\ Len(usb) <= UsbCap /\ Len(sta) <= StaCap
  /\ sto \in 0 .. StoCap /\ pendingSta \in BOOLEAN
  /\ rt.active \in Hosts /\ gate \subseteq Hosts /\ conn \subseteq Hosts
  /\ \A h \in Hosts : mouse[h].move \in Nat /\ mouse[h].pending \in BOOLEAN
  /\ \A t \in Targets : Len(pendingUsb[t]) <= 1 /\ lit[t] \in BOOLEAN
  /\ budget.events \in Nat /\ budget.faults \in Nat

\* Nothing vanishes in a lane.  Mouse movement that was accepted for dispatch is never silently lost:
\* what the computer saw, what waits in the batch, in the accumulator and in
\* the two lanes, and what was dropped on purpose add up to what was sent.  Every
\* accepted management request has exactly one answer, wherever it is.
NothingVanishes ==
  /\ TypeOK
  /\ \A h \in Hosts :
       /\ ghost.moved[h] = seen[h].pos + ghost.lost[h] + mouse[h].move
                           + Moves(batch.ble, h) + Moves(ctl, h) + Moves(ntf, h)
       /\ ghost.asked[h] = ghost.answered[h] + ghost.unanswered[h]
                           + Answers(batch.sta, h) + Answers(sta, h)
                           + Count(ctl, LAMBDA c : c.op = "response" /\ c.host = h)

ReleaseWaits(h) ==
  \E s \in {ctl, batch.ble} : \E i \in DOMAIN s :
    s[i].op = "notify" /\ s[i].host = h /\ Lane(s[i]) = "control"

\* A computer that a switch has left holds nothing: once the releases are
\* through, late input on the notify lane cannot press anything again
\* before the host is activated.
ReleasedHostHoldsNothing ==
  \A h \in Hosts \ {rt.active} :
    ~ReleaseWaits(h) /\ ~ghost.missed[h] => ~seen[h].key /\ ~seen[h].mouse

\* Between dispatches, with the control lane served, the active host's input
\* passes its gate; with no USB command waiting every keyboard shows the lights
\* of the active host, however many changes were merged or refused on the way.
ActiveHostIsServed ==
  ~batch.on =>
    /\ ctl = <<>> => rt.active \notin gate
    /\ usb = <<>> /\ PendingTargets(pendingUsb) = {}
         => \A t \in Targets : lit[t] = rt.leds[rt.active]

Quiet ==
  /\ ~batch.on /\ ctl = <<>> /\ ntf = <<>> /\ usb = <<>> /\ sta = <<>> /\ sto = 0
  /\ ~pendingSta /\ PendingTargets(pendingUsb) = {}
  /\ \A h \in Hosts : ~mouse[h].pending

\* Every dispatch ends and every lane, slot and accumulator is emptied again.
EverythingIsSent == []<>Quiet

=============================================================================
