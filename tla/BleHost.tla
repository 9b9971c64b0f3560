------------------------------ MODULE BleHost -------------------------------
(***************************************************************************)
(* Connections, pairing and bonds of the BLE hosts.                        *)
(*                                                                         *)
(* The BLE task (ble_hid_task) accepts computers, gives each a connection  *)
(* slot and a host number, and reports connections, encryption, bonds and  *)
(* writes to the runtime through a bounded queue.  The runtime answers     *)
(* with commands that open and close the pairing window and clear bonds.   *)
(* A quiesce drops whatever the task is doing, takes a snapshot of the     *)
(* runtime, and rebuilds the radio stack from it.                          *)
(*                                                                         *)
(* Every wait of the task for room in the queue is a state of the model,   *)
(* because embassy's select drops the futures that did not finish: slot    *)
(* events wait in `wait`, the connection set-up and ClearBond in `todo`.   *)
(* Input reports and their gates are module TaskSink.                      *)
(***************************************************************************)
EXTENDS Integers, Sequences, FiniteSets, SequencesExt

CONSTANTS Peers,       \* the computers
          Hosts,       \* the host numbers, 1 .. n
          Slots,       \* 0 .. BLE_CONNECTIONS_MAX - 1
          InCap,       \* RUNTIME_INPUT_QUEUE_CAPACITY
          LaneCap,     \* RUNTIME_BLE_CONTROL_COMMAND_QUEUE_CAPACITY
          BackoffCap,  \* entries of BlePairingBackoff
          Scenarios    \* what a behaviour starts with and which events it has

ASSUME BleAssumption ==
  /\ Hosts = 1 .. Cardinality(Hosts) /\ Slots = 0 .. Cardinality(Slots) - 1
  /\ {InCap, LaneCap, BackoffCap} \subseteq Nat \ {0}
  /\ \A s \in Scenarios : s.events \in Nat /\ s.bonds \in [Hosts -> {<<>>} \union Seq(Peers)]

VARIABLES
  rt,       \* the runtime: hosts known, connected and encrypted, bonds, window
  inq,      \* the runtime's input queue
  lane,     \* the control lane of the BLE task
  pc,       \* the task: accept, manage, configure, clear, finish or quiet
  todo,     \* the set-up, ClearBond or slot event in progress
  stored,   \* the bonds of the snapshot the task was built from
  control,  \* BleControlState without the input gate
  backoff,  \* BlePairingBackoff: failures and whether the wait still runs
  slots,    \* BleConnectionSlots: the host and peer of each slot
  conns,    \* the task's connection slots
  wait,     \* what the event handler of each slot still has to send
  mask,     \* BLE_ACTIVE_HOST_MASK and BLE_ACTIVE_CONNECTIONS
  pend,     \* a connection the advertiser has accepted
  radio,    \* the bonds that stack, accept list and computers know
  ghost,    \* whether something was dropped in mid-wait, set up for another
            \* host, or refused by a full lane
  budget    \* events left, and which there are

vars == <<rt, inq, lane, pc, todo, stored, control, backoff, slots, conns, wait, mask, pend,
          radio, ghost, budget>>

None == <<>>

Dom(f) == {x \in DOMAIN f : f[x] # None}

-----------------------------------------------------------------------------
(* Connections, messages to the runtime and commands to the task.           *)

\* A connection as the radio sees it, with the events not yet taken.
Conn(p) == [peer |-> p, on |-> TRUE, enc |-> FALSE, bondable |-> FALSE, ev |-> <<>>]

\* BleConnectionTaskSlot
TaskSlot(c, candidate) ==
  [c |-> c, reported |-> FALSE, candidate |-> candidate, recorded |-> FALSE]

NoSlot == TaskSlot(None, FALSE)

NoWait == [left |-> <<>>, end |-> "stay"]

NoTodo == [left |-> <<>>, slot |-> 0, host |-> 0, c |-> None, pairing |-> FALSE,
           candidate |-> FALSE, end |-> "stay"]

Msg(kind, h, bond) == [kind |-> kind, host |-> h, bond |-> bond]

Cmd(op, h, bond) == [op |-> op, host |-> h, bond |-> bond]

\* A sender puts what finds room into the queue and waits with the rest.
Room(q) == InCap - Len(q)

Fits(q, left) == Len(left) <= Room(q)

Sent(q, left) == IF Fits(q, left) THEN q \o left ELSE q \o SubSeq(left, 1, Room(q))

Left(q, left) == IF Fits(q, left) THEN <<>> ELSE SubSeq(left, Room(q) + 1, Len(left))

-----------------------------------------------------------------------------
(* BleControlState and BleConnectionSlots.                                 *)

LowestOf(S) == IF S = {} THEN None ELSE <<CHOOSE h \in S : \A g \in S : h <= g>>

pairing_host == LowestOf(control.allowed)

\* resolve_host_id: the host with a stored bond of the peer, or else the given
resolve_host_id(p, pairing) ==
  LET bonded == {h \in Hosts : stored[h] = <<p>>}
  IN IF bonded # {} THEN LowestOf(bonded) ELSE pairing

peer_is_revoked(p) == \E h \in Hosts : control.revoked[h] = <<p>>

Blocked(p) == backoff[p].n > 0 /\ backoff[p].hot

is_pairing_candidate(p) ==
  pairing_host # None /\ (peer_is_revoked(p) \/ resolve_host_id(p, None) = None)

\* admit_ble_connection: the host a new connection is admitted for
admit_ble_connection(p) ==
  LET strange == peer_is_revoked(p) \/ resolve_host_id(p, None) = None
  IN IF pairing_host # None /\ strange /\ Blocked(p) THEN None
     ELSE IF peer_is_revoked(p) THEN pairing_host
     ELSE resolve_host_id(p, pairing_host)

Connected == {s \in Slots : slots[s] # None}

SlotOf(h) == {s \in Connected : slots[s][1].host = h}

\* Mutant: only the computer is compared.
UniquePeer(h, p) == \A s \in Connected : slots[s][1].peer # p

\* ensure_unique
Unique(h, p) ==
  \A s \in Connected : slots[s][1].host # h /\ slots[s][1].peer # p

FreeSlot == CHOOSE s \in Slots \ Connected : \A t \in Slots \ Connected : s <= t


\* Whether the advertiser runs, and whether only bonded computers reach it.
Advertising ==
  \/ pc = "accept"
  \/ /\ pc = "manage" /\ Connected # Slots
     /\ control.allowed # {} \/ Cardinality(Connected) < Cardinality(control.restored)

Restricted == control.restored # {} /\ control.allowed = {}

Answers(p) == Advertising /\ pend = None /\ (Restricted => p \in radio.accepted)

\* BleControlState::new
NewControl(bonds, pairable) ==
  [allowed |-> ToSet(pairable), restored |-> Dom(bonds),
   revoked |-> [h \in Hosts |-> None]]

\* apply_command
Applied(c) ==
  CASE c.op = "allow" -> [control EXCEPT !.allowed = @ \union {c.host}]
    [] c.op = "reject" -> [control EXCEPT !.allowed = @ \ {c.host}]
    [] c.op = "clear" -> [control EXCEPT !.allowed = @ \ {c.host}, !.restored = @ \ {c.host},
                                         !.revoked[c.host] = c.bond]

NoBackoff == [p \in Peers |-> [n |-> 0, hot |-> FALSE]]

BackoffAfter(c) ==
  IF \/ c.op = "allow"
     \/ c.op = "reject" /\ control.allowed \subseteq {c.host}
  THEN NoBackoff ELSE backoff

\* BlePairingBackoff::record_failure: the entry of the peer, a free entry,
\* one whose wait is over, or the one that is over first.
Recorded(p) ==
  LET used == {q \in Peers : backoff[q].n > 0}
      over == {q \in used : ~backoff[q].hot}
      add(b, n) == [b EXCEPT ![p] = [n |-> n, hot |-> TRUE]]
      instead(S) == {add([backoff EXCEPT ![q] = [n |-> 0, hot |-> FALSE]], 1) : q \in S}
  IN CASE p \in used -> {add(backoff, IF backoff[p].n = 4 THEN 4 ELSE backoff[p].n + 1)}
       [] p \notin used /\ Cardinality(used) < BackoffCap -> {add(backoff, 1)}
       [] p \notin used /\ Cardinality(used) >= BackoffCap ->
            instead(IF over # {} THEN over ELSE used)

-----------------------------------------------------------------------------
(* New connections.                                                        *)

\* select drops the handlers of all slots when another branch is taken.
DropWaits ==
  /\ wait' = [s \in Slots |-> NoWait]
  /\ ghost' = [ghost EXCEPT !.dropped = @ \/ \E s \in Slots : wait[s].left # <<>>]

\* configure_ble_connection sends two messages and may wait for room before
\* each of them.
Begin(c, h, s) ==
  LET left == <<Msg("connected", h, None), Msg("name", h, None)>>
  IN /\ inq' = Sent(inq, left)
     /\ todo' = [NoTodo EXCEPT !.left = Left(inq, left), !.slot = s, !.host = h, !.c = <<c>>,
                   !.pairing = h \in control.allowed /\ is_pairing_candidate(c.peer),
                   !.candidate = is_pairing_candidate(c.peer)]
     /\ pc' = "configure"

\* accept_ble_connections: the first connection takes slot 0.
AcceptFirst ==
  /\ pc = "accept" /\ pend # None
  /\ \E h \in {admit_ble_connection(pend[1].peer)} :
       \/ h = None /\ UNCHANGED <<inq, todo, pc>>
       \/ h # None /\ Begin(pend[1], h[1], 0)
  /\ pend' = None
  /\ UNCHANGED <<rt, lane, stored, control, backoff, slots, conns, wait, mask, radio, ghost,
                 budget>>

\* manage_ble_connections: a further connection takes the first free slot,
\* which it occupies before it is set up.
AcceptNext ==
  /\ pc = "manage" /\ Advertising /\ pend # None /\ lane = <<>>
  /\ \E h \in {admit_ble_connection(pend[1].peer)} :
       \/ /\ ~(h # None /\ Unique(h[1], pend[1].peer))
          /\ UNCHANGED <<inq, todo, pc, slots>>
       \/ /\ h # None /\ Unique(h[1], pend[1].peer)
          /\ Begin(pend[1], h[1], FreeSlot)
          /\ slots' = [slots EXCEPT ![FreeSlot] = <<[host |-> h[1], peer |-> pend[1].peer]>>]
  /\ pend' = None
  /\ DropWaits
  /\ UNCHANGED <<rt, lane, stored, control, backoff, conns, mask, radio, budget>>


\* A set-up or ClearBond that waited sends what finds room now.
SendsOn ==
  /\ pc \in {"configure", "clear"} /\ todo.left # <<>> /\ Room(inq) > 0
  /\ inq' = Sent(inq, todo.left)
  /\ todo' = [todo EXCEPT !.left = Left(inq, @)]
  /\ UNCHANGED <<rt, lane, pc, stored, control, backoff, slots, conns, wait, mask, pend, radio,
                 ghost, budget>>

\* initialize_ble_slot looks the host of the first connection up again,
\* whether or not its bond is revoked.
SlotHost ==
  IF Connected = {} THEN resolve_host_id(todo.c[1].peer, pairing_host)[1] ELSE todo.host

\* The end of configure_ble_connection: the host is counted, the connection
\* made bondable or not, and the slot filled.
Configured ==
  /\ pc = "configure" /\ todo.left = <<>>
  /\ mask' = [hosts |-> mask.hosts \union {todo.host}, n |-> mask.n + 1]
  /\ slots' = [slots EXCEPT ![todo.slot] = <<[host |-> SlotHost, peer |-> todo.c[1].peer]>>]
  /\ conns' = [conns EXCEPT ![todo.slot] =
                 TaskSlot(<<[todo.c[1] EXCEPT !.bondable = todo.pairing]>>, todo.candidate)]
  /\ ghost' = [ghost EXCEPT !.mixed = @ \/ SlotHost # todo.host]
  /\ pc' = "manage" /\ todo' = NoTodo
  /\ UNCHANGED <<rt, inq, lane, stored, control, backoff, wait, pend, radio, budget>>

-----------------------------------------------------------------------------
(* Commands.                                                               *)

Emptied(s) ==
  /\ slots' = [slots EXCEPT ![s] = None]
  /\ conns' = [conns EXCEPT ![s] = NoSlot]
  /\ pc' = IF Connected = {s} THEN "accept" ELSE "manage"

Decrement(n) == IF n = 0 THEN 0 ELSE n - 1


\* AllowPairing and RejectPairing set whether the connection can be bonded.
MakesBondable(c) == c.op = "allow"

\* The next command is applied and dispatched to the slot of its host: the
\* connection becomes bondable or not, or its bond is cleared and the
\* computer disconnected, which is reported before the slot is emptied.
Command ==
  /\ lane # <<>> /\ (pc = "manage" \/ (pc = "accept" /\ pend = None))
  /\ \E c \in {Head(lane)} : \E at \in {SlotOf(c.host)} :
       /\ control' = Applied(c)
       /\ backoff' = BackoffAfter(c)
       /\ \/ /\ at = {}
             /\ UNCHANGED <<conns, inq, todo, pc>>
          \/ /\ at # {} /\ c.op # "clear"
             /\ \E s \in at : conns' = [conns EXCEPT ![s].c[1].bondable = MakesBondable(c)]
             /\ UNCHANGED <<inq, todo, pc>>
          \/ /\ at # {} /\ c.op = "clear"
             /\ \E s \in at : \E left \in {<<Msg("disconnected", c.host, None)>>} :
                  /\ conns' = [conns EXCEPT ![s].c[1].on = FALSE, ![s].c[1].bondable = FALSE]
                  /\ inq' = Sent(inq, left)
                  /\ todo' = [NoTodo EXCEPT !.slot = s, !.host = c.host, !.left = Left(inq, left)]
             /\ pc' = "clear"
  /\ lane' = Tail(lane)
  /\ DropWaits
  /\ UNCHANGED <<rt, stored, slots, mask, pend, radio, budget>>

Cleared ==
  /\ pc = "clear" /\ todo.left = <<>>
  /\ mask' = [hosts |-> mask.hosts \ {todo.host}, n |-> Decrement(mask.n)]
  /\ Emptied(todo.slot)
  /\ todo' = NoTodo
  /\ UNCHANGED <<rt, inq, lane, stored, control, backoff, wait, pend, radio, ghost, budget>>

-----------------------------------------------------------------------------
(* Events of the connections.                                              *)

\* What an event makes its handler send, and how the handler ends.
Report(s, e) ==
  LET h == slots[s][1].host
      c == conns[s].c[1]
      secured == IF c.enc /\ ~conns[s].reported THEN <<Msg("secured", h, None)>> ELSE <<>>
  IN CASE e.kind = "disc" -> <<Msg("disconnected", h, None), Msg("other", h, None)>>
       [] e.kind = "write" -> (IF c.enc THEN <<Msg("write", h, None)>> ELSE <<>>) \o secured
       [] e.kind = "paired" -> <<Msg("secured", h, IF e.bonded THEN <<c.peer>> ELSE None)>>
       [] e.kind = "failed" -> <<>>

End(e) == CASE e.kind = "disc" -> IF e.bonded THEN "stale" ELSE "gone"
            [] e.kind = "paired" -> "secured"
            [] e.kind = "failed" -> "failed"
            [] e.kind = "write" -> "stay"

\* A handler that has sent everything ends the select; the others are
\* dropped.
Ends(s, end) ==
  /\ pc' = "finish"
  /\ todo' = [NoTodo EXCEPT !.slot = s, !.end = end]
  /\ wait' = [t \in Slots |-> NoWait]
  /\ ghost' = [ghost EXCEPT !.dropped = @ \/ \E t \in Slots \ {s} : wait[t].left # <<>>]

Waits(s, left, end) ==
  /\ wait' = [wait EXCEPT ![s] = [left |-> left, end |-> end]]
  /\ UNCHANGED <<pc, todo, ghost>>

\* Encryption is noted as reported before the report is sent, but after the
\* message of the write has found room.
Noted(e) == e.kind = "paired" \/ (e.kind = "write" /\ Room(inq) > 0)

\* process_gatt_event takes the next event.  A disconnection is counted before
\* it is reported.
TakeEvent(s) ==
  /\ pc = "manage" /\ lane = <<>> /\ slots[s] # None /\ wait[s].left = <<>>
  /\ conns[s].c[1].ev # <<>>
  /\ \E e \in {Head(conns[s].c[1].ev)} : \E left \in {Report(s, e)} :
       /\ inq' = Sent(inq, left)
       /\ conns' = [conns EXCEPT ![s].c[1].ev = Tail(@),
                                 ![s].reported = @ \/ (conns[s].c[1].enc /\ Noted(e))]
       /\ mask' = IF e.kind = "disc" THEN [mask EXCEPT !.n = Decrement(@)] ELSE mask
       /\ \/ Fits(inq, left) /\ Ends(s, End(e))
          \/ ~Fits(inq, left) /\ Waits(s, Left(inq, left), End(e))
  /\ UNCHANGED <<rt, lane, stored, control, backoff, slots, pend, radio, budget>>

EventSendsOn(s) ==
  /\ pc = "manage" /\ lane = <<>> /\ wait[s].left # <<>> /\ Room(inq) > 0
  /\ inq' = Sent(inq, wait[s].left)
  /\ conns' = [conns EXCEPT ![s].reported =
                 @ \/ \E i \in DOMAIN wait[s].left : wait[s].left[i].kind = "secured"]
  /\ \/ Fits(inq, wait[s].left) /\ Ends(s, wait[s].end)
     \/ ~Fits(inq, wait[s].left) /\ Waits(s, Left(inq, wait[s].left), wait[s].end)
  /\ UNCHANGED <<rt, lane, stored, control, backoff, slots, mask, pend, radio, budget>>

\* record_pairing_failure_for_slot
Fails(s) ==
  /\ conns[s].candidate /\ ~conns[s].recorded
  /\ slots[s][1].host \in control.allowed

FailureRecorded(s) ==
  backoff' \in (IF Fails(s) THEN Recorded(slots[s][1].peer) ELSE {backoff})

\* What the loop does with the outcome.
Finish ==
  /\ pc = "finish"
  /\ \E s \in {todo.slot} : \E e \in {slots[todo.slot][1]} :
       \/ /\ todo.end \in {"gone", "stale"}
          /\ IF todo.end = "stale" THEN FailureRecorded(s) ELSE UNCHANGED backoff
          /\ mask' = [mask EXCEPT !.hosts = @ \ {e.host}]
          /\ Emptied(s)
          /\ UNCHANGED control
       \/ /\ todo.end = "secured"
          /\ backoff' = [backoff EXCEPT ![e.peer] = [n |-> 0, hot |-> FALSE]]
          /\ control' = [control EXCEPT !.revoked[e.host] = None]
          /\ conns' = [conns EXCEPT ![s].recorded = FALSE]
          /\ pc' = "manage"
          /\ UNCHANGED <<slots, mask>>
       \/ /\ todo.end = "failed"
          /\ FailureRecorded(s)
          /\ conns' = [conns EXCEPT
                 ![s].recorded = @ \/ Fails(s),
                 ![s].c[1].bondable = FALSE, ![s].c[1].on = FALSE,
                 ![s].c[1].ev = IF conns[s].c[1].on THEN Append(@, [kind |-> "disc", bonded |-> FALSE])
                                ELSE @]
          /\ pc' = "manage"
          /\ UNCHANGED <<control, slots, mask>>
       \/ /\ todo.end = "stay"
          /\ pc' = "manage"
          /\ UNCHANGED <<backoff, control, conns, slots, mask>>
  /\ todo' = NoTodo
  /\ UNCHANGED <<rt, inq, lane, stored, wait, pend, radio, ghost, budget>>

-----------------------------------------------------------------------------
(* Quiesce.                                                                *)

\* The BLE task is polled before the quiesce request, so it is interrupted
\* only where it has nothing to do or waits for the runtime's queue.
Stopped ==
  \/ pc = "accept" /\ pend = None /\ lane = <<>>
  \/ pc \in {"configure", "clear"} /\ todo.left # <<>> /\ Room(inq) = 0
  \/ /\ pc = "manage" /\ (pend = None \/ ~Advertising) /\ lane = <<>>
     /\ \A s \in Connected : IF wait[s].left # <<>> THEN Room(inq) = 0
                             ELSE conns[s].c[1].ev = <<>>

\* disconnect_runtime_hosts_before_quiesce: everything in progress and every
\* connection is dropped, and the mask is handed to the runtime.
Quiesce ==
  /\ Stopped /\ "quiesce" \in budget.kinds /\ budget.events > 0
  /\ budget' = [budget EXCEPT !.events = @ - 1]
  /\ pc' = "quiet"
  /\ slots' = [s \in Slots |-> None] /\ conns' = [s \in Slots |-> NoSlot]
  /\ todo' = NoTodo
  /\ wait' = [s \in Slots |-> NoWait]
  /\ ghost' = [ghost EXCEPT !.dropped = @ \/ todo.left # <<>>
                                          \/ \E s \in Slots : wait[s].left # <<>>]
  /\ pend' = None
  /\ UNCHANGED <<rt, inq, lane, stored, control, backoff, mask, radio>>

\* The runtime takes the barrier when its queue is empty: the hosts of the
\* mask are disconnected, and the stack is rebuilt from the snapshot.
Rebuild ==
  /\ pc = "quiet" /\ inq = <<>>
  /\ rt' = [rt EXCEPT !.connected = @ \ mask.hosts, !.encrypted = @ \ mask.hosts]
  /\ mask' = [hosts |-> {}, n |-> 0]
  /\ stored' = rt.bonds
  /\ control' = NewControl(rt.bonds, rt.pairable)
  /\ radio' = [radio EXCEPT !.bonds = UNION {ToSet(rt.bonds[h]) : h \in Hosts},
                            !.accepted = UNION {ToSet(rt.bonds[h]) : h \in Hosts}]
  /\ pc' = "accept"
  /\ UNCHANGED <<inq, lane, todo, backoff, slots, conns, wait, pend, ghost, budget>>

-----------------------------------------------------------------------------
(* The runtime.                                                            *)

\* Commands that a message produces: a batch without room is refused and the
\* runtime restored.
Commit(r, cmds) ==
  IF Len(lane) + Len(cmds) <= LaneCap
  THEN rt' = r /\ lane' = lane \o cmds /\ UNCHANGED ghost
  ELSE UNCHANGED <<rt, lane>> /\ ghost' = [ghost EXCEPT !.refused = TRUE]

\* HostConnected, HostDisconnected
Known(h) == [rt EXCEPT !.known = @ \union {h}]

IsConnected(h) == [Known(h) EXCEPT !.connected = @ \union {h}, !.encrypted = @ \ {h}]

IsGone(h) == [rt EXCEPT !.connected = @ \ {h}, !.encrypted = @ \ {h}]

\* HostSecurityChanged: a bond ends the pairing window of its host.
Secured(h, bond) ==
  LET r == [Known(h) EXCEPT !.encrypted = @ \union {h},
                            !.bonds[h] = IF bond = None THEN @ ELSE bond]
  IN IF bond # None /\ rt.pairable = <<h>>
     THEN Commit([r EXCEPT !.pairable = None], <<Cmd("reject", h, None)>>)
     ELSE Commit(r, <<>>)

\* EnterPairingMode
EnterPairing(h) ==
  Commit([rt EXCEPT !.pairable = <<h>>],
         (IF rt.pairable # None /\ rt.pairable # <<h>>
          THEN <<Cmd("reject", rt.pairable[1], None)>> ELSE <<>>) \o <<Cmd("allow", h, None)>>)

\* ClearHost
ClearHost(h) ==
  LET shut == IF rt.pairable = <<h>> THEN <<Cmd("reject", h, None)>> ELSE <<>>
      r == [rt EXCEPT !.pairable = IF @ = <<h>> THEN None ELSE @]
  IN IF h \in rt.known
     THEN Commit([r EXCEPT !.known = @ \ {h}, !.connected = @ \ {h}, !.encrypted = @ \ {h},
                           !.bonds[h] = None],
                 Append(shut, Cmd("clear", h, rt.bonds[h])))
     ELSE Commit(r, shut)

Runtime ==
  /\ inq # <<>>
  /\ \E m \in {Head(inq)} :
       CASE m.kind = "connected" -> Commit(IsConnected(m.host), <<>>)
         [] m.kind = "disconnected" -> Commit(IsGone(m.host), <<>>)
         [] m.kind = "secured" -> Secured(m.host, m.bond)
         [] m.kind \in {"name", "write"} -> Commit(Known(m.host), <<>>)
         [] m.kind = "open" -> EnterPairing(m.host)
         [] m.kind = "forget" -> ClearHost(m.host)
         [] m.kind = "other" -> Commit(rt, <<>>)
  /\ inq' = Tail(inq)
  /\ UNCHANGED <<pc, todo, stored, control, backoff, slots, conns, wait, mask, pend, radio,
                 budget>>

\* The pairing window ends after a minute.
PairingExpires ==
  /\ "expire" \in budget.kinds /\ budget.events > 0 /\ rt.pairable # None
  /\ Commit([rt EXCEPT !.pairable = None], <<Cmd("reject", rt.pairable[1], None)>>)
  /\ budget' = [budget EXCEPT !.events = @ - 1]
  /\ UNCHANGED <<inq, pc, todo, stored, control, backoff, slots, conns, wait, mask, pend, radio>>

-----------------------------------------------------------------------------
(* The user and the computers.                                             *)

Event(kind) ==
  /\ kind \in budget.kinds /\ budget.events > 0
  /\ budget' = [budget EXCEPT !.events = @ - 1]

\* A request or other input for the runtime.
Input(kind) ==
  /\ Event(kind) /\ Room(inq) > 0
  /\ \E h \in (IF kind = "other" THEN {1} ELSE Hosts) : inq' = Append(inq, Msg(kind, h, None))
  /\ UNCHANGED <<rt, lane, pc, todo, stored, control, backoff, slots, conns, wait, mask, pend,
                 radio, ghost>>

Live(p) ==
  \/ \E s \in Slots : conns[s].c # None /\ conns[s].c[1].peer = p /\ conns[s].c[1].on
  \/ \E c \in ToSet(pend \o todo.c) : c.peer = p /\ c.on

PeerConnects(p) ==
  /\ Event("connect") /\ Answers(p) /\ ~Live(p)
  /\ pend' = <<Conn(p)>>
  /\ UNCHANGED <<rt, inq, lane, pc, todo, stored, control, backoff, slots, conns, wait, mask,
                 radio, ghost>>

\* The link is lost, with or without the reason of a stale bond.
Gone(c, stale) ==
  [c EXCEPT !.on = FALSE, !.ev = Append(@, [kind |-> "disc", bonded |-> stale])]

PeerLeaves ==
  /\ Event("leave")
  /\ \E stale \in BOOLEAN :
       \/ /\ \E s \in Slots : /\ conns[s].c # None /\ conns[s].c[1].on
                              /\ conns' = [conns EXCEPT ![s].c[1] = Gone(@, stale)]
          /\ UNCHANGED todo
       \/ /\ todo.c # None /\ todo.c[1].on
          /\ todo' = [todo EXCEPT !.c[1] = Gone(@, stale)]
          /\ UNCHANGED conns
  /\ UNCHANGED <<rt, inq, lane, pc, stored, control, backoff, slots, wait, mask, pend, radio,
                 ghost>>

Happens(s, e, enc) ==
  conns' = [conns EXCEPT ![s].c[1].ev = Append(@, e), ![s].c[1].enc = @ \/ enc]

Open(s) == conns[s].c # None /\ conns[s].c[1].on

\* Pairing keeps keys on both sides if the connection is bondable.
PeerPairs(s) ==
  /\ Event("pair") /\ Open(s) /\ ~conns[s].c[1].enc
  /\ Happens(s, [kind |-> "paired", bonded |-> conns[s].c[1].bondable], TRUE)
  /\ radio' = IF conns[s].c[1].bondable
              THEN [radio EXCEPT !.bonds = @ \union {conns[s].c[1].peer}] ELSE radio
  /\ UNCHANGED <<rt, inq, lane, pc, todo, stored, control, backoff, slots, wait, mask, pend,
                 ghost>>

PeerFails(s) ==
  /\ Event("fail") /\ Open(s) /\ ~conns[s].c[1].enc
  /\ Happens(s, [kind |-> "failed", bonded |-> FALSE], FALSE)
  /\ UNCHANGED <<rt, inq, lane, pc, todo, stored, control, backoff, slots, wait, mask, pend,
                 radio, ghost>>

\* A write, after encryption with the keys of a bond if there is one.
PeerWrites(s) ==
  /\ Event("write") /\ Open(s)
  /\ Happens(s, [kind |-> "write", bonded |-> FALSE], conns[s].c[1].peer \in radio.bonds)
  /\ UNCHANGED <<rt, inq, lane, pc, todo, stored, control, backoff, slots, wait, mask, pend,
                 radio, ghost>>

CoolDown(p) ==
  /\ Blocked(p)
  /\ backoff' = [backoff EXCEPT ![p].hot = FALSE]
  /\ UNCHANGED <<rt, inq, lane, pc, todo, stored, control, slots, conns, wait, mask, pend, radio,
                 ghost, budget>>

-----------------------------------------------------------------------------
Bonded(bonds) == UNION {ToSet(bonds[h]) : h \in Hosts}

Init ==
  /\ budget \in Scenarios
  /\ rt = [known |-> Dom(budget.bonds), connected |-> {}, encrypted |-> {},
           bonds |-> budget.bonds, pairable |-> None]
  /\ inq = <<>> /\ lane = <<>> /\ pc = "accept" /\ todo = NoTodo
  /\ stored = budget.bonds
  /\ control = NewControl(budget.bonds, None)
  /\ backoff = NoBackoff
  /\ slots = [s \in Slots |-> None] /\ conns = [s \in Slots |-> NoSlot]
  /\ wait = [s \in Slots |-> NoWait]
  /\ mask = [hosts |-> {}, n |-> 0] /\ pend = None
  /\ radio = [bonds |-> Bonded(budget.bonds), accepted |-> Bonded(budget.bonds)]
  /\ ghost = [dropped |-> FALSE, mixed |-> FALSE, refused |-> FALSE]

Task == AcceptFirst \/ AcceptNext \/ SendsOn \/ Configured \/ Command \/ Cleared \/ Finish
        \/ \E s \in Slots : TakeEvent(s) \/ EventSendsOn(s)

System == Task \/ Runtime \/ Rebuild

Computers ==
  \/ \E p \in Peers : PeerConnects(p) \/ CoolDown(p)
  \/ PeerLeaves
  \/ \E s \in Slots : PeerPairs(s) \/ PeerFails(s) \/ PeerWrites(s)

Environment ==
  \/ Computers \/ Quiesce \/ PairingExpires
  \/ \E kind \in {"open", "forget", "other"} : Input(kind)

Next == System \/ Environment

Spec == Init /\ [][Next]_vars /\ WF_vars(System)

-----------------------------------------------------------------------------
(* Properties.                                                             *)

Served == {slots[s][1].host : s \in Connected}

Idle ==
  /\ pc \in {"accept", "manage"} /\ inq = <<>> /\ lane = <<>>
  /\ pend # None => ~Advertising
  /\ \A s \in Connected : wait[s].left = <<>> /\ conns[s].c[1].ev = <<>>

\* Queues stay within their capacity, slots, connections and the task's
\* state fit together.
TypeOK ==
  /\ Len(inq) <= InCap /\ Len(lane) <= LaneCap /\ mask.n \in 0 .. Cardinality(Slots)
  /\ rt.connected \subseteq rt.known /\ rt.known \subseteq Hosts
  /\ \A p \in Peers : backoff[p].n \in 0 .. 4
  /\ Cardinality({p \in Peers : backoff[p].n > 0}) <= BackoffCap
  /\ pc = "accept" => Connected = {}
  /\ \A s \in Slots : conns[s].c # None => slots[s] # None /\ slots[s][1].peer = conns[s].c[1].peer

\* No host number and no computer ever has two connection slots.  Once
\* everything is handled the runtime, the mask that a quiesce hands it and the
\* counter agree with the connections - unless a report was dropped while it
\* waited for room, or the first connection of a computer whose bond is revoked
\* was set up for another host.
ConnectionsAgree ==
  /\ TypeOK
  /\ \A s, t \in Connected :
       s # t => slots[s][1].host # slots[t][1].host /\ slots[s][1].peer # slots[t][1].peer
  /\ Idle /\ ~ghost.dropped /\ ~ghost.mixed
       => /\ rt.connected = Served /\ mask.hosts = Served /\ mask.n = Cardinality(Connected)
          /\ ~ghost.refused =>
               rt.encrypted = {slots[s][1].host : s \in {t \in Connected : conns[t].reported}}


CanReturn(h) ==
  \A p \in ToSet(rt.bonds[h]) : ~Live(p) => Answers(p) /\ admit_ble_connection(p) = <<h>>

UpToDate == Idle /\ stored = rt.bonds /\ Dom(stored) = control.restored
            /\ \A p \in Peers : Cardinality({h \in Hosts : stored[h] = <<p>>}) <= 1



=============================================================================
