------------------------------ MODULE Interchip ------------------------------
(***************************************************************************)
(* The SPI link between the two chips of the dual build.  The Host-role    *)
(* chip (run_link in mirror_spi_task.rs) is the SPI master, the            *)
(* Device-role chip (DeviceLink and the main loop of device-firmware) the  *)
(* slave.  One exchange moves a cell in each direction; either may be      *)
(* corrupted, and its CRC then discards it.  On top of it both run a       *)
(* go-back window: ReliableSender, ReliableReceiver, and on the Host       *)
(* ReliableDeliveryQueue, which sends unacknowledged commands again after  *)
(* a change of session.                                                    *)
(*                                                                         *)
(* The commands of the runtime are the units 1, 2, ... of Stream.  A       *)
(* control response takes two units, its first and its last fragment.      *)
(* Time is a flag: a Tick makes the timeouts of 5 ms and the heartbeat due. *)
(***************************************************************************)
EXTENDS Integers, Sequences, SequencesExt, FiniteSets

CONSTANTS
    Window,          \* SPI_TX_WINDOW
    SeqMax,          \* u16::MAX
    MaxAttempts,     \* MAX_RETRANSMIT_ATTEMPTS
    BatchMax,        \* INPUT_REPORT_BATCH_MAX_REPORTS
    Stream,          \* kinds of the commands, in the order of the runtime
    OutputKinds,     \* what the computer at the Device sends
    MaxEvents        \* bound: corrupted cells, stalls, restarts and outputs

ASSUME InterchipAssumption ==
    /\ {Window, SeqMax, MaxAttempts, BatchMax} \subseteq Nat \ {0}
    /\ MaxEvents \in Nat
    /\ Stream \in Seq({"Input", "Single", "First", "Last"})
    /\ OutputKinds \subseteq {"Report", "Control", "Management"}

VARIABLES
    host,        \* the locals of run_link
    device,      \* DeviceLink and the slots of DynamicUsb
    port,        \* the Device's DMA buffer and READY
    taken,       \* units taken from the command queue
    processed,   \* history: the units that the Device has processed
    slipped,     \* history: a HELLO was acknowledged in place of a command
    outputs,     \* history: outputs of the computer so far
    faults       \* faults so far

vars == <<host, device, port, taken, processed, slipped, outputs, faults>>

None == 0
Nothing == <<>>      \* an empty Option; <<x>> is a full one
Units == 1 .. Len(Stream)

Rec(kind, arg) == [kind |-> kind, arg |-> arg]
Hello == Rec("Hello", None)
HelloAck == Rec("HelloAck", None)
Heartbeat == Rec("Heartbeat", None)
Attached == 1        \* the USB states the Device reports
Configured == 2
Unknown == 0

-----------------------------------------------------------------------------
(* Sequence numbers: 0 marks an empty cell and is skipped. *)

NextSequence(s) == IF s = SeqMax \/ s = 0 THEN 1 ELSE s + 1
PreviousSequence(s) == IF s <= 1 THEN SeqMax ELSE s - 1

IsRecentSequence(candidate, ack) ==
    LET back[k \in 0 .. Window - 1] ==
            IF k = 0 THEN ack ELSE PreviousSequence(back[k - 1])
    IN  \E k \in 0 .. Window - 1 : candidate = back[k]

(* ReliableSender, the fields session, next and pending of an endpoint. *)

HasWindow(e) == Len(e.pending) < Window

Queue(e, records) ==
    [e EXCEPT !.pending = Append(@, [seq |-> e.next, records |-> records,
                                     attempts |-> 1, late |-> FALSE]),
              !.next = NextSequence(@)]

(* The number of cells a cumulative acknowledgement removes. *)
Removed(e, ack) == SelectInSeq(e.pending, LAMBDA p : p.seq = ack)

Acknowledge(e, ack) ==
    [e EXCEPT !.pending = SubSeq(@, Removed(e, ack) + 1, Len(@))]

ResetSession(e, session) ==
    [e EXCEPT !.session = session, !.next = 1, !.pending = <<>>]

\* Mutant: after the last attempt the cell is simply not sent again.
PollGivesUp(e) ==
    IF e.pending = <<>> \/ ~Head(e.pending).late THEN "Idle"
    ELSE IF Head(e.pending).attempts >= MaxAttempts THEN "Idle" ELSE "Send"

PollRetransmit(e) ==
    IF e.pending = <<>> \/ ~Head(e.pending).late THEN "Idle"
    ELSE IF Head(e.pending).attempts >= MaxAttempts THEN "Reset" ELSE "Send"

Retransmitted(e) ==
    [e EXCEPT !.pending[1].attempts = @ + 1, !.pending[1].late = FALSE]

(* Every cell leaves with the newest acknowledgement.  The session that it
   acknowledges ("of") is not on the wire. *)
Cell(e, seq, records) ==
    [session |-> e.session, seq |-> seq, ack |-> e.ack, records |-> records,
     of |-> e.peer]
EmptyCell(e) == Cell(e, 0, <<>>)
CellOf(e, entry) == Cell(e, entry.seq, entry.records)

(* ReliableReceiver::receive, the fields peer and ack of an endpoint. *)
SessionChanged(e, cell) == e.peer # cell.session
AckBefore(e, cell) == IF SessionChanged(e, cell) THEN 0 ELSE e.ack

\* Mutant: any sequence but the last one is new.
DispositionOfAny(e, cell) ==
    CASE cell.seq = 0 -> IF SessionChanged(e, cell) THEN "SessionChanged" ELSE "Empty"
      [] cell.seq # 0 /\ cell.seq = AckBefore(e, cell) -> "Duplicate"
      [] OTHER -> "Accepted"

Disposition(e, cell) ==
    CASE cell.seq = 0 -> IF SessionChanged(e, cell) THEN "SessionChanged" ELSE "Empty"
      [] cell.seq # 0 /\ cell.seq = NextSequence(AckBefore(e, cell)) -> "Accepted"
      [] OTHER -> IF IsRecentSequence(cell.seq, AckBefore(e, cell))
                  THEN "Duplicate" ELSE "Gap"

Receive(e, cell) ==
    [e EXCEPT !.peer = cell.session,
              !.ack = IF Disposition(e, cell) = "Accepted"
                      THEN cell.seq ELSE AckBefore(e, cell)]

-----------------------------------------------------------------------------
(* The Host: ReliableDeliveryQueue and run_link. *)

RecordQueued(h, units) ==
    [h EXCEPT !.inflight = IF Len(@) < Window THEN Append(@, units) ELSE @]

(* retry_after_session_reset: what does not fit into the retry queue stays. *)
RetryInflight(h) ==
    LET room == Window - Len(h.retry)
        keep == IF Len(h.inflight) > room THEN Len(h.inflight) - room ELSE 0
    IN  [h EXCEPT !.inflight = SubSeq(@, 1, keep),
                  !.retry = SubSeq(h.inflight, keep + 1, Len(h.inflight)) \o @]


ResetOutboundSession(h) ==
    [ResetSession(RetryInflight(h), h.session + 1) EXCEPT !.asm = None]

Unlinked(h) == [h EXCEPT !.hello = FALSE, !.usb = Unknown]

Sends(h, n) == [host |-> h, cell |-> CellOf(h, Last(h.pending)), taken |-> n]
QueueHello(h) == Queue(h, <<Hello>>)

(* A command goes out as one cell: a batch of input reports, another command,
   or a fragment of a control response. *)
QueueWireCommand(h, units) ==
    RecordQueued(Queue(h, [i \in DOMAIN units |-> Rec(Stream[units[i]], units[i])]), units)

(* How many units the next command may take.  None while the queue is empty or
   the input budget is used up; the rest of a control response always follows. *)
NextCommand ==
    IF taken = Len(Stream) THEN {0}
    ELSE CASE Stream[taken + 1] = "Input" ->
                  {k \in 0 .. BatchMax : /\ taken + k <= Len(Stream)
                                         /\ \A u \in taken + 1 .. taken + k : Stream[u] = "Input"}
           [] Stream[taken + 1] = "Last" -> {1}
           [] OTHER -> {0, 1}

(* The cell of one iteration of run_link: a retransmission, a new session, or
   something new if the window allows it. *)
HostTransmissions ==
    LET poll == PollRetransmit(host)
        silent == [host |-> host, cell |-> EmptyCell(host), taken |-> taken]
        command(k) == Sends(QueueWireCommand(host, [i \in 1 .. k |-> taken + i]), taken + k)
        heartbeat == Sends(RecordQueued(Queue([host EXCEPT !.due = FALSE], <<Heartbeat>>), <<>>),
                           taken)
    IN  CASE poll = "Send" ->
                 {[host |-> Retransmitted(host), cell |-> CellOf(host, Head(host.pending)),
                   taken |-> taken]}
          [] poll = "Reset" ->
                 {Sends(QueueHello(ResetOutboundSession(Unlinked(host))), taken)}
          [] poll = "Idle" /\ ~host.hello /\ host.pending = <<>> ->
                 {Sends(QueueHello(host), taken)}
          [] poll = "Idle" /\ host.hello /\ HasWindow(host) /\ host.retry # <<>> ->
                 {Sends(QueueWireCommand([host EXCEPT !.retry = Tail(@)], Head(host.retry)), taken)}
          [] poll = "Idle" /\ host.hello /\ HasWindow(host) /\ host.retry = <<>> ->
                 {IF k # 0 THEN command(k) ELSE IF host.due THEN heartbeat ELSE silent :
                      k \in NextCommand}
          [] OTHER -> {silent}

(* process_records; an output waits in a slot until the runtime takes it. *)
ProcessRecord(h, r) ==
    CASE r.kind = "Hello" -> Unlinked(h)
      [] r.kind = "HelloAck" -> [h EXCEPT !.hello = TRUE]
      [] r.kind = "UsbState" -> [h EXCEPT !.usb = r.arg]
      [] r.kind = "First" -> [h EXCEPT !.asm = r.arg]
      [] r.kind = "Last" -> IF h.asm = r.arg
                            THEN [h EXCEPT !.asm = None, !.slot["Control"] = r.arg]
                            ELSE [h EXCEPT !.asm = None]
      [] OTHER -> [h EXCEPT !.slot[r.kind] = r.arg]

(* A valid cell: the receiver, then the acknowledgements or the new session, the
   records, and last the commands that wait for a HELLO_ACK. *)
RemoteSessionChanged(h, cell) ==
    SessionChanged(h, cell) /\ Disposition(h, cell) \in {"Accepted", "SessionChanged"}

Settle(h, cell) ==
    LET valid == [Receive(h, cell) EXCEPT !.valid = TRUE]
    IN  IF RemoteSessionChanged(h, cell) THEN ResetOutboundSession(Unlinked(valid))
        ELSE [Acknowledge(valid, cell.ack) EXCEPT
                !.inflight = SubSeq(@, Removed(h, cell.ack) + 1, Len(@))]

ProcessRecords(h, accepted, cell) ==
    IF accepted THEN FoldLeft(ProcessRecord, h, cell.records) ELSE h

RetryUnconfirmed(h, changed) ==
    IF ~changed /\ ~h.hello /\ h.inflight # <<>> THEN ResetOutboundSession(h) ELSE h

(* An acknowledgement that drops a command which the Device has not confirmed:
   that of a HELLO, which the delivery queue does not hold, or one that the
   Device gave for a cell of an earlier session. *)
Slips(h, cell) ==
    LET removed == SubSeq(h.pending, 1, Removed(h, cell.ack))
        commands == SelectSeq(removed, LAMBDA p : p.records # <<Hello>>)
    IN  /\ ~SessionChanged(h, cell)
        /\ \/ Len(commands) < Len(removed) /\ Len(commands) < Len(h.inflight)
           \/ commands # <<>> /\ cell.of # h.session

NewHost(session) ==
    [session |-> session, next |-> 1, pending |-> <<>>, peer |-> None, ack |-> 0,
     hello |-> FALSE, usb |-> Unknown, valid |-> FALSE, asm |-> None,
     inflight |-> <<>>, retry |-> <<>>, slot |-> [k \in OutputKinds |-> None],
     quiet |-> FALSE, handshake |-> "AwaitingReady", overdue |-> FALSE, due |-> FALSE]

Availability(h) ==
    IF ~h.valid \/ ~h.hello THEN "Unavailable"
    ELSE IF h.usb = Configured THEN "Ready" ELSE "ConnectedNotReady"

-----------------------------------------------------------------------------
(* The Device: DeviceLink. *)

ContainsHello(cell) == \E i \in DOMAIN cell.records : cell.records[i] = Hello

(* A queued cell waits in next_cell for the next transaction. *)
Stage(d, records) ==
    IF HasWindow(d)
    THEN LET q == Queue(d, records) IN [q EXCEPT !.cell = <<Last(q.pending)>>]
    ELSE [d EXCEPT !.cell = Nothing]

StageUsbState(d, records) ==
    LET staged == Stage(d, records \o <<Rec("UsbState", d.usb)>>)
    IN  IF staged.cell # Nothing THEN [staged EXCEPT !.dirty = FALSE] ELSE staged

QueueDirtyUsbState(d) ==
    IF d.compatible /\ d.dirty THEN StageUsbState(d, <<>>) ELSE [d EXCEPT !.cell = Nothing]

(* queue_next_control_request_fragment: the first, then the last one. *)
QueueControlFragment(d) ==
    IF d.control = None THEN [d EXCEPT !.cell = Nothing]
    ELSE LET staged == Stage(d, <<Rec(IF d.sent THEN "Last" ELSE "First", d.control)>>)
         IN  IF staged.cell = Nothing THEN staged
             ELSE [staged EXCEPT !.sent = ~@, !.control = IF d.sent THEN None ELSE @]

QueueManagementRequest(d) ==
    IF d.management = None THEN [d EXCEPT !.cell = Nothing]
    ELSE LET staged == Stage(d, <<Rec("Management", d.management)>>)
         IN  IF staged.cell = Nothing THEN staged ELSE [staged EXCEPT !.management = None]

ForgetRequests(d) ==
    [d EXCEPT !.compatible = FALSE, !.control = None, !.sent = FALSE,
              !.management = None, !.asm = None]

(* handle_transaction for one record of an accepted cell. *)
HandleRecord(d, r) ==
    CASE r.kind = "Hello" -> StageUsbState([d EXCEPT !.compatible = TRUE], <<HelloAck>>)
      [] r.kind = "First" -> [d EXCEPT !.asm = r.arg]
      [] r.kind = "Last" -> [d EXCEPT !.asm = None]
      [] OTHER -> d

(* A new session counts only once it brings a compatible HELLO. *)
Refused(d, cell) ==
    /\ SessionChanged(d, cell) \/ ~d.compatible
    /\ ~ContainsHello(cell)

HandleTransaction(d, cell) ==
    LET acked == Acknowledge(d, cell.ack)
        current == IF SessionChanged(d, cell) THEN ForgetRequests(acked) ELSE acked
    IN  IF Refused(d, cell)
        THEN [current EXCEPT !.peer = cell.session, !.ack = AckBefore(d, cell)]
        ELSE IF Disposition(d, cell) = "Accepted"
             THEN FoldLeft(HandleRecord, Receive(current, cell), cell.records)
             ELSE Receive(current, cell)

(* The units of a cell that the Device hands on. *)
Accepts(d, cell) ==
    IF Refused(d, cell) \/ Disposition(d, cell) # "Accepted" THEN {}
    ELSE {r.arg : r \in Range(cell.records)} \ {None}

(* The first of these that has something to send: the staged cell, a fragment,
   a management request, the USB state, and else a retransmission. *)
NextTransaction(d) ==
    LET tries == <<d, QueueControlFragment(d), QueueManagementRequest(d),
                   QueueDirtyUsbState(d)>>
        first == SelectInSeq(tries, LAMBDA t : t.cell # Nothing)
        poll == PollRetransmit(d)
        fresh == Queue([ResetSession(d, d.session + 1) EXCEPT
                          !.compatible = FALSE, !.dirty = TRUE], <<Hello>>)
    IN  CASE first # 0 ->
                 [device |-> [tries[first] EXCEPT !.cell = Nothing],
                  cell |-> CellOf(tries[first], Head(tries[first].cell))]
          [] first = 0 /\ poll = "Send" ->
                 [device |-> Retransmitted(d), cell |-> CellOf(d, Head(d.pending))]
          [] first = 0 /\ poll = "Reset" ->
                 [device |-> fresh, cell |-> CellOf(fresh, Last(fresh.pending))]
          [] first = 0 /\ poll = "Idle" ->
                 [device |-> d, cell |-> EmptyCell(d)]

NewDevice(session) ==
    LET d == [session |-> session, next |-> 1, pending |-> <<>>, peer |-> None, ack |-> 0,
              cell |-> Nothing, compatible |-> FALSE, usb |-> Attached, computer |-> Attached, dirty |-> TRUE,
              control |-> None, sent |-> FALSE, management |-> None, asm |-> None,
              slot |-> [k \in OutputKinds |-> None], watched |-> FALSE]
    IN  Stage(d, <<Hello>>)

(* service_usb, in this order: each output that waits is queued, or restored for later.  A
   request that found the window full is remembered by the link as well. *)
ServiceReport(d) ==
    IF "Report" \notin OutputKinds \/ ~d.compatible \/ d.cell # Nothing THEN d
    ELSE IF d.slot["Report"] = None THEN d
    ELSE LET staged == Stage(d, <<Rec("Report", d.slot["Report"])>>)
         IN  IF staged.cell = Nothing THEN d ELSE [staged EXCEPT !.slot["Report"] = None]

ServiceControl(d) ==
    IF "Control" \notin OutputKinds \/ ~d.compatible \/ d.cell # Nothing THEN d
    ELSE IF d.slot["Control"] = None \/ d.control # None THEN d
    ELSE LET staged == QueueControlFragment([d EXCEPT !.control = d.slot["Control"],
                                                      !.sent = FALSE])
         IN  IF staged.cell = Nothing THEN staged ELSE [staged EXCEPT !.slot["Control"] = None]

ServiceManagement(d) ==
    IF "Management" \notin OutputKinds \/ ~d.compatible \/ d.cell # Nothing THEN d
    ELSE IF d.slot["Management"] = None \/ d.management # None THEN d
    ELSE LET staged == QueueManagementRequest([d EXCEPT !.management = d.slot["Management"]])
         IN  IF staged.cell = Nothing THEN staged ELSE [staged EXCEPT !.slot["Management"] = None]

UpdateUsbState(d) ==
    LET changed == [d EXCEPT !.usb = d.computer, !.dirty = TRUE]
    IN  IF d.computer = d.usb THEN d
        ELSE IF d.compatible /\ d.cell = Nothing THEN QueueDirtyUsbState(changed) ELSE changed


-----------------------------------------------------------------------------
(* The exchange. *)

Corrupt == Nothing

Arm(d, edge) ==
    \E t \in {NextTransaction(d)} :
        /\ device' = t.device
        /\ port' = [state |-> "Armed", edge |-> edge, tx |-> t.cell, rx |-> Corrupt]

Init ==
    LET t == NextTransaction(NewDevice(1))
    IN  /\ host = NewHost(1)
        /\ device = t.device
        /\ port = [state |-> "Armed", edge |-> FALSE, tx |-> t.cell, rx |-> Corrupt]
        /\ taken = 0 /\ processed = {} /\ slipped = FALSE /\ outputs = 0 /\ faults = 0

Fault(n) ==
    /\ faults + outputs + n <= MaxEvents
    /\ faults' = faults + n

(* READY is high from the arming of the DMA until the Device has noticed that the
   transfer is done.  The handshake waits for a falling edge, or for 5 ms. *)
MayTransfer ==
    /\ ~host.quiet
    /\ host.handshake = "AwaitingReady" \/ port.edge \/ host.overdue

Started(h) == [h EXCEPT !.handshake = "AwaitingDeassertion", !.overdue = FALSE]

HostReceives(h, cell) ==
    \E settled \in {Settle(h, cell)} :
        \E done \in {ProcessRecords(settled, Disposition(h, cell) = "Accepted", cell)} :
            host' = Started(RetryUnconfirmed(done, RemoteSessionChanged(h, cell)))

Transfer(host_gets, device_gets) ==
    /\ MayTransfer
    /\ port.state = "Armed"
    /\ Fault((IF host_gets THEN 0 ELSE 1) + (IF device_gets THEN 0 ELSE 1))
    /\ \E t \in HostTransmissions :
         /\ IF host_gets THEN HostReceives(t.host, port.tx) ELSE host' = Started(t.host)
         /\ port' = [port EXCEPT !.state = "Done", !.edge = FALSE,
                                 !.rx = IF device_gets THEN <<t.cell>> ELSE Corrupt]
         /\ taken' = t.taken
         /\ slipped' = (slipped \/ (host_gets /\ Slips(t.host, port.tx)))
    /\ UNCHANGED <<device, processed, outputs>>

(* A transfer that the Device is not armed for: the Host reads garbage.  Or the
   DMA of the Host fails, and the Device stays armed. *)
TransferLost ==
    /\ MayTransfer
    /\ \/ port.state = "Done" /\ UNCHANGED faults
       \/ port.state = "Armed" /\ Fault(1)
    /\ \E t \in HostTransmissions :
         /\ host' = IF port.state = "Done" THEN Started(t.host)
                    ELSE [t.host EXCEPT !.handshake = "AwaitingReady", !.overdue = FALSE]
         /\ taken' = t.taken
    /\ port' = [port EXCEPT !.edge = FALSE]
    /\ UNCHANGED <<device, processed, slipped, outputs>>

(* The start of an iteration of run_link: the report functions hand each waiting
   output to the runtime. *)
ReportToRuntime ==
    /\ \E k \in OutputKinds : host.slot[k] # None
    /\ host' = [host EXCEPT !.slot = [k \in OutputKinds |-> None]]
    /\ UNCHANGED <<device, port, taken, processed, slipped, outputs, faults>>

(* SpiLinkRecovery: without a valid cell for 1.5 s the Host falls silent. *)
EnterQuiet ==
    /\ ~host.quiet
    /\ Fault(1)
    /\ host' = [ResetOutboundSession([Unlinked(host) EXCEPT !.valid = FALSE]) EXCEPT
                  !.peer = None, !.ack = 0, !.quiet = TRUE]
    /\ UNCHANGED <<device, port, taken, processed, slipped, outputs>>

ResumePolling ==
    /\ host.quiet
    /\ host' = [host EXCEPT !.quiet = FALSE]
    /\ UNCHANGED <<device, port, taken, processed, slipped, outputs, faults>>

(* The main loop of the Device: service_usb while the transfer is pending; when it
   is done, READY falls, the cell is handled and the next transaction is armed.
   The Host may miss the edge. *)
HandleAndRearm ==
    /\ port.state = "Done"
    /\ \E sent \in {ServiceReport(device)} :
       \E asked \in {ServiceManagement(ServiceControl(sent))} :
       \E serviced \in {[UpdateUsbState(asked) EXCEPT !.watched = TRUE]} :
       \E handled \in {IF port.rx = Corrupt THEN serviced
                       ELSE HandleTransaction(serviced, Head(port.rx))} :
         \/ Arm(handled, TRUE) /\ UNCHANGED faults
         \/ Arm(handled, FALSE) /\ Fault(1)
    /\ processed' = processed \cup
           (IF port.rx = Corrupt THEN {} ELSE Accepts(device, Head(port.rx)))
    /\ UNCHANGED <<host, taken, slipped, outputs>>

(* The computer configures the Device, or sends a report or a request.  A
   waiting request is never replaced, a waiting output report is.  Only
   service_usb reads what it sends, so when in the cycle makes no difference. *)
ComputerConfigures ==
    /\ port.state = "Done"
    /\ device.computer = Attached
    /\ device' = [device EXCEPT !.computer = Configured]
    /\ UNCHANGED <<host, port, taken, processed, slipped, outputs, faults>>

ComputerSends(kind) ==
    /\ port.state = "Done"
    /\ faults + outputs < MaxEvents
    /\ kind = "Report" \/ device.slot[kind] = None
    /\ outputs' = outputs + 1
    /\ device' = [device EXCEPT !.slot[kind] = outputs + 1]
    /\ UNCHANGED <<host, port, taken, processed, slipped, faults>>

(* MirrorControlForwarder gives a request up after 250 ms. *)
ControlExpires ==
    /\ "Control" \in OutputKinds
    /\ device.slot["Control"] # None
    /\ device' = [device EXCEPT !.slot["Control"] = None]
    /\ UNCHANGED <<host, port, taken, processed, slipped, outputs, faults>>

(* The transaction watchdog (1.5 s) restarts the Device in a quiet period (2 s);
   anything else that restarts it is a fault. *)
DeviceRestarts ==
    /\ IF host.quiet /\ device.watched THEN UNCHANGED faults ELSE Fault(1)
    /\ Arm(NewDevice(device.session + 1), TRUE)
    /\ UNCHANGED <<host, taken, processed, slipped, outputs>>

(* A restart of the Host forgets its commands with everything else. *)
HostRestarts ==
    /\ Fault(1)
    /\ host' = NewHost(host.session + 1)
    /\ port' = [port EXCEPT !.edge = FALSE]
    /\ processed' = 1 .. taken
    /\ UNCHANGED <<device, taken, slipped, outputs>>

MakeLate(e) == [e EXCEPT !.pending = [i \in DOMAIN @ |-> [@[i] EXCEPT !.late = TRUE]]]

(* 5 ms pass.  That the Device needs so long to notice a transfer is a fault. *)
Tick ==
    /\ \E overdue \in BOOLEAN :
         /\ overdue => host.handshake = "AwaitingDeassertion"
         /\ IF overdue /\ port.state = "Done" THEN Fault(1)
            ELSE overdue = (host.handshake = "AwaitingDeassertion" /\ port.state = "Armed")
                 /\ UNCHANGED faults
         /\ host' = [MakeLate(host) EXCEPT !.overdue = @ \/ overdue, !.due = TRUE]
    /\ device' = MakeLate(device)
    /\ <<host', device'>> # <<host, device>>
    /\ UNCHANGED <<port, taken, processed, slipped, outputs>>

Next ==
    \/ \E host_gets, device_gets \in BOOLEAN : Transfer(host_gets, device_gets)
    \/ TransferLost
    \/ ReportToRuntime
    \/ EnterQuiet
    \/ ResumePolling
    \/ HandleAndRearm
    \/ ComputerConfigures
    \/ \E kind \in OutputKinds : ComputerSends(kind)
    \/ ControlExpires
    \/ DeviceRestarts
    \/ HostRestarts
    \/ Tick

(* Both programs loop for ever, and time passes. *)
Fairness ==
    /\ WF_vars(Transfer(TRUE, TRUE))
    /\ WF_vars(ReportToRuntime)
    /\ WF_vars(ResumePolling)
    /\ WF_vars(HandleAndRearm)
    /\ WF_vars(ControlExpires)
    /\ WF_vars(Tick)

Spec == Init /\ [][Next]_vars /\ Fairness

-----------------------------------------------------------------------------
(* Properties. *)

TypeOK ==
    /\ \A e \in {host, device} :
          /\ {e.next, e.session} \subseteq Nat \ {0}
          /\ e.next <= SeqMax /\ e.ack \in 0 .. SeqMax
          /\ Len(e.pending) <= Window
          /\ \A i \in DOMAIN e.pending : e.pending[i].attempts \in 1 .. MaxAttempts
    /\ host.usb \in {Unknown, Attached, Configured}
    /\ host.handshake \in {"AwaitingReady", "AwaitingDeassertion"}
    /\ port.state \in {"Armed", "Done"}
    /\ taken \in 0 .. Len(Stream) /\ processed \subseteq 1 .. taken

(* "The combined retry + inflight population never exceeds the transport
   window": retry_after_session_reset never finds its queue full and never
   leaves a command behind. *)
WindowHolds == Len(host.inflight) + Len(host.retry) <= Window

Remembered ==
    UNION {Range(units) : units \in Range(host.inflight) \cup Range(host.retry)} \cup
    UNION {{r.arg : r \in Range(p.records)} : p \in Range(host.pending)}

(* Every command that was taken from the queue and not yet processed by the
   Device can still be sent by the Host: it is in the sender's window or in the
   delivery queue, in whatever state corrupted cells, a silent period or a
   restart of the Device left the two sessions. *)
Rebuildable == \A u \in 1 .. taken : u \in processed \/ u \in Remembered


(* The commands reach the Device in order, without a gap, and in the end: the
   link implements the abstract delivery. *)
Delivered == INSTANCE Delivery WITH Count <- Len(Stream), broken <- slipped
DeliveredInTheEnd == Delivered!Spec

(* Once the faults stop, the link comes up again by itself, the runtime knows the
   USB state of the Device and no request of the computer keeps the link busy:
   neither side waits for the other for ever. *)
LinkRecovers ==
    <>[](/\ Availability(host) = IF device.computer = Configured THEN "Ready"
                                 ELSE "ConnectedNotReady"
         /\ device.control = None
         /\ \A k \in OutputKinds : device.slot[k] = None /\ host.slot[k] = None)

=============================================================================
