---------------------------- MODULE Presentation ----------------------------
(***************************************************************************)
(* Which USB device the wired computer sees (dual-s3-wired build).  The    *)
(* USB task captures the descriptors of an attached device as a profile,   *)
(* sends it in chunks to the Device chip and registers it as a Mirror      *)
(* candidate; the runtime decides which candidate to present and asks the  *)
(* Device chip for it; the Device chip keeps the profiles in two flash     *)
(* slots and changes its presentation by restarting.                       *)
(*                                                                         *)
(* Sources: the Mirror parts of src/runtime.rs and of its management       *)
(* handler, src/mirror/candidate.rs, src/mirror/store.rs,                  *)
(* src/interchip/profile_transfer.rs, the main loop, the boot request and  *)
(* the profile store of device-firmware, and the captures of               *)
(* firmware/src/platform/usb_host_task.rs.                                 *)
(*                                                                         *)
(* A profile is the number of its hash; the image of profile h is the      *)
(* sequence of its parts <<h, 1>> .. <<h, Chunks>>.  A source is one USB   *)
(* device; its number is its device id and its stable id.  The SPI link    *)
(* (module Interchip) is a queue whose unacknowledged head is repeated     *)
(* after a session reset.  Operation ids, which neither chip compares, and *)
(* the synthetic candidates of the test builds are left out.               *)
(***************************************************************************)
EXTENDS Integers, Sequences, SequencesExt, FiniteSets

CONSTANTS
    Sources,     \* USB devices that can be mirrored
    PortOf,      \* the hub port, hence candidate id, of each source
    HashOf,      \* the profile hash of each source
    Chunks,      \* chunks of an image
    GenMod,      \* the generations of the profile store count modulo GenMod
    MaxEvents    \* bound: (de)tachments, selections, restarts, link resets,
                 \* flash errors and suspends

ASSUME SourcesAssumption ==
    /\ Sources \subseteq Nat \ {0}
    /\ \A s \in Sources : PortOf[s] \in Nat \ {0} /\ HashOf[s] \in Nat \ {0}
ASSUME GenAssumption == GenMod \in Nat /\ GenMod % 2 = 0 /\ GenMod > 2
ASSUME BoundsAssumption ==
    Chunks \in Nat \ {0} /\ MaxEvents \in Nat

VARIABLES
    plugged,   \* sources attached to the hub
    inbox,     \* messages of the USB task that wait for the runtime
    rt,        \* the Mirror state of BridgeRuntime
    toDevice,  \* device commands not yet acknowledged, oldest first
    taken,     \* the Device has handled the oldest one in this session
    spi,       \* what the SPI task knows and has not yet reported
    dev,       \* the running Device firmware
    store,     \* the two slots of the profile partition
    events,    \* bound: how many so far
    faults     \* history: the kinds of fault so far

hostVars == <<plugged, inbox, rt>>
linkVars == <<toDevice, taken, spi>>
deviceVars == <<dev, store>>
bounds == <<events, faults>>
vars == <<plugged, inbox, rt, toDevice, taken, spi, dev, store,
          events, faults>>

None == 0     \* no source, no candidate, no profile: the Fallback
Ports == {PortOf[s] : s \in Sources}
Hashes == {HashOf[s] : s \in Sources}
Slots == {1, 2}
Whole(h) == [i \in 1..Chunks |-> <<h, i>>]
Accepted(status) == status \in {"Accepted", "AlreadyStored"}

-----------------------------------------------------------------------------
(* The runtime *)

\* resolve: the one candidate with the stored stable id.
SelectedCandidate(r) ==
    LET same == {p \in Ports : r.mirror # None /\ r.candidate[p] = r.mirror}
    IN  IF Cardinality(same) = 1 THEN CHOOSE p \in same : TRUE ELSE None

\* Every candidate is a physical device here, so a second device on the bus
\* makes the Mirror ineffective.
EffectiveCandidate(r) ==
    IF Cardinality(r.devices) <= 1 THEN SelectedCandidate(r) ELSE None

HashAt(r, port) ==
    IF port = None \/ r.candidate[port] = None THEN None
    ELSE HashOf[r.candidate[port]]

Ask(r, port) ==
    IF HashAt(r, port) = None
    THEN [kind |-> "Fallback", hash |-> None, part |-> 0]
    ELSE [kind |-> "Activate", hash |-> HashAt(r, port), part |-> 0]

BeginTransition(r, port) ==
    [rt |-> [r EXCEPT !.wired = "ConnectedNotReady", !.pending = TRUE,
                      !.target = port],
     out |-> <<Ask(r, port)>>]

Nothing(r) == [rt |-> r, out |-> <<>>]

\* Mutant: a transition that is under way is not replaced.
ReconcileUnlessPending(r) ==
    LET desired == EffectiveCandidate(r)
    IN  IF r.selected # "Wired" \/ r.pending \/ r.active = desired
        THEN Nothing(r) ELSE BeginTransition(r, desired)

Reconcile(r) ==
    LET desired == EffectiveCandidate(r)
        current == IF r.pending THEN r.target ELSE r.active
    IN  IF r.selected # "Wired" \/ current = desired THEN Nothing(r)
        ELSE BeginTransition(r, desired)

\* What follows the registration of source s: the selected candidate is
\* activated, and a selected candidate that was replaced is given up.
AfterRegistration(r, s) ==
    LET port == PortOf[s]
        replaced == SelectedCandidate(r) = port /\ r.candidate[port] # s
        next == [r EXCEPT !.candidate[port] = s, !.awaiting = None]
    IN  IF next.selected # "Wired" THEN Nothing(next)
        ELSE IF replaced THEN BeginTransition(next, None)
        ELSE IF EffectiveCandidate(next) = port
             THEN BeginTransition(next, port) ELSE Nothing(next)

\* Mutant: the candidate is registered before its profile is stored.
RegisteredAtOnce(r, s) == AfterRegistration(r, s)

Registered(r, s) ==
    IF r.result.hash = HashOf[s] /\ Accepted(r.result.status)
    THEN AfterRegistration(r, s)
    ELSE Nothing([r EXCEPT !.awaiting = s])

ClearSource(r, s) ==
    [r EXCEPT !.candidate = [p \in Ports |-> IF @[p] = s THEN None ELSE @[p]]]

SourceDisconnected(r, s) ==
    Reconcile([ClearSource(r, s) EXCEPT
                 !.awaiting = IF @ = s THEN None ELSE @])

InterfaceDisconnected(r, s) ==
    Reconcile(ClearSource([r EXCEPT !.devices = @ \ {s}], s))

DeviceProfileResult(r, result) ==
    LET next == [r EXCEPT !.result = result]
    IN  IF r.awaiting = None \/ result.hash # HashOf[r.awaiting]
        THEN Nothing(next)
        ELSE IF Accepted(result.status) THEN AfterRegistration(next, r.awaiting)
        ELSE Nothing([next EXCEPT !.awaiting = None])

DeviceUsbState(r, state) ==
    LET expected == IF r.pending THEN r.target
                    ELSE IF r.selected = "Wired" THEN EffectiveCandidate(r)
                    ELSE None
    IN  IF ~state.configured
        THEN Nothing([r EXCEPT !.active = None, !.wired = "ConnectedNotReady"])
        ELSE IF state.hash = HashAt(r, expected)
        THEN Nothing([r EXCEPT !.pending = FALSE, !.target = None,
                        !.active = IF r.selected = "Wired" THEN expected
                                   ELSE None,
                        !.wired = "Ready"])
        ELSE [rt |-> [r EXCEPT !.pending = TRUE, !.target = expected,
                               !.active = None, !.wired = "ConnectedNotReady"],
              out |-> <<Ask(r, expected)>>]

WiredAvailabilityChanged(r, availability) ==
    [r EXCEPT !.wired = IF availability = "Ready" /\ r.pending
                        THEN "ConnectedNotReady" ELSE availability]

\* ActivateWired holds the Wired target until the Device reports the wanted
\* presentation; EnsureFallback only notes the transition.
SelectOutputTarget(r, target) ==
    IF r.selected = target THEN Nothing(r)
    ELSE IF target = "Wired"
    THEN [rt |-> [r EXCEPT !.selected = "Wired", !.pending = TRUE,
                           !.target = EffectiveCandidate(r),
                           !.wired = IF @ = "Unavailable" THEN @
                                     ELSE "ConnectedNotReady"],
          out |-> <<Ask(r, EffectiveCandidate(r))>>]
    ELSE [rt |-> [r EXCEPT !.selected = "Ble", !.pending = TRUE,
                           !.target = None, !.active = None],
          out |-> <<Ask(r, None)>>]

SetMirrorTarget(r, port) ==
    IF r.candidate[port] = None THEN Nothing(r)
    ELSE LET next == [r EXCEPT !.mirror = r.candidate[port]]
         IN  IF next.selected = "Wired"
             THEN BeginTransition(next, EffectiveCandidate(next))
             ELSE Nothing(next)

ClearMirrorTarget(r) ==
    LET next == [r EXCEPT !.mirror = None]
    IN  IF next.selected = "Wired" THEN BeginTransition(next, None)
        ELSE Nothing(next)

Become(effect) ==
    \E e \in {effect} : rt' = e.rt /\ toDevice' = toDevice \o e.out

-----------------------------------------------------------------------------
(* The profile store: an image slot and a metadata sector per profile.     *)
(* <<>> is an erased or half-written image, gen = 0 and hash = None is a    *)
(* sector without the commit marker.                                       *)

Valid(st) == {k \in Slots : st[k].hash # None}

NewerOrEqual(a, b) == (a - b) % GenMod < GenMod \div 2

\* active: the slot with the newer generation, None when there is none.
ActiveSlot(st) ==
    IF Valid(st) = {} THEN None
    ELSE IF Cardinality(Valid(st)) = 1 THEN CHOOSE k \in Valid(st) : TRUE
    ELSE IF NewerOrEqual(st[1].gen, st[2].gen) THEN 1 ELSE 2

\* find: slot A before slot B.
Find(st, h) ==
    LET same == {k \in Valid(st) : st[k].hash = h}
    IN  IF same = {} THEN None ELSE CHOOSE k \in same : \A j \in same : k <= j

\* Mutant: the profile is written over the newest one.
CommitStepsInPlace(st, h, image) ==
    LET slot == IF ActiveSlot(st) = None THEN 1 ELSE ActiveSlot(st)
        gen == (st[slot].gen + 1) % GenMod
    IN  <<st, [st EXCEPT ![slot].image = <<>>],
          [st EXCEPT ![slot] = [gen |-> gen, hash |-> h, image |-> image]]>>

\* The states commit takes the store through: the image of the other slot is
\* erased, written and read back; its metadata is erased, written and, last,
\* given the commit marker.
CommitSteps(st, h, image) ==
    LET newest == ActiveSlot(st)
        slot == IF newest = None THEN 1 ELSE 3 - newest
        gen == IF newest = None THEN 1 ELSE (st[newest].gen + 1) % GenMod
    IN  <<st,
          [st EXCEPT ![slot].image = <<>>],
          [st EXCEPT ![slot].image = image],
          [st EXCEPT ![slot] = [gen |-> 0, hash |-> None, image |-> image]],
          [st EXCEPT ![slot] = [gen |-> gen, hash |-> h, image |-> image]]>>

AlreadyStored(st, h, image) ==
    /\ ActiveSlot(st) # None
    /\ st[ActiveSlot(st)].hash = h
    /\ image = Whole(h)

-----------------------------------------------------------------------------
(* The Device firmware *)

NoResult == [hash |-> None, transfer |-> None, status |-> "None"]
Idle == [hash |-> None, image |-> <<>>]

\* The firmware after a reset that asked for profile h: the stored image is
\* read back and its checksum compared, anything else is the Fallback.
Booted(st, h) ==
    LET slot == Find(st, h)
        found == h # None /\ slot # None
    IN  [hash |-> IF found /\ st[slot].image = Whole(h) THEN h ELSE None,
         image |-> IF found /\ st[slot].image = Whole(h) THEN st[slot].image
                   ELSE <<>>,
         configured |-> FALSE, dirty |-> TRUE, receiving |-> Idle,
         cache |-> NoResult, result |-> NoResult, finished |-> None]

Failure(transfer, hash, status) ==
    [hash |-> hash, transfer |-> transfer, status |-> status]

\* ProfileTransferReceiver::begin; the cache of the last commit is dropped.
Begin(d, h) ==
    LET next == [d EXCEPT !.cache = NoResult, !.finished = None]
    IN  IF d.receiving # Idle
        THEN [next EXCEPT !.result = Failure(h, h, "Busy")]
        ELSE [next EXCEPT !.receiving = [hash |-> h, image |-> <<>>]]

Chunk(d, h, i) ==
    LET next == Len(d.receiving.image) + 1
    IN  IF d.receiving.hash # h
        THEN [d EXCEPT !.result = Failure(h, None, "InvalidImage")]
        ELSE IF i > next
        THEN [d EXCEPT !.result = Failure(h, None, "InvalidImage"),
                       !.receiving = Idle]
        ELSE IF i < next THEN d
        ELSE [d EXCEPT !.receiving.image = Append(@, <<h, i>>)]

Complete(d, h) == d.receiving.hash = h /\ d.receiving.image = Whole(h)

\* receiver.commit when there is nothing to store: the transfer is given up.
CommitFails(d, h) ==
    LET answer == IF d.receiving.hash = h \/ d.receiving = Idle
                  THEN Failure(h, d.receiving.hash, "InvalidImage")
                  ELSE Failure(h, d.receiving.hash, "Busy")
    IN  [d EXCEPT !.receiving = Idle, !.cache = answer, !.result = answer]

CommitAnswers(d, h, status) ==
    LET answer == Failure(h, h, status)
    IN  [d EXCEPT !.receiving = Idle, !.cache = answer, !.result = answer,
                  !.finished = IF Accepted(status) THEN h ELSE @]

-----------------------------------------------------------------------------
Init ==
    /\ plugged = {} /\ inbox = <<>>
    /\ rt = [devices |-> {}, candidate |-> [p \in Ports |-> None],
             awaiting |-> None, result |-> NoResult, selected |-> "Wired",
             mirror |-> None, wired |-> "Unavailable", pending |-> FALSE,
             target |-> None, active |-> None]
    /\ toDevice = <<>> /\ taken = FALSE
    /\ spi = [available |-> "Unavailable", reported |-> "None",
              states |-> <<>>, results |-> <<>>]
    /\ store = [k \in Slots |-> [gen |-> 0, hash |-> None, image |-> <<>>]]
    /\ dev = Booted(store, None)
    /\ events = 0 /\ faults = {}

-----------------------------------------------------------------------------
Event == events < MaxEvents /\ events' = events + 1
Fault(kind) == Event /\ faults' = faults \cup {kind}

(* The USB task *)

Command(kind, h, i) == [kind |-> kind, hash |-> h, part |-> i]

ProfileTransfer(h) ==
    <<Command("Begin", h, 0)>>
        \o [i \in 1..Chunks |-> Command("Chunk", h, i)]
        \o <<Command("Commit", h, 0)>>

Message(kind, s) == [kind |-> kind, source |-> s]

\* What the USB task sends for an attached device: its interfaces, the encoded
\* profile (one message here) and, last, the candidate.
Captured(s) ==
    <<Message("Connected", s), Message("Transfer", s), Message("Registered", s)>>

Plug(s) ==
    /\ Event /\ UNCHANGED faults
    /\ \A other \in plugged : PortOf[other] # PortOf[s]
    /\ plugged' = plugged \cup {s}
    /\ inbox' = inbox \o Captured(s)
    /\ UNCHANGED <<rt, linkVars, deviceVars>>

Unplug(s) ==
    /\ Event /\ UNCHANGED faults
    /\ s \in plugged
    /\ plugged' = plugged \ {s}
    /\ inbox' = inbox \o
         <<Message("SourceGone", s), Message("Removed", s)>>
    /\ UNCHANGED <<rt, linkVars, deviceVars>>

\* The runtime handles the oldest message of the USB task.
RuntimeReceives ==
    /\ inbox # <<>>
    /\ LET m == Head(inbox)
           s == m.source
       IN  Become(CASE m.kind = "Transfer" ->
                         [rt |-> rt, out |-> ProfileTransfer(HashOf[s])]
                    [] m.kind = "Connected" ->
                         IF s \in rt.devices THEN Nothing(rt)
                         ELSE Reconcile([rt EXCEPT !.devices = @ \cup {s}])
                    [] m.kind = "Registered" -> Registered(rt, s)
                    [] m.kind = "SourceGone" -> SourceDisconnected(rt, s)
                    [] m.kind = "Removed" -> InterfaceDisconnected(rt, s))
    /\ inbox' = Tail(inbox)
    /\ UNCHANGED <<plugged, taken, spi, deviceVars, bounds>>

(* Management requests and target changes *)

Request(effect) ==
    /\ Event /\ UNCHANGED faults
    /\ Become(effect)
    /\ UNCHANGED <<plugged, inbox, taken, spi, deviceVars>>

Select(target) == rt.selected # target /\ Request(SelectOutputTarget(rt, target))

SetMirror(port) ==
    rt.candidate[port] # None /\ Request(SetMirrorTarget(rt, port))

ClearMirror == rt.mirror # None /\ Request(ClearMirrorTarget(rt))

(* The SPI task *)

Unacknowledged == IF taken THEN Tail(toDevice) ELSE toDevice

\* The head of the loop sends what it knows to the runtime, without awaiting in
\* between: a changed availability, a profile result and a USB state.
ReportToRuntime ==
    /\ \/ spi.reported # spi.available
       \/ spi.results # <<>> \/ spi.states # <<>>
    /\ \E known \in {IF spi.reported = spi.available THEN rt
                     ELSE WiredAvailabilityChanged(rt, spi.available)} :
       \E answered \in {IF spi.results = <<>> THEN Nothing(known)
                        ELSE DeviceProfileResult(known, Head(spi.results))} :
       \E effect \in {IF spi.states = <<>> THEN Nothing(answered.rt)
                      ELSE DeviceUsbState(answered.rt, Head(spi.states))} :
          /\ rt' = effect.rt
          /\ toDevice' = toDevice \o answered.out \o effect.out
    /\ spi' = [spi EXCEPT !.reported = spi.available,
                          !.states = <<>>, !.results = <<>>]
    /\ UNCHANGED <<plugged, inbox, taken, deviceVars, bounds>>

\* An exchange of cells brings the Device one command and the Host what the
\* Device has to tell: its USB state, the answer to a transfer and the
\* acknowledgement of the command before.  The SPI task keeps one of each.
Told ==
    [spi EXCEPT
       !.states = IF dev.dirty THEN <<[hash |-> dev.hash,
                                       configured |-> dev.configured]>>
                  ELSE @,
       !.available = IF ~dev.dirty THEN @
                     ELSE IF dev.configured THEN "Ready"
                     ELSE "ConnectedNotReady",
       !.results = IF dev.result # NoResult THEN <<dev.result>> ELSE @]

Sent == [dev EXCEPT !.dirty = FALSE, !.result = NoResult]

ExchangeWithoutCommand ==
    /\ dev.dirty \/ dev.result # NoResult \/ taken
    /\ dev' = Sent /\ spi' = Told
    /\ toDevice' = Unacknowledged
    /\ taken' = FALSE
    /\ UNCHANGED <<hostVars, store, bounds>>

(* The main loop of the Device firmware *)

HasNext == Unacknowledged # <<>>
NextCommand == Head(Unacknowledged)

Handled(next) ==
    /\ dev' = next /\ spi' = Told
    /\ toDevice' = Unacknowledged
    /\ taken' = TRUE

\* The Device starts again while it handles a command: in the new session the
\* Host repeats what was not acknowledged.
BootsHandling(st, h) ==
    /\ dev' = Booted(st, h)
    /\ spi' = [Told EXCEPT !.available = "Unavailable"]
    /\ toDevice' = Unacknowledged
    /\ taken' = FALSE

DeviceReceivesProfile ==
    /\ HasNext
    /\ NextCommand.kind \in {"Begin", "Chunk"}
    /\ Handled(IF NextCommand.kind = "Begin" THEN Begin(Sent, NextCommand.hash)
               ELSE Chunk(Sent, NextCommand.hash, NextCommand.part))
    /\ UNCHANGED <<hostVars, store, bounds>>

Replays(d, h) == d.cache.transfer = h

DeviceCommits ==
    /\ HasNext
    /\ NextCommand.kind = "Commit"
    /\ LET h == NextCommand.hash
           image == dev.receiving.image
           steps == CommitSteps(store, h, image)
       IN  IF Replays(dev, h)
           THEN /\ Handled([Sent EXCEPT !.result = dev.cache])
                /\ UNCHANGED <<store, bounds>>
           ELSE IF ~Complete(dev, h)
           THEN Handled(CommitFails(Sent, h)) /\ UNCHANGED <<store, bounds>>
           ELSE IF AlreadyStored(store, h, image)
           THEN /\ Handled(CommitAnswers(Sent, h, "AlreadyStored"))
                /\ UNCHANGED <<store, bounds>>
           ELSE \/ /\ store' = steps[Len(steps)]
                   /\ Handled(CommitAnswers(Sent, h, "Accepted"))
                   /\ UNCHANGED bounds
                \/ \E k \in 1..(Len(steps) - 1) :  \* the flash reports an error
                      /\ Fault("Flash")
                      /\ store' = steps[k]
                      /\ Handled(CommitAnswers(Sent, h, "StorageError"))
                \/ \E k \in 1..Len(steps) :        \* the power fails
                      /\ Fault("Device")
                      /\ store' = steps[k]
                      /\ BootsHandling(steps[k], None)
    /\ UNCHANGED <<hostVars>>

MayActivate(d, st, h) == h # d.hash /\ Find(st, h) # None

DeviceActivates ==
    /\ HasNext
    /\ NextCommand.kind = "Activate"
    /\ IF MayActivate(dev, store, NextCommand.hash)
       THEN BootsHandling(store, NextCommand.hash) ELSE Handled(Sent)
    /\ UNCHANGED <<hostVars, store, bounds>>

ForceFallback(d) == [d EXCEPT !.dirty = TRUE]

DeviceFallsBack ==
    /\ HasNext
    /\ NextCommand.kind = "Fallback"
    /\ IF dev.hash # None THEN BootsHandling(store, None)
       ELSE Handled(ForceFallback(Sent))
    /\ UNCHANGED <<hostVars, store, bounds>>

ComputerConfigures ==
    /\ ~dev.configured
    /\ dev' = [dev EXCEPT !.configured = TRUE, !.dirty = TRUE]
    /\ UNCHANGED <<hostVars, linkVars, store, bounds>>

(* Faults *)

ComputerSuspends ==
    /\ Fault("Computer")
    /\ dev.configured
    /\ dev' = [dev EXCEPT !.configured = FALSE, !.dirty = TRUE]
    /\ UNCHANGED <<hostVars, linkVars, store>>

\* The watchdog, a fatal error or the power restart the Device.
DeviceRestarts ==
    /\ Fault("Device")
    /\ dev' = Booted(store, None)
    /\ taken' = FALSE
    /\ spi' = [spi EXCEPT !.available = "Unavailable"]
    /\ UNCHANGED <<hostVars, toDevice, store>>

\* Mutant: the transfer in progress survives the session of its sender.
SessionKeeps(d) == [d EXCEPT !.dirty = TRUE]

\* A new Host session: the transfer in progress and the answer not yet sent
\* are dropped, the state is sent with the HELLO_ACK.
SessionChanged(d) ==
    [d EXCEPT !.receiving = Idle, !.result = NoResult, !.dirty = TRUE]

LinkResets ==
    /\ Fault("Link")
    /\ dev' = SessionChanged(dev)
    /\ taken' = FALSE
    /\ spi' = [spi EXCEPT !.available = "Unavailable"]
    /\ UNCHANGED <<hostVars, toDevice, store>>

\* The Host firmware restarts with the stored selections and enumerates the
\* attached devices again.
HostRestarts ==
    /\ Fault("Host")
    /\ rt' = [devices |-> {}, candidate |-> [p \in Ports |-> None],
              awaiting |-> None, result |-> NoResult,
              selected |-> rt.selected, mirror |-> rt.mirror,
              wired |-> "Unavailable", pending |-> FALSE, target |-> None,
              active |-> None]
    /\ inbox' = FlattenSeq([i \in 1..Cardinality(plugged) |->
                             Captured(SetToSortSeq(plugged, <)[i])])
    /\ toDevice' = <<>> /\ taken' = FALSE
    /\ spi' = [available |-> "Unavailable", reported |-> "None",
               states |-> <<>>, results |-> <<>>]
    /\ dev' = SessionChanged(dev)
    /\ UNCHANGED <<plugged, store>>

-----------------------------------------------------------------------------
DeviceStep ==
    \/ DeviceReceivesProfile \/ DeviceCommits \/ DeviceActivates
    \/ DeviceFallsBack

System ==
    \/ RuntimeReceives \/ ReportToRuntime
    \/ ExchangeWithoutCommand
    \/ DeviceStep
    \/ ComputerConfigures

Next ==
    \/ System
    \/ \E s \in Sources : Plug(s) \/ Unplug(s)
    \/ \E target \in {"Wired", "Ble"} : Select(target)
    \/ \E p \in Ports : SetMirror(p)
    \/ ClearMirror
    \/ ComputerSuspends \/ DeviceRestarts \/ LinkResets \/ HostRestarts

Safety == Init /\ [][Next]_vars

\* The loops of both chips and the computer keep going.
Spec == Safety /\ WF_vars(System)

-----------------------------------------------------------------------------
(* Properties *)

Wanted(r) == IF r.selected = "Wired" THEN HashAt(r, EffectiveCandidate(r)) ELSE None

Readable(st, h) == Find(st, h) # None /\ st[Find(st, h)].image = Whole(h)

TypeOK ==
    /\ plugged \subseteq Sources
    /\ rt.devices \subseteq Sources
    /\ rt.candidate \in [Ports -> Sources \cup {None}]
    /\ {rt.awaiting, rt.mirror} \subseteq Sources \cup {None}
    /\ {rt.target, rt.active} \subseteq Ports \cup {None}
    /\ rt.wired \in {"Ready", "ConnectedNotReady", "Unavailable"}
    /\ rt.selected \in {"Wired", "Ble"} /\ rt.pending \in BOOLEAN
    /\ taken \in BOOLEAN /\ (taken => toDevice # <<>>)
    /\ \A k \in Slots : store[k].gen \in 0..(GenMod - 1)
                           /\ store[k].hash \in Hashes \cup {None}
    /\ dev.hash \in Hashes \cup {None}

\* A commit that is repeated because the link lost its acknowledgement is
\* answered as the first time: what was stored is never reported as invalid.
\* And the profile stored last can be read back at any moment: neither a power
\* failure nor a flash error during a later commit reaches its slot.
NewestProfileReadable ==
    /\ TypeOK
    /\ LET newest == ActiveSlot(store)
       IN  newest # None => store[newest].image = Whole(store[newest].hash)
    /\ dev.finished # None /\ dev.cache.transfer = dev.finished
          => Accepted(dev.cache.status)

\* Without a fault, a profile that the Device is asked to present is stored and
\* readable: the runtime waits for the answer to its transfer.
ActivatedIsStored ==
    \A i \in DOMAIN toDevice :
        toDevice[i].kind = "Activate" /\ faults = {}
            => Readable(store, toDevice[i].hash)

\* In the end the computer sees what the selections ask for, whatever was
\* attached, selected or restarted meanwhile, unless a flash error or a loss of
\* power took the profile from the store.
WantedIsShown ==
    []<>(\/ dev.hash = Wanted(rt)
         \/ Wanted(rt) # None /\ ~Readable(store, Wanted(rt)))

\* The only device on the bus becomes a candidate, also when its attachment
\* meets a restart of the Host in the middle of an earlier transfer; only the
\* Device or the link being reset can lose its transfer.
OnlyDeviceIsCandidate ==
    \A s \in Sources :
        (plugged = {s} /\ rt.awaiting = s /\ inbox = <<>>)
            ~> \/ rt.candidate[PortOf[s]] = s
               \/ plugged # {s}
               \/ faults \cap {"Device", "Link", "Flash"} # {}

=============================================================================
