---------------------------- MODULE BridgeProofs ----------------------------
(***************************************************************************)
(* Which target the bridge routes to and what the others have been told,   *)
(* for every number of hosts, interfaces and controls, in both builds.     *)
(***************************************************************************)
EXTENDS Bridge, NaturalsInduction, WellFoundedInduction, FiniteSetTheorems, TLAPS

(* Host ids, Wired and None are told apart. *)
LEMMA TargetsApart ==
    /\ HostCount \in Nat \ {0}
    /\ Hosts \subseteq Nat \ {0} /\ Hosts \subseteq Targets /\ Wired \in Targets
    /\ None \notin Targets /\ Wired \notin Hosts /\ Wired # None
BY HostCountAssumption DEF Hosts, Wired, None, Targets

(* A control belongs to one report kind. *)
LEMMA OneKind ==
    ASSUME NEW c \in Controls
    PROVE  \E k \in {"Keyboard", "Mouse", "Consumer"} :
              /\ \A kinds : c \in Of(kinds) <=> k \in kinds
              /\ c \in Usages <=> k = "Consumer"
              /\ c \in Keys => k = "Keyboard"
BY ControlsAssumption DEF Controls, Of

(* Reports carry controls only, and more kinds carry more. *)
LEMMA Carries ==
    /\ \A kinds : Of(kinds) \subseteq Controls
    /\ \A kinds, more : kinds \subseteq more => Of(kinds) \subseteq Of(more)
    /\ Of({}) = {}
BY DEF Of, Controls

(* A non-empty set of slots has a first one. *)
LEMMA FirstSlot ==
    ASSUME NEW S \in SUBSET Nat, S # {}
    PROVE  \E s \in S : \A r \in S : s <= r
<1>1. PICK s \in S : \A r \in S : <<r, s>> \notin OpToRel(<, Nat)
    BY NatLessThanWellFounded, WFMin, Zenon
<1>2. ASSUME NEW r \in S PROVE s <= r
  <2>1. r \in Nat /\ s \in Nat /\ ~(r < s)
    BY <1>1 DEF OpToRel
  <2> QED
    BY <2>1
<1> QED
    BY <1>2

(* While a host is not in the table, the table has a free slot (upsert). *)
LEMMA FreeSlot ==
    ASSUME NEW hs \in HostTables, NEW h \in Hosts, ~Registered(hs, h)
    PROVE  FirstFree(hs) \in Hosts /\ hs.table[FirstFree(hs)] = None
<1> DEFINE Free == {s \in Hosts : hs.table[s] = None}
<1>0. hs.table \in [Hosts -> Hosts \cup {None}]
    BY DEF HostTables
<1>1. Free # {}
  <2> SUFFICES ASSUME Free = {} PROVE FALSE
    OBVIOUS
  <2>1. hs.table \in [Hosts -> Hosts \ {h}]
    BY <1>0 DEF Registered
  <2>2. IsFiniteSet(Hosts)
    BY HostCountAssumption, FS_Interval DEF Hosts
  <2>3. /\ IsFiniteSet(Hosts \ {h}) /\ Cardinality(Hosts) \in Nat
        /\ Cardinality(Hosts \ {h}) = Cardinality(Hosts) - 1
    BY <2>2, FS_RemoveElement, FS_CardinalityType
  <2>4. Cardinality(Hosts \ {h}) < Cardinality(Hosts)
    BY <2>3
  <2>5. PICK r, s \in Hosts : r # s /\ hs.table[r] = hs.table[s]
    BY <2>1, <2>2, <2>3, <2>4, FS_PigeonHole
  <2> QED
    BY <2>5 DEF HostTables
<1>2. PICK s \in Free : \A r \in Free : s <= r
    BY <1>1, FirstSlot, TargetsApart
<1>3. /\ s \in Hosts /\ hs.table[s] = None
      /\ \A r \in Hosts : r < s => hs.table[r] # None
    BY <1>2, TargetsApart
<1> QED
    BY <1>3 DEF FirstFree

(* upsert keeps one slot for every host, and everything else. *)
LEMMA Upserting ==
    ASSUME NEW hs \in HostTables, NEW h \in Hosts
    PROVE  /\ Upsert(hs, h) \in HostTables
           /\ Upsert(hs, h).active = hs.active /\ Upsert(hs, h).ready = hs.ready
           /\ Upsert(hs, h).connected = hs.connected
<1>1. CASE Registered(hs, h)
    BY <1>1 DEF Upsert
<1>2. CASE ~Registered(hs, h)
  <2>1. FirstFree(hs) \in Hosts
    BY <1>2, FreeSlot
  <2>2. Upsert(hs, h) = [hs EXCEPT !.table[FirstFree(hs)] = h]
    BY <1>2 DEF Upsert
  <2>3. \A s \in Hosts : hs.table[s] # h
    BY <1>2 DEF Registered
  <2> QED
    BY <2>1, <2>2, <2>3 DEF HostTables
<1> QED
    BY <1>1, <1>2

(* The handlers of the host table keep its shape: on_connected, ... *)
LEMMA Connecting ==
    ASSUME NEW hs \in HostTables, NEW h \in Hosts
    PROVE  /\ OnConnected(hs, h) \in HostTables
           /\ OnConnected(hs, h).active = hs.active
<1>1. PICK u \in HostTables : u = Upsert(hs, h) /\ u.active = hs.active
    BY Upserting
<1>2. OnConnected(hs, h) = [u EXCEPT !.connected = @ \cup {h}, !.ready[h] = {}]
    BY <1>1 DEF OnConnected
<1>3. OnConnected(hs, h) = [active |-> u.active, table |-> u.table,
         connected |-> u.connected \cup {h}, ready |-> [u.ready EXCEPT ![h] = {}]]
    BY <1>2 DEF HostTables
<1>4. [u.ready EXCEPT ![h] = {}] \in [Hosts -> SUBSET Kinds]
    BY DEF HostTables
<1>5. /\ OnConnected(hs, h).table = u.table /\ OnConnected(hs, h).active = u.active
    BY <1>3
<1> QED
    BY <1>1, <1>3, <1>4, <1>5 DEF HostTables

(* ... on_disconnected for the hosts that are gone, ... *)
LEMMA Disconnecting ==
    ASSUME NEW hs \in HostTables, NEW gone \in SUBSET Hosts
    PROVE  /\ OnDisconnected(hs, gone) \in HostTables
           /\ OnDisconnected(hs, gone).active = hs.active
           /\ \A g \in Hosts : OnDisconnected(hs, gone).ready[g] =
                 IF g \in gone THEN {} ELSE hs.ready[g]
BY DEF OnDisconnected, HostTables

(* ... the changes of what a host accepts, ... *)
LEMMA Subscribing ==
    ASSUME NEW hs \in HostTables, NEW h \in Hosts, NEW kinds \in SUBSET Kinds
    PROVE  /\ [Upsert(hs, h) EXCEPT !.ready[h] = kinds] \in HostTables
           /\ [Upsert(hs, h) EXCEPT !.ready[h] = kinds].active = hs.active
BY Upserting DEF HostTables

(* ... and remove_host. *)
LEMMA Removing ==
    ASSUME NEW hs \in HostTables, NEW h \in Hosts
    PROVE  /\ RemoveHost(hs, h) \in HostTables
           /\ RemoveHost(hs, h).active = IF hs.active = h THEN None ELSE hs.active
           /\ \A g \in Hosts : RemoveHost(hs, h).ready[g] =
                 IF g = h THEN {} ELSE hs.ready[g]
<1>1. PICK u \in HostTables :
         /\ u = OnDisconnected(hs, {h}) /\ u.active = hs.active
         /\ \A g \in Hosts : u.ready[g] = IF g = h THEN {} ELSE hs.ready[g]
    BY Disconnecting
<1> DEFINE table == [s \in Hosts |-> IF u.table[s] = h THEN None ELSE u.table[s]]
           active == IF u.active = h THEN None ELSE u.active
<1>2. RemoveHost(hs, h) =
        [u EXCEPT !.table = [s \in Hosts |-> IF @[s] = h THEN None ELSE @[s]],
                  !.active = IF @ = h THEN None ELSE @]
    BY <1>1 DEF RemoveHost
<1>3. RemoveHost(hs, h) = [active |-> active, table |-> table,
                           connected |-> u.connected, ready |-> u.ready]
    BY <1>2 DEF HostTables
<1>4. table \in [Hosts -> Hosts \cup {None}] /\ active \in Hosts \cup {None}
    BY DEF HostTables
<1>5. \A r, s \in Hosts : table[r] = table[s] /\ r # s => table[s] = None
    BY DEF HostTables
<1>6. active = IF hs.active = h THEN None ELSE hs.active
    BY <1>1
<1>7. u.connected \in SUBSET Hosts /\ u.ready \in [Hosts -> SUBSET Kinds]
    BY DEF HostTables
<1> HIDE DEF table, active
<1>8. /\ RemoveHost(hs, h).active = active /\ RemoveHost(hs, h).table = table
      /\ RemoveHost(hs, h).ready = u.ready
    BY <1>3
<1>9. RemoveHost(hs, h) \in HostTables
    BY <1>3, <1>4, <1>5, <1>7, <1>8 DEF HostTables
<1> QED
    BY <1>1, <1>6, <1>8, <1>9

(* next_target_after finds a candidate, or none. *)
LEMMA NextTargetFound ==
    ASSUME NEW hs \in HostTables, NEW current, NEW candidates \in SUBSET Hosts
    PROVE  NextTargetAfter(hs, current, candidates) \in candidates \cup {None}
<1> DEFINE slots == {s \in Hosts : hs.table[s] \in candidates}
           behind == {s \in slots : \E r \in slots : hs.table[r] = current /\ r < s}
           S == IF behind = {} THEN slots ELSE behind
           First == CHOOSE s \in S : \A r \in S : s <= r
<1>1. NextTargetAfter(hs, current, candidates) =
         IF slots = {} THEN None ELSE hs.table[First]
    BY DEF NextTargetAfter
<1>2. CASE slots = {}
    BY <1>1, <1>2
<1>3. CASE slots # {}
  <2>1. S \in SUBSET Nat /\ S # {} /\ S \subseteq slots
    BY <1>3, TargetsApart
  <2>2. \E s \in S : \A r \in S : s <= r
    BY <2>1, FirstSlot
  <2>3. First \in S
    BY <2>2
  <2> HIDE DEF S, First
  <2>4. hs.table[First] \in candidates
    BY <2>1, <2>3
  <2> HIDE DEF slots
  <2> QED
    BY <1>1, <1>3, <2>4
<1> QED
    BY <1>2, <1>3

(* A position in the cycle of computers. *)
LEMMA InCycle ==
    ASSUME NEW n \in Nat, NEW i \in Nat
    PROVE  i % (n + 1) \in 0 .. n
OBVIOUS

(* next_ready_output_target finds a target, or none. *)
LEMMA NextReadyTyped ==
    ASSUME NEW hs \in HostTables, NEW selected \in Targets, wired_ble_host \in Hosts \cup {None}
    PROVE  NextReadyOutputTarget(hs, selected) \in Targets \cup {None}
<1> DEFINE start == IF selected = wired_ble_host THEN 0 ELSE selected
           At(offset) == ComputerAt(hs, (start + offset) % (HostCount + 1))
           ready == {o \in 1 .. HostCount : At(o) # None}
           First == CHOOSE o \in ready : \A p \in ready : o <= p
<1>1. NextReadyOutputTarget(hs, selected) = IF ready = {} THEN None ELSE At(First)
    BY DEF NextReadyOutputTarget
<1>2. start \in Nat
    BY TargetsApart DEF Targets, Wired
<1>3. ASSUME NEW o \in 1 .. HostCount PROVE At(o) \in Targets \cup {None}
  <2>1. start + o \in Nat
    BY <1>2, TargetsApart
  <2>2. (start + o) % (HostCount + 1) \in 0 .. HostCount
    BY <2>1, TargetsApart, InCycle
  <2> HIDE DEF start
  <2>3. ASSUME NEW index \in 0 .. HostCount PROVE ComputerAt(hs, index) \in Targets \cup {None}
    BY DEF ComputerAt, Targets, Hosts, Wired, None
  <2> QED
    BY <2>2, <2>3
<1>4. CASE ready # {}
  <2>1. ready \in SUBSET Nat
    BY TargetsApart
  <2>2. First \in ready
    BY <1>4, <2>1, FirstSlot
  <2> HIDE DEF At, First
  <2> QED
    BY <1>1, <1>3, <1>4, <2>2
<1> QED
    BY <1>1, <1>4

(* set_availability and refresh_selected_target_availability. *)
LEMMA Refreshing ==
    ASSUME NEW ot \in OutputTargets, NEW hs \in HostTables,
           wired_availability \in Availabilities, NEW availability \in Availabilities,
           NEW target \in Targets
    PROVE  LET set == SetAvailability([ot EXCEPT !.selected = target], availability)
               refreshed == RefreshSelectedTargetAvailability(
                                [ot EXCEPT !.selected = target], hs)
           IN  /\ set \in OutputTargets /\ set.selected = target
               /\ set.active = IF availability = "Ready" THEN target ELSE None
               /\ refreshed \in OutputTargets /\ refreshed.selected = target
               /\ target = Wired =>
                     refreshed.active = IF wired_availability = "Ready" THEN Wired ELSE None
               /\ target \in Hosts =>
                     refreshed.active = IF "Keyboard" \in hs.ready[target] THEN target ELSE None
<1> DEFINE chosen == [ot EXCEPT !.selected = target]
<1>0. chosen = [selected |-> target, active |-> ot.active, availability |-> ot.availability]
    BY DEF OutputTargets
<1> HIDE DEF chosen
<1>1. ASSUME NEW a \in Availabilities
      PROVE  SetAvailability(chosen, a) =
                [selected |-> target, availability |-> a,
                 active |-> IF a = "Ready" THEN target ELSE None]
  <2>1. chosen.selected = target
    BY <1>0
  <2>2. SetAvailability(chosen, a) =
          [chosen EXCEPT !.availability = a,
                         !.active = IF a = "Ready" THEN target ELSE None]
    BY <2>1 DEF SetAvailability
  <2> QED
    BY <1>0, <2>2
<1>2. ASSUME NEW a \in Availabilities
      PROVE  /\ SetAvailability(chosen, a) \in OutputTargets
             /\ SetAvailability(chosen, a).selected = target
             /\ SetAvailability(chosen, a).active = IF a = "Ready" THEN target ELSE None
  <2> DEFINE active == IF a = "Ready" THEN target ELSE None
  <2>1. active \in Targets \cup {None} /\ active \in {None, target}
    OBVIOUS
  <2>2. SetAvailability(chosen, a) = [selected |-> target, availability |-> a, active |-> active]
    BY <1>1
  <2> HIDE DEF active
  <2>3. SetAvailability(chosen, a) \in OutputTargets
    BY <2>1, <2>2 DEF OutputTargets
  <2> QED
    BY <2>2, <2>3 DEF active
<1> DEFINE value == IF target = Wired THEN wired_availability
                    ELSE IF BleTargetReady(hs, target) THEN "Ready"
                    ELSE IF target \in hs.connected THEN "ConnectedNotReady"
                    ELSE "Unavailable"
<1>3. value \in Availabilities
    BY DEF Availabilities
<1>4. RefreshSelectedTargetAvailability(chosen, hs) = SetAvailability(chosen, value)
    BY <1>0 DEF RefreshSelectedTargetAvailability
<1>5. /\ target = Wired => value = wired_availability
      /\ target \in Hosts => (value = "Ready" <=> "Keyboard" \in hs.ready[target])
    BY TargetsApart DEF BleTargetReady
<1> HIDE DEF value
<1> QED
    BY <1>2, <1>3, <1>4, <1>5 DEF chosen

(* A report changes what its target was told, and only of its kinds. *)
LEMMA Notifying ==
    ASSUME NEW told \in [Targets -> SUBSET Controls], NEW target \in Targets,
           NEW kinds, NEW pressed
    PROVE  /\ Notify(told, target, kinds, pressed) \in [Targets -> SUBSET Controls]
           /\ \A t \in Targets : Notify(told, target, kinds, pressed)[t] =
                 IF t = target THEN (told[t] \ Of(kinds)) \cup (pressed \cap Of(kinds))
                 ELSE told[t]
BY Carries DEF Notify

(* A host forgets the reports it no longer receives. *)
LEMMA Forgetting ==
    ASSUME NEW told \in [Targets -> SUBSET Controls], NEW hs \in HostTables
    PROVE  /\ Forget(told, hs) \in [Targets -> SUBSET Controls]
           /\ Forget(told, hs)[Wired] = told[Wired]
           /\ \A h \in Hosts : Forget(told, hs)[h] = told[h] \cap Of(hs.ready[h])
BY TargetsApart DEF Forget

(* Aggregation adds nothing that is not held. *)
LEMMA Aggregating ==
    ASSUME NEW entries \in [Interfaces -> SUBSET Controls], NEW order
    PROVE  /\ Aggregate(entries, order) \subseteq PhysicallyHeld(entries)
           /\ PhysicallyHeld(entries) \subseteq Controls
           /\ PhysicallyHeld(entries) \ Usages \subseteq Aggregate(entries, order)
BY DEF Aggregate, PhysicallyHeld

(* Renumbered generations are numbers. *)
LEMMA Renumbering ==
    ASSUME NEW order, NEW kept \in SUBSET Interfaces
    PROVE  Renumbered(order, kept) \in [Interfaces -> Nat] /\ Cardinality(kept) \in Nat
<1>1. ASSUME NEW S \in SUBSET Interfaces PROVE Cardinality(S) \in Nat
    BY InterfacesAssumption, FS_Subset, FS_CardinalityType
<1>2. Cardinality(kept) \in Nat
    BY <1>1
<1>3. ASSUME NEW i \in Interfaces
      PROVE  Cardinality({j \in kept : order[j] <= order[i]}) \in Nat
    BY <1>1
<1> QED
    BY <1>2, <1>3 DEF Renumbered

-----------------------------------------------------------------------------
(* What a target that is left still believes, by build. *)
StillHeld(h, told) == told[h] \cap (IF Dual THEN Of({"Keyboard"}) ELSE Controls)

(* A target that takes no keyboard reports holds no key. *)
LEMMA NoKeys ==
    ASSUME NEW kinds, "Keyboard" \notin kinds
    PROVE  Of(kinds) \cap Of({"Keyboard"}) = {}
BY ControlsAssumption DEF Of

(* The active target is the selected one, or none. *)
LEMMA RoutesToSelected ==
    ASSUME TypeOK
    PROVE  /\ Active \in {None, Selected} /\ Selected \in Targets \cup {None}
           /\ Active \in Targets \cup {None}
           /\ Active \in Hosts => ReadyKinds = hosts.ready[Active]
           /\ Active = None => ReadyKinds = {}
BY TargetsApart DEF TypeOK, HostTables, OutputTargets, Active, Selected, ReadyKinds, Targets

(* push_release_reports: after it no host holds anything it was sent. *)
LEMMA Releasing ==
    ASSUME RoutingInv
    PROVE  LET after == Released(hosts, output_target, seen)
           IN  /\ after \in [Targets -> SUBSET Controls]
               /\ \A h \in Hosts : after[h] \subseteq seen[h]
               /\ \A h \in Hosts : StillHeld(h, after) = {}
               /\ ~Dual => after[Wired] = seen[Wired]
<1> DEFINE previous == IF Dual THEN output_target.active ELSE hosts.active
           kinds == IF previous = Wired THEN Kinds ELSE hosts.ready[previous]
           after == Released(hosts, output_target, seen)
<1>0. /\ seen \in [Targets -> SUBSET Controls] /\ hosts \in HostTables
      /\ output_target \in OutputTargets
    BY DEF RoutingInv, TypeOK
<1>1. /\ previous \in Targets \cup {None} /\ (~Dual => previous # Wired)
      /\ Dual => previous \in {None, output_target.selected}
    BY <1>0, TargetsApart DEF HostTables, OutputTargets, Targets
<1>2. after = IF previous = None \/ (previous = Wired /\ pending) THEN seen
              ELSE Notify(seen, previous, kinds, {})
    BY DEF Released
<1>3. /\ after \in [Targets -> SUBSET Controls]
      /\ \A t \in Targets : after[t] \subseteq seen[t]
      /\ \A t \in Targets : t # previous => after[t] = seen[t]
  <2>1. CASE previous = None \/ (previous = Wired /\ pending)
    BY <1>0, <1>2, <2>1
  <2>2. CASE ~(previous = None \/ (previous = Wired /\ pending))
    <3>1. after = Notify(seen, previous, kinds, {}) /\ previous \in Targets
      BY <1>1, <1>2, <2>2
    <3> HIDE DEF after, previous, kinds
    <3>2. /\ after \in [Targets -> SUBSET Controls]
          /\ \A t \in Targets : after[t] = IF t = previous
                THEN (seen[t] \ Of(kinds)) \cup ({} \cap Of(kinds)) ELSE seen[t]
      BY <1>0, <3>1, Carries DEF Notify
    <3> QED
      BY <3>2
  <2> QED
    BY <2>1, <2>2
<1>4. ASSUME NEW h \in Hosts PROVE StillHeld(h, after) = {}
  <2>1. h \in Targets /\ h # Wired /\ h # None
    BY TargetsApart
  <2>2. CASE h # Selected
    BY <1>3, <2>1, <2>2 DEF StillHeld, RoutingInv, OnlySelectedHostHolds
  <2>3. CASE h = previous
    <3>1. after = Notify(seen, h, hosts.ready[h], {})
      BY <1>2, <2>1, <2>3
    <3>2. after[h] = seen[h] \ Of(hosts.ready[h])
      <4> HIDE DEF after
      <4>1. after[h] = (seen[h] \ Of(hosts.ready[h])) \cup ({} \cap Of(hosts.ready[h]))
        BY <1>0, <2>1, <3>1 DEF Notify
      <4> QED
        BY <4>1
    <3>3. after[h] = {}
      BY <3>2 DEF RoutingInv, TellsWhatIsReady
    <3> QED
      BY <3>3 DEF StillHeld
  <2>4. CASE h = Selected /\ h # previous
    <3>1. Dual /\ h = output_target.selected
      BY <2>4 DEF Selected
    <3>2. "Keyboard" \notin hosts.ready[h]
      BY <2>4, <3>1 DEF RoutingInv, RefreshedWhenReady
    <3>3. seen[h] \cap Of({"Keyboard"}) = {}
      BY <3>2, NoKeys DEF RoutingInv, TellsWhatIsReady
    <3> QED
      BY <1>3, <2>1, <3>1, <3>3 DEF StillHeld
  <2> QED
    BY <2>2, <2>3, <2>4
<1> HIDE DEF previous, after
<1>5. ~Dual => after[Wired] = seen[Wired]
    BY <1>1, <1>3, TargetsApart
<1> QED
    BY <1>3, <1>4, <1>5, TargetsApart DEF after

(* transition_ble_target and transition_output_target route to the new target. *)
LEMMA Switching ==
    ASSUME RoutingInv, NEW hs \in HostTables, NEW ot \in OutputTargets,
           NEW told \in [Targets -> SUBSET Controls], NEW target \in Targets,
           NEW release \in BOOLEAN, Transition(hs, ot, told, target, release),
           Dual \/ target # Wired, UNCHANGED repertoire,
           seen' \in [Targets -> SUBSET Controls],
           \A h \in Hosts : seen'[h] \subseteq Of(hs.ready[h]),
           \A h \in Hosts : StillHeld(h, seen') = {}
    PROVE  RoutingInv'
<1>0. TypeOK /\ PhysicallyHeld(physical) \subseteq Controls /\ Captured \subseteq Controls
  <2>1. /\ held \in [Interfaces -> SUBSET Controls] 
        /\ physical \in [Interfaces -> SUBSET Controls]
    BY DEF RoutingInv, TypeOK
  <2> QED
    BY <2>1, Aggregating DEF RoutingInv, Captured
<1>1. /\ suppression' = Captured /\ carried' = PhysicallyHeld(physical)
      /\ pending' = Dual /\ UNCHANGED <<wired_ble_host, inputVars, leds>>
    BY DEF Transition
<1>3. CASE target = Wired
  <2> DEFINE availability == IF wired_availability = "Unavailable"
                             THEN "Unavailable" ELSE "ConnectedNotReady"
  <2>1. /\ hosts' = Deselected(hs) /\ wired_availability' = availability
        /\ output_target' = SetAvailability([ot EXCEPT !.selected = Wired], availability)
        /\ shown' = IF wired_availability = "Ready"
                    THEN PushUsbKeyboardLeds(leds[Wired]) ELSE shown
    BY <1>3 DEF Transition
  <2>2. /\ availability \in Availabilities /\ availability # "Ready"
        /\ wired_availability \in Availabilities
    BY <1>0 DEF Availabilities, TypeOK
  <2>3. /\ hosts' \in HostTables /\ hosts'.active = None /\ hosts'.ready = hs.ready
    BY <2>1 DEF Deselected, HostTables
  <2>4. /\ output_target' \in OutputTargets /\ output_target'.selected = Wired
        /\ output_target'.active = None
    BY <2>1, <2>2, Refreshing, TargetsApart
  <2>5. Dual /\ Selected' = Wired
    BY <1>3, <2>4 DEF Selected
  <2>6. shown' \in [Interfaces -> Leds]
    BY <1>0, <2>1, TargetsApart DEF PushUsbKeyboardLeds, TypeOK
  <2> HIDE DEF availability
  <2>7. TypeOK'
    BY <1>0, <1>1, <2>1, <2>2, <2>3, <2>4, <2>6, DualAssumption DEF TypeOK, inputVars
  <2>8. TellsWhatIsReady' /\ RefreshedWhenReady'
    BY <2>1, <2>2, <2>3, <2>4, TargetsApart DEF TellsWhatIsReady, RefreshedWhenReady
  <2>9. ActiveHostIsSelected' /\ LedsFollowTarget'
    BY <2>3, <2>4, TargetsApart DEF ActiveHostIsSelected, LedsFollowTarget
  <2>10. OnlySelectedHostHolds'
    BY <2>5 DEF OnlySelectedHostHolds, StillHeld
  <2> QED
    BY <2>7, <2>8, <2>9, <2>10 DEF RoutingInv
<1>4. CASE target # Wired
  <2> DEFINE switched == [Upsert(hs, target) EXCEPT !.active = target]
  <2>0. target \in Hosts
    BY <1>4 DEF Targets
  <2>1. /\ hosts' = switched /\ UNCHANGED wired_availability
        /\ output_target' = IF ~Dual THEN ot
                            ELSE RefreshSelectedTargetAvailability(
                                    [ot EXCEPT !.selected = target], switched)
        /\ shown' = PushUsbKeyboardLeds(leds[target])
    BY <1>4 DEF Transition
  <2>2. /\ switched \in HostTables /\ switched.active = target
        /\ switched.ready = hs.ready
    <3>1. PICK u \in HostTables : u = Upsert(hs, target) /\ u.ready = hs.ready
      BY <2>0, Upserting
    <3>2. switched = [u EXCEPT !.active = target]
      BY <3>1
    <3> QED
      BY <2>0, <3>1, <3>2 DEF HostTables
  <2> HIDE DEF switched
  <2>3. /\ output_target' \in OutputTargets
        /\ Dual => /\ output_target'.selected = target
                   /\ output_target'.active =
                         IF "Keyboard" \in hs.ready[target] THEN target ELSE None
    <3>1. CASE ~Dual
      BY <2>1, <3>1
    <3>2. CASE Dual
      <4>1. output_target' = RefreshSelectedTargetAvailability(
                                    [ot EXCEPT !.selected = target], switched)
        BY <2>1, <3>2
      <4>2. wired_availability \in Availabilities
        BY <1>0 DEF TypeOK
      <4> QED
        BY <2>0, <2>2, <4>1, <4>2, Refreshing
    <3> QED
      BY <3>1, <3>2
  <2>4. /\ shown' \in [Interfaces -> Leds]
        /\ \A i \in registered' : shown'[i] = leds'[target]
    BY <1>0, <1>1, <2>1 DEF PushUsbKeyboardLeds, TypeOK, inputVars
  <2>5. Selected' = target
    BY <2>1, <2>2, <2>3 DEF Selected
  <2>6. TypeOK'
    BY <1>0, <1>1, <2>1, <2>2, <2>3, <2>4, DualAssumption DEF TypeOK, inputVars
  <2>7. TellsWhatIsReady' /\ RefreshedWhenReady'
    BY <2>0, <2>1, <2>2, <2>3, TargetsApart DEF TellsWhatIsReady, RefreshedWhenReady
  <2>8. ActiveHostIsSelected'
    BY <2>1, <2>2, <2>3 DEF ActiveHostIsSelected
  <2>9. LedsFollowTarget'
    BY <2>0, <2>1, <2>2, <2>3, <2>4, TargetsApart DEF LedsFollowTarget
  <2>10. OnlySelectedHostHolds'
    BY DEF OnlySelectedHostHolds, StillHeld
  <2> QED
    BY <2>6, <2>7, <2>8, <2>9, <2>10 DEF RoutingInv
<1> QED
    BY <1>3, <1>4

(* A report to the selected target. *)
LEMMA Reporting ==
    ASSUME RoutingInv, NEW target \in Targets, target = Selected, NEW kinds, NEW pressed,
           target \in Hosts => kinds \subseteq hosts.ready[target],
           UNCHANGED <<hosts, output_target>>,
           seen' = Notify(seen, target, kinds, pressed)
    PROVE  /\ seen' \in [Targets -> SUBSET Controls]
           /\ TellsWhatIsReady' /\ OnlySelectedHostHolds'
<1>0. seen \in [Targets -> SUBSET Controls] /\ Selected' = Selected
    BY DEF RoutingInv, TypeOK, Selected
<1>1. /\ seen' \in [Targets -> SUBSET Controls]
      /\ \A t \in Targets \ {target} : seen'[t] = seen[t]
      /\ seen'[target] \subseteq seen[target] \cup Of(kinds)
    BY <1>0, Carries DEF Notify
<1>2. ASSUME NEW h \in Hosts PROVE seen'[h] \subseteq Of(hosts.ready[h])
  <2>1. h \in Targets /\ seen[h] \subseteq Of(hosts.ready[h])
    BY TargetsApart DEF RoutingInv, TellsWhatIsReady
  <2>2. CASE h = target
    BY <1>0, <1>1, <2>1, <2>2, Carries
  <2>3. CASE h # target
    BY <1>1, <2>1, <2>3
  <2> QED
    BY <2>2, <2>3
<1>3. OnlySelectedHostHolds'
    BY <1>0, <1>1, TargetsApart DEF RoutingInv, OnlySelectedHostHolds
<1> QED
    BY <1>1, <1>2, <1>3 DEF TellsWhatIsReady

(* When neither the hosts, the output target nor the LEDs change. *)
LEMMA OnlyTelling ==
    ASSUME RoutingInv, TypeOK', TellsWhatIsReady', OnlySelectedHostHolds',
           UNCHANGED <<hosts, output_target, wired_availability, registered, leds, shown>>
    PROVE  RoutingInv'
BY DEF RoutingInv, RefreshedWhenReady, ActiveHostIsSelected, LedsFollowTarget

(* Input frames reach the active target only. *)
LEMMA FrameRoutes ==
    ASSUME RoutingInv, NEW i \in Interfaces, NEW parts \in SUBSET UsedKinds,
           NEW pressed \in SUBSET (Of(parts) \cap repertoire[i]),
           InputFrame(i, parts, pressed), UNCHANGED repertoire
    PROVE  RoutingInv'
<1> DEFINE new == Aggregate(held', recent')
<1>0. /\ TypeOK /\ pressed \subseteq Controls
      /\ UNCHANGED <<hosts, output_target, wired_availability, wired_ble_host, pending,
                     registered, leds, shown>>
    BY Carries DEF RoutingInv, InputFrame, wiredVars, ledVars
<1>1. /\ physical' \in [Interfaces -> SUBSET Controls]
      /\ carried' \subseteq Controls
    BY <1>0 DEF InputFrame, TypeOK
<1>2. CASE Dual /\ pending /\ output_target.selected = Wired
  <2>1. UNCHANGED <<held, recent, suppression, seen>>
    BY <1>2 DEF InputFrame
  <2>2. TypeOK'
    BY <1>0, <1>1, <2>1 DEF TypeOK
  <2>3. TellsWhatIsReady' /\ OnlySelectedHostHolds'
    BY <1>0, <2>1 DEF RoutingInv, TellsWhatIsReady, OnlySelectedHostHolds, Selected
  <2> QED
    BY <1>0, <2>2, <2>3, OnlyTelling
<1>3. CASE ~(Dual /\ pending /\ output_target.selected = Wired)
  <2>1. /\ held' = [held EXCEPT ![i] = (@ \ Of(parts)) \cup pressed]
        /\ recent' = IF "Consumer" \notin parts THEN recent
                     ELSE LET others == Holding(recent) \ {i}
                          IN  [Renumbered(recent, others) EXCEPT
                                 ![i] = IF pressed \cap Usages = {} THEN 0
                                        ELSE Cardinality(others) + 1]
        /\ \E beyond \in SUBSET Keys : suppression' = Retained(parts, new) \cup beyond
        /\ seen' = IF ReadyKinds \cap parts = {} THEN seen
                   ELSE Notify(seen, Active, ReadyKinds \cap parts, new \ suppression')
    BY <1>3 DEF InputFrame, BeyondLimit
  <2>2. held' \in [Interfaces -> SUBSET Controls]
    BY <1>0, <2>1 DEF TypeOK
  <2>3. recent' \in [Interfaces -> Nat]
    <3>1. CASE "Consumer" \notin parts
      BY <1>0, <2>1, <3>1 DEF TypeOK
    <3>2. CASE "Consumer" \in parts
      <4> DEFINE others == Holding(recent) \ {i}
      <4>1. others \in SUBSET Interfaces
        BY DEF Holding
      <4>2. recent' = [Renumbered(recent, others) EXCEPT
                         ![i] = IF pressed \cap Usages = {} THEN 0 ELSE Cardinality(others) + 1]
        BY <2>1, <3>2
      <4> HIDE DEF others
      <4>3. Renumbered(recent, others) \in [Interfaces -> Nat] /\ Cardinality(others) \in Nat
        BY <4>1, Renumbering
      <4> QED
        BY <4>2, <4>3
    <3> QED
      BY <3>1, <3>2
  <2>4. suppression' \subseteq Controls
    BY <1>0, <2>1 DEF TypeOK, Retained, Controls
  <2>5. /\ seen' \in [Targets -> SUBSET Controls]
        /\ TellsWhatIsReady' /\ OnlySelectedHostHolds'
    <3>1. CASE ReadyKinds \cap parts = {}
      BY <1>0, <2>1, <3>1
      DEF RoutingInv, TypeOK, TellsWhatIsReady, OnlySelectedHostHolds, Selected
    <3>2. CASE ReadyKinds \cap parts # {}
      <4>1. /\ Active \in Targets /\ Active = Selected
            /\ Active \in Hosts => ReadyKinds \cap parts \subseteq hosts.ready[Active]
        BY <1>0, <3>2, RoutesToSelected
      <4>2. seen' = Notify(seen, Active, ReadyKinds \cap parts, new \ suppression')
        BY <2>1, <3>2
      <4> HIDE DEF new
      <4> QED
        BY <1>0, <4>1, <4>2, Reporting
    <3> QED
      BY <3>1, <3>2
  <2>6. TypeOK'
    BY <1>0, <1>1, <2>2, <2>3, <2>4, <2>5 DEF TypeOK
  <2> QED
    BY <1>0, <2>5, <2>6, OnlyTelling
<1> QED
    BY <1>2, <1>3

(* A selection releases the previous target before it routes to the new one. *)
LEMMA SelectRoutes ==
    ASSUME RoutingInv, NEW target \in Targets, SelectTarget(target), UNCHANGED repertoire
    PROVE  RoutingInv'
<1>1. Transition(hosts, output_target, seen, target, TRUE) /\ (Dual \/ target # Wired)
    BY DEF SelectTarget
<1>2. seen' = Released(hosts, output_target, seen)
    BY <1>1 DEF Transition
<1>3. \A h \in Hosts : seen'[h] \subseteq Of(hosts.ready[h])
    BY <1>2, Releasing DEF RoutingInv, TellsWhatIsReady
<1>4. hosts \in HostTables /\ output_target \in OutputTargets
      /\ seen \in [Targets -> SUBSET Controls]
    BY DEF RoutingInv, TypeOK
<1> QED
    BY <1>1, <1>2, <1>3, <1>4, Releasing, Switching

(* The switch button and the shortcut select like SelectTarget. *)
LEMMA NextRoutes ==
    ASSUME RoutingInv, NextConnectedTarget, UNCHANGED repertoire
    PROVE  RoutingInv'
<1> DEFINE target == IF Dual THEN NextReadyOutputTarget(hosts, output_target.selected)
                     ELSE NextTargetAfter(hosts, hosts.active, hosts.connected)
<1>1. target # None /\ SelectTarget(target)
    BY DEF NextConnectedTarget
<1>2. target \in Targets \cup {None}
  <2>1. /\ hosts \in HostTables /\ output_target.selected \in Targets
        /\ wired_ble_host \in Hosts \cup {None} /\ hosts.connected \in SUBSET Hosts
    BY DEF RoutingInv, TypeOK, HostTables, OutputTargets
  <2>2. NextReadyOutputTarget(hosts, output_target.selected) \in Targets \cup {None}
    BY <2>1, NextReadyTyped
  <2>3. NextTargetAfter(hosts, hosts.active, hosts.connected) \in Targets \cup {None}
    BY <2>1, NextTargetFound, TargetsApart
  <2> QED
    BY <2>2, <2>3
<1> HIDE DEF target
<1> QED
    BY <1>1, <1>2, SelectRoutes

(* A host event that leaves the active host alone. *)
LEMMA HostsRoute ==
    ASSUME RoutingInv, NEW hs \in HostTables, hs.active = hosts.active, HostsBecome(hs),
           UNCHANGED repertoire
    PROVE  RoutingInv'
<1>0. /\ TypeOK /\ hosts' = hs /\ output_target' = Refreshed(hs) /\ seen' = Forget(seen, hs)
      /\ UNCHANGED <<wired_availability, wired_ble_host, pending, registered, held, recent,
                     physical, suppression, carried, leds, shown>>
    BY DEF RoutingInv, HostsBecome, wiredVars, inputVars, ledVars
<1>1. /\ seen' \in [Targets -> SUBSET Controls]
      /\ \A h \in Hosts : seen'[h] = seen[h] \cap Of(hs.ready[h])
    BY <1>0, Forgetting DEF TypeOK
<1>2. /\ output_target' \in OutputTargets
      /\ output_target'.selected = output_target.selected
      /\ Dual /\ output_target.selected = Wired =>
            output_target'.active = IF wired_availability = "Ready" THEN Wired ELSE None
      /\ Dual /\ output_target.selected \in Hosts =>
            output_target'.active = IF "Keyboard" \in hs.ready[output_target.selected]
                                    THEN output_target.selected ELSE None
  <2>1. CASE ~Dual
    BY <1>0, <2>1 DEF Refreshed, TypeOK
  <2>2. CASE Dual
    <3>1. /\ output_target' = RefreshSelectedTargetAvailability(output_target, hs)
          /\ output_target \in OutputTargets /\ output_target.selected \in Targets
          /\ [output_target EXCEPT !.selected = output_target.selected] = output_target
          /\ wired_availability \in Availabilities
      BY <1>0, <2>2 DEF Refreshed, TypeOK, OutputTargets
    <3> QED
      BY <3>1, Refreshing
  <2> QED
    BY <2>1, <2>2
<1>3. Selected' = Selected
    BY <1>0, <1>2 DEF Selected
<1>4. TypeOK'
    BY <1>0, <1>1, <1>2 DEF TypeOK
<1>5. TellsWhatIsReady' /\ OnlySelectedHostHolds'
    BY <1>0, <1>1, <1>3 DEF RoutingInv, TellsWhatIsReady, OnlySelectedHostHolds
<1>6. RefreshedWhenReady' /\ ActiveHostIsSelected'
    BY <1>0, <1>2 DEF RoutingInv, RefreshedWhenReady, ActiveHostIsSelected
<1>7. LedsFollowTarget'
  <2>1. Dual /\ output_target'.active = Wired => output_target.active = Wired
    <3>1. SUFFICES ASSUME Dual, output_target'.active = Wired
                   PROVE  output_target.active = Wired
      OBVIOUS
    <3>2. output_target'.selected = Wired
      BY <1>2, <3>1, TargetsApart DEF OutputTargets
    <3> QED
      BY <1>2, <3>1, <3>2, TargetsApart DEF RoutingInv, RefreshedWhenReady
  <2> QED
    BY <1>0, <2>1 DEF RoutingInv, LedsFollowTarget
<1> QED
    BY <1>4, <1>5, <1>6, <1>7 DEF RoutingInv

(* A disconnection, with the fallback to the next ready target. *)
LEMMA DisconnectRoutes ==
    ASSUME RoutingInv, NEW h \in Hosts, HostDisconnected(h), UNCHANGED repertoire
    PROVE  RoutingInv'
<1> DEFINE hs == OnDisconnected(hosts, {h})
           ot == Refreshed(hs)
           inUse == IF Dual THEN output_target.active = h
                    ELSE hosts.active = h /\ "Keyboard" \in hosts.ready[h]
           target == IF ~inUse THEN None
                     ELSE IF Dual THEN NextReadyOutputTarget(hs, ot.selected)
                     ELSE NextTargetAfter(hs, h, {g \in Hosts : "Keyboard" \in hs.ready[g]})
<1>0. /\ hosts \in HostTables /\ output_target \in OutputTargets
      /\ wired_availability \in Availabilities /\ wired_ble_host \in Hosts \cup {None}
      /\ seen \in [Targets -> SUBSET Controls]
    BY DEF RoutingInv, TypeOK
<1>1. IF target = None THEN HostsBecome(hs)
      ELSE Transition(hs, ot, Forget(seen, hs), target, FALSE)
    BY DEF HostDisconnected
<1>2. /\ hs \in HostTables /\ hs.active = hosts.active
      /\ \A g \in Hosts : hs.ready[g] = IF g = h THEN {} ELSE hosts.ready[g]
    BY <1>0, Disconnecting
<1>3. ot \in OutputTargets /\ ot.selected \in Targets
  <2>1. output_target.selected \in Targets
        /\ [output_target EXCEPT !.selected = output_target.selected] = output_target
    BY <1>0 DEF OutputTargets
  <2>2. RefreshSelectedTargetAvailability(output_target, hs) \in OutputTargets
    BY <1>0, <1>2, <2>1, Refreshing
  <2> QED
    BY <1>0, <2>2 DEF Refreshed, OutputTargets
<1> HIDE DEF hs, ot
<1>4. target \in Targets \cup {None} /\ (~Dual => target # Wired)
  <2>1. NextReadyOutputTarget(hs, ot.selected) \in Targets \cup {None}
    BY <1>0, <1>2, <1>3, NextReadyTyped
  <2>2. NextTargetAfter(hs, h, {g \in Hosts : "Keyboard" \in hs.ready[g]}) \in Hosts \cup {None}
    BY <1>2, NextTargetFound
  <2> QED
    BY <2>1, <2>2, TargetsApart
<1>5. target # None => inUse
    OBVIOUS
<1> HIDE DEF target
<1>6. CASE target = None
    BY <1>1, <1>2, <1>6, HostsRoute
<1>7. CASE target # None
  <2>1. Transition(hs, ot, Forget(seen, hs), target, FALSE) /\ target \in Targets
    BY <1>1, <1>4, <1>7
  <2>2. seen' = Forget(seen, hs)
    BY <2>1 DEF Transition
  <2>3. /\ Forget(seen, hs) \in [Targets -> SUBSET Controls]
        /\ \A g \in Hosts : seen'[g] = seen[g] \cap Of(hs.ready[g])
    BY <1>0, <1>2, <2>2, Forgetting
  <2>4. h = Selected
    BY <1>0, <1>5, <1>7, TargetsApart DEF Selected, OutputTargets
  <2>5. ASSUME NEW g \in Hosts PROVE StillHeld(g, seen') = {}
    <3>1. CASE g = h
      BY <1>2, <2>3, <3>1, Carries DEF StillHeld
    <3>2. CASE g # h
      BY <2>3, <2>4, <3>2 DEF StillHeld, RoutingInv, OnlySelectedHostHolds
    <3> QED
      BY <3>1, <3>2
  <2>6. /\ seen' \in [Targets -> SUBSET Controls]
        /\ \A g \in Hosts : seen'[g] \subseteq Of(hs.ready[g])
    BY <2>2, <2>3
  <2>7. Dual \/ target # Wired
    BY <1>4
  <2> QED
    BY <1>2, <1>3, <2>1, <2>3, <2>5, <2>6, <2>7, Switching
<1> QED
    BY <1>6, <1>7

(* on_connected, on_security_changed and on_cccd_changed change the host table, not
   the active host. *)
LEMMA HostEvents ==
    ASSUME RoutingInv, NEW h \in Hosts,
           \/ HostConnected(h) \/ HostSecurityChanged(h)
           \/ \E kind \in UsedKinds, enabled \in BOOLEAN : CccdChanged(h, kind, enabled)
    PROVE  \E hs \in HostTables : hs.active = hosts.active /\ HostsBecome(hs)
<1>0. hosts \in HostTables /\ hosts.ready[h] \in SUBSET Kinds /\ UsedKinds \subseteq Kinds
    BY DEF RoutingInv, TypeOK, HostTables, UsedKinds
<1>1. CASE HostConnected(h)
    BY <1>0, <1>1, Connecting DEF HostConnected
<1>2. CASE HostSecurityChanged(h)
  <2>1. PICK kinds \in SUBSET UsedKinds :
           HostsBecome([Upsert(hosts, h) EXCEPT !.ready[h] = kinds])
    BY <1>2 DEF HostSecurityChanged
  <2>2. kinds \in SUBSET Kinds
    BY <1>0
  <2> QED
    BY <1>0, <2>1, <2>2, Subscribing
<1>3. ASSUME NEW kind \in UsedKinds, NEW enabled \in BOOLEAN, CccdChanged(h, kind, enabled)
      PROVE  \E hs \in HostTables : hs.active = hosts.active /\ HostsBecome(hs)
  <2>1. PICK kinds \in {hosts.ready[h] \cup {kind}, hosts.ready[h]} :
           HostsBecome([Upsert(hosts, h) EXCEPT
                           !.ready[h] = IF enabled THEN kinds ELSE @ \ {kind}])
    BY <1>3 DEF CccdChanged
  <2>2. PICK all \in SUBSET Kinds :
           HostsBecome([Upsert(hosts, h) EXCEPT !.ready[h] = all])
    <3>1. Upsert(hosts, h).ready[h] = hosts.ready[h]
      BY <1>0, Upserting
    <3>2. CASE enabled
      BY <1>0, <2>1, <3>2
    <3>3. CASE ~enabled
      <4>1. HostsBecome([Upsert(hosts, h) EXCEPT !.ready[h] = hosts.ready[h] \ {kind}])
        BY <2>1, <3>1, <3>3
      <4> QED
        BY <1>0, <4>1
    <3> QED
      BY <3>2, <3>3
  <2> QED
    BY <1>0, <2>2, Subscribing
<1> QED
    BY <1>1, <1>2, <1>3

(* clear_host: the host is released, removed, and no longer active. *)
LEMMA ClearRoutes ==
    ASSUME RoutingInv, NEW h \in Hosts, ClearHost(h), UNCHANGED repertoire
    PROVE  RoutingInv'
<1> DEFINE hs == RemoveHost(hosts, h)
           told == IF hosts.active = h THEN Notify(seen, h, hosts.ready[h], {}) ELSE seen
<1>0. /\ TypeOK /\ hosts' = hs
      /\ wired_ble_host' = IF wired_ble_host = h THEN None ELSE wired_ble_host
      /\ leds' = [leds EXCEPT ![h] = Off]
      /\ shown' = IF hosts.active = h THEN PushUsbKeyboardLeds(Off) ELSE shown
      /\ seen' = Forget(told, hs)
      /\ UNCHANGED <<output_target, wired_availability, pending, registered, held, recent,
                     physical, suppression, carried>>
    BY DEF RoutingInv, ClearHost, inputVars
<1>1. /\ hs \in HostTables /\ hs.active = IF hosts.active = h THEN None ELSE hosts.active
      /\ \A g \in Hosts : hs.ready[g] = IF g = h THEN {} ELSE hosts.ready[g]
    BY <1>0, Removing DEF TypeOK
<1>2. /\ told \in [Targets -> SUBSET Controls] /\ told[Wired] = seen[Wired]
      /\ \A g \in Hosts : told[g] \subseteq seen[g]
    BY <1>0, TargetsApart DEF TypeOK, Notify
<1> HIDE DEF hs, told
<1>3. /\ seen' \in [Targets -> SUBSET Controls]
      /\ \A g \in Hosts : seen'[g] = told[g] \cap Of(hs.ready[g])
    BY <1>0, <1>1, <1>2, Forgetting
<1>4. shown' \in [Interfaces -> Leds] /\ leds' \in [Targets -> Leds]
    BY <1>0, LedsAssumption DEF TypeOK, PushUsbKeyboardLeds
<1>5. TypeOK'
    BY <1>0, <1>1, <1>3, <1>4 DEF TypeOK
<1>6. TellsWhatIsReady' /\ RefreshedWhenReady' /\ ActiveHostIsSelected'
    BY <1>0, <1>1, <1>3
    DEF RoutingInv, TellsWhatIsReady, RefreshedWhenReady, ActiveHostIsSelected
<1>7. OnlySelectedHostHolds'
  <2>1. ASSUME NEW g \in Hosts, g # Selected' PROVE StillHeld(g, seen') = {}
    <3>1. CASE g = h
      BY <1>1, <1>3, <3>1, Carries DEF StillHeld
    <3>2. CASE g # h
      <4>1. g # Selected
        BY <1>0, <1>1, <2>1, <3>2 DEF Selected
      <4> QED
        BY <1>2, <1>3, <4>1 DEF StillHeld, RoutingInv, OnlySelectedHostHolds
    <3> QED
      BY <3>1, <3>2
  <2> QED
    BY <2>1 DEF OnlySelectedHostHolds, StillHeld
<1>8. LedsFollowTarget'
  <2>1. CASE hosts.active = h
    <3>1. hs.active = None /\ (Dual => output_target.selected = h)
      BY <1>1, <2>1, TargetsApart DEF RoutingInv, ActiveHostIsSelected
    <3>2. Dual => output_target.active # Wired
      BY <1>0, <3>1, TargetsApart DEF TypeOK, OutputTargets
    <3> QED
      BY <1>0, <3>1, <3>2 DEF LedsFollowTarget
  <2>2. CASE hosts.active # h
    BY <1>0, <1>1, <2>2, TargetsApart DEF RoutingInv, LedsFollowTarget, TypeOK, HostTables
  <2> QED
    BY <2>1, <2>2
<1> QED
    BY <1>5, <1>6, <1>7, <1>8 DEF RoutingInv

(* LED events reach the keyboards when they come from the target in use. *)
LEMMA LedsRoute ==
    ASSUME RoutingInv, UNCHANGED repertoire,
           \/ \E h \in Hosts, value \in Leds : HostKeyboardLedChanged(h, value)
           \/ \E value \in Leds : WiredKeyboardLedChanged(value)
    PROVE  RoutingInv'
<1>0. TypeOK
    BY DEF RoutingInv
<1>1. ASSUME NEW h \in Hosts, NEW value \in Leds, HostKeyboardLedChanged(h, value)
      PROVE  RoutingInv'
  <2>1. /\ hosts' = Upsert(hosts, h) /\ leds' = [leds EXCEPT ![h] = value]
        /\ shown' = IF hosts.active = h THEN PushUsbKeyboardLeds(value) ELSE shown
        /\ UNCHANGED <<output_target, wired_availability, wired_ble_host, pending, registered,
                       held, recent, physical, suppression, carried, seen>>
    BY <1>1 DEF HostKeyboardLedChanged, wiredVars, inputVars
  <2>2. /\ hosts' \in HostTables /\ hosts'.active = hosts.active
        /\ hosts'.ready = hosts.ready
    BY <1>0, <2>1, Upserting DEF TypeOK
  <2>3. shown' \in [Interfaces -> Leds] /\ leds' \in [Targets -> Leds]
    BY <1>0, <2>1 DEF TypeOK, PushUsbKeyboardLeds
  <2>4. TypeOK'
    BY <1>0, <2>1, <2>2, <2>3 DEF TypeOK
  <2>5. /\ TellsWhatIsReady' /\ RefreshedWhenReady' /\ ActiveHostIsSelected'
        /\ OnlySelectedHostHolds'
    BY <2>1, <2>2 DEF RoutingInv, TellsWhatIsReady, RefreshedWhenReady,
        ActiveHostIsSelected, OnlySelectedHostHolds, Selected
  <2>6. LedsFollowTarget'
    <3>1. CASE hosts.active = h
      <4>1. Dual => output_target.active # Wired
        BY <1>0, <3>1, TargetsApart DEF RoutingInv, ActiveHostIsSelected, TypeOK, OutputTargets
      <4>2. leds'[h] = value /\ \A i \in registered : shown'[i] = value
        BY <1>0, <2>1, <3>1, TargetsApart DEF TypeOK, PushUsbKeyboardLeds
      <4> QED
        BY <2>1, <2>2, <3>1, <4>1, <4>2 DEF LedsFollowTarget
    <3>2. CASE hosts.active # h
      BY <1>0, <2>1, <2>2, <3>2, TargetsApart
      DEF RoutingInv, LedsFollowTarget, TypeOK, HostTables
    <3> QED
      BY <3>1, <3>2
  <2> QED
    BY <2>4, <2>5, <2>6 DEF RoutingInv
<1>2. ASSUME NEW value \in Leds, WiredKeyboardLedChanged(value) PROVE RoutingInv'
  <2>1. /\ Dual /\ leds' = [leds EXCEPT ![Wired] = value]
        /\ shown' = IF output_target.selected = Wired
                    THEN PushUsbKeyboardLeds(value) ELSE shown
        /\ UNCHANGED <<hosts, output_target, wired_availability, wired_ble_host, pending,
                       registered, held, recent, physical, suppression, carried, seen>>
    BY <1>2 DEF WiredKeyboardLedChanged, wiredVars, inputVars
  <2>2. shown' \in [Interfaces -> Leds] /\ leds' \in [Targets -> Leds]
    BY <1>0, <2>1 DEF TypeOK, PushUsbKeyboardLeds
  <2>3. TypeOK'
    BY <1>0, <2>1, <2>2 DEF TypeOK
  <2>4. /\ TellsWhatIsReady' /\ RefreshedWhenReady' /\ ActiveHostIsSelected'
        /\ OnlySelectedHostHolds'
    BY <2>1 DEF RoutingInv, TellsWhatIsReady, RefreshedWhenReady,
        ActiveHostIsSelected, OnlySelectedHostHolds, Selected
  <2>5. LedsFollowTarget'
    <3>1. CASE output_target.selected = Wired
      <4>1. hosts.active = None
        BY <1>0, <2>1, <3>1, TargetsApart
        DEF RoutingInv, ActiveHostIsSelected, TypeOK, HostTables
      <4>2. leds'[Wired] = value /\ \A i \in registered : shown'[i] = value
        BY <1>0, <2>1, <3>1, TargetsApart DEF TypeOK, PushUsbKeyboardLeds
      <4> QED
        BY <2>1, <4>1, <4>2 DEF LedsFollowTarget
    <3>2. CASE output_target.selected # Wired
      <4>1. output_target.active # Wired
        BY <1>0, <3>2, TargetsApart DEF TypeOK, OutputTargets
      <4>2. hosts.active # Wired
        BY <1>0, TargetsApart DEF TypeOK, HostTables
      <4> QED
        BY <1>0, <2>1, <3>2, <4>1, <4>2, TargetsApart
        DEF RoutingInv, LedsFollowTarget, TypeOK, HostTables
    <3> QED
      BY <3>1, <3>2
  <2> QED
    BY <2>3, <2>4, <2>5 DEF RoutingInv
<1> QED
    BY <1>1, <1>2

(* A flash quiesce: the links are down and nothing is told. *)
LEMMA QuiesceRoutes ==
    ASSUME RoutingInv, NEW mask \in SUBSET Hosts, QuiesceBarrier(mask), UNCHANGED repertoire
    PROVE  RoutingInv'
<1>0. /\ TypeOK /\ hosts' = OnDisconnected(hosts, mask) /\ suppression' = Captured
      /\ carried' = IF Selected = Wired THEN carried ELSE PhysicallyHeld(physical)
      /\ seen' = [t \in Targets |-> IF t \in Hosts THEN {} ELSE seen[t]]
      /\ UNCHANGED <<output_target, wired_availability, wired_ble_host, pending, registered,
                     held, recent, physical, leds, shown>>
    BY DEF RoutingInv, QuiesceBarrier, wiredVars, inputVars, ledVars
<1>1. /\ hosts' \in HostTables /\ hosts'.active = hosts.active
      /\ \A h \in Hosts : hosts'.ready[h] \subseteq hosts.ready[h]
    BY <1>0, Disconnecting DEF TypeOK
<1>2. Captured \subseteq Controls /\ carried' \subseteq Controls
    BY <1>0, Aggregating DEF TypeOK, Captured
<1>3. seen' \in [Targets -> SUBSET Controls] /\ \A h \in Hosts : seen'[h] = {}
    BY <1>0, TargetsApart DEF TypeOK
<1>4. TypeOK'
    BY <1>0, <1>1, <1>2, <1>3 DEF TypeOK
<1>5. TellsWhatIsReady' /\ OnlySelectedHostHolds'
    BY <1>3 DEF TellsWhatIsReady, OnlySelectedHostHolds
<1>6. RefreshedWhenReady' /\ ActiveHostIsSelected' /\ LedsFollowTarget'
    BY <1>0, <1>1
    DEF RoutingInv, RefreshedWhenReady, ActiveHostIsSelected, LedsFollowTarget
<1> QED
    BY <1>4, <1>5, <1>6 DEF RoutingInv

(* A new keyboard is sent the LEDs of the target in use. *)
LEMMA PlugRoutes ==
    ASSUME RoutingInv, NEW i \in Interfaces, UsbHidInterfaceConnected(i), UNCHANGED repertoire
    PROVE  RoutingInv'
<1> DEFINE target == IF Dual /\ Selected = Wired THEN Wired ELSE hosts.active
<1>0. /\ TypeOK /\ registered' = registered \cup {i}
      /\ shown' = [j \in Interfaces |->
                      IF j \in registered' /\ target # None THEN leds[target]
                      ELSE IF j = i THEN Off ELSE shown[j]]
      /\ UNCHANGED <<hosts, output_target, wired_availability, wired_ble_host, pending,
                     held, recent, suppression, leds, physical, carried, seen>>
    BY DEF RoutingInv, UsbHidInterfaceConnected, wiredVars
<1>1. target \in Targets \cup {None}
    BY <1>0, TargetsApart DEF TypeOK, HostTables
<1>2. shown' \in [Interfaces -> Leds]
    BY <1>0, <1>1, LedsAssumption DEF TypeOK
<1>3. TypeOK'
    BY <1>0, <1>2 DEF TypeOK
<1>4. /\ TellsWhatIsReady' /\ OnlySelectedHostHolds' /\ RefreshedWhenReady'
      /\ ActiveHostIsSelected'
    BY <1>0 DEF RoutingInv, TellsWhatIsReady, OnlySelectedHostHolds, Selected,
        RefreshedWhenReady, ActiveHostIsSelected
<1>5. /\ hosts.active # None => target = hosts.active
      /\ Dual /\ output_target.active = Wired => target = Wired
  <2>1. hosts.active # Wired /\ output_target.active \in {None, output_target.selected}
    BY <1>0, TargetsApart DEF TypeOK, HostTables, OutputTargets
  <2> QED
    BY <2>1, TargetsApart DEF RoutingInv, ActiveHostIsSelected, Selected
<1> HIDE DEF target
<1>6. LedsFollowTarget'
    BY <1>0, <1>3, <1>5, TargetsApart DEF LedsFollowTarget, TypeOK
<1> QED
    BY <1>3, <1>4, <1>6 DEF RoutingInv

(* Interfaces that leave: the active host is told what changed. *)
LEMMA UnplugRoutes ==
    ASSUME RoutingInv, NEW gone \in SUBSET Interfaces, Detach(gone),
           registered' \subseteq registered, UNCHANGED repertoire
    PROVE  RoutingInv'
<1> DEFINE old == Aggregate(held, recent)
           new == Aggregate(held', recent')
<1>0. /\ TypeOK
      /\ held' = [i \in Interfaces |-> IF i \in gone THEN {} ELSE held[i]]
      /\ recent' = Renumbered(recent, Holding(recent) \ gone)
      /\ physical' = [i \in Interfaces |-> IF i \in gone THEN {} ELSE physical[i]]
      /\ carried' = carried \cap PhysicallyHeld(physical')
      /\ IF hosts.active = None THEN UNCHANGED <<suppression, seen>>
         ELSE /\ suppression' = suppression \cap new
              /\ seen' = Notify(seen, hosts.active, Changed(old, new),
                                (new \ suppression') \cup (new \cap Usages))
      /\ UNCHANGED <<hosts, output_target, wired_availability, wired_ble_host, pending,
                     leds, shown>>
    BY DEF RoutingInv, Detach, wiredVars, ledVars
<1>1. recent' \in [Interfaces -> Nat]
    BY <1>0, Renumbering DEF Holding
<1> HIDE DEF old, new
<1>2. /\ held' \in [Interfaces -> SUBSET Controls] /\ physical' \in [Interfaces -> SUBSET Controls]
      /\ carried' \subseteq Controls /\ suppression' \subseteq Controls
    BY <1>0 DEF TypeOK
<1>3. /\ seen' \in [Targets -> SUBSET Controls]
      /\ TellsWhatIsReady' /\ OnlySelectedHostHolds'
  <2>1. CASE hosts.active = None
    BY <1>0, <2>1
    DEF RoutingInv, TypeOK, TellsWhatIsReady, OnlySelectedHostHolds, Selected
  <2>2. CASE hosts.active # None
    <3>1. hosts.active \in Hosts /\ hosts.active \in Targets /\ hosts.active = Selected
      BY <1>0, <2>2, TargetsApart
      DEF RoutingInv, TypeOK, HostTables, ActiveHostIsSelected, Selected
    <3>2. Changed(old, new) \subseteq hosts.ready[hosts.active]
      BY DEF Changed
    <3>3. seen' = Notify(seen, hosts.active, Changed(old, new),
                         (new \ suppression') \cup (new \cap Usages))
      BY <1>0, <2>2
    <3> QED
      BY <1>0, <3>1, <3>2, <3>3, Reporting
  <2> QED
    BY <2>1, <2>2
<1>4. TypeOK'
    BY <1>0, <1>1, <1>2, <1>3 DEF TypeOK
<1>5. RefreshedWhenReady' /\ ActiveHostIsSelected' /\ LedsFollowTarget'
    BY <1>0 DEF RoutingInv, RefreshedWhenReady, ActiveHostIsSelected, LedsFollowTarget
<1> QED
    BY <1>3, <1>4, <1>5 DEF RoutingInv

(* wired_availability_changed refreshes the output target and the LEDs. *)
LEMMA WiredRoutes ==
    ASSUME RoutingInv, NEW availability \in Availabilities, NEW stillPending \in BOOLEAN,
           WiredBecomes(availability, stillPending), UNCHANGED repertoire
    PROVE  RoutingInv'
<1> DEFINE up == output_target.selected = Wired /\ availability = "Ready"
<1>0. /\ TypeOK /\ Dual /\ pending' = stillPending /\ wired_availability' = availability
      /\ output_target' = IF output_target.selected = Wired
                          THEN SetAvailability(output_target, availability)
                          ELSE output_target
      /\ shown' = IF up THEN PushUsbKeyboardLeds(leds[Wired]) ELSE shown
      /\ UNCHANGED <<hosts, wired_ble_host, registered, held, recent, physical, suppression,
                     leds, carried>>
    BY DEF RoutingInv, WiredBecomes, inputVars
<1>1. /\ seen' \in [Targets -> SUBSET Controls]
      /\ \A h \in Hosts : seen'[h] = seen[h]
  <2> DEFINE told == IF availability = "Ready" THEN seen ELSE Notify(seen, Wired, Kinds, {})
  <2>1. seen' = IF up /\ ~stillPending THEN Notify(told, Wired, Kinds, {}) ELSE told
    BY DEF WiredBecomes
  <2>2. ASSUME NEW any \in [Targets -> SUBSET Controls]
        PROVE  /\ Notify(any, Wired, Kinds, {}) \in [Targets -> SUBSET Controls]
               /\ \A h \in Hosts : Notify(any, Wired, Kinds, {})[h] = any[h]
    BY TargetsApart DEF Notify
  <2>3. told \in [Targets -> SUBSET Controls] /\ \A h \in Hosts : told[h] = seen[h]
    BY <1>0, <2>2 DEF TypeOK
  <2> HIDE DEF told
  <2> QED
    BY <2>1, <2>2, <2>3
<1>2. /\ output_target' \in OutputTargets
      /\ output_target'.selected = output_target.selected
      /\ output_target.selected = Wired =>
            output_target'.active = IF availability = "Ready" THEN Wired ELSE None
      /\ output_target.selected # Wired => output_target' = output_target
  <2>1. CASE output_target.selected = Wired
    <3>1. /\ output_target' = SetAvailability(output_target, availability)
          /\ [output_target EXCEPT !.selected = Wired] = output_target
          /\ output_target \in OutputTargets /\ hosts \in HostTables
          /\ wired_availability \in Availabilities
      BY <1>0, <2>1 DEF TypeOK, OutputTargets
    <3> QED
      BY <2>1, <3>1, Refreshing, TargetsApart
  <2>2. CASE output_target.selected # Wired
    BY <1>0, <2>2 DEF TypeOK
  <2> QED
    BY <2>1, <2>2
<1>3. shown' \in [Interfaces -> Leds]
    BY <1>0, TargetsApart DEF TypeOK, PushUsbKeyboardLeds
<1>4. TypeOK'
    BY <1>0, <1>1, <1>2, <1>3 DEF TypeOK
<1>5. /\ TellsWhatIsReady' /\ OnlySelectedHostHolds' /\ ActiveHostIsSelected'
      /\ RefreshedWhenReady'
    BY <1>0, <1>1, <1>2, TargetsApart DEF RoutingInv, TellsWhatIsReady, OnlySelectedHostHolds,
        Selected, ActiveHostIsSelected, RefreshedWhenReady
<1>6. LedsFollowTarget'
  <2>1. CASE up
    <3>1. hosts.active = None
      BY <1>0, <2>1, TargetsApart DEF RoutingInv, ActiveHostIsSelected, TypeOK, HostTables
    <3>2. \A i \in registered : shown'[i] = leds[Wired]
      BY <1>0, <2>1 DEF TypeOK, PushUsbKeyboardLeds
    <3> QED
      BY <1>0, <3>1, <3>2 DEF LedsFollowTarget
  <2>2. CASE ~up
    <3>1. output_target'.active = Wired => output_target.active = Wired
      BY <1>2, <2>2, TargetsApart
    <3> QED
      BY <1>0, <2>2, <3>1 DEF RoutingInv, LedsFollowTarget
  <2> QED
    BY <2>1, <2>2
<1> QED
    BY <1>4, <1>5, <1>6 DEF RoutingInv

(* The link of Wired to a BLE host only affects the next selection. *)
LEMMA LinkRoutes ==
    ASSUME RoutingInv, NEW h \in Hosts \cup {None}, SetWiredHostLink(h), UNCHANGED repertoire
    PROVE  RoutingInv'
<1>0. /\ TypeOK /\ wired_ble_host' = h
      /\ UNCHANGED <<hosts, output_target, wired_availability, pending, registered, held,
                     recent, physical, suppression, carried, leds, shown, seen>>
    BY DEF RoutingInv, SetWiredHostLink, inputVars, ledVars
<1>1. TypeOK'
    BY <1>0 DEF TypeOK
<1>2. TellsWhatIsReady' /\ OnlySelectedHostHolds'
    BY <1>0 DEF RoutingInv, TellsWhatIsReady, OnlySelectedHostHolds, Selected
<1> QED
    BY <1>0, <1>1, <1>2, OnlyTelling

(* RestoreStorage leaves the bridge in a state of the invariant. *)
LEMMA RoutingInitially == Init => RoutingInv
<1> SUFFICES ASSUME Init PROVE RoutingInv
    OBVIOUS
<1>1. PICK table \in PackedTables, selected \in Targets :
         LET active == IF selected = Wired THEN None ELSE selected
         IN  /\ Dual \/ selected # Wired
             /\ hosts = [active |-> active, table |-> table, connected |-> {},
                         ready |-> [h \in Hosts |-> {}]]
             /\ output_target = [selected |-> selected, active |-> None,
                                 availability |-> "Unavailable"]
    BY DEF Init
<1>2. /\ repertoire \in Repertoires /\ wired_availability = "Unavailable"
      /\ wired_ble_host \in Hosts \cup {None} /\ pending = FALSE /\ registered = {}
      /\ held = [i \in Interfaces |-> {}] /\ recent = [i \in Interfaces |-> 0]
      /\ suppression = {} /\ carried = {} /\ leds = [t \in Targets |-> Off]
      /\ shown = [i \in Interfaces |-> Off] /\ physical = [i \in Interfaces |-> {}]
      /\ seen = [t \in Targets |-> {}]
    BY DEF Init
<1>3. /\ table \in [Hosts -> Hosts \cup {None}]
      /\ \A r, s \in Hosts : table[r] = table[s] /\ r # s => table[s] = None
  <2>1. /\ table \in [Hosts -> Hosts \cup {None}]
        /\ \A r, s \in Hosts : r < s /\ table[s] # None => table[r] \notin {None, table[s]}
    BY DEF PackedTables
  <2>2. \A r, s \in Hosts : r # s => r < s \/ s < r
    BY TargetsApart
  <2> QED
    BY <2>1, <2>2
<1>4. hosts \in HostTables
    BY <1>1, <1>3 DEF HostTables, Targets
<1>5. output_target \in OutputTargets
    BY <1>1 DEF OutputTargets, Availabilities
<1>6. TypeOK
    BY <1>2, <1>4, <1>5, LedsAssumption DEF TypeOK, Availabilities
<1>7. TellsWhatIsReady /\ OnlySelectedHostHolds /\ LedsFollowTarget
    BY <1>2, TargetsApart DEF TellsWhatIsReady, OnlySelectedHostHolds, LedsFollowTarget
<1>8. RefreshedWhenReady /\ ActiveHostIsSelected
    BY <1>1, <1>2, TargetsApart DEF RefreshedWhenReady, ActiveHostIsSelected
<1> QED
    BY <1>6, <1>7, <1>8 DEF RoutingInv

(* Every RuntimeInput keeps the invariant. *)
LEMMA RoutingStep == RoutingInv /\ [Next]_vars => RoutingInv'
<1> SUFFICES ASSUME RoutingInv, [Next]_vars PROVE RoutingInv'
    OBVIOUS
<1>1. CASE Step /\ UNCHANGED repertoire
  <2>1. ASSUME NEW i \in Interfaces, NEW parts \in (SUBSET UsedKinds) \ {{}},
               NEW pressed \in SUBSET (Of(parts) \cap repertoire[i]),
               InputFrame(i, parts, pressed)
        PROVE  RoutingInv'
    BY <1>1, <2>1, FrameRoutes
  <2>2. ASSUME NEW i \in Interfaces, UsbDeviceRemoved(i) PROVE RoutingInv'
    BY <1>1, <2>2, UnplugRoutes DEF UsbDeviceRemoved
  <2>3. ASSUME NEW i \in Interfaces, ResetInputDevice(DeviceOf[i]) PROVE RoutingInv'
    BY <1>1, <2>3, UnplugRoutes DEF ResetInputDevice
  <2>4. ASSUME NEW state \in {"fallback", "mismatch", "attached", "detached"},
               DeviceUsbState(state)
        PROVE  RoutingInv'
    <3>1. pending \in BOOLEAN
      BY DEF RoutingInv, TypeOK
    <3>2. \E availability \in Availabilities, stillPending \in BOOLEAN :
             WiredBecomes(availability, stillPending)
      BY <2>4, <3>1 DEF DeviceUsbState, Availabilities
    <3> QED
      BY <1>1, <3>2, WiredRoutes
  <2>5. ASSUME NEW h \in Hosts,
               \/ HostConnected(h) \/ HostSecurityChanged(h)
               \/ \E kind \in UsedKinds, enabled \in BOOLEAN : CccdChanged(h, kind, enabled)
        PROVE  RoutingInv'
    BY <1>1, <2>5, HostEvents, HostsRoute
  <2>6. ASSUME NEW h \in Hosts, HostDisconnected(h) PROVE RoutingInv'
    BY <1>1, <2>6, DisconnectRoutes
  <2>7. ASSUME NEW h \in Hosts, ClearHost(h) PROVE RoutingInv'
    BY <1>1, <2>7, ClearRoutes
  <2>8. ASSUME NEW mask \in SUBSET Hosts, QuiesceBarrier(mask) PROVE RoutingInv'
    BY <1>1, <2>8, QuiesceRoutes
  <2>9. ASSUME NEW i \in Interfaces, UsbHidInterfaceConnected(i) PROVE RoutingInv'
    BY <1>1, <2>9, PlugRoutes
  <2>10. ASSUME NEW target \in Targets, SelectTarget(target) PROVE RoutingInv'
    BY <1>1, <2>10, SelectRoutes
  <2>11. ASSUME NEW h \in Hosts \cup {None}, SetWiredHostLink(h) PROVE RoutingInv'
    BY <1>1, <2>11, LinkRoutes
  <2> QED
    BY <1>1, <2>1, <2>2, <2>3, <2>4, <2>5, <2>6, <2>7, <2>8, <2>9, <2>10, <2>11,
       NextRoutes, LedsRoute DEF Step
<1>2. CASE UNCHANGED vars
  <2>1. TypeOK' /\ TellsWhatIsReady' /\ OnlySelectedHostHolds'
    BY <1>2 DEF vars, RoutingInv, TypeOK, TellsWhatIsReady, OnlySelectedHostHolds, Selected
  <2> QED
    BY <1>2, <2>1, OnlyTelling DEF vars
<1> QED
    BY <1>1, <1>2 DEF Next

(* RoutingInv is an invariant of both builds. *)
THEOREM RoutingInvariant == Spec => []RoutingInv
    BY RoutingInitially, RoutingStep, PTL DEF Spec

(* Type correctness; in particular a host never has two slots of the table, the
   table never overflows, and the dual build routes to its selected target or
   nowhere. *)
THEOREM RoutingTypes == Spec => []TypeOK
<1>1. RoutingInv => TypeOK
    BY DEF RoutingInv
<1> QED
    BY <1>1, RoutingInvariant, PTL

(* Exclusive routing: a host that is not selected believes that nothing is pressed
   (transition_ble_target, transition_output_target). *)
THEOREM Exclusive == Spec => []OnlySelectedHostHolds
<1>1. RoutingInv => OnlySelectedHostHolds
    BY DEF RoutingInv
<1> QED
    BY <1>1, RoutingInvariant, PTL

(* The keyboards show the LEDs of the target in use, whoever changes them and
   whenever (push_usb_keyboard_leds, apply_active_host_leds). *)
THEOREM LedsAgree == Spec => []LedsFollowTarget
<1>1. RoutingInv => LedsFollowTarget
    BY DEF RoutingInv
<1> QED
    BY <1>1, RoutingInvariant, PTL

(* The two selections of the dual build, BleHostStateMachine::active and
   OutputTargetState::selected, never disagree. *)
THEOREM SelectionsAgree == Spec => []ActiveHostIsSelected
<1>1. RoutingInv => ActiveHostIsSelected
    BY DEF RoutingInv
<1> QED
    BY <1>1, RoutingInvariant, PTL

=============================================================================
