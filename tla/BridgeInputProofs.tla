------------------------- MODULE BridgeInputProofs -------------------------
(***************************************************************************)
(* What the selected host is told of the controls held on the input        *)
(* devices, for the single build, where every report reaches the           *)
(* aggregator.                                                             *)
(***************************************************************************)
EXTENDS BridgeProofs

(* Sets of keys are finite, and a smaller one fits if a larger one does. *)
LEMMA FewerKeysFit ==
    ASSUME NEW S, NEW T, S \cap Keys \subseteq T, Cardinality(T \cap Keys) <= KeyLimit
    PROVE  Cardinality(S \cap Keys) <= KeyLimit
<1>1. IsFiniteSet(T \cap Keys)
    BY KeyLimitAssumption, FS_Subset
<1>2. S \cap Keys \in SUBSET (T \cap Keys)
    OBVIOUS
<1>3. IsFiniteSet(S \cap Keys) /\ Cardinality(S \cap Keys) <= Cardinality(T \cap Keys)
    BY <1>1, <1>2, FS_Subset
<1>4. Cardinality(S \cap Keys) \in Nat /\ Cardinality(T \cap Keys) \in Nat
    BY <1>1, <1>3, FS_CardinalityType
<1> QED
    BY <1>3, <1>4, KeyLimitAssumption

(* No keys always fit. *)
LEMMA NoKeysFit ==
    ASSUME NEW S, S \cap Keys = {}
    PROVE  Cardinality(S \cap Keys) <= KeyLimit
BY FS_EmptySet, KeyLimitAssumption

(* Keys that do not take all the room leave some for one more. *)
LEMMA OneMoreFits ==
    ASSUME NEW all, IsFiniteSet(all), Cardinality(all) <= KeyLimit, NEW c \in all,
           NEW fits \in SUBSET (all \ {c})
    PROVE  Cardinality(fits) # KeyLimit
<1>1. IsFiniteSet(all \ {c}) /\ Cardinality(all \ {c}) = Cardinality(all) - 1
    BY FS_RemoveElement
<1>2. IsFiniteSet(fits) /\ Cardinality(fits) <= Cardinality(all \ {c})
    BY <1>1, FS_Subset
<1>3. Cardinality(all) \in Nat /\ Cardinality(fits) \in Nat
    BY <1>2, FS_CardinalityType
<1> QED
    BY <1>1, <1>2, <1>3, KeyLimitAssumption

(* What the aggregate holds, apart from consumer usages, is what is held. *)
LEMMA AggregateIsHeld ==
    ASSUME NEW entries \in [Interfaces -> SUBSET Controls], NEW order
    PROVE  \A c : c \notin Usages =>
              (c \in Aggregate(entries, order) <=> c \in PhysicallyHeld(entries))
BY Aggregating

(* The single build selects a host or nothing, never Wired. *)
LEMMA SelectsAHost ==
    ASSUME TypeOK, ~Dual
    PROVE  /\ Selected = hosts.active /\ Active = hosts.active
           /\ hosts.active \in Hosts \cup {None}
           /\ hosts.active # None => ReadyKinds = hosts.ready[hosts.active]
           /\ hosts.active = None => ReadyKinds = {}
BY RoutesToSelected DEF TypeOK, HostTables, Selected, Active

(* Events that only take things away: what a host was told shrinks, and the active
   host stays or is gone. *)
LEMMA ToldLess ==
    ASSUME RoutingInv, ~Dual, SingleInv,
           UNCHANGED <<held, recent, physical, suppression, carried>>,
           hosts'.active \in {hosts.active, None},
           seen'[Wired] = seen[Wired],
           \A h \in Hosts : seen'[h] \subseteq seen[h]
    PROVE  SingleInv'
<1> DEFINE aggregate == Aggregate(held, recent)
<1>0. aggregate' = aggregate
    OBVIOUS
<1>1. hosts.active \in Hosts \cup {None}
    BY SelectsAHost DEF RoutingInv
<1>2. hosts'.active # None =>
        /\ suppression' \ Usages \subseteq aggregate'
        /\ seen'[hosts'.active] \subseteq aggregate'
        /\ seen'[hosts'.active] \cap (carried' \ Usages) = {}
    BY <1>0, <1>1 DEF SingleInv
<1>3. hosts'.active # None => Cardinality(seen'[hosts'.active] \cap Keys) <= KeyLimit
  <2>1. SUFFICES ASSUME hosts'.active # None
                 PROVE  Cardinality(seen'[hosts.active] \cap Keys) <= KeyLimit
    OBVIOUS
  <2>2. /\ seen'[hosts.active] \cap Keys \subseteq seen[hosts.active]
        /\ Cardinality(seen[hosts.active] \cap Keys) <= KeyLimit
    BY <1>1, <2>1 DEF SingleInv
  <2> QED
    BY <2>2, FewerKeysFit
<1> QED
    BY <1>0, <1>2, <1>3 DEF SingleInv

(* Events that hide everything that is held from a host that was told nothing. *)
LEMMA HidesAll ==
    ASSUME RoutingInv, ~Dual, SingleInv,
           UNCHANGED <<held, recent, physical>>,
           suppression' = Captured, carried' = PhysicallyHeld(physical),
           seen'[Wired] = {}, hosts'.active # None => seen'[hosts'.active] = {}
    PROVE  SingleInv'
<1> DEFINE aggregate == Aggregate(held, recent)
<1>0. /\ held = physical /\ held \in [Interfaces -> SUBSET Controls]
      /\ suppression' = aggregate /\ aggregate' = aggregate
    BY DEF SingleInv, RoutingInv, TypeOK, Captured
<1>1. carried' \ Usages \subseteq suppression'
    BY <1>0, AggregateIsHeld
<1>2. Cardinality((aggregate' \ suppression') \cap Keys) <= KeyLimit
  <2>1. (aggregate' \ suppression') \cap Keys = {}
    BY <1>0
  <2> QED
    BY <2>1, NoKeysFit
<1>3. hosts'.active # None => Cardinality(seen'[hosts'.active] \cap Keys) <= KeyLimit
    BY NoKeysFit
<1> QED
    BY <1>0, <1>1, <1>2, <1>3 DEF SingleInv

(* A host event that leaves the active host alone. *)
LEMMA HostsInput ==
    ASSUME RoutingInv, ~Dual, SingleInv, NEW hs \in HostTables, hs.active = hosts.active,
           HostsBecome(hs)
    PROVE  SingleInv'
<1>1. /\ UNCHANGED <<held, recent, physical, suppression, carried>>
      /\ hosts'.active = hosts.active /\ seen' = Forget(seen, hs)
    BY DEF HostsBecome, inputVars
<1>2. seen \in [Targets -> SUBSET Controls]
    BY DEF RoutingInv, TypeOK
<1> QED
    BY <1>1, <1>2, Forgetting, ToldLess

(* A switch to a host that was told nothing. *)
LEMMA SwitchInput ==
    ASSUME RoutingInv, ~Dual, SingleInv, NEW hs, NEW ot, NEW told, NEW target \in Hosts,
           NEW release \in BOOLEAN, hs \in HostTables,
           Transition(hs, ot, told, target, release),
           seen'[Wired] = {}, seen'[target] = {}
    PROVE  SingleInv'
<1>1. target # Wired
    BY TargetsApart
<1>2. /\ UNCHANGED <<held, recent, physical>>
      /\ suppression' = Captured /\ carried' = PhysicallyHeld(physical)
      /\ hosts' = [Upsert(hs, target) EXCEPT !.active = target]
    BY <1>1 DEF Transition, inputVars
<1>3. hosts'.active = target
    BY <1>2, Upserting DEF HostTables
<1> QED
    BY <1>2, <1>3, HidesAll

(* A selection: the new host was told nothing before. *)
LEMMA SelectInput ==
    ASSUME RoutingInv, ~Dual, SingleInv, NEW target \in Targets, SelectTarget(target)
    PROVE  SingleInv'
<1>1. /\ Transition(hosts, output_target, seen, target, TRUE) /\ target \in Hosts
      /\ target # hosts.active
    BY DEF SelectTarget, Selected, Targets
<1>2. seen' = Released(hosts, output_target, seen)
    BY <1>1 DEF Transition
<1>3. seen'[Wired] = {} /\ seen'[target] = {}
  <2>1. seen[Wired] = {} /\ seen[target] = {}
    BY <1>1 DEF SingleInv, RoutingInv, OnlySelectedHostHolds, Selected, TypeOK, Targets
  <2> QED
    BY <1>1, <1>2, <2>1, Releasing
<1>4. hosts \in HostTables
    BY DEF RoutingInv, TypeOK
<1> QED
    BY <1>1, <1>3, <1>4, SwitchInput

(* The switch button and the shortcut. *)
LEMMA NextInput ==
    ASSUME RoutingInv, ~Dual, SingleInv, NextConnectedTarget
    PROVE  SingleInv'
<1> DEFINE target == NextTargetAfter(hosts, hosts.active, hosts.connected)
<1>1. target # None /\ SelectTarget(target)
    BY DEF NextConnectedTarget
<1>2. hosts \in HostTables /\ hosts.connected \in SUBSET Hosts
    BY DEF RoutingInv, TypeOK, HostTables
<1>3. target \in Targets
    BY <1>1, <1>2, NextTargetFound, TargetsApart
<1> HIDE DEF target
<1> QED
    BY <1>1, <1>3, SelectInput

(* The fallback after a disconnection goes to another host. *)
LEMMA DisconnectInput ==
    ASSUME RoutingInv, ~Dual, SingleInv, NEW h \in Hosts, HostDisconnected(h)
    PROVE  SingleInv'
<1> DEFINE hs == OnDisconnected(hosts, {h})
           ready == {g \in Hosts : "Keyboard" \in hs.ready[g]}
           target == IF ~(hosts.active = h /\ "Keyboard" \in hosts.ready[h]) THEN None
                     ELSE NextTargetAfter(hs, h, ready)
<1>1. IF target = None THEN HostsBecome(hs)
      ELSE Transition(hs, Refreshed(hs), Forget(seen, hs), target, FALSE)
    BY DEF HostDisconnected
<1>2. hosts \in HostTables /\ seen \in [Targets -> SUBSET Controls]
    BY DEF RoutingInv, TypeOK
<1>3. hs \in HostTables /\ hs.active = hosts.active /\ hs.ready[h] = {}
    BY <1>2, Disconnecting
<1>4. target # None => /\ target \in ready /\ hosts.active = h
  <2>1. target # None => hosts.active = h /\ target = NextTargetAfter(hs, h, ready)
    OBVIOUS
  <2>2. ready \in SUBSET Hosts
    OBVIOUS
  <2> HIDE DEF ready
  <2>3. NextTargetAfter(hs, h, ready) # None => NextTargetAfter(hs, h, ready) \in ready
    BY <1>3, <2>2, NextTargetFound
  <2> QED
    BY <2>1, <2>3
<1>5. target # None => target \in Hosts /\ target # h
    BY <1>3, <1>4
<1> HIDE DEF target, ready, hs
<1>6. CASE target = None
    BY <1>1, <1>3, <1>6, HostsInput
<1>7. CASE target # None
  <2>1. seen' = Forget(seen, hs)
    BY <1>1, <1>7 DEF Transition
  <2>2. seen[Wired] = {} /\ seen[target] = {}
    BY <1>4, <1>5, <1>7 DEF SingleInv, RoutingInv, OnlySelectedHostHolds, Selected, TypeOK,
        Targets
  <2>3. seen'[Wired] = {} /\ seen'[target] = {}
    BY <1>2, <1>3, <1>5, <1>7, <2>1, <2>2, Forgetting
  <2> QED
    BY <1>1, <1>3, <1>5, <1>7, <2>3, SwitchInput
<1> QED
    BY <1>6, <1>7

(* clear_host. *)
LEMMA ClearInput ==
    ASSUME RoutingInv, ~Dual, SingleInv, NEW h \in Hosts, ClearHost(h)
    PROVE  SingleInv'
<1> DEFINE hs == RemoveHost(hosts, h)
           told == IF hosts.active = h THEN Notify(seen, h, hosts.ready[h], {}) ELSE seen
<1>1. /\ hosts \in HostTables /\ seen \in [Targets -> SUBSET Controls]
      /\ h \in Targets /\ h # Wired /\ Wired \in Targets /\ Hosts \subseteq Targets
    BY TargetsApart DEF RoutingInv, TypeOK
<1>2. /\ told \in [Targets -> SUBSET Controls] /\ told[Wired] = seen[Wired]
      /\ \A g \in Hosts : told[g] \subseteq seen[g]
    BY <1>1 DEF Notify
<1>3. hs \in HostTables /\ hs.active \in {hosts.active, None}
    BY <1>1, Removing
<1>4. /\ hosts' = hs /\ seen' = Forget(told, hs)
      /\ UNCHANGED <<held, recent, physical, suppression, carried>>
    BY DEF ClearHost, inputVars
<1> HIDE DEF hs, told
<1>5. seen'[Wired] = seen[Wired] /\ \A g \in Hosts : seen'[g] \subseteq seen[g]
    BY <1>2, <1>3, <1>4, Forgetting
<1> QED
    BY <1>3, <1>4, <1>5, ToldLess

(* LED events and new interfaces touch no input. *)
LEMMA OtherInput ==
    ASSUME RoutingInv, ~Dual, SingleInv,
           \/ \E h \in Hosts, value \in Leds : HostKeyboardLedChanged(h, value)
           \/ \E i \in Interfaces : UsbHidInterfaceConnected(i)
           \/ UNCHANGED vars
    PROVE  SingleInv'
<1>1. /\ UNCHANGED <<held, recent, physical, suppression, carried, seen>>
      /\ hosts'.active = hosts.active
  <2>1. ASSUME NEW h \in Hosts, NEW value \in Leds, HostKeyboardLedChanged(h, value)
        PROVE  /\ UNCHANGED <<held, recent, physical, suppression, carried, seen>>
               /\ hosts'.active = hosts.active
    BY <2>1, Upserting DEF HostKeyboardLedChanged, inputVars, RoutingInv, TypeOK
  <2>2. ASSUME NEW i \in Interfaces, UsbHidInterfaceConnected(i)
        PROVE  /\ UNCHANGED <<held, recent, physical, suppression, carried, seen>>
               /\ hosts'.active = hosts.active
    BY <2>2 DEF UsbHidInterfaceConnected
  <2> QED
    BY <2>1, <2>2 DEF vars
<1> QED
    BY <1>1, ToldLess

(* A flash quiesce hides everything that is held. *)
LEMMA QuiesceInput ==
    ASSUME RoutingInv, ~Dual, SingleInv, NEW mask \in SUBSET Hosts, QuiesceBarrier(mask)
    PROVE  SingleInv'
<1>1. /\ UNCHANGED <<held, recent, physical>> /\ suppression' = Captured
      /\ hosts' = OnDisconnected(hosts, mask)
      /\ carried' = IF Selected = Wired THEN carried ELSE PhysicallyHeld(physical)
      /\ seen' = [t \in Targets |-> IF t \in Hosts THEN {} ELSE seen[t]]
    BY DEF QuiesceBarrier, inputVars
<1>2. Selected # Wired /\ hosts.active \in Hosts \cup {None}
    BY SelectsAHost, TargetsApart DEF RoutingInv
<1>3. hosts'.active = hosts.active
    BY <1>1, Disconnecting DEF RoutingInv, TypeOK
<1>4. seen'[Wired] = {} /\ (hosts'.active # None => seen'[hosts'.active] = {})
    BY <1>1, <1>2, <1>3, TargetsApart DEF SingleInv
<1> QED
    BY <1>1, <1>2, <1>4, HidesAll

(* A frame of some parts leaves the aggregate of the other kinds alone. *)
LEMMA OtherKindsStay ==
    ASSUME RoutingInv, ~Dual, NEW i \in Interfaces, NEW parts,
           NEW pressed \in SUBSET (Of(parts) \cap repertoire[i]),
           InputFrame(i, parts, pressed), NEW c \in Controls, c \notin Of(parts)
    PROVE  c \in Aggregate(held, recent) <=> c \in Aggregate(held', recent')
<1>1. /\ held \in [Interfaces -> SUBSET Controls]
      /\ held' = [held EXCEPT ![i] = (@ \ Of(parts)) \cup pressed]
      /\ "Consumer" \notin parts => recent' = recent
    BY DEF RoutingInv, TypeOK, InputFrame
<1>2. \A j \in Interfaces : c \in held'[j] <=> c \in held[j]
    BY <1>1
<1>3. c \in Usages => recent' = recent
    BY <1>1 DEF Of
<1> QED
    BY <1>2, <1>3 DEF Aggregate

(* What a frame does in the single build, with the aggregates before and after. *)
LEMMA FrameParts ==
    ASSUME RoutingInv, ~Dual, SingleInv, NEW i \in Interfaces,
           NEW parts, NEW pressed \in SUBSET (Of(parts) \cap repertoire[i]),
           InputFrame(i, parts, pressed)
    PROVE  LET old == Aggregate(held, recent)
               new == Aggregate(held', recent')
               kept == Retained(parts, new)
           IN  /\ held' \in [Interfaces -> SUBSET Controls] /\ held' = physical'
               /\ carried' = carried \cap PhysicallyHeld(physical')
               /\ \E beyond \in BeyondLimit(new \ kept, new \ old) :
                     suppression' = kept \cup beyond
               /\ seen' = IF ReadyKinds \cap parts = {} THEN seen
                          ELSE Notify(seen, Active, ReadyKinds \cap parts,
                                      new \ suppression')
               /\ hosts' = hosts
<1>1. /\ held \in [Interfaces -> SUBSET Controls] /\ held = physical
      /\ pressed \subseteq Controls
    BY Carries DEF RoutingInv, TypeOK, SingleInv
<1>2. /\ held' = [held EXCEPT ![i] = (@ \ Of(parts)) \cup pressed]
      /\ physical' = [physical EXCEPT ![i] = (@ \ Of(parts)) \cup pressed]
    BY DEF InputFrame
<1>3. held' \in [Interfaces -> SUBSET Controls] /\ held' = physical'
    BY <1>1, <1>2
<1> QED
    BY <1>3 DEF InputFrame

(* Input frames. *)
LEMMA FrameInput ==
    ASSUME RoutingInv, ~Dual, SingleInv, NEW i \in Interfaces,
           NEW parts, NEW pressed \in SUBSET (Of(parts) \cap repertoire[i]),
           InputFrame(i, parts, pressed)
    PROVE  SingleInv'
<1> DEFINE old == Aggregate(held, recent)
           new == Aggregate(held', recent')
           kept == Retained(parts, new)
           kinds == ReadyKinds \cap parts
           host == hosts.active
<1>1. PICK beyond \in BeyondLimit(new \ kept, new \ old) : suppression' = kept \cup beyond
    BY FrameParts
<1>2. /\ held' = physical' /\ hosts' = hosts
      /\ carried' = carried \cap PhysicallyHeld(physical')
      /\ seen' = IF kinds = {} THEN seen ELSE Notify(seen, Active, kinds, new \ suppression')
    BY FrameParts
<1>3. /\ \A c : c \notin Usages => (c \in old <=> c \in PhysicallyHeld(held))
      /\ \A c : c \notin Usages => (c \in new <=> c \in PhysicallyHeld(held'))
      /\ old \subseteq Controls /\ new \subseteq Controls
  <2>1. held \in [Interfaces -> SUBSET Controls] /\ held' \in [Interfaces -> SUBSET Controls]
    BY FrameParts DEF RoutingInv, TypeOK
  <2> QED
    BY <2>1, AggregateIsHeld, Aggregating
<1>4. /\ beyond \subseteq (new \ old) \cap Keys
      /\ Cardinality(((new \ kept) \cap Keys) \ beyond) <= KeyLimit
    BY <1>1 DEF BeyondLimit
<1>5. \A c \in Controls : c \notin Of(parts) => (c \in old <=> c \in new)
    BY OtherKindsStay
<1>6. kept = (suppression \ Of(parts)) \cup (suppression \cap new)
    BY DEF Retained
<1>7. /\ host \in Hosts \cup {None} /\ Active = host
      /\ host # None => kinds = hosts.ready[host] \cap parts /\ host \in Targets
      /\ host = None => kinds = {}
    BY SelectsAHost, TargetsApart DEF RoutingInv
<1>8. /\ seen \in [Targets -> SUBSET Controls] /\ suppression \subseteq Controls
      /\ host # None => seen[host] \subseteq Of(hosts.ready[host])
    BY <1>7 DEF RoutingInv, TypeOK, TellsWhatIsReady
<1>9. /\ carried \ Usages \subseteq suppression /\ seen[Wired] = {}
      /\ host # None => /\ suppression \ Usages \subseteq old /\ seen[host] \subseteq old
                        /\ seen[host] \cap (carried \ Usages) = {}
                        /\ Cardinality(seen[host] \cap Keys) <= KeyLimit
    BY DEF SingleInv
<1> HIDE DEF old, new, kept, kinds, host
<1>10. carried' \ Usages \subseteq suppression'
    BY <1>1, <1>2, <1>3, <1>6, <1>9
<1>11. Cardinality((new \ suppression') \cap Keys) <= KeyLimit
  <2>1. (new \ suppression') \cap Keys = ((new \ kept) \cap Keys) \ beyond
    BY <1>1
  <2> QED
    BY <1>4, <2>1
<1>12. host # None => suppression' \ Usages \subseteq new
    BY <1>1, <1>4, <1>5, <1>6, <1>8, <1>9
<1>13. seen'[Wired] = {}
    BY <1>2, <1>7, <1>8, <1>9, TargetsApart DEF Notify
<1>14. ASSUME host # None
       PROVE  /\ seen'[host] = (seen[host] \ Of(parts)) \cup
                                  ((new \ suppression') \cap Of(kinds))
  <2>1. \A c \in seen[host] : c \in Of(kinds) <=> c \in Of(parts)
    <3>1. SUFFICES ASSUME NEW c \in seen[host] PROVE c \in Of(kinds) <=> c \in Of(parts)
      OBVIOUS
    <3>2. c \in Controls /\ c \in Of(hosts.ready[host])
      BY <1>7, <1>8, <1>14
    <3>3. PICK k : \A any : c \in Of(any) <=> k \in any
      BY <3>2, OneKind
    <3> QED
      BY <1>7, <1>14, <3>2, <3>3
  <2>2. CASE kinds = {}
    BY <1>2, <2>1, <2>2, Carries
  <2>3. CASE kinds # {}
    <3>1. seen'[host] = (seen[host] \ Of(kinds)) \cup ((new \ suppression') \cap Of(kinds))
      BY <1>2, <1>7, <1>8, <1>14, <2>3 DEF Notify
    <3> QED
      BY <2>1, <3>1
  <2> QED
    BY <2>2, <2>3
<1>15. host # None => /\ seen'[host] \subseteq new
                      /\ seen'[host] \cap (carried' \ Usages) = {}
  <2>1. SUFFICES ASSUME host # None
                 PROVE  /\ seen'[host] \subseteq new
                        /\ seen'[host] \cap (carried' \ Usages) = {}
    OBVIOUS
  <2>2. seen[host] \ Of(parts) \subseteq new
    BY <1>3, <1>5, <1>9, <2>1
  <2> QED
    BY <1>2, <1>9, <1>10, <1>14, <2>1, <2>2
<1>16. ASSUME host # None PROVE Cardinality(seen'[host] \cap Keys) <= KeyLimit
  <2>1. CASE "Keyboard" \in parts
    <3>1. seen'[host] \cap Keys \subseteq new \ suppression'
      BY <1>14, <1>16, <2>1 DEF Of
    <3> QED
      BY <1>11, <3>1, FewerKeysFit
  <2>2. CASE "Keyboard" \notin parts
    <3>1. seen'[host] \cap Keys \subseteq seen[host]
      BY <1>7, <1>14, <1>16, <2>2, ControlsAssumption DEF Of
    <3> QED
      BY <1>9, <1>16, <3>1, FewerKeysFit
  <2> QED
    BY <2>1, <2>2
<1>17. host' = host /\ Aggregate(held, recent)' = new /\ carried' \subseteq PhysicallyHeld(physical')
    BY <1>2 DEF host, new
<1> QED
    BY <1>2, <1>10, <1>11, <1>12, <1>13, <1>15, <1>16, <1>17 DEF SingleInv, host

(* Interfaces that leave. *)
LEMMA DetachInput ==
    ASSUME RoutingInv, ~Dual, SingleInv, NEW gone \in SUBSET Interfaces, Detach(gone)
    PROVE  SingleInv'
<1> DEFINE old == Aggregate(held, recent)
           new == Aggregate(held', recent')
           kinds == Changed(old, new)
           host == hosts.active
<1>1. /\ held' = [j \in Interfaces |-> IF j \in gone THEN {} ELSE held[j]]
      /\ held' = physical' /\ hosts' = hosts
      /\ carried' = carried \cap PhysicallyHeld(physical')
      /\ host = None => UNCHANGED <<suppression, seen>>
      /\ host # None => /\ suppression' = suppression \cap new
                        /\ seen' = Notify(seen, host, kinds,
                                          (new \ suppression') \cup (new \cap Usages))
    BY DEF Detach, SingleInv
<1>2. held \in [Interfaces -> SUBSET Controls] /\ held' \in [Interfaces -> SUBSET Controls]
    BY <1>1 DEF RoutingInv, TypeOK
<1>3. /\ \A c : c \notin Usages => (c \in old <=> c \in PhysicallyHeld(held))
      /\ \A c : c \notin Usages => (c \in new <=> c \in PhysicallyHeld(held'))
      /\ old \subseteq Controls /\ PhysicallyHeld(held') \subseteq PhysicallyHeld(held)
  <2>1. PhysicallyHeld(held') \subseteq PhysicallyHeld(held)
    BY <1>1, <1>2 DEF PhysicallyHeld
  <2> QED
    BY <1>2, <2>1, AggregateIsHeld, Aggregating
<1>4. /\ host \in Hosts \cup {None}
      /\ host # None => host \in Targets /\ host # Wired
    BY SelectsAHost, TargetsApart DEF RoutingInv
<1>5. /\ seen \in [Targets -> SUBSET Controls]
      /\ host # None => seen[host] \subseteq Of(hosts.ready[host])
    BY <1>4 DEF RoutingInv, TypeOK, TellsWhatIsReady
<1>6. /\ carried \ Usages \subseteq suppression /\ seen[Wired] = {}
      /\ Cardinality((old \ suppression) \cap Keys) <= KeyLimit
      /\ host # None => /\ suppression \ Usages \subseteq old /\ seen[host] \subseteq old
                        /\ seen[host] \cap (carried \ Usages) = {}
                        /\ Cardinality(seen[host] \cap Keys) <= KeyLimit
    BY DEF SingleInv
<1>7. \A k \in hosts.ready[host] : k \notin kinds => old \cap Of({k}) = new \cap Of({k})
    BY DEF Changed
<1>8. Keys \cap Usages = {}
    BY ControlsAssumption
<1> HIDE DEF old, new, kinds, host
<1>9. carried' \ Usages \subseteq suppression'
    BY <1>1, <1>3, <1>6
<1>10. Cardinality((new \ suppression') \cap Keys) <= KeyLimit
  <2>1. (new \ suppression') \cap Keys \subseteq old \ suppression
    BY <1>1, <1>3, <1>8
  <2> QED
    BY <1>6, <2>1, FewerKeysFit
<1>11. seen'[Wired] = {}
    BY <1>1, <1>4, <1>5, <1>6, TargetsApart DEF Notify
<1>12. ASSUME host # None
       PROVE  seen'[host] = (seen[host] \ Of(kinds)) \cup
                  (((new \ suppression') \cup (new \cap Usages)) \cap Of(kinds))
    BY <1>1, <1>4, <1>5, <1>12 DEF Notify
<1>13. ASSUME host # None PROVE seen[host] \ Of(kinds) \subseteq new
  <2>1. SUFFICES ASSUME NEW c \in seen[host], c \notin Of(kinds) PROVE c \in new
    OBVIOUS
  <2>2. c \in Controls /\ c \in Of(hosts.ready[host]) /\ c \in old
    BY <1>4, <1>5, <1>6, <1>13
  <2>3. PICK k : \A any : c \in Of(any) <=> k \in any
    BY <2>2, OneKind
  <2>4. k \in hosts.ready[host] /\ k \notin kinds /\ c \in Of({k})
    BY <2>1, <2>2, <2>3
  <2> QED
    BY <1>7, <2>2, <2>4
<1>14. host # None => /\ suppression' \ Usages \subseteq new
                      /\ seen'[host] \subseteq new
                      /\ seen'[host] \cap (carried' \ Usages) = {}
    BY <1>1, <1>6, <1>9, <1>12, <1>13
<1>15. ASSUME host # None PROVE Cardinality(seen'[host] \cap Keys) <= KeyLimit
  <2>1. CASE "Keyboard" \in kinds
    <3>1. seen'[host] \cap Keys \subseteq new \ suppression'
      BY <1>8, <1>12, <1>15, <2>1 DEF Of
    <3> QED
      BY <1>10, <3>1, FewerKeysFit
  <2>2. CASE "Keyboard" \notin kinds
    <3>1. seen'[host] \cap Keys \subseteq seen[host]
      BY <1>12, <1>15, <2>2, ControlsAssumption DEF Of
    <3> QED
      BY <1>6, <1>15, <3>1, FewerKeysFit
  <2> QED
    BY <2>1, <2>2
<1>16. host' = host /\ Aggregate(held, recent)' = new /\ carried' \subseteq PhysicallyHeld(physical')
    BY <1>1 DEF host, new
<1> QED
    BY <1>1, <1>9, <1>10, <1>11, <1>14, <1>15, <1>16 DEF SingleInv, host

(* After boot nothing is held, hidden or told. *)
LEMMA SingleInitially == Init => SingleInv
<1> SUFFICES ASSUME Init PROVE SingleInv
    OBVIOUS
<1>1. /\ held = [i \in Interfaces |-> {}] /\ physical = held /\ suppression = {}
      /\ carried = {} /\ seen = [t \in Targets |-> {}] /\ RoutingInv
    BY RoutingInitially DEF Init
<1>2. seen[Wired] = {} /\ (hosts.active # None => seen[hosts.active] = {})
    BY <1>1, TargetsApart DEF RoutingInv, TypeOK, HostTables
<1>3. Aggregate(held, recent) = {}
    BY <1>1 DEF Aggregate
<1>4. /\ Cardinality((Aggregate(held, recent) \ suppression) \cap Keys) <= KeyLimit
      /\ hosts.active # None => Cardinality(seen[hosts.active] \cap Keys) <= KeyLimit
    BY <1>2, <1>3, NoKeysFit
<1> QED
    BY <1>1, <1>2, <1>4 DEF SingleInv

(* Every RuntimeInput of the single build keeps the invariant. *)
LEMMA SingleStep == ~Dual /\ RoutingInv /\ SingleInv /\ [Next]_vars => SingleInv'
<1> SUFFICES ASSUME ~Dual, RoutingInv, SingleInv, [Next]_vars PROVE SingleInv'
    OBVIOUS
<1>1. CASE Step
  <2>1. ASSUME NEW i \in Interfaces, NEW parts \in (SUBSET UsedKinds) \ {{}},
               NEW pressed \in SUBSET (Of(parts) \cap repertoire[i]),
               InputFrame(i, parts, pressed)
        PROVE  SingleInv'
    BY <2>1, FrameInput
  <2>2. ASSUME NEW i \in Interfaces, UsbDeviceRemoved(i) \/ ResetInputDevice(DeviceOf[i])
        PROVE  SingleInv'
    BY <2>2, DetachInput DEF UsbDeviceRemoved, ResetInputDevice
  <2>3. ASSUME NEW h \in Hosts,
               \/ HostConnected(h) \/ HostSecurityChanged(h)
               \/ \E kind \in UsedKinds, enabled \in BOOLEAN : CccdChanged(h, kind, enabled)
        PROVE  SingleInv'
    BY <2>3, HostEvents, HostsInput
  <2>4. ASSUME NEW h \in Hosts, HostDisconnected(h) PROVE SingleInv'
    BY <2>4, DisconnectInput
  <2>5. ASSUME NEW h \in Hosts, ClearHost(h) PROVE SingleInv'
    BY <2>5, ClearInput
  <2>6. ASSUME NEW mask \in SUBSET Hosts, QuiesceBarrier(mask) PROVE SingleInv'
    BY <2>6, QuiesceInput
  <2>7. ASSUME NEW target \in Targets, SelectTarget(target) PROVE SingleInv'
    BY <2>7, SelectInput
  <2>8. /\ \A value \in Leds : ~WiredKeyboardLedChanged(value)
        /\ \A h \in Hosts \cup {None} : ~SetWiredHostLink(h)
        /\ \A state \in {"fallback", "mismatch", "attached", "detached"} :
              ~DeviceUsbState(state)
    BY DEF WiredKeyboardLedChanged, SetWiredHostLink, DeviceUsbState, WiredBecomes
  <2> QED
    BY <1>1, <2>1, <2>2, <2>3, <2>4, <2>5, <2>6, <2>7, <2>8, NextInput, OtherInput DEF Step
<1>2. CASE UNCHANGED vars
    BY <1>2, OtherInput
<1> QED
    BY <1>1, <1>2 DEF Next

(* InputInv is an invariant. *)
THEOREM InputInvariant == Spec => []InputInv
<1>1. Init => InputInv
    BY RoutingInitially, SingleInitially DEF InputInv
<1>2. InputInv /\ [Next]_vars => InputInv'
    BY RoutingStep, SingleStep DEF InputInv
<1> QED
    BY <1>1, <1>2, PTL DEF Spec

(* A key or button held at a switch stays hidden from the new host until it is
   released (capture_from, retain_pressed_by). *)
THEOREM HeldIsHidden ==
    ASSUME ~Dual
    PROVE  Spec => []HeldAcrossSwitchIsHidden
<1>1. InputInv => HeldAcrossSwitchIsHidden
    BY DEF InputInv, SingleInv, HeldAcrossSwitchIsHidden, Selected
<1> QED
    BY <1>1, InputInvariant, PTL

(* No host believes that a control is pressed which is physically held on no device,
   and no report is longer than the 6KRO report (suppress_visible_after). *)
THEOREM NothingSticks ==
    ASSUME ~Dual
    PROVE  Spec => []NoStuckInput
<1>1. ASSUME InputInv PROVE NoStuckInput
  <2>1. RoutingInv /\ SingleInv /\ Selected = hosts.active
    BY <1>1 DEF InputInv, Selected
  <2>2. Selected # None => seen[Selected] \subseteq PhysicallyHeld(physical)
    BY <2>1, Aggregating DEF SingleInv, RoutingInv, TypeOK
  <2>3. ASSUME NEW t \in Targets PROVE Cardinality(seen[t] \cap Keys) <= KeyLimit
    <3>1. CASE t = hosts.active
      BY <2>1, <3>1, TargetsApart DEF SingleInv
    <3>2. CASE t # hosts.active
      <4>1. seen[t] \cap Keys = {}
        BY <2>1, <2>3, <3>2
        DEF SingleInv, RoutingInv, OnlySelectedHostHolds, Targets, Controls
      <4> QED
        BY <4>1, NoKeysFit
    <3> QED
      BY <3>1, <3>2
  <2> QED
    BY <2>2, <2>3 DEF NoStuckInput
<1> QED
    BY <1>1, InputInvariant, PTL

(* Only a frame presses a control, and it shows what it presses: a fresh press is
   neither still suppressed nor over the limit. *)
LEMMA FrameShows ==
    ASSUME RoutingInv, ~Dual, SingleInv, NEW i \in Interfaces,
           NEW parts, NEW pressed \in SUBSET (Of(parts) \cap repertoire[i]),
           InputFrame(i, parts, pressed)
    PROVE  ShowsFreshPress
<1> SUFFICES ASSUME NEW c \in Keys \cup Modifiers \cup Buttons,
                    c \notin PhysicallyHeld(physical), c \in PhysicallyHeld(physical'),
                    c \in Of(ReadyKinds),
                    Cardinality(PhysicallyHeld(physical') \cap Keys) <= KeyLimit
             PROVE  c \in seen'[Selected]
    BY DEF ShowsFreshPress
<1> DEFINE old == Aggregate(held, recent)
           new == Aggregate(held', recent')
           kept == Retained(parts, new)
<1>0. c \in Controls /\ c \notin Usages
    BY ControlsAssumption DEF Controls
<1>1. PICK beyond \in BeyondLimit(new \ kept, new \ old) : suppression' = kept \cup beyond
    BY FrameParts
<1>2. /\ held' = physical' /\ held = physical
      /\ held \in [Interfaces -> SUBSET Controls] /\ held' \in [Interfaces -> SUBSET Controls]
    BY FrameParts DEF SingleInv, RoutingInv, TypeOK
<1>3. /\ c \notin old /\ c \in new /\ new \subseteq PhysicallyHeld(physical')
    BY <1>0, <1>2, AggregateIsHeld, Aggregating
<1>4. c \in Of(parts)
    BY <1>0, <1>3, OtherKindsStay
<1>5. c \in Of(ReadyKinds \cap parts)
  <2>1. PICK k : \A any : c \in Of(any) <=> k \in any
    BY <1>0, OneKind
  <2> QED
    BY <1>4, <2>1
<1>6. /\ ReadyKinds \cap parts # {} /\ hosts.active # None
      /\ Active = hosts.active /\ Selected = hosts.active /\ hosts.active \in Targets
    BY <1>5, Carries, SelectsAHost, TargetsApart DEF RoutingInv
<1>7. c \notin kept
    BY <1>0, <1>3, <1>6 DEF Retained, SingleInv
<1>8. c \notin beyond
  <2>1. SUFFICES ASSUME c \in beyond PROVE FALSE
    OBVIOUS
  <2> DEFINE fits == ((new \ kept) \cap Keys) \ beyond
             all == PhysicallyHeld(physical') \cap Keys
  <2>2. Cardinality(fits) = KeyLimit /\ c \in Keys
    BY <1>1, <2>1 DEF BeyondLimit
  <2>3. /\ fits \in SUBSET (all \ {c}) /\ c \in all
    BY <1>3, <2>1, <2>2
  <2>4. IsFiniteSet(all) /\ Cardinality(all) <= KeyLimit
    BY KeyLimitAssumption, FS_Subset
  <2> HIDE DEF fits, all
  <2> QED
    BY <2>2, <2>3, <2>4, OneMoreFits
<1>9. seen' = Notify(seen, Active, ReadyKinds \cap parts, new \ suppression')
    BY <1>6, FrameParts
<1> HIDE DEF old, new, kept
<1> QED
    BY <1>1, <1>3, <1>5, <1>6, <1>7, <1>8, <1>9 DEF Notify, RoutingInv, TypeOK

(* A fresh press that fits is shown to the ready host at once. *)
THEOREM FreshPressShown ==
    ASSUME ~Dual
    PROVE  Spec => FreshPressIsShown
<1>1. ASSUME InputInv, [Next]_vars PROVE [ShowsFreshPress]_vars
  <2>0. RoutingInv /\ SingleInv
    BY <1>1 DEF InputInv
  <2>1. ASSUME NEW i \in Interfaces, NEW parts \in (SUBSET UsedKinds) \ {{}},
               NEW pressed \in SUBSET (Of(parts) \cap repertoire[i]),
               InputFrame(i, parts, pressed)
        PROVE  ShowsFreshPress
    BY <2>0, <2>1, FrameShows
  <2>2. ASSUME PhysicallyHeld(physical') \subseteq PhysicallyHeld(physical)
        PROVE  ShowsFreshPress
    BY <2>2 DEF ShowsFreshPress
  <2>3. ASSUME NEW i \in Interfaces, UsbDeviceRemoved(i) \/ ResetInputDevice(DeviceOf[i])
        PROVE  PhysicallyHeld(physical') \subseteq PhysicallyHeld(physical)
    <3>1. PICK gone : physical' = [j \in Interfaces |-> IF j \in gone THEN {} ELSE physical[j]]
      BY <2>3 DEF UsbDeviceRemoved, ResetInputDevice, Detach
    <3> QED
      BY <3>1 DEF PhysicallyHeld
  <2>4. ASSUME NEW hs, NEW ot, NEW told, NEW target, NEW release,
               Transition(hs, ot, told, target, release)
        PROVE  physical' = physical
    BY <2>4 DEF Transition, inputVars
  <2>5. ASSUME NEW hs, HostsBecome(hs) PROVE physical' = physical
    BY <2>5 DEF HostsBecome, inputVars
  <2>6. ASSUME NEW h \in Hosts,
               \/ HostConnected(h) \/ HostSecurityChanged(h) \/ HostDisconnected(h)
               \/ \E kind \in UsedKinds, enabled \in BOOLEAN : CccdChanged(h, kind, enabled)
        PROVE  physical' = physical
    BY <2>4, <2>5, <2>6 DEF HostConnected, HostSecurityChanged, CccdChanged, HostDisconnected
  <2>7. (\E target \in Targets : SelectTarget(target)) \/ NextConnectedTarget
            => physical' = physical
    BY <2>4 DEF SelectTarget, NextConnectedTarget
  <2>8. ASSUME \/ \E h \in Hosts : ClearHost(h)
               \/ \E h \in Hosts, value \in Leds : HostKeyboardLedChanged(h, value)
               \/ \E mask \in SUBSET Hosts : QuiesceBarrier(mask)
               \/ \E i \in Interfaces : UsbHidInterfaceConnected(i)
               \/ \E value \in Leds : WiredKeyboardLedChanged(value)
               \/ \E h \in Hosts \cup {None} : SetWiredHostLink(h)
        PROVE  physical' = physical
    BY <2>8 DEF ClearHost, HostKeyboardLedChanged, QuiesceBarrier, UsbHidInterfaceConnected,
        WiredKeyboardLedChanged, SetWiredHostLink, inputVars
  <2>9. \A state \in {"fallback", "mismatch", "attached", "detached"} : ~DeviceUsbState(state)
    BY DEF DeviceUsbState, WiredBecomes
  <2> QED
    BY <1>1, <2>1, <2>2, <2>3, <2>6, <2>7, <2>8, <2>9 DEF Next, Step
<1> QED
    BY <1>1, InputInvariant, PTL DEF Spec, FreshPressIsShown

=============================================================================
