------------------------- MODULE StorageTaskProofs -------------------------
(***************************************************************************)
(* What is staged, restored and written, step by step, and the theorems    *)
(* about the four tasks.                                                   *)
(***************************************************************************)
EXTENDS StorageHandshakeProofs, FiniteSetTheorems

USE Constants DEF Initializing, Persistent, UnavailableHealth, Degraded,
    Healths, Lazy, Normal, Critical, Priorities, NoState, NoDeadline, Empty, Unit


(* Counting the changes that wait in a queue. *)

(* Taking the head of a queue shifts the positions of the changes by one. *)
LEMMA Shifted ==
    ASSUME NEW before \in SUBSET Nat, IsFiniteSet(before),
           NEW after \in SUBSET (Nat \ {0}), \A i \in after : i + 1 \in before
    PROVE  /\ Cardinality(before) \in Nat /\ Cardinality(after) \in Nat
           /\ Cardinality(after) + (IF 1 \in before THEN 1 ELSE 0) <= Cardinality(before)
<1> DEFINE moved == [i \in after |-> i + 1]
           rest == before \ {1}
<1>1. Cardinality(before) \in Nat
    BY FS_CardinalityType
<1>2. IsFiniteSet(rest) /\ Cardinality(rest) = IF 1 \in before THEN Cardinality(before) - 1
                                               ELSE Cardinality(before)
    BY FS_RemoveElement
<1>3. moved \in Injection(after, rest)
  <2>1. \A i \in after : i + 1 \in rest
    OBVIOUS
  <2>2. moved \in [after -> rest]
    BY <2>1
  <2>3. \A i, j \in after : moved[i] = moved[j] => i = j
    OBVIOUS
  <2> HIDE DEF moved, rest
  <2> QED
    BY <2>2, <2>3 DEF Injection, IsInjective
<1> HIDE DEF moved, rest
<1>4. IsFiniteSet(after) /\ Cardinality(after) <= Cardinality(rest)
    BY <1>2, <1>3, FS_Injection
<1>5. Cardinality(after) \in Nat
    BY <1>4, FS_CardinalityType
<1> QED
    BY <1>1, <1>2, <1>4, <1>5

(* The changes that wait in a queue can be counted. *)
LEMMA ChangesFinite ==
    ASSUME NEW s \in Seq(Messages)
    PROVE  /\ IsFiniteSet({i \in DOMAIN s : s[i].kind = "change"})
           /\ ChangesIn(s) \in Nat
<1>1. IsFiniteSet(1 .. Len(s))
    BY FS_Interval
<1>2. {i \in DOMAIN s : s[i].kind = "change"} \in SUBSET (1 .. Len(s))
    OBVIOUS
<1> QED
    BY <1>1, <1>2, FS_Subset, FS_CardinalityType DEF ChangesIn

(* A message put into a queue adds one change, or none. *)
LEMMA ChangesAppend ==
    ASSUME NEW s \in Seq(Messages), NEW m \in Messages
    PROVE  ChangesIn(Append(s, m)) = ChangesIn(s) + (IF m.kind = "change" THEN 1 ELSE 0)
<1> DEFINE a == Append(s, m)
           n == Len(s)
           before == {i \in DOMAIN s : s[i].kind = "change"}
           after == {i \in DOMAIN a : a[i].kind = "change"}
<1>1. IsFiniteSet(before) /\ ChangesIn(s) \in Nat
    BY ChangesFinite
<1>2. ChangesIn(s) = Cardinality(before) /\ ChangesIn(Append(s, m)) = Cardinality(after)
    BY DEF ChangesIn
<1>3. /\ n \in Nat /\ DOMAIN s = 1 .. n /\ DOMAIN a = 1 .. n + 1 /\ a[n + 1] = m
      /\ \A i \in 1 .. n : a[i] = s[i]
    BY AppendToQueue
<1> HIDE DEF a, n
<1>4. after = IF m.kind = "change" THEN before \cup {n + 1} ELSE before
  <2>1. ASSUME NEW i \in 1 .. n + 1
        PROVE  i \in after <=> i \in before \/ (i = n + 1 /\ m.kind = "change")
    BY <1>3, <2>1
  <2>2. after \subseteq 1 .. n + 1 /\ before \subseteq 1 .. n + 1
    BY <1>3
  <2>3. n + 1 \in 1 .. n + 1
    BY <1>3
  <2> HIDE DEF before, after
  <2> QED
    BY <2>1, <2>2, <2>3
<1>5. n + 1 \notin before
    BY <1>3
<1> HIDE DEF before, after
<1>6. Cardinality(before \cup {n + 1}) = Cardinality(before) + 1
    BY <1>1, <1>5, FS_AddElement
<1> QED
    BY <1>1, <1>2, <1>4, <1>6

(* A message taken from a queue removes one change, or none. *)
LEMMA ChangesTail ==
    ASSUME NEW s \in Seq(Messages), s # <<>>
    PROVE  /\ ChangesIn(s) \in Nat /\ ChangesIn(Tail(s)) \in Nat
           /\ ChangesIn(Tail(s)) + (IF s[1].kind = "change" THEN 1 ELSE 0) <= ChangesIn(s)
<1> DEFINE t == Tail(s)
           n == Len(s)
           before == {i \in DOMAIN s : s[i].kind = "change"}
           after == {i \in DOMAIN t : t[i].kind = "change"}
<1>1. IsFiniteSet(before)
    BY ChangesFinite
<1>2. ChangesIn(s) = Cardinality(before) /\ ChangesIn(Tail(s)) = Cardinality(after)
    BY DEF ChangesIn
<1>3. /\ n \in Nat \ {0} /\ DOMAIN s = 1 .. n /\ DOMAIN t = 1 .. n - 1
      /\ \A i \in 1 .. n - 1 : t[i] = s[i + 1]
    BY HeadOfQueue
<1> HIDE DEF t, n
<1>4. before \in SUBSET Nat /\ after \in SUBSET (Nat \ {0})
    BY <1>3
<1>5. \A i \in after : i + 1 \in before
    BY <1>3
<1>6. s[1].kind = "change" <=> 1 \in before
    BY <1>3
<1> HIDE DEF before, after
<1> QED
    BY <1>1, <1>2, <1>4, <1>5, <1>6, Shifted


(* A chip that restarts is in a state of the invariant, whatever flash holds. *)
LEMMA Restarts ==
    ASSUME StorageInv, \E backend \in Backends : PoweredUp(backend), stored' \in 0 .. stored
    PROVE  StorageInv'
<1>1. PICK backend \in Backends : PoweredUp(backend)
    OBVIOUS
<1>0. stored' \in 0 .. MaxGen
  <2>1. stored \in 0 .. MaxGen /\ MaxGen \in Nat
    BY DEF StorageInv, TypeOK
  <2> QED
    BY <2>1
<1>2. inputs' = <<Message("health", Initializing)>>
    BY <1>1 DEF PoweredUp, FirstInputs
<1>3. Changes' = 0
  <2>1. {i \in DOMAIN inputs' : inputs'[i].kind = "change"} = {}
    BY <1>2 DEF Message
  <2> QED
    BY <2>1, FS_EmptySet DEF Changes, ChangesIn
<1>4. TypeOK'
  <2>1. inputs' \in Seq(Messages) /\ Len(inputs') = 1
    <3>1. Message("health", Initializing) \in Messages
      BY DEF Message, Messages
    <3> QED
      BY <1>2, <3>1
  <2>2. commands' \in Seq(StorageCommands) /\ Len(commands') = 0
    BY <1>1 DEF PoweredUp
  <2>3. DOMAIN channels' = Channels /\ \A c \in Channels : channels'[c] = Empty
    BY <1>1 DEF PoweredUp
  <2>4. PersistenceOK'
    BY <1>1 DEF PoweredUp, PersistenceOK, NothingPending
  <2>5. runtime'.generation = 0 /\ runtime'.health = Persistent /\ connections' = 0
    BY <1>1 DEF PoweredUp
  <2> QED
    BY <1>0, <2>1, <2>2, <2>3, <2>4, <2>5 DEF TypeOK
<1>5. Shape'
    BY <1>1 DEF PoweredUp, StorageBoots, Shape, Working
<1>6. HandshakesAgree' /\ SnapshotsAgree'
  <2>1. \A c \in Channels : channels'[c] = Empty
    BY <1>1 DEF PoweredUp
  <2>2. /\ ble'.pc = "restore" /\ ble'.owner = "none" /\ usb'.pc = "idle"
        /\ storage'.pc = "boot" /\ runtime'.pc = "select"
        /\ ~persistence'.suspended /\ persistence'.failures = 0
    BY <1>1 DEF PoweredUp, StorageBoots, NothingPending
  <2> QED
    BY <2>1, <2>2 DEF HandshakesAgree, BarrierAgrees, Serves, StoragePhase, UsbPhase,
        SnapshotsAgree, Full, Request, Ready, Done, Channels
<1>7. RestoresFirst'
    BY <1>1, <1>2 DEF PoweredUp, StorageBoots, RestoresFirst, Restoring, Message
<1>8. NewestGen' + Changes' <= MaxGen
  <2>1. runtime'.generation = 0
    BY <1>1 DEF PoweredUp
  <2>2. NewestGen' = stored'
    BY <1>0, <2>1, MaxOfTwo DEF NewestGen
  <2>3. stored' + 0 <= MaxGen
    BY <1>0, NothingMore
  <2> QED
    BY <1>3, <2>2, <2>3
<1> QED
    BY <1>4, <1>5, <1>6, <1>7, <1>8 DEF StorageInv


(* StoragePersistence: what stage() and record_failure() leave behind. *)
LEMMA Staging ==
    ASSUME PersistenceOK, NEW state \in 0 .. MaxGen, NEW priority \in Priorities,
           NEW p, p = Stage(persistence, state, priority)
    PROVE  /\ DOMAIN p = DOMAIN NothingPending
           /\ p.state = state /\ p.priority \in Priorities
           /\ p.failures = IF persistence.state # state THEN 0 ELSE persistence.failures
           /\ p.suspended = IF persistence.state # state THEN FALSE
                            ELSE persistence.suspended
<1>1. Max({persistence.priority, priority}) \in Priorities
  <2>1. persistence.priority \in {-1, 0, 1, 2} /\ priority \in {0, 1, 2}
    BY DEF PersistenceOK
  <2>2. Max({persistence.priority, priority}) =
           IF persistence.priority >= priority THEN persistence.priority ELSE priority
    BY <2>1, MaxOfTwo
  <2> QED
    BY <2>1, <2>2
<1> QED
    BY <1>1 DEF Stage, NothingPending

(* StoragePersistence::record_failure keeps the staged state or gives up. *)
LEMMA Failing ==
    ASSUME PersistenceOK, persistence.failures < FailureLimit
    PROVE  LET p == RecordFailure(persistence)
           IN  /\ DOMAIN p = DOMAIN NothingPending
               /\ p.state = persistence.state /\ p.priority = persistence.priority
               /\ p.failures = persistence.failures + 1 /\ p.failures \in 0 .. FailureLimit
               /\ p.suspended \in BOOLEAN
               /\ ~p.suspended => p.failures < FailureLimit
<1>1. CASE persistence.failures + 1 >= FailureLimit
    BY <1>1 DEF PersistenceOK, RecordFailure, NothingPending
<1>2. CASE ~(persistence.failures + 1 >= FailureLimit)
    BY <1>2 DEF PersistenceOK, RecordFailure, NothingPending
<1> QED
    BY <1>1, <1>2

(* While the runtime is not held, no snapshot is on its way and none is written. *)
LEMMA NotHeld ==
    ASSUME StorageInv, runtime.pc = "select"
    PROVE  /\ channels["barrier_done"] = Empty /\ channels["ready"] = Empty
           /\ storage.pc # "write"
<1>1. BarrierAgrees /\ Serves("storage", StoragePhase)
    BY DEF StorageInv, HandshakesAgree
<1>2. ble.pc # "hold" /\ ~Full("barrier_done")
    BY <1>1 DEF BarrierAgrees
<1>3. storage.pc \in {"boot", "restore_ble", "restore_runtime", "loop", "sleep", "ready",
                     "write", "complete", "reset_ready", "erase"}
    BY DEF StorageInv, Shape
<1>4. ~Full("ready") /\ storage.pc # "write"
    BY <1>1, <1>2, <1>3 DEF Serves, StoragePhase, Ready, Request, Done
<1> QED
    BY <1>2, <1>4 DEF Full

(* The record of StoragePersistence keeps its type, and is suspended before it has
   failed too often. *)
LEMMA PersistenceStep ==
    ASSUME StorageInv, Step
    PROVE  /\ PersistenceOK'
           /\ ~persistence'.suspended => persistence'.failures < FailureLimit
<1>0. /\ PersistenceOK /\ SnapshotsAgree /\ FailureLimit \in Nat \ {0}
      /\ commands \in Seq(StorageCommands)
      /\ \A c \in Channels : channels[c] \in {Empty, NoState} \cup 0 .. MaxGen
    BY DEF StorageInv, TypeOK
<1>1. CASE UNCHANGED persistence
    BY <1>0, <1>1 DEF PersistenceOK, SnapshotsAgree
<1>2. CASE /\ PersistenceOK
           /\ \E state \in 0 .. MaxGen, priority \in Priorities :
                 persistence' = Stage(persistence, state, priority)
  <2>1. PICK state \in 0 .. MaxGen, priority \in Priorities :
           persistence' = Stage(persistence, state, priority)
    BY <1>2
  <2>2. /\ DOMAIN persistence' = DOMAIN NothingPending
        /\ persistence'.state = state /\ persistence'.priority \in Priorities
        /\ persistence'.failures = IF persistence.state # state THEN 0
                                   ELSE persistence.failures
        /\ persistence'.suspended = IF persistence.state # state THEN FALSE
                                    ELSE persistence.suspended
    <3> DEFINE p == Stage(persistence, state, priority)
    <3>1. persistence' = p
      BY <2>1
    <3>2. /\ DOMAIN p = DOMAIN NothingPending
          /\ p.state = state /\ p.priority \in Priorities
          /\ p.failures = IF persistence.state # state THEN 0 ELSE persistence.failures
          /\ p.suspended = IF persistence.state # state THEN FALSE
                           ELSE persistence.suspended
      BY <1>0, <2>1, Staging, Zenon
    <3> HIDE DEF p
    <3> QED
      BY <3>1, <3>2
  <2>3. persistence'.state \in 0 .. MaxGen /\ persistence'.state # NoState
    BY <2>1, <2>2
  <2>4. /\ persistence'.failures \in 0 .. FailureLimit /\ persistence'.suspended \in BOOLEAN
        /\ ~persistence'.suspended => persistence'.failures < FailureLimit
    <3>1. /\ persistence.failures \in 0 .. FailureLimit /\ persistence.suspended \in BOOLEAN
          /\ ~persistence.suspended => persistence.failures < FailureLimit
      BY <1>0 DEF PersistenceOK, SnapshotsAgree
    <3>2. CASE persistence.state = state
      <4>1. persistence'.failures = persistence.failures
            /\ persistence'.suspended = persistence.suspended
        BY <2>2, <3>2
      <4> QED
        BY <3>1, <4>1
    <3>3. CASE persistence.state # state
      <4>1. persistence'.failures = 0 /\ persistence'.suspended = FALSE
        BY <2>2, <3>3
      <4>2. 0 \in 0 .. FailureLimit /\ 0 < FailureLimit
        OBVIOUS
      <4> QED
        BY <4>1, <4>2
    <3> QED
      BY <3>2, <3>3
  <2> QED
    BY <2>2, <2>3, <2>4 DEF PersistenceOK
<1>3. CASE ReceiveCommand
  <2>1. CASE Working /\ Head(commands).kind = "persist"
    <3>1. Head(commands) \in StorageCommands
      BY <1>0, <1>3, HeadOfQueue DEF ReceiveCommand
    <3>2. Head(commands).state \in 0 .. MaxGen /\ Head(commands).priority \in Priorities
      BY <2>1, <3>1 DEF StorageCommands
    <3>3. persistence' = Stage(persistence, Head(commands).state, Head(commands).priority)
      BY <1>3, <2>1 DEF ReceiveCommand
    <3> QED
      BY <1>0, <1>2, <3>2, <3>3
  <2> QED
    BY <1>1, <1>3, <2>1 DEF ReceiveCommand
<1>4. CASE QuiesceReady
  <2>1. channels["ready"] \in {NoState} \cup 0 .. MaxGen
    BY <1>0, <1>4 DEF QuiesceReady, Full, Channels
  <2>2. CASE channels["ready"] \in 0 .. MaxGen
    <3>1. \/ UNCHANGED persistence
          \/ persistence' = Stage(persistence, channels["ready"], Critical)
      BY <1>4, <2>2 DEF QuiesceReady, StageQuiesceSnapshot
    <3> QED
      BY <1>0, <1>1, <1>2, <2>2, <3>1
  <2>3. CASE channels["ready"] = NoState
    BY <1>1, <1>4, <2>3 DEF QuiesceReady
  <2> QED
    BY <2>1, <2>2, <2>3
<1>5. CASE PersistDue
  <2>1. persistence.state # NoState /\ ~persistence.suspended
        /\ persistence.failures < FailureLimit
    BY <1>0, <1>5 DEF PersistDue, SnapshotsAgree
  <2>2. \/ persistence' = NothingPending
        \/ persistence' = RecordFailure(persistence)
        \/ UNCHANGED persistence
    BY <1>5 DEF PersistDue, Outcomes
  <2>3. CASE persistence' = NothingPending
    BY <1>0, <2>3 DEF PersistenceOK, NothingPending
  <2>4. CASE persistence' = RecordFailure(persistence)
    <3>1. /\ DOMAIN persistence' = DOMAIN NothingPending
          /\ persistence'.state = persistence.state
          /\ persistence'.priority = persistence.priority
          /\ persistence'.failures \in 0 .. FailureLimit
          /\ persistence'.suspended \in BOOLEAN
          /\ ~persistence'.suspended => persistence'.failures < FailureLimit
      BY <1>0, <2>1, <2>4, Failing
    <3> QED
      BY <1>0, <2>1, <3>1 DEF PersistenceOK
  <2> QED
    BY <1>1, <2>2, <2>3, <2>4
<1>6. CASE TimePasses
  <2>1. /\ DOMAIN persistence' = DOMAIN persistence
        /\ persistence'.state = persistence.state
        /\ persistence'.priority = persistence.priority
        /\ persistence'.failures = persistence.failures
        /\ persistence'.suspended = persistence.suspended
        /\ persistence = NothingPending => UNCHANGED persistence
    BY <1>0, <1>6 DEF TimePasses, PersistenceOK, NothingPending
  <2> QED
    BY <1>0, <2>1 DEF PersistenceOK, SnapshotsAgree
<1>7. CASE ~(ReceiveCommand \/ QuiesceReady \/ PersistDue \/ TimePasses)
  <2>1. UNCHANGED persistence
    BY <1>7 DEF Step, BootReportsHealth, BootRestoresBle, BootRestoresRuntime, FallAsleep,
        WakeUp, QuiesceAndPersist, Complete, ResetReady, EraseFails, RuntimeProcesses,
        RuntimeStops, RuntimeResumes, BleStarts, BleStopped, BleResumes, BleStopsAny,
        BleStops, UsbReady, UsbEnumerated, ArriveAny, Arrive, HostConnects,
        HostDisconnects, DeviceDetected, FactoryResetPressed
  <2> QED
    BY <1>1, <2>1
<1> QED
    BY <1>3, <1>4, <1>5, <1>6, <1>7

(* What is on its way to flash stays the runtime's state. *)
LEMMA SnapshotStep ==
    ASSUME StorageInv, Step
    PROVE  SnapshotsAgree'
<1>0. /\ SnapshotsAgree /\ PersistenceOK /\ DOMAIN channels = Channels
      /\ DOMAIN storage = {"pc", "timer", "backend", "reported", "plan"}
      /\ DOMAIN runtime = {"pc", "generation", "health"}
      /\ ble.pc \in {"barrier", "hold"} => ble.owner \in {"storage", "usb"}
      /\ \A c \in Channels : channels[c] \in {Empty, NoState} \cup 0 .. MaxGen
      /\ runtime.generation \in 0 .. MaxGen
    BY DEF StorageInv, TypeOK, Shape
<1>1. ~persistence'.suspended => persistence'.failures < FailureLimit
    BY PersistenceStep
<1> DEFINE Carried(c) == channels[c] \in {Empty, NoState, runtime.generation}
           Due == persistence.state # NoState /\ ~persistence.suspended
<1>2. SUFFICES /\ Carried("barrier_done")' /\ Carried("ready")'
               /\ storage'.pc = "write" => persistence'.state = runtime'.generation
               /\ storage'.pc \in {"ready", "write"} => Due'
    BY <1>1 DEF SnapshotsAgree
<1>3. CASE /\ UNCHANGED persistence /\ storage'.pc \notin {"ready", "write"}
           /\ runtime'.generation = runtime.generation
           /\ \A c \in {"barrier_done", "ready"} : channels'[c] \in {Empty, channels[c]}
    BY <1>0, <1>3 DEF SnapshotsAgree
<1>4. CASE /\ UNCHANGED persistence /\ storage'.pc = storage.pc
           /\ runtime'.generation = runtime.generation
           /\ \A c \in {"barrier_done", "ready"} : channels'[c] \in {Empty, channels[c]}
    BY <1>0, <1>4 DEF SnapshotsAgree
<1>5. CASE QuiesceAndPersist
    BY <1>0, <1>5 DEF QuiesceAndPersist, Requests, Send, MustPersist, SnapshotsAgree, Channels
<1>6. CASE QuiesceReady
  <2>1. /\ runtime' = runtime /\ channels' = [channels EXCEPT !["ready"] = Empty]
        /\ storage.pc = "ready" /\ Due
    BY <1>0, <1>6 DEF QuiesceReady, Receive, SnapshotsAgree
  <2>2. Carried("barrier_done")' /\ Carried("ready")'
    BY <1>0, <2>1 DEF SnapshotsAgree, Channels
  <2>3. CASE channels["ready"] = NoState
    BY <1>0, <1>6, <2>2, <2>3 DEF QuiesceReady
  <2>4. CASE channels["ready"] # NoState
    <3>1. channels["ready"] = runtime.generation
      BY <1>0, <1>6, <2>4 DEF QuiesceReady, Full, SnapshotsAgree
    <3>2. persistence' = StageQuiesceSnapshot(persistence, runtime.generation)
      BY <1>6, <2>4, <3>1 DEF QuiesceReady
    <3>3. CASE persistence.state = runtime.generation
      BY <1>0, <2>1, <2>2, <3>2, <3>3 DEF StageQuiesceSnapshot
    <3>4. CASE persistence.state # runtime.generation
      <4> DEFINE p == Stage(persistence, runtime.generation, Critical)
      <4>1. persistence' = p
        BY <3>2, <3>4 DEF StageQuiesceSnapshot
      <4>2. p.state = runtime.generation /\ p.suspended = FALSE
        BY <3>4 DEF Stage
      <4> HIDE DEF p
      <4> QED
        BY <1>0, <2>1, <2>2, <4>1, <4>2
    <3> QED
      BY <3>3, <3>4
  <2> QED
    BY <2>3, <2>4
<1>7. CASE RuntimeProcesses
    BY <1>0, <1>7, NotHeld DEF RuntimeProcesses, SnapshotsAgree
<1>8. CASE RuntimeStops
  <2>1. PICK state \in {runtime.generation, NoState} :
           channels' = [channels EXCEPT !["barrier"] = Empty, !["barrier_done"] = state]
    BY <1>8, Stopping
  <2>2. runtime'.generation = runtime.generation /\ UNCHANGED <<persistence, storage>>
    BY <1>0, <1>8 DEF RuntimeStops
  <2> QED
    BY <1>0, <2>1, <2>2 DEF SnapshotsAgree, Channels
<1>9. CASE BleStopped
    BY <1>0, <1>9 DEF BleStopped, RuntimeAnswered, Ready, SnapshotsAgree, Channels
<1>10. CASE TimePasses
  <2>1. /\ persistence'.state = persistence.state
        /\ persistence'.suspended = persistence.suspended
        /\ storage'.pc = storage.pc /\ UNCHANGED <<channels, runtime>>
    BY <1>0, <1>10 DEF TimePasses, PersistenceOK, NothingPending
  <2> QED
    BY <1>0, <2>1 DEF SnapshotsAgree
<1>11. CASE ReceiveCommand
  <2>1. /\ UNCHANGED <<runtime>> /\ storage'.pc \in {"complete", "loop", "reset_ready"}
        /\ \A c \in {"barrier_done", "ready"} : channels'[c] = channels[c]
    BY <1>0, <1>11 DEF ReceiveCommand, StorageGoes, Requests, Send, Channels
  <2> QED
    BY <1>0, <2>1 DEF SnapshotsAgree
<1>12. CASE PersistDue
  <2>1. UNCHANGED <<runtime, channels>> /\ storage'.pc = "complete"
    BY <1>0, <1>12 DEF PersistDue
  <2> QED
    BY <1>0, <2>1 DEF SnapshotsAgree
<1>13. CASE \/ BootReportsHealth \/ BootRestoresBle \/ BootRestoresRuntime \/ FallAsleep
            \/ WakeUp \/ ResetReady \/ EraseFails
  <2>1. /\ UNCHANGED <<persistence, runtime>> /\ storage'.pc \notin {"ready", "write"}
        /\ \A c \in {"barrier_done", "ready"} : channels'[c] \in {Empty, channels[c]}
    BY <1>0, <1>13 DEF BootReportsHealth, BootRestoresBle, BootRestoresRuntime, FallAsleep,
        WakeUp, ResetReady, EraseFails, StorageGoes, Send, Receive, Channels
  <2> QED
    BY <1>3, <2>1
<1>14. CASE Complete
  <2>1. /\ UNCHANGED <<persistence, runtime>> /\ storage'.pc \notin {"ready", "write"}
        /\ \A c \in {"barrier_done", "ready"} : channels'[c] = channels[c]
    BY <1>0, <1>14, Completing DEF Complete, Send, Channels
  <2> QED
    BY <1>3, <2>1
<1>15. CASE \/ RuntimeResumes \/ BleStarts \/ BleResumes \/ BleStopsAny \/ UsbReady
            \/ UsbEnumerated \/ ArriveAny \/ HostConnects \/ HostDisconnects
            \/ DeviceDetected \/ FactoryResetPressed
  <2>1. /\ UNCHANGED <<persistence, storage>> /\ runtime'.generation = runtime.generation
        /\ \A c \in {"barrier_done", "ready"} : channels'[c] = channels[c]
    BY <1>0, <1>15 DEF RuntimeResumes, BleStarts, BleResumes, BleStopsAny, BleStops, UsbReady,
        UsbEnumerated, ArriveAny, Arrive, HostConnects, HostDisconnects, DeviceDetected,
        FactoryResetPressed, Send, Receive, Request, Done, Channels
  <2> QED
    BY <1>4, <2>1
<1> QED
    BY <1>5, <1>6, <1>7, <1>8, <1>9, <1>10, <1>11, <1>12, <1>13, <1>14, <1>15 DEF Step

(* What a step puts into the runtime's input queue. *)
LEMMA Telling ==
    ASSUME StorageInv, Step, ~RuntimeProcesses, inputs' # inputs
    PROVE  \E m \in Messages :
              /\ Tell(m) /\ UNCHANGED <<commands, runtime, stored, connections>>
              /\ m.kind = "change" => NewestGen + Changes < MaxGen
              /\ m.kind = "restore" =>
                    m.arg = RestoredState /\ storage.pc = "restore_runtime"
<1>0. /\ storage.backend \in {Persistent, UnavailableHealth} /\ storage.reported \in Healths
      /\ DOMAIN storage = {"pc", "timer", "backend", "reported", "plan"}
      /\ stored \in 0 .. MaxGen
    BY DEF StorageInv, Shape, TypeOK
<1>1. CASE BootReportsHealth
  <2>1. Message("health", storage.backend) \in Messages
    BY <1>0 DEF Message, Messages
  <2> QED
    BY <1>1, <2>1 DEF BootReportsHealth, Message
<1>2. CASE BootRestoresRuntime
  <2>1. Message("restore", RestoredState) \in Messages
    BY <1>0 DEF Message, Messages, RestoredState
  <2> QED
    BY <1>2, <2>1 DEF BootRestoresRuntime, Message
<1>3. CASE Complete
  <2>1. /\ Message("health", storage.reported) \in Messages
        /\ Message("report", Unit) \in Messages
    BY <1>0 DEF Message, Messages
  <2>2. \/ Tell(Message("health", storage.reported))
        \/ Tell(Message("report", Unit))
    BY <1>3, Planned DEF Complete
  <2>3. UNCHANGED <<commands, runtime, stored, connections>>
    BY <1>3 DEF Complete
  <2> QED
    BY <2>1, <2>2, <2>3 DEF Message
<1>4. CASE ArriveAny
  <2>1. PICK m \in Messages : m.kind \in {"change", "input"} /\ Arrive(m)
    BY <1>4 DEF ArriveAny, Message, Messages
  <2> QED
    BY <2>1 DEF Arrive
<1> QED
    BY <1>1, <1>2, <1>3, <1>4 DEF Step, BootRestoresBle, ReceiveCommand, FallAsleep, WakeUp,
        QuiesceAndPersist, QuiesceReady, PersistDue, ResetReady, EraseFails, RuntimeStops,
        RuntimeResumes, BleStarts, BleStopped, BleResumes, BleStopsAny, BleStops, UsbReady,
        UsbEnumerated, TimePasses, HostConnects, HostDisconnects, DeviceDetected,
        FactoryResetPressed

(* What the runtime takes from its queue. *)
LEMMA Taking ==
    ASSUME StorageInv, RuntimeProcesses
    PROVE  /\ inputs \in Seq(Messages) /\ inputs # <<>> /\ inputs' = Tail(inputs)
           /\ Head(inputs) = inputs[1] /\ inputs[1] \in Messages
           /\ Changes \in Nat /\ Changes' \in Nat
           /\ Changes' <= Changes
           /\ inputs[1].kind = "change" => Changes' + 1 <= Changes
           /\ runtime.generation \in 0 .. MaxGen /\ stored \in 0 .. MaxGen
           /\ NewestGen = (IF stored >= runtime.generation THEN stored ELSE runtime.generation)
           /\ UNCHANGED stored
<1>1. inputs \in Seq(Messages) /\ inputs # <<>> /\ inputs' = Tail(inputs) /\ UNCHANGED stored
    BY DEF StorageInv, TypeOK, RuntimeProcesses
<1>2. Head(inputs) = inputs[1] /\ inputs[1] \in Messages
    BY <1>1, HeadOfQueue
<1>3. /\ Changes \in Nat /\ Changes' \in Nat
      /\ Changes' <= Changes /\ (inputs[1].kind = "change" => Changes' + 1 <= Changes)
  <2>1. Changes = ChangesIn(inputs) /\ Changes' = ChangesIn(Tail(inputs))
    BY <1>1 DEF Changes
  <2> QED
    BY <1>1, <2>1, ChangesTail
<1>4. runtime.generation \in 0 .. MaxGen /\ stored \in 0 .. MaxGen
    BY DEF StorageInv, TypeOK
<1>5. NewestGen = (IF stored >= runtime.generation THEN stored ELSE runtime.generation)
    BY <1>4, MaxOfTwo DEF NewestGen
<1> QED
    BY <1>1, <1>2, <1>3, <1>4, <1>5

(* A restore carries the stored settings; the next change has a generation left. *)
LEMMA NextGeneration ==
    ASSUME StorageInv, RuntimeProcesses
    PROVE  /\ runtime'.generation \in 0 .. MaxGen
           /\ runtime'.generation + Changes' <= MaxGen
           /\ stored + Changes' <= MaxGen
<1>1. NewestGen + Changes <= MaxGen /\ RestoresFirst
    BY DEF StorageInv
<1>2. /\ inputs[1].kind = "restore" => inputs[1].arg \in {0, stored}
  <2>1. inputs[1].kind = "restore" => inputs[1].arg = RestoredState
    <3>1. 1 \in DOMAIN inputs
      BY Taking, HeadOfQueue
    <3> QED
      BY <1>1, <3>1 DEF RestoresFirst
  <2> QED
    BY <2>1 DEF RestoredState
<1>3. runtime'.generation =
         CASE inputs[1].kind = "restore" -> inputs[1].arg
           [] inputs[1].kind = "change" /\ runtime.health = Persistent
              /\ HasRoom -> runtime.generation + 1
           [] OTHER -> runtime.generation
    BY Taking, RuntimeProcessing
<1>4. /\ NewestGen \in Nat /\ stored <= NewestGen /\ runtime.generation <= NewestGen
      /\ stored \in Nat /\ runtime.generation \in Nat
      /\ Changes \in Nat /\ Changes' \in Nat /\ Changes' <= Changes /\ MaxGen \in Nat
  <2>1. runtime.generation \in 0 .. MaxGen /\ stored \in 0 .. MaxGen /\ MaxGen \in Nat
    BY Taking
  <2>2. NewestGen = (IF stored >= runtime.generation THEN stored ELSE runtime.generation)
    BY Taking
  <2>3. Changes \in Nat /\ Changes' \in Nat /\ Changes' <= Changes
    BY Taking
  <2> QED
    BY <2>1, <2>2, <2>3
<1>5. stored + Changes' <= MaxGen
    BY <1>1, <1>4, Within
<1>6. CASE inputs[1].kind = "restore"
  <2>1. runtime'.generation \in {0, stored}
    BY <1>2, <1>3, <1>6
  <2>2. runtime'.generation \in Nat /\ runtime'.generation <= NewestGen
    BY <1>4, <2>1
  <2> QED
    BY <1>1, <1>4, <1>5, <2>2, Within
<1>7. CASE inputs[1].kind = "change"
  <2>1. /\ runtime'.generation \in {runtime.generation, runtime.generation + 1}
        /\ Changes' + 1 <= Changes
    BY <1>3, <1>7, Taking
  <2>2. /\ runtime.generation + Changes' <= MaxGen
        /\ runtime.generation \in 0 .. MaxGen
    BY <1>1, <1>4, Within
  <2>3. /\ (runtime.generation + 1) + Changes' <= MaxGen
        /\ runtime.generation + 1 \in 0 .. MaxGen
    BY <1>1, <1>4, <2>1, WithinNext
  <2> QED
    BY <1>5, <2>1, <2>2, <2>3
<1>8. CASE inputs[1].kind \notin {"restore", "change"}
  <2>1. runtime'.generation = runtime.generation
    BY <1>3, <1>8
  <2>2. runtime.generation + Changes' <= MaxGen /\ runtime.generation \in 0 .. MaxGen
    BY <1>1, <1>4, Within
  <2> QED
    BY <1>5, <2>1, <2>2
<1> QED
    BY <1>6, <1>7, <1>8

(* Every step keeps the types. *)
LEMMA TypeStep ==
    ASSUME StorageInv, Step
    PROVE  TypeOK'
<1>0. /\ inputs \in Seq(Messages) /\ Len(inputs) <= InputCap
      /\ commands \in Seq(StorageCommands) /\ Len(commands) <= CommandCap
      /\ DOMAIN channels = Channels
      /\ \A c \in Channels : channels[c] \in {Empty, NoState} \cup 0 .. MaxGen
      /\ runtime.generation \in 0 .. MaxGen /\ runtime.health \in Healths
      /\ PersistenceOK /\ connections \in 0 .. 1 /\ stored \in 0 .. MaxGen
      /\ DOMAIN runtime = {"pc", "generation", "health"}
      /\ ble.pc \in {"barrier", "hold"} => ble.owner \in {"storage", "usb"}
    BY DEF StorageInv, TypeOK, Shape
<1>1. inputs' \in Seq(Messages) /\ Len(inputs') <= InputCap
  <2>1. CASE UNCHANGED inputs
    BY <1>0, <2>1
  <2>2. CASE RuntimeProcesses
    <3>1. inputs # <<>> /\ inputs' = Tail(inputs)
      BY <2>2 DEF RuntimeProcesses
    <3>2. inputs' \in Seq(Messages) /\ Len(inputs') = Len(inputs) - 1
      BY <1>0, <3>1, HeadOfQueue
    <3> QED
      BY <1>0, <3>2
  <2>3. CASE \E m \in Messages : Tell(m)
    <3>1. PICK m \in Messages : Len(inputs) < InputCap /\ inputs' = Append(inputs, m)
      BY <2>3 DEF Tell
    <3>2. inputs' \in Seq(Messages) /\ Len(inputs') = Len(inputs) + 1
      BY <1>0, <3>1, AppendToQueue
    <3> QED
      BY <1>0, <3>1, <3>2
  <2> QED
    BY <2>1, <2>2, <2>3, Telling
<1>2. commands' \in Seq(StorageCommands) /\ Len(commands') <= CommandCap
  <2>1. CASE UNCHANGED commands
    BY <1>0, <2>1
  <2>2. CASE commands # <<>> /\ commands' = Tail(commands)
    <3>1. commands' \in Seq(StorageCommands) /\ Len(commands') = Len(commands) - 1
      BY <1>0, <2>2, HeadOfQueue
    <3> QED
      BY <1>0, <3>1
  <2>3. CASE \E c \in StorageCommands : Len(commands) < CommandCap
                                        /\ commands' = Append(commands, c)
    <3>1. PICK c \in StorageCommands : Len(commands) < CommandCap
                                       /\ commands' = Append(commands, c)
      BY <2>3
    <3>2. commands' \in Seq(StorageCommands) /\ Len(commands') = Len(commands) + 1
      BY <1>0, <3>1, AppendToQueue
    <3> QED
      BY <1>0, <3>1, <3>2
  <2>4. CASE ReceiveCommand
    BY <2>2, <2>4 DEF ReceiveCommand
  <2>5. CASE FactoryResetPressed
    <3>1. [kind |-> "reset"] \in StorageCommands
      BY DEF StorageCommands
    <3> QED
      BY <2>3, <2>5, <3>1 DEF FactoryResetPressed
  <2>6. CASE RuntimeProcesses
    <3>1. UNCHANGED commands \/ (Head(inputs).kind = "change" /\ ApplyChange(Head(inputs).arg))
      BY <2>6 DEF RuntimeProcesses
    <3>2. CASE Head(inputs).kind = "change" /\ ApplyChange(Head(inputs).arg)
                /\ commands' # commands
      <4>1. Head(inputs).arg \in Priorities
        BY <2>6, <3>2, Taking DEF Messages
      <4>2. /\ runtime' = [runtime EXCEPT !.generation = @ + 1] /\ HasRoom
            /\ commands' = Append(commands, [kind |-> "persist",
                                             priority |-> Head(inputs).arg,
                                             state |-> runtime.generation + 1])
        BY <3>2 DEF ApplyChange
      <4>3. runtime.generation + 1 \in 0 .. MaxGen
        BY <1>0, <2>6, <4>2, NextGeneration
      <4>4. [kind |-> "persist", priority |-> Head(inputs).arg,
             state |-> runtime.generation + 1] \in StorageCommands
        BY <4>1, <4>3 DEF StorageCommands
      <4> QED
        BY <2>3, <4>2, <4>4 DEF HasRoom
    <3> QED
      BY <2>1, <3>1, <3>2
  <2>7. CASE ~(ReceiveCommand \/ FactoryResetPressed \/ RuntimeProcesses)
    <3>1. UNCHANGED commands
      BY <2>7 DEF Step, BootReportsHealth, BootRestoresBle, BootRestoresRuntime, FallAsleep,
        WakeUp, QuiesceAndPersist, QuiesceReady, PersistDue, Complete, ResetReady, EraseFails,
        RuntimeStops, RuntimeResumes, BleStarts, BleStopped, BleResumes, BleStopsAny,
        BleStops, UsbReady, UsbEnumerated, TimePasses, ArriveAny, Arrive, HostConnects,
        HostDisconnects, DeviceDetected
    <3> QED
      BY <2>1, <3>1
  <2> QED
    BY <2>4, <2>5, <2>6, <2>7
<1>3. /\ DOMAIN channels' = Channels
      /\ \A c \in Channels : channels'[c] \in {Empty, NoState} \cup 0 .. MaxGen
  <2>1. CASE \E c \in Channels, v \in {Empty, NoState} \cup 0 .. MaxGen :
                channels' = [channels EXCEPT ![c] = v]
    BY <1>0, <2>1
  <2>2. CASE \E c, d \in Channels, v, w \in {Empty, NoState} \cup 0 .. MaxGen :
                channels' = [channels EXCEPT ![c] = v, ![d] = w]
    BY <1>0, <2>2
  <2>3. CASE UNCHANGED channels
    BY <1>0, <2>3
  <2>4. RestoredState \in 0 .. MaxGen
    BY <1>0 DEF RestoredState
  <2>5. CASE BootRestoresBle
    BY <2>1, <2>4, <2>5 DEF BootRestoresBle, Send, Channels
  <2>6. CASE \/ ReceiveCommand \/ QuiesceAndPersist \/ QuiesceReady \/ Complete \/ ResetReady
             \/ RuntimeResumes \/ BleStarts \/ UsbReady \/ UsbEnumerated \/ DeviceDetected
    <3>1. \/ UNCHANGED channels
          \/ \E c \in Channels, v \in {Empty, Unit} : channels' = [channels EXCEPT ![c] = v]
      BY <2>6 DEF ReceiveCommand, QuiesceAndPersist, QuiesceReady, Complete, ResetReady,
        RuntimeResumes, BleStarts, UsbReady, UsbEnumerated, DeviceDetected, Requests, Send,
        Receive, Channels
    <3> QED
      BY <2>1, <2>3, <3>1
  <2>7. CASE RuntimeStops
    <3>1. PICK state \in {runtime.generation, NoState} :
             channels' = [channels EXCEPT !["barrier"] = Empty, !["barrier_done"] = state]
      BY <2>7, Stopping
    <3> QED
      BY <1>0, <2>2, <3>1 DEF Channels
  <2>8. CASE BleStopped
    <3>1. channels["barrier_done"] \in {Empty, NoState} \cup 0 .. MaxGen
      BY <1>0 DEF Channels
    <3>2. \E d \in Channels, w \in {channels["barrier_done"], Unit} :
             channels' = [channels EXCEPT !["barrier_done"] = Empty, ![d] = w]
      BY <2>8 DEF BleStopped, Ready, Channels
    <3>3. PICK d \in Channels, w \in {channels["barrier_done"], Unit} :
             channels' = [channels EXCEPT !["barrier_done"] = Empty, ![d] = w]
      BY <3>2
    <3>4. "barrier_done" \in Channels /\ w \in {Empty, NoState} \cup 0 .. MaxGen
      BY <3>1, <3>3 DEF Channels
    <3> QED
      BY <2>2, <3>3, <3>4
  <2>9. CASE BleResumes \/ BleStopsAny
    <3>1. \E c, d \in Channels : channels' = [channels EXCEPT ![c] = Empty, ![d] = Unit]
      BY <2>9 DEF BleResumes, BleStopsAny, BleStops, Request, Done, Channels
    <3>2. /\ Empty \in {Empty, NoState} \cup 0 .. MaxGen
          /\ Unit \in {Empty, NoState} \cup 0 .. MaxGen
      OBVIOUS
    <3> QED
      BY <2>2, <3>1, <3>2
  <2>10. CASE \/ BootReportsHealth \/ BootRestoresRuntime \/ FallAsleep \/ WakeUp
              \/ PersistDue \/ EraseFails \/ RuntimeProcesses \/ TimePasses \/ ArriveAny
              \/ HostConnects \/ HostDisconnects \/ FactoryResetPressed
    BY <2>3, <2>10 DEF BootReportsHealth, BootRestoresRuntime, FallAsleep, WakeUp, PersistDue,
        EraseFails, RuntimeProcesses, TimePasses, ArriveAny, Arrive, HostConnects,
        HostDisconnects, FactoryResetPressed
  <2> QED
    BY <2>5, <2>6, <2>7, <2>8, <2>9, <2>10 DEF Step
<1>4. runtime'.generation \in 0 .. MaxGen /\ runtime'.health \in Healths
  <2>1. CASE RuntimeProcesses
    BY <2>1, NextGeneration, RuntimeProcessing
  <2>2. CASE ~RuntimeProcesses
    <3>1. /\ runtime'.generation = runtime.generation /\ runtime'.health = runtime.health
      BY <1>0, <2>2 DEF Step, BootReportsHealth, BootRestoresBle, BootRestoresRuntime,
        ReceiveCommand, FallAsleep, WakeUp, QuiesceAndPersist, QuiesceReady, PersistDue,
        Complete, ResetReady, EraseFails, RuntimeStops, RuntimeResumes, BleStarts, BleStopped,
        BleResumes, BleStopsAny, BleStops, UsbReady, UsbEnumerated, TimePasses, ArriveAny,
        Arrive, HostConnects, HostDisconnects, DeviceDetected, FactoryResetPressed
    <3> QED
      BY <1>0, <3>1
  <2> QED
    BY <2>1, <2>2
<1>5. connections' \in 0 .. 1 /\ stored' \in 0 .. MaxGen
  <2>1. CASE PersistDue
    <3>1. persistence.state = runtime.generation /\ UNCHANGED connections
      BY <2>1 DEF PersistDue, StorageInv, SnapshotsAgree
    <3>2. stored' \in {stored, persistence.state}
      BY <2>1 DEF PersistDue
    <3> QED
      BY <1>0, <3>1, <3>2
  <2>2. CASE EraseFails
    BY <1>0, <2>2 DEF EraseFails
  <2>3. CASE ~(PersistDue \/ EraseFails)
    <3>1. UNCHANGED stored /\ connections' \in {connections, 0, 1}
      BY <2>3 DEF Step, BootReportsHealth, BootRestoresBle, BootRestoresRuntime,
        ReceiveCommand, FallAsleep, WakeUp, QuiesceAndPersist, QuiesceReady, Complete,
        ResetReady, RuntimeProcesses, RuntimeStops, RuntimeResumes, BleStarts, BleStopped,
        BleResumes, BleStopsAny, BleStops, UsbReady, UsbEnumerated, TimePasses, ArriveAny,
        Arrive, HostConnects, HostDisconnects, DeviceDetected, FactoryResetPressed
    <3> QED
      BY <1>0, <3>1
  <2> QED
    BY <2>1, <2>2, <2>3
<1> QED
    BY <1>1, <1>2, <1>3, <1>4, <1>5, PersistenceStep DEF TypeOK

(* The snapshots taken stay within the bound. *)
LEMMA GenerationStep ==
    ASSUME StorageInv, Step
    PROVE  NewestGen' + Changes' <= MaxGen
<1>0. /\ inputs \in Seq(Messages) /\ NewestGen + Changes <= MaxGen
      /\ runtime.generation \in 0 .. MaxGen /\ stored \in 0 .. MaxGen
    BY DEF StorageInv, TypeOK
<1>1. /\ NewestGen = (IF stored >= runtime.generation THEN stored ELSE runtime.generation)
      /\ Changes \in Nat
  <2>1. NewestGen = (IF stored >= runtime.generation THEN stored ELSE runtime.generation)
    BY <1>0, MaxOfTwo DEF NewestGen
  <2>2. Changes \in Nat
    BY <1>0, ChangesFinite DEF Changes
  <2> QED
    BY <2>1, <2>2
<1>2. NewestGen \in Nat /\ stored <= NewestGen /\ runtime.generation <= NewestGen
    BY <1>0, <1>1
<1>3. runtime'.generation \in 0 .. MaxGen /\ stored' \in 0 .. MaxGen
    BY TypeStep DEF TypeOK
<1>4. NewestGen' \in {stored', runtime'.generation}
    BY <1>3, MaxOfTwo DEF NewestGen
<1>5. CASE RuntimeProcesses
    BY <1>4, <1>5, NextGeneration, Taking
<1>6. CASE UNCHANGED inputs /\ stored' <= NewestGen /\ runtime'.generation <= NewestGen
  <2>1. Changes' = Changes
    BY <1>6 DEF Changes
  <2>2. NewestGen' \in Nat /\ NewestGen' <= NewestGen
    BY <1>3, <1>4, <1>6
  <2>3. NewestGen' + Changes <= MaxGen
    <3>1. Changes <= Changes
      BY <1>1
    <3> QED
      BY <1>0, <1>1, <1>2, <2>2, <3>1, Within
  <2> QED
    BY <2>1, <2>3
<1>7. CASE ~RuntimeProcesses /\ inputs' # inputs
  <2>1. PICK m \in Messages :
           /\ Tell(m) /\ UNCHANGED <<runtime, stored>>
           /\ m.kind = "change" => NewestGen + Changes < MaxGen
    BY <1>7, Telling
  <2>2. NewestGen' = NewestGen
    BY <2>1 DEF NewestGen
  <2>3. Changes' = Changes + (IF m.kind = "change" THEN 1 ELSE 0)
    BY <1>0, <2>1, ChangesAppend DEF Tell, Changes
  <2> QED
    BY <1>0, <1>1, <1>2, <2>1, <2>2, <2>3
<1>8. CASE ~RuntimeProcesses /\ inputs' = inputs
  <2>1. runtime'.generation = runtime.generation
    <3>1. DOMAIN runtime = {"pc", "generation", "health"}
      BY DEF StorageInv, Shape
    <3> QED
      BY <1>8, <3>1 DEF Step, BootReportsHealth, BootRestoresBle, BootRestoresRuntime,
        ReceiveCommand, FallAsleep, WakeUp, QuiesceAndPersist, QuiesceReady, PersistDue,
        Complete, ResetReady, EraseFails, RuntimeStops, RuntimeResumes, BleStarts, BleStopped,
        BleResumes, BleStopsAny, BleStops, UsbReady, UsbEnumerated, TimePasses, ArriveAny,
        Arrive, HostConnects, HostDisconnects, DeviceDetected, FactoryResetPressed
  <2>2. CASE PersistDue
    <3>1. stored' \in {stored, runtime.generation}
      BY <2>2 DEF PersistDue, StorageInv, SnapshotsAgree
    <3> QED
      BY <1>2, <1>6, <1>8, <2>1, <3>1
  <2>3. CASE EraseFails
    <3>1. stored' <= stored
      BY <1>0, <2>3 DEF EraseFails
    <3> QED
      BY <1>0, <1>2, <1>3, <1>6, <1>8, <2>1, <3>1
  <2>4. CASE ~(PersistDue \/ EraseFails)
    <3>1. UNCHANGED stored
      BY <1>8, <2>4 DEF Step, BootReportsHealth, BootRestoresBle, BootRestoresRuntime,
        ReceiveCommand, FallAsleep, WakeUp, QuiesceAndPersist, QuiesceReady, Complete,
        ResetReady, RuntimeStops, RuntimeResumes, BleStarts, BleStopped, BleResumes,
        BleStopsAny, BleStops, UsbReady, UsbEnumerated, TimePasses, ArriveAny, Arrive,
        HostConnects, HostDisconnects, DeviceDetected, FactoryResetPressed
    <3> QED
      BY <1>2, <1>6, <1>8, <2>1, <3>1
  <2> QED
    BY <2>2, <2>3, <2>4
<1> QED
    BY <1>5, <1>7, <1>8

(* Flash is only written or erased when the settings have been restored. *)
LEMMA BusyIsRestored ==
    ASSUME StorageInv, storage.pc \in {"write", "erase"}
    PROVE  ~Restoring
<1>1. Serves("storage", StoragePhase) /\ RestoresFirst
    BY DEF StorageInv, HandshakesAgree
<1>2. ble.owner = "storage" /\ ble.pc = "hold"
    BY <1>1 DEF Serves, StoragePhase
<1> QED
    BY <1>1, <1>2 DEF RestoresFirst

(* Only a restore that the runtime has processed ends the restoring. *)
LEMMA RestoringSteps ==
    ASSUME StorageInv, Step
    PROVE  /\ Restoring' => Restoring
           /\ Restoring /\ ~Restoring' =>
                 RuntimeProcesses /\ inputs[1].kind = "restore"
<1>0. /\ inputs \in Seq(Messages)
      /\ DOMAIN storage = {"pc", "timer", "backend", "reported", "plan"}
    BY DEF StorageInv, TypeOK, Shape
<1> DEFINE Boot == storage.pc \in {"boot", "restore_ble", "restore_runtime"}
           Queued == \E i \in DOMAIN inputs : inputs[i].kind = "restore"
<1>1. Restoring = (Boot \/ Queued) /\ Restoring' = (Boot' \/ Queued')
    BY DEF Restoring
<1>2. CASE RuntimeProcesses
  <2>1. UNCHANGED storage /\ inputs # <<>> /\ inputs' = Tail(inputs)
    BY <1>2 DEF RuntimeProcesses
  <2>2. Queued' => Queued
    BY <1>0, <2>1, HeadOfQueue
  <2>3. Queued => Queued' \/ inputs[1].kind = "restore"
    <3>1. SUFFICES ASSUME NEW i \in DOMAIN inputs, inputs[i].kind = "restore", i # 1
                   PROVE  Queued'
      OBVIOUS
    <3>2. /\ i - 1 \in DOMAIN Tail(inputs) /\ Tail(inputs)[i - 1] = inputs[i]
      <4>1. /\ DOMAIN inputs = 1 .. Len(inputs) /\ Len(inputs) \in Nat
            /\ DOMAIN Tail(inputs) = 1 .. Len(inputs) - 1
            /\ \A j \in 1 .. Len(inputs) - 1 : Tail(inputs)[j] = inputs[j + 1]
        BY <1>0, <2>1, HeadOfQueue
      <4>2. i \in Nat /\ i - 1 \in 1 .. Len(inputs) - 1 /\ (i - 1) + 1 = i
        BY <3>1, <4>1
      <4> QED
        BY <4>1, <4>2
    <3> QED
      BY <2>1, <3>1, <3>2
  <2> QED
    BY <1>1, <1>2, <2>1, <2>2, <2>3
<1>3. CASE BootRestoresRuntime
  <2>1. Boot /\ inputs' = Append(inputs, Message("restore", RestoredState))
    BY <1>3 DEF BootRestoresRuntime, Tell
  <2>2. Queued'
    <3>1. /\ Len(inputs) + 1 \in DOMAIN inputs'
          /\ inputs'[Len(inputs) + 1] = Message("restore", RestoredState)
      BY <1>0, <2>1
    <3> QED
      BY <3>1 DEF Message
  <2> QED
    BY <1>1, <2>1, <2>2
<1>4. CASE ~RuntimeProcesses /\ ~BootRestoresRuntime
  <2>1. Boot' = Boot
    <3>1. CASE Complete
      BY <3>1, Completing
    <3>2. CASE BootReportsHealth \/ BootRestoresBle
      BY <1>0, <3>2 DEF BootReportsHealth, BootRestoresBle, StorageGoes
    <3>3. CASE ReceiveCommand
      <4>1. storage.pc \in {"loop", "sleep", "ready", "write", "reset_ready", "erase"}
        BY <3>3 DEF ReceiveCommand
      <4>2. storage'.pc \in {"loop", "sleep", "ready", "write", "reset_ready", "erase", "complete"}
        BY <1>0, <3>3 DEF ReceiveCommand, StorageGoes, Requests
      <4> QED
        BY <4>1, <4>2
    <3>4. CASE QuiesceReady
      <4>1. storage.pc \in {"loop", "sleep", "ready", "write", "reset_ready", "erase"}
        BY <3>4 DEF QuiesceReady
      <4>2. storage'.pc \in {"loop", "sleep", "ready", "write", "reset_ready", "erase", "complete"}
        BY <1>0, <3>4 DEF QuiesceReady, StorageGoes
      <4> QED
        BY <4>1, <4>2
    <3>7. CASE FallAsleep \/ WakeUp
      <4>1. storage.pc \in {"loop", "sleep", "ready", "write", "reset_ready", "erase"}
        BY <3>7 DEF FallAsleep, WakeUp
      <4>2. storage'.pc \in {"loop", "sleep", "ready", "write", "reset_ready", "erase", "complete"}
        BY <1>0, <3>7 DEF FallAsleep, WakeUp, StorageGoes
      <4> QED
        BY <4>1, <4>2
    <3>8. CASE QuiesceAndPersist \/ PersistDue
      <4>1. storage.pc \in {"loop", "sleep", "ready", "write", "reset_ready", "erase"}
        BY <3>8 DEF QuiesceAndPersist, PersistDue
      <4>2. storage'.pc \in {"loop", "sleep", "ready", "write", "reset_ready", "erase", "complete"}
        BY <1>0, <3>8 DEF QuiesceAndPersist, PersistDue, Requests
      <4> QED
        BY <4>1, <4>2
    <3>9. CASE ResetReady \/ EraseFails
      <4>1. storage.pc \in {"loop", "sleep", "ready", "write", "reset_ready", "erase"}
        BY <3>9 DEF ResetReady, EraseFails
      <4>2. storage'.pc \in {"loop", "sleep", "ready", "write", "reset_ready", "erase", "complete"}
        BY <1>0, <3>9 DEF ResetReady, EraseFails, StorageGoes
      <4> QED
        BY <4>1, <4>2
    <3>5. CASE TimePasses
      BY <1>0, <3>5 DEF TimePasses
    <3>6. CASE \/ RuntimeStops \/ RuntimeResumes \/ BleStarts \/ BleStopped \/ BleResumes
               \/ BleStopsAny \/ UsbReady \/ UsbEnumerated \/ ArriveAny \/ HostConnects
               \/ HostDisconnects \/ DeviceDetected \/ FactoryResetPressed
      BY <3>6 DEF RuntimeStops, RuntimeResumes, BleStarts, BleStopped, BleResumes,
        BleStopsAny, BleStops, UsbReady, UsbEnumerated, ArriveAny, Arrive, HostConnects,
        HostDisconnects, DeviceDetected, FactoryResetPressed
    <3> QED
      BY <1>4, <3>1, <3>2, <3>3, <3>4, <3>5, <3>6, <3>7, <3>8, <3>9 DEF Step
  <2>2. CASE inputs' = inputs
    BY <1>1, <2>1, <2>2
  <2>3. CASE inputs' # inputs
    <3>1. PICK m \in Messages :
             Tell(m) /\ (m.kind = "restore" => storage.pc = "restore_runtime")
      BY <1>4, <2>3, Telling
    <3>2. /\ DOMAIN inputs = 1 .. Len(inputs) /\ DOMAIN inputs' = 1 .. Len(inputs) + 1
          /\ Len(inputs) \in Nat /\ inputs'[Len(inputs) + 1] = m
          /\ \A i \in 1 .. Len(inputs) : inputs'[i] = inputs[i]
      BY <1>0, <3>1, AppendToQueue DEF Tell
    <3>3. Queued => Queued'
      BY <3>2
    <3>4. Queued' => Queued \/ m.kind = "restore"
      <4>1. SUFFICES ASSUME NEW i \in DOMAIN inputs', inputs'[i].kind = "restore",
                            m.kind # "restore"
                     PROVE  Queued
        OBVIOUS
      <4>2. i \in 1 .. Len(inputs)
        BY <3>2, <4>1
      <4> QED
        BY <3>2, <4>1, <4>2
    <3> QED
      BY <1>1, <2>1, <3>1, <3>3, <3>4
  <2> QED
    BY <2>2, <2>3
<1> QED
    BY <1>2, <1>3, <1>4

(* The settings are restored before anything is written. *)
LEMMA RestoreStep ==
    ASSUME StorageInv, Step
    PROVE  RestoresFirst'
<1>0. /\ inputs \in Seq(Messages) /\ RestoresFirst /\ BarrierAgrees
      /\ Serves("storage", StoragePhase)
      /\ DOMAIN channels = Channels
      /\ DOMAIN storage = {"pc", "timer", "backend", "reported", "plan"}
      /\ DOMAIN ble = {"pc", "owner", "timer"}
      /\ ble.pc \in {"barrier", "hold"} => ble.owner \in {"storage", "usb"}
      /\ runtime.generation \in 0 .. MaxGen /\ stored \in 0 .. MaxGen
      /\ storage.pc = "write" => persistence.state = runtime.generation
    BY DEF StorageInv, TypeOK, Shape, HandshakesAgree, SnapshotsAgree
<1>1. storage'.backend = storage.backend
    BY <1>0 DEF Step, BootReportsHealth, BootRestoresBle, BootRestoresRuntime,
        ReceiveCommand, FallAsleep, WakeUp, QuiesceAndPersist, QuiesceReady, PersistDue,
        Complete, ResetReady, EraseFails, RuntimeProcesses, RuntimeStops, RuntimeResumes,
        BleStarts, BleStopped, BleResumes, BleStopsAny, BleStops, UsbReady, UsbEnumerated,
        TimePasses, ArriveAny, Arrive, HostConnects, HostDisconnects, DeviceDetected,
        FactoryResetPressed, StorageGoes, Requests
<1>2. stored' # stored => ~Restoring /\ (PersistDue \/ EraseFails)
  <2>1. CASE PersistDue \/ EraseFails
    BY <2>1, BusyIsRestored DEF PersistDue, EraseFails
  <2>2. CASE ~(PersistDue \/ EraseFails)
    BY <2>2 DEF Step, BootReportsHealth, BootRestoresBle, BootRestoresRuntime,
        ReceiveCommand, FallAsleep, WakeUp, QuiesceAndPersist, QuiesceReady, Complete,
        ResetReady, RuntimeProcesses, RuntimeStops, RuntimeResumes, BleStarts, BleStopped,
        BleResumes, BleStopsAny, BleStops, UsbReady, UsbEnumerated, TimePasses, ArriveAny,
        Arrive, HostConnects, HostDisconnects, DeviceDetected, FactoryResetPressed
  <2> QED
    BY <2>1, <2>2
<1>3. \A i \in DOMAIN inputs' : inputs'[i].kind = "restore" => inputs'[i].arg = RestoredState'
  <2>1. SUFFICES ASSUME NEW i \in DOMAIN inputs', inputs'[i].kind = "restore"
                 PROVE  inputs'[i].arg = RestoredState'
    OBVIOUS
  <2>2. Restoring' /\ Restoring
    BY <2>1, RestoringSteps DEF Restoring
  <2>3. RestoredState' = RestoredState
    BY <1>1, <1>2, <2>2 DEF RestoredState
  <2>4. CASE RuntimeProcesses
    <3>1. /\ inputs # <<>> /\ inputs' = Tail(inputs)
      BY <2>4 DEF RuntimeProcesses
    <3>2. i \in 1 .. Len(inputs) - 1 /\ inputs'[i] = inputs[i + 1] /\ i + 1 \in DOMAIN inputs
      <4>1. /\ DOMAIN inputs = 1 .. Len(inputs) /\ Len(inputs) \in Nat
            /\ DOMAIN inputs' = 1 .. Len(inputs) - 1
            /\ \A j \in 1 .. Len(inputs) - 1 : inputs'[j] = inputs[j + 1]
        BY <1>0, <3>1, HeadOfQueue
      <4> QED
        BY <2>1, <4>1
    <3> QED
      BY <1>0, <2>1, <2>3, <3>2 DEF RestoresFirst
  <2>5. CASE inputs' = inputs
    BY <1>0, <2>1, <2>3, <2>5 DEF RestoresFirst
  <2>6. CASE ~RuntimeProcesses /\ inputs' # inputs
    <3>1. PICK m \in Messages : Tell(m) /\ (m.kind = "restore" => m.arg = RestoredState)
      BY <2>6, Telling
    <3>2. /\ DOMAIN inputs = 1 .. Len(inputs) /\ DOMAIN inputs' = 1 .. Len(inputs) + 1
          /\ Len(inputs) \in Nat /\ inputs'[Len(inputs) + 1] = m
          /\ \A j \in 1 .. Len(inputs) : inputs'[j] = inputs[j]
      BY <1>0, <3>1, AppendToQueue DEF Tell
    <3>3. CASE i = Len(inputs) + 1
      BY <2>1, <2>3, <3>1, <3>2, <3>3
    <3>4. CASE i # Len(inputs) + 1
      <4>1. i \in DOMAIN inputs /\ inputs'[i] = inputs[i]
        BY <2>1, <3>2, <3>4
      <4> QED
        BY <1>0, <2>1, <2>3, <4>1 DEF RestoresFirst
    <3> QED
      BY <3>3, <3>4
  <2> QED
    BY <2>4, <2>5, <2>6
<1>4. Restoring' => ~(ble'.owner = "storage" /\ (ble'.pc = "hold" \/ Full("barrier_done")'))
  <2>1. SUFFICES ASSUME Restoring
                 PROVE  ~(ble'.owner = "storage" /\ (ble'.pc = "hold" \/ Full("barrier_done")'))
    BY RestoringSteps
  <2>2. ~(ble.owner = "storage" /\ (ble.pc = "hold" \/ Full("barrier_done")))
    BY <1>0, <2>1 DEF RestoresFirst
  <2>3. CASE UNCHANGED <<ble, channels>>
    BY <2>2, <2>3 DEF Full
  <2>4. CASE /\ ble'.pc = ble.pc /\ ble'.owner = ble.owner
             /\ channels'["barrier_done"] = channels["barrier_done"]
    BY <2>2, <2>4 DEF Full
  <2>5. CASE RuntimeStops
    <3>1. UNCHANGED ble /\ inputs = <<>> /\ Full("barrier") /\ runtime.pc = "select"
      BY <2>5 DEF RuntimeStops, BarrierTurn
    <3>2. ble.pc = "barrier"
      BY <1>0, <3>1 DEF BarrierAgrees
    <3>3. storage.pc \in {"boot", "restore_ble", "restore_runtime"}
      BY <2>1, <3>1 DEF Restoring
    <3>4. ble.owner # "storage"
      BY <1>0, <3>2, <3>3 DEF Serves, StoragePhase
    <3> QED
      BY <3>1, <3>4
  <2>6. CASE BleStopped
    BY <2>2, <2>6, <1>0 DEF BleStopped, RuntimeAnswered
  <2>7. CASE BleStopsAny
    <3>1. ble.pc = "run" /\ ble'.pc = "barrier"
          /\ channels'["barrier_done"] = channels["barrier_done"]
      BY <1>0, <2>7 DEF BleStopsAny, BleStops, Request, Channels
    <3>2. ~Full("barrier_done")
      BY <1>0, <3>1 DEF BarrierAgrees
    <3> QED
      BY <3>1, <3>2 DEF Full
  <2>8. CASE BleResumes
    <3>1. ble'.owner = "none"
      BY <2>8 DEF BleResumes
    <3> QED
      BY <3>1
  <2>9. CASE BleStarts \/ TimePasses
    <3>1. /\ ble'.owner = ble.owner /\ ble'.pc \in {ble.pc, "run"}
          /\ channels'["barrier_done"] = channels["barrier_done"]
      BY <1>0, <2>9 DEF BleStarts, TimePasses, Receive, Channels
    <3> QED
      BY <2>2, <3>1 DEF Full
  <2>10. CASE Complete
    BY <1>0, <2>4, <2>10, Completing DEF Send, Channels
  <2>11. CASE \/ BootReportsHealth \/ BootRestoresBle \/ BootRestoresRuntime \/ ReceiveCommand
              \/ FallAsleep \/ WakeUp \/ QuiesceAndPersist \/ QuiesceReady \/ PersistDue
              \/ ResetReady \/ EraseFails \/ RuntimeProcesses \/ RuntimeResumes \/ UsbReady
              \/ UsbEnumerated \/ ArriveAny \/ HostConnects \/ HostDisconnects
              \/ DeviceDetected \/ FactoryResetPressed
    <3>1. UNCHANGED ble /\ channels'["barrier_done"] = channels["barrier_done"]
      BY <1>0, <2>11 DEF BootReportsHealth, BootRestoresBle, BootRestoresRuntime,
        ReceiveCommand, FallAsleep, WakeUp, QuiesceAndPersist, QuiesceReady, PersistDue,
        ResetReady, EraseFails, RuntimeProcesses, RuntimeResumes, UsbReady, UsbEnumerated,
        ArriveAny, Arrive, HostConnects, HostDisconnects, DeviceDetected,
        FactoryResetPressed, Requests, Send, Receive, Channels
    <3> QED
      BY <2>4, <3>1
  <2> QED
    BY <2>5, <2>6, <2>7, <2>8, <2>9, <2>10, <2>11 DEF Step
<1>5. Working' /\ ~Restoring' => stored' <= runtime'.generation
  <2>1. SUFFICES ASSUME Working, ~Restoring'
                 PROVE  stored' <= runtime'.generation
    BY <1>1 DEF Working
  <2>2. ~Restoring => stored <= runtime.generation
    BY <1>0, <2>1 DEF RestoresFirst
  <2>3. CASE RuntimeProcesses
    <3>1. UNCHANGED stored
      BY <2>3 DEF RuntimeProcesses
    <3>2. runtime'.generation =
             CASE inputs[1].kind = "restore" -> inputs[1].arg
               [] inputs[1].kind = "change" /\ runtime.health = Persistent
                  /\ HasRoom -> runtime.generation + 1
               [] OTHER -> runtime.generation
      BY <2>3, Taking, RuntimeProcessing
    <3>3. CASE inputs[1].kind = "restore"
      <4>1. 1 \in DOMAIN inputs
        BY <2>3, Taking, HeadOfQueue
      <4>2. inputs[1].arg = stored
        BY <1>0, <2>1, <3>3, <4>1 DEF RestoresFirst, RestoredState, Working
      <4>3. runtime'.generation = stored
        BY <3>2, <3>3, <4>2
      <4> QED
        BY <1>0, <3>1, <4>3
    <3>4. CASE inputs[1].kind # "restore"
      <4>1. stored <= runtime.generation
        BY <2>1, <2>2, <3>4, RestoringSteps
      <4>2. runtime'.generation \in {runtime.generation, runtime.generation + 1}
        BY <3>2, <3>4
      <4> QED
        BY <1>0, <3>1, <4>1, <4>2
    <3> QED
      BY <3>3, <3>4
  <2>4. CASE ~RuntimeProcesses
    <3>1. stored <= runtime.generation
      BY <2>1, <2>2, <2>4, RestoringSteps
    <3>2. runtime'.generation = runtime.generation
      <4>1. DOMAIN runtime = {"pc", "generation", "health"}
        BY DEF StorageInv, Shape
      <4> QED
        BY <2>4, <4>1 DEF Step, BootReportsHealth, BootRestoresBle, BootRestoresRuntime,
          ReceiveCommand, FallAsleep, WakeUp, QuiesceAndPersist, QuiesceReady, PersistDue,
          Complete, ResetReady, EraseFails, RuntimeStops, RuntimeResumes, BleStarts,
          BleStopped, BleResumes, BleStopsAny, BleStops, UsbReady, UsbEnumerated, TimePasses,
          ArriveAny, Arrive, HostConnects, HostDisconnects, DeviceDetected,
          FactoryResetPressed
    <3>3. CASE PersistDue
      <4>1. stored' \in {stored, runtime.generation}
        BY <1>0, <3>3 DEF PersistDue
      <4> QED
        BY <1>0, <3>1, <3>2, <4>1
    <3>4. CASE EraseFails
      <4>1. stored' \in 0 .. stored
        BY <3>4 DEF EraseFails
      <4> QED
        BY <1>0, <3>1, <3>2, <4>1
    <3>5. CASE ~(PersistDue \/ EraseFails)
      BY <1>2, <3>1, <3>2, <3>5
    <3> QED
      BY <3>3, <3>4, <3>5
  <2> QED
    BY <2>3, <2>4
<1> QED
    BY <1>3, <1>4, <1>5 DEF RestoresFirst

-----------------------------------------------------------------------------

(* The chip starts in a state of the invariant. *)
LEMMA InitialState == Init => StorageInv
<1> SUFFICES ASSUME Init PROVE StorageInv
    OBVIOUS
<1>1. PICK backend \in Backends : storage = StorageBoots(backend)
    BY DEF Init
<1>2. stored \in 0 .. MaxGen
    BY DEF Init
<1>3. inputs = <<Message("health", Initializing)>>
    BY DEF Init, FirstInputs
<1>4. Changes = 0
  <2>1. {i \in DOMAIN inputs : inputs[i].kind = "change"} = {}
    BY <1>3 DEF Message
  <2> QED
    BY <2>1, FS_EmptySet DEF Changes, ChangesIn
<1>5. TypeOK
  <2>1. inputs \in Seq(Messages) /\ Len(inputs) = 1
    <3>1. Message("health", Initializing) \in Messages
      BY DEF Message, Messages
    <3> QED
      BY <1>3, <3>1
  <2>2. commands \in Seq(StorageCommands) /\ Len(commands) = 0
    BY DEF Init
  <2>3. DOMAIN channels = Channels /\ \A c \in Channels : channels[c] = Empty
    BY DEF Init
  <2>4. PersistenceOK
    BY DEF Init, PersistenceOK, NothingPending
  <2>5. runtime.generation = 0 /\ runtime.health = Persistent /\ connections = 0
    BY DEF Init
  <2> QED
    BY <1>2, <2>1, <2>2, <2>3, <2>4, <2>5 DEF TypeOK
<1>6. Shape
    BY <1>1 DEF Init, StorageBoots, Shape, Working
<1>7. HandshakesAgree /\ SnapshotsAgree
  <2>1. \A c \in Channels : channels[c] = Empty
    BY DEF Init
  <2>2. /\ ble.pc = "restore" /\ ble.owner = "none" /\ usb.pc = "idle"
        /\ storage.pc = "boot" /\ runtime.pc = "select"
        /\ ~persistence.suspended /\ persistence.failures = 0
    BY <1>1 DEF Init, StorageBoots, NothingPending
  <2> QED
    BY <2>1, <2>2 DEF HandshakesAgree, BarrierAgrees, Serves, StoragePhase, UsbPhase,
        SnapshotsAgree, Full, Request, Ready, Done, Channels
<1>8. RestoresFirst
    BY <1>1, <1>3 DEF Init, StorageBoots, RestoresFirst, Restoring, Message
<1>9. NewestGen + Changes <= MaxGen
  <2>1. runtime.generation = 0
    BY DEF Init
  <2>2. NewestGen = stored
    BY <1>2, <2>1, MaxOfTwo DEF NewestGen
  <2>3. stored + 0 <= MaxGen
    BY <1>2, NothingMore
  <2> QED
    BY <1>4, <2>2, <2>3
<1> QED
    BY <1>5, <1>6, <1>7, <1>8, <1>9 DEF StorageInv

(* A step of the system is a step of a task, of its inputs or of time, or a restart. *)
LEMMA NextSteps ==
    ASSUME Next
    PROVE  Step \/ EraseSucceeds \/ HandshakeTimesOut
BY DEF Next, Tick, TaskStep, Outside, Step, BleStopsAny, ArriveAny

(* Every step keeps the invariant. *)
LEMMA InvariantStep == StorageInv /\ [Next]_vars => StorageInv'
<1>1. ASSUME StorageInv, Step PROVE StorageInv'
  <2>1. HandshakesAgree'
    BY <1>1, BarrierStep, StorageServed, UsbServed DEF HandshakesAgree
  <2> QED
    BY <1>1, <2>1, TypeStep, ShapeStep, SnapshotStep, RestoreStep, GenerationStep
    DEF StorageInv
<1>2. ASSUME StorageInv, EraseSucceeds PROVE StorageInv'
  <2>1. stored' \in 0 .. stored
    BY <1>2 DEF EraseSucceeds, StorageInv, TypeOK
  <2> QED
    BY <1>2, <2>1, Restarts DEF EraseSucceeds
<1>3. ASSUME StorageInv, HandshakeTimesOut PROVE StorageInv'
  <2>1. stored' \in 0 .. stored
    BY <1>3 DEF HandshakeTimesOut, StorageInv, TypeOK
  <2> QED
    BY <1>3, <2>1, Restarts DEF HandshakeTimesOut
<1>4. ASSUME StorageInv, UNCHANGED vars PROVE StorageInv'
  <2>1. TypeOK' /\ Shape'
    BY <1>4 DEF vars, StorageInv, TypeOK, PersistenceOK, Shape, Working
  <2>2. BarrierAgrees'
    BY <1>4 DEF vars, StorageInv, HandshakesAgree, BarrierAgrees, Full
  <2>3. Serves("storage", StoragePhase)'
    BY <1>4 DEF vars, StorageInv, HandshakesAgree, Serves, StoragePhase, Full
  <2>4. Serves("usb", UsbPhase)'
    BY <1>4 DEF vars, StorageInv, HandshakesAgree, Serves, UsbPhase, Full
  <2>5. SnapshotsAgree' /\ RestoresFirst'
    BY <1>4 DEF vars, StorageInv, SnapshotsAgree, RestoresFirst, Restoring, RestoredState,
        Working, Full
  <2>6. (NewestGen + Changes <= MaxGen)'
    BY <1>4 DEF vars, StorageInv, NewestGen, Changes
  <2> QED
    BY <2>1, <2>2, <2>3, <2>4, <2>5, <2>6 DEF StorageInv, HandshakesAgree
<1> QED
    BY <1>1, <1>2, <1>3, <1>4, NextSteps

(* The storage task, the BLE task, the USB hub task and the runtime always agree on
   who asked whom to stop: StorageInv is an invariant, whatever the capacities,
   delays, timeouts and bounds are. *)
THEOREM StorageInvariant == Spec => []StorageInv
    BY InitialState, InvariantStep, PTL DEF Spec

(* Flash is written and erased, and a hub port is enumerated, only while the BLE task
   holds for that very task and the runtime stands still: both handshakes exclude
   each other (quiesce_ble_for_flash_write, quiesce_ble_for_usb_enumeration). *)
THEOREM OnlyOneIsBusy == Spec => []QuietWhileBusy
<1>1. ASSUME StorageInv PROVE QuietWhileBusy
  <2>1. BarrierAgrees /\ Serves("storage", StoragePhase) /\ Serves("usb", UsbPhase)
    BY <1>1 DEF StorageInv, HandshakesAgree
  <2>2. ble.pc = "hold" => runtime.pc = "held"
    BY <2>1 DEF BarrierAgrees
  <2>3. storage.pc \in {"write", "erase"} => ble.owner = "storage" /\ ble.pc = "hold"
    BY <2>1 DEF Serves, StoragePhase
  <2>4. usb.pc = "enumerate" => ble.owner = "usb" /\ ble.pc = "hold"
    BY <2>1 DEF Serves, UsbPhase
  <2> QED
    BY <2>2, <2>3, <2>4 DEF QuietWhileBusy
<1> QED
    BY <1>1, StorageInvariant, PTL

(* What persist_due writes is the state the runtime has at that moment, and newer
   than what flash holds; only an erase makes flash older. *)
THEOREM WritesAreCurrent == Spec => StoredIsCurrent
<1>1. ASSUME StorageInv, Next, stored' # stored
      PROVE  \/ stored' = runtime.generation /\ stored' > stored
             \/ storage.pc = "erase" /\ stored' < stored
  <2>0. stored \in 0 .. MaxGen /\ runtime.generation \in 0 .. MaxGen
    BY <1>1 DEF StorageInv, TypeOK
  <2>1. CASE PersistDue
    <3>1. storage.pc = "write" /\ stored' = persistence.state
      BY <1>1, <2>1 DEF PersistDue
    <3>2. persistence.state = runtime.generation
      BY <1>1, <3>1 DEF StorageInv, SnapshotsAgree
    <3>3. ~Restoring
      BY <1>1, <3>1, BusyIsRestored
    <3>4. Working
      BY <1>1, <3>1 DEF StorageInv, Shape
    <3>5. stored <= runtime.generation
      BY <1>1, <3>3, <3>4 DEF StorageInv, RestoresFirst
    <3> QED
      BY <1>1, <2>0, <3>1, <3>2, <3>5
  <2>2. CASE EraseFails \/ EraseSucceeds
    BY <1>1, <2>0, <2>2 DEF EraseFails, EraseSucceeds
  <2>3. CASE HandshakeTimesOut
    BY <1>1, <2>3 DEF HandshakeTimesOut
  <2>4. CASE Step /\ ~PersistDue /\ ~EraseFails
    <3>1. UNCHANGED stored
      BY <2>4 DEF Step, BootReportsHealth, BootRestoresBle, BootRestoresRuntime,
        ReceiveCommand, FallAsleep, WakeUp, QuiesceAndPersist, QuiesceReady, Complete,
        ResetReady, RuntimeProcesses, RuntimeStops, RuntimeResumes, BleStarts, BleStopped,
        BleResumes, BleStopsAny, BleStops, UsbReady, UsbEnumerated, TimePasses, ArriveAny,
        Arrive, HostConnects, HostDisconnects, DeviceDetected, FactoryResetPressed
    <3> QED
      BY <1>1, <3>1
  <2> QED
    BY <1>1, <2>1, <2>2, <2>3, <2>4, NextSteps
<1>2. StorageInv /\ [Next]_vars =>
         [stored' # stored =>
             \/ stored' = runtime.generation /\ stored' > stored
             \/ storage.pc = "erase" /\ stored' < stored]_vars
    BY <1>1 DEF vars
<1> QED
    BY <1>2, StorageInvariant, PTL DEF Spec, StoredIsCurrent

(* Every queue stays within its capacity, every timer within its limit and every
   program counter in its range: TypeOK holds in every reachable state. *)
THEOREM TypeCorrect == Spec => []TypeOK
<1>1. StorageInv => TypeOK
    BY DEF StorageInv
<1> QED
    BY <1>1, StorageInvariant, PTL

=============================================================================
