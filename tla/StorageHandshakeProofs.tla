---------------------- MODULE StorageHandshakeProofs ----------------------
(***************************************************************************)
(* Who asked whom to stop: the barrier between the BLE task and the        *)
(* runtime, and the handshakes of the storage task and of the USB hub task *)
(* with the BLE task, step by step.                                        *)
(***************************************************************************)
EXTENDS StorageTask, TLAPS

(* The newer of two generations (NewestGen). *)
LEMMA MaxOfTwo ==
    ASSUME NEW a \in Int, NEW b \in Int
    PROVE  Max({a, b}) = IF a >= b THEN a ELSE b
BY DEF Max

(* A step that takes no snapshot stays within the generations. *)
LEMMA Within ==
    ASSUME NEW limit \in Nat, NEW n \in Nat, NEW c \in Nat, n + c <= limit,
           NEW m \in Nat, m <= n, NEW d \in Nat, d <= c
    PROVE  m + d <= limit /\ m \in 0 .. limit
    OBVIOUS

(* A step that takes the next snapshot uses up one change that waits. *)
LEMMA WithinNext ==
    ASSUME NEW limit \in Nat, NEW n \in Nat, NEW c \in Nat, n + c <= limit,
           NEW m \in Nat, m <= n, NEW d \in Nat, d + 1 <= c
    PROVE  (m + 1) + d <= limit /\ m + 1 \in 0 .. limit
    OBVIOUS

(* Without waiting changes the newest generation is within the bound. *)
LEMMA NothingMore ==
    ASSUME NEW limit \in Nat, NEW m \in 0 .. limit
    PROVE  m + 0 <= limit
    OBVIOUS

(* What receive() takes from a channel and what it leaves there. *)
LEMMA HeadOfQueue ==
    ASSUME NEW S, NEW s \in Seq(S), s # <<>>
    PROVE  /\ Head(s) = s[1] /\ s[1] \in S /\ 1 \in DOMAIN s
           /\ Tail(s) \in Seq(S) /\ Len(Tail(s)) = Len(s) - 1
           /\ DOMAIN s = 1 .. Len(s) /\ DOMAIN Tail(s) = 1 .. Len(s) - 1 /\ Len(s) \in Nat
           /\ \A i \in 1 .. Len(s) - 1 : Tail(s)[i] = s[i + 1]
    OBVIOUS

(* What send() puts into a channel. *)
LEMMA AppendToQueue ==
    ASSUME NEW S, NEW s \in Seq(S), NEW m \in S
    PROVE  /\ Append(s, m) \in Seq(S) /\ Len(Append(s, m)) = Len(s) + 1
           /\ DOMAIN s = 1 .. Len(s) /\ DOMAIN Append(s, m) = 1 .. Len(s) + 1
           /\ Append(s, m)[Len(s) + 1] = m
           /\ \A i \in 1 .. Len(s) : Append(s, m)[i] = s[i]
    OBVIOUS



(* The capacities and limits, one by one. *)
LEMMA Constants ==
    /\ InputCap \in Nat \ {0} /\ CommandCap \in Nat \ {0} /\ FailureLimit \in Nat \ {0}
    /\ MaxGen \in Nat /\ ForceAfter \in Nat
    /\ StartGens \subseteq 0 .. MaxGen /\ Backends \subseteq {1, 3}
BY StorageTaskAssumption

USE Constants DEF Initializing, Persistent, UnavailableHealth, Degraded,
    Healths, Lazy, Normal, Critical, Priorities, NoState, NoDeadline, Empty, Unit

BleStopsAny == \E owner \in {"storage", "usb"} : BleStops(owner)
ArriveAny == (\E priority \in Priorities : Arrive(Message("change", priority)))
             \/ Arrive(Message("input", Unit))

(* Every step but a restart of the chip. *)
Step ==
    \/ BootReportsHealth \/ BootRestoresBle \/ BootRestoresRuntime
    \/ ReceiveCommand \/ FallAsleep \/ WakeUp
    \/ QuiesceAndPersist \/ QuiesceReady \/ PersistDue \/ Complete
    \/ ResetReady \/ EraseFails
    \/ RuntimeProcesses \/ RuntimeStops \/ RuntimeResumes
    \/ BleStarts \/ BleStopped \/ BleResumes \/ BleStopsAny
    \/ UsbReady \/ UsbEnumerated
    \/ TimePasses
    \/ ArriveAny \/ HostConnects \/ HostDisconnects
    \/ DeviceDetected \/ FactoryResetPressed

(* The plan of what follows a write. *)
LEMMA Planned ==
    ASSUME StorageInv, storage.pc = "complete"
    PROVE  /\ Head(storage.plan) = storage.plan[1]
           /\ storage.plan[1] \in {"release", "health", "report"}
           /\ Len(storage.plan) # 1 =>
                 Tail(storage.plan) \in Plans /\ Tail(storage.plan)[1] # "release"
<1>1. storage.plan \in Plans
    BY DEF StorageInv, Shape
<1>2. CASE storage.plan = <<"release", "health", "report">>
    BY <1>2 DEF Plans
<1>3. CASE storage.plan = <<"release", "report">>
    BY <1>3 DEF Plans
<1>4. CASE storage.plan = <<"health", "report">>
    BY <1>4 DEF Plans
<1>5. CASE storage.plan = <<"report">>
    BY <1>5 DEF Plans
<1>6. CASE storage.plan = <<"release">>
    BY <1>6 DEF Plans
<1> QED
    BY <1>1, <1>2, <1>3, <1>4, <1>5, <1>6 DEF Plans

(* An input that arrives touches none of the handshakes. *)
LEMMA Arrivals ==
    ASSUME ArriveAny
    PROVE  UNCHANGED <<commands, channels, runtime, persistence, storage, ble,
                       connections, usb, stored, failures_left, timed_out>>
BY DEF ArriveAny, Arrive

(* What one message may do to the runtime. *)
LEMMA RuntimeProcessing ==
    ASSUME StorageInv, RuntimeProcesses
    PROVE  /\ DOMAIN runtime' = DOMAIN runtime /\ runtime'.pc = runtime.pc
           /\ runtime'.health \in Healths
           /\ runtime'.generation =
                 CASE Head(inputs).kind = "restore" -> Head(inputs).arg
                   [] Head(inputs).kind = "change" /\ runtime.health = Persistent
                      /\ HasRoom -> runtime.generation + 1
                   [] OTHER -> runtime.generation
<1>1. Head(inputs) \in Messages
    BY HeadOfQueue DEF StorageInv, TypeOK, RuntimeProcesses
<1>2. DOMAIN runtime = {"pc", "generation", "health"} /\ runtime.health \in Healths
    BY DEF StorageInv, Shape, TypeOK
<1>3. CASE Head(inputs).kind = "change"
    BY <1>2, <1>3 DEF RuntimeProcesses, ApplyChange
<1>4. CASE Head(inputs).kind = "health"
    BY <1>1, <1>2, <1>4 DEF RuntimeProcesses, Messages
<1>5. CASE Head(inputs).kind = "restore"
    BY <1>2, <1>5 DEF RuntimeProcesses
<1>6. CASE Head(inputs).kind \notin {"change", "health", "restore"}
    BY <1>2, <1>6 DEF RuntimeProcesses
<1> QED
    BY <1>3, <1>4, <1>5, <1>6

(* What one step of the plan does to the handshakes. *)
LEMMA Completing ==
    ASSUME StorageInv, Complete
    PROVE  /\ storage.pc = "complete" /\ UNCHANGED <<runtime, ble, usb>>
           /\ channels' = IF storage.plan[1] = "release" THEN Send("done", Unit) ELSE channels
           /\ storage'.pc = "loop" \/ (storage'.pc = "complete" /\ storage'.plan[1] # "release")
<1>1. storage.pc = "complete" /\ UNCHANGED <<runtime, ble, usb>>
    BY DEF Complete
<1>2. channels' = IF storage.plan[1] = "release" THEN Send("done", Unit) ELSE channels
    BY <1>1, Planned DEF Complete
<1>3. DOMAIN storage = {"pc", "timer", "backend", "reported", "plan"}
    BY DEF StorageInv, Shape
<1>4. storage'.pc = "loop" \/ (storage'.pc = "complete" /\ storage'.plan[1] # "release")
  <2>1. storage'.plan = Tail(storage.plan)
        /\ storage'.pc = IF Len(storage.plan) = 1 THEN "loop" ELSE "complete"
    BY <1>3 DEF Complete
  <2>2. Len(storage.plan) # 1 => Tail(storage.plan)[1] # "release"
    BY <1>1, Planned
  <2> QED
    BY <2>1, <2>2
<1> QED
    BY <1>1, <1>2, <1>4

(* The runtime answers the barrier with its state, or without one. *)
LEMMA Stopping ==
    ASSUME StorageInv, RuntimeStops
    PROVE  /\ runtime.generation \in 0 .. MaxGen
           /\ \E state \in {runtime.generation, NoState} :
                 channels' = [channels EXCEPT !["barrier"] = Empty, !["barrier_done"] = state]
<1>1. runtime.generation \in 0 .. MaxGen
    BY DEF StorageInv, TypeOK
<1>2. PICK state \in {runtime.generation} \cup IF failures_left > 0 THEN {NoState} ELSE {} :
         channels' = [channels EXCEPT !["barrier"] = Empty, !["barrier_done"] = state]
    BY DEF RuntimeStops
<1>3. state \in {runtime.generation, NoState}
    OBVIOUS
<1> QED
    BY <1>1, <1>2, <1>3

(* Every step leaves the records in shape. *)
LEMMA ShapeStep ==
    ASSUME StorageInv, Step
    PROVE  Shape'
<1>0. Shape
    BY DEF StorageInv
<1> USE <1>0 DEF Shape, Plans, Working, bounds
<1>1. CASE BootReportsHealth
    BY <1>1 DEF BootReportsHealth, StorageGoes, Tell
<1>2. CASE BootRestoresBle
    BY <1>2 DEF BootRestoresBle, StorageGoes
<1>3. CASE BootRestoresRuntime
    BY <1>3 DEF BootRestoresRuntime, StorageGoes, Tell
<1>4. CASE ReceiveCommand
    BY <1>4 DEF ReceiveCommand, StorageGoes, Requests
<1>5. CASE FallAsleep
    BY <1>5 DEF FallAsleep
<1>6. CASE WakeUp
    BY <1>6 DEF WakeUp, StorageGoes
<1>7. CASE QuiesceAndPersist
    BY <1>7 DEF QuiesceAndPersist, Requests
<1>8. CASE QuiesceReady
    BY <1>8 DEF QuiesceReady, StorageGoes
<1>9. CASE PersistDue
    BY <1>9 DEF PersistDue, Completion, EffectiveHealth
<1>10. CASE Complete
    BY <1>10, Planned DEF Complete
<1>11. CASE ResetReady
    BY <1>11 DEF ResetReady, StorageGoes
<1>12. CASE EraseFails
    BY <1>12 DEF EraseFails, Completion
<1>13. CASE RuntimeProcesses
    BY <1>13, RuntimeProcessing DEF RuntimeProcesses
<1>14. CASE RuntimeStops
    BY <1>14 DEF RuntimeStops
<1>15. CASE RuntimeResumes
    BY <1>15 DEF RuntimeResumes
<1>16. CASE BleStarts
    BY <1>16 DEF BleStarts
<1>17. CASE BleStopped
    BY <1>17 DEF BleStopped, RuntimeAnswered
<1>18. CASE BleResumes
    BY <1>18 DEF BleResumes
<1>19. CASE BleStopsAny
    BY <1>19 DEF BleStopsAny, BleStops
<1>20. CASE UsbReady
    BY <1>20 DEF UsbReady
<1>21. CASE UsbEnumerated
    BY <1>21 DEF UsbEnumerated
<1>22. CASE TimePasses
    BY <1>22 DEF TimePasses
<1>23. CASE ArriveAny
    BY <1>23 DEF ArriveAny, Arrive, Tell, Message
<1>24. CASE HostConnects
    BY <1>24 DEF HostConnects
<1>25. CASE HostDisconnects
    BY <1>25 DEF HostDisconnects
<1>26. CASE DeviceDetected
    BY <1>26 DEF DeviceDetected
<1>27. CASE FactoryResetPressed
    BY <1>27 DEF FactoryResetPressed
<1> QED
    BY <1>1, <1>2, <1>3, <1>4, <1>5, <1>6, <1>7, <1>8, <1>9, <1>10, <1>11, <1>12, <1>13, <1>14, <1>15, <1>16, <1>17, <1>18, <1>19, <1>20, <1>21, <1>22, <1>23, <1>24, <1>25, <1>26, <1>27
    DEF Step

(* The BLE task and the runtime agree on the barrier. *)
LEMMA BarrierStep ==
    ASSUME StorageInv, Step
    PROVE  BarrierAgrees'
<1>0. /\ DOMAIN channels = Channels
      /\ DOMAIN ble = {"pc", "owner", "timer"}
      /\ DOMAIN runtime = {"pc", "generation", "health"}
      /\ DOMAIN usb = {"pc", "timer", "long"} /\ usb.pc \in {"idle", "ready", "enumerate"}
      /\ DOMAIN storage = {"pc", "timer", "backend", "reported", "plan"}
      /\ ble.pc \in {"barrier", "hold"} => ble.owner \in {"storage", "usb"}
      /\ BarrierAgrees
    BY DEF StorageInv, TypeOK, Shape, HandshakesAgree
<1> USE <1>0 DEF Full, Send, Receive, Request, Ready, Done, bounds, Channels, BarrierAgrees
<1>1. CASE BootReportsHealth
    BY <1>1 DEF BootReportsHealth, StorageGoes, Tell
<1>2. CASE BootRestoresBle
    BY <1>2 DEF BootRestoresBle, StorageGoes
<1>3. CASE BootRestoresRuntime
    BY <1>3 DEF BootRestoresRuntime, StorageGoes, Tell
<1>4. CASE ReceiveCommand
  <2>1. CASE ~Working
    BY <1>4, <2>1 DEF ReceiveCommand, StorageGoes, Requests
  <2>2. CASE Working /\ Head(commands).kind = "persist"
    BY <1>4, <2>2 DEF ReceiveCommand, StorageGoes, Requests
  <2>3. CASE Working /\ Head(commands).kind = "reset"
    BY <1>4, <2>3 DEF ReceiveCommand, StorageGoes, Requests
  <2> QED
    BY <1>4, <2>1, <2>2, <2>3 DEF ReceiveCommand, StorageGoes, Requests
<1>5. CASE FallAsleep
    BY <1>5 DEF FallAsleep
<1>6. CASE WakeUp
    BY <1>6 DEF WakeUp, StorageGoes
<1>7. CASE QuiesceAndPersist
    BY <1>7 DEF QuiesceAndPersist, Requests
<1>8. CASE QuiesceReady
  <2>1. CASE channels["ready"] = NoState
    BY <1>8, <2>1 DEF QuiesceReady, StorageGoes
  <2>2. CASE channels["ready"] # NoState
    BY <1>8, <2>2 DEF QuiesceReady, StorageGoes
  <2> QED
    BY <1>8, <2>1, <2>2 DEF QuiesceReady, StorageGoes
<1>9. CASE PersistDue
    BY <1>9 DEF PersistDue, Completion, EffectiveHealth
<1>10. CASE Complete
    BY <1>10, Completing
<1>11. CASE ResetReady
    BY <1>11 DEF ResetReady, StorageGoes
<1>12. CASE EraseFails
    BY <1>12 DEF EraseFails, Completion
<1>13. CASE RuntimeProcesses
    BY <1>13, RuntimeProcessing DEF RuntimeProcesses
<1>14. CASE RuntimeStops
  <2>1. PICK state \in {runtime.generation, NoState} :
           channels' = [channels EXCEPT !["barrier"] = Empty, !["barrier_done"] = state]
    BY <1>14, Stopping
  <2>2. state # Empty
    BY <1>14, Stopping
  <2> QED
    BY <1>14, <2>1, <2>2 DEF RuntimeStops, BarrierTurn
<1>15. CASE RuntimeResumes
    BY <1>15 DEF RuntimeResumes
<1>16. CASE BleStarts
    BY <1>16 DEF BleStarts
<1>17. CASE BleStopped
  <2>1. CASE ble.owner = "storage"
    BY <1>17, <2>1 DEF BleStopped, RuntimeAnswered
  <2>2. CASE ble.owner = "usb"
    BY <1>17, <2>2 DEF BleStopped, RuntimeAnswered
  <2> QED
    BY <1>17, <2>1, <2>2 DEF BleStopped, RuntimeAnswered
<1>18. CASE BleResumes
  <2>1. CASE ble.owner = "storage"
    BY <1>18, <2>1 DEF BleResumes
  <2>2. CASE ble.owner = "usb"
    BY <1>18, <2>2 DEF BleResumes
  <2> QED
    BY <1>18, <2>1, <2>2 DEF BleResumes
<1>19. CASE BleStopsAny
  <2>1. CASE BleStops("storage")
    BY <2>1 DEF BleStops
  <2>2. CASE BleStops("usb")
    BY <2>2 DEF BleStops
  <2> QED
    BY <1>19, <2>1, <2>2 DEF BleStopsAny
<1>20. CASE UsbReady
    BY <1>20 DEF UsbReady
<1>21. CASE UsbEnumerated
    BY <1>21 DEF UsbEnumerated
<1>22. CASE TimePasses
  <2>1. /\ UNCHANGED <<channels, runtime>> /\ storage'.pc = storage.pc
        /\ storage'.plan = storage.plan /\ ble'.pc = ble.pc /\ ble'.owner = ble.owner
        /\ usb'.pc = usb.pc
    BY <1>22 DEF TimePasses
  <2> QED
    BY <2>1
<1>23. CASE ArriveAny
    BY <1>23, Arrivals
<1>24. CASE HostConnects
    BY <1>24 DEF HostConnects
<1>25. CASE HostDisconnects
    BY <1>25 DEF HostDisconnects
<1>26. CASE DeviceDetected
    BY <1>26 DEF DeviceDetected
<1>27. CASE FactoryResetPressed
    BY <1>27 DEF FactoryResetPressed
<1> QED
    BY <1>1, <1>2, <1>3, <1>4, <1>5, <1>6, <1>7, <1>8, <1>9, <1>10, <1>11, <1>12, <1>13, <1>14, <1>15, <1>16, <1>17, <1>18, <1>19, <1>20, <1>21, <1>22, <1>23, <1>24, <1>25, <1>26, <1>27
    DEF Step

(* The BLE task serves the storage task. *)
LEMMA StorageServed ==
    ASSUME StorageInv, Step
    PROVE  Serves("storage", StoragePhase)'
<1>0. /\ DOMAIN channels = Channels
      /\ DOMAIN ble = {"pc", "owner", "timer"}
      /\ DOMAIN runtime = {"pc", "generation", "health"}
      /\ DOMAIN usb = {"pc", "timer", "long"} /\ usb.pc \in {"idle", "ready", "enumerate"}
      /\ DOMAIN storage = {"pc", "timer", "backend", "reported", "plan"}
      /\ ble.pc \in {"barrier", "hold"} => ble.owner \in {"storage", "usb"}
      /\ BarrierAgrees /\ Serves("storage", StoragePhase)
      /\ Serves("usb", UsbPhase)
    BY DEF StorageInv, TypeOK, Shape, HandshakesAgree
<1> USE <1>0 DEF Full, Send, Receive, Request, Ready, Done, bounds, Channels, Serves, StoragePhase, Plans
<1>1. CASE BootReportsHealth
    BY <1>1 DEF BootReportsHealth, StorageGoes, Tell
<1>2. CASE BootRestoresBle
    BY <1>2 DEF BootRestoresBle, StorageGoes
<1>3. CASE BootRestoresRuntime
    BY <1>3 DEF BootRestoresRuntime, StorageGoes, Tell
<1>4. CASE ReceiveCommand
  <2>1. StoragePhase = "idle" /\ UNCHANGED <<ble, usb, runtime>>
    BY <1>4 DEF ReceiveCommand
  <2>2. CASE ~Working
    <3>1. UNCHANGED channels /\ storage'.pc = "complete" /\ storage'.plan = <<"report">>
      BY <1>4, <2>2 DEF ReceiveCommand
    <3>2. StoragePhase' = "idle"
      BY <3>1 DEF StoragePhase
    <3> HIDE DEF StoragePhase
    <3> QED
      BY <2>1, <3>1, <3>2
  <2>3. CASE Working /\ Head(commands).kind = "persist"
    <3>1. UNCHANGED channels /\ storage'.pc = "loop"
      BY <1>4, <2>3 DEF ReceiveCommand, StorageGoes
    <3>2. StoragePhase' = "idle"
      BY <3>1 DEF StoragePhase
    <3> HIDE DEF StoragePhase
    <3> QED
      BY <2>1, <3>1, <3>2
  <2>4. CASE Working /\ Head(commands).kind = "reset"
    <3>1. channels' = Send("request", Unit) /\ storage'.pc = "reset_ready"
      BY <1>4, <2>4 DEF ReceiveCommand, Requests
    <3>2. StoragePhase' = "waits"
      BY <3>1 DEF StoragePhase
    <3> HIDE DEF StoragePhase
    <3> QED
      BY <2>1, <3>1, <3>2
  <2> QED
    BY <1>4, <2>2, <2>3, <2>4 DEF ReceiveCommand
<1>5. CASE FallAsleep
    BY <1>5 DEF FallAsleep
<1>6. CASE WakeUp
    BY <1>6 DEF WakeUp, StorageGoes
<1>7. CASE QuiesceAndPersist
    BY <1>7 DEF QuiesceAndPersist, Requests
<1>8. CASE QuiesceReady
  <2>1. /\ StoragePhase = "waits" /\ UNCHANGED <<ble, usb, runtime>>
        /\ Full("ready") /\ channels' = Receive("ready")
    BY <1>8 DEF QuiesceReady, StoragePhase
  <2>2. storage'.pc = "write" \/ (storage'.pc = "complete" /\ storage'.plan = <<"release">>)
    <3>1. CASE channels["ready"] = NoState
      BY <1>8, <3>1 DEF QuiesceReady
    <3>2. CASE channels["ready"] # NoState
      BY <1>8, <3>2 DEF QuiesceReady, StorageGoes
    <3> QED
      BY <3>1, <3>2
  <2>3. StoragePhase' = "busy"
    BY <2>2 DEF StoragePhase
  <2> HIDE DEF StoragePhase
  <2> QED
    BY <2>1, <2>3
<1>9. CASE PersistDue
    BY <1>9 DEF PersistDue, Completion, EffectiveHealth
<1>10. CASE Complete
  <2>1. UNCHANGED <<ble, usb, runtime>> /\ StoragePhase' = "idle"
    BY <1>10, Completing DEF StoragePhase
  <2>2. CASE storage.plan[1] = "release"
    <3>1. StoragePhase = "busy" /\ channels' = Send("done", Unit)
      BY <1>10, <2>2, Completing DEF StoragePhase
    <3> HIDE DEF StoragePhase
    <3> QED
      BY <2>1, <3>1
  <2>3. CASE storage.plan[1] # "release"
    <3>1. StoragePhase = "idle" /\ UNCHANGED channels
      BY <1>10, <2>3, Completing DEF StoragePhase
    <3> QED
      BY <2>1, <3>1
  <2> QED
    BY <2>2, <2>3
<1>11. CASE ResetReady
    BY <1>11 DEF ResetReady, StorageGoes
<1>12. CASE EraseFails
    BY <1>12 DEF EraseFails, Completion
<1>13. CASE RuntimeProcesses
    BY <1>13, RuntimeProcessing DEF RuntimeProcesses
<1>14. CASE RuntimeStops
  <2>1. PICK state \in {runtime.generation, NoState} :
           channels' = [channels EXCEPT !["barrier"] = Empty, !["barrier_done"] = state]
    BY <1>14, Stopping
  <2>2. state # Empty
    BY <1>14, Stopping
  <2> QED
    BY <1>14, <2>1, <2>2 DEF RuntimeStops, BarrierTurn
<1>15. CASE RuntimeResumes
    BY <1>15 DEF RuntimeResumes
<1>16. CASE BleStarts
    BY <1>16 DEF BleStarts
<1>17. CASE BleStopped
  <2>1. CASE ble.owner = "storage"
    BY <1>17, <2>1 DEF BleStopped, RuntimeAnswered
  <2>2. CASE ble.owner = "usb"
    BY <1>17, <2>2 DEF BleStopped, RuntimeAnswered
  <2> QED
    BY <1>17, <2>1, <2>2 DEF BleStopped, RuntimeAnswered
<1>18. CASE BleResumes
  <2>1. CASE ble.owner = "storage"
    BY <1>18, <2>1 DEF BleResumes
  <2>2. CASE ble.owner = "usb"
    BY <1>18, <2>2 DEF BleResumes
  <2> QED
    BY <1>18, <2>1, <2>2 DEF BleResumes
<1>19. CASE BleStopsAny
  <2>1. CASE BleStops("storage")
    BY <2>1 DEF BleStops
  <2>2. CASE BleStops("usb")
    BY <2>2 DEF BleStops
  <2> QED
    BY <1>19, <2>1, <2>2 DEF BleStopsAny
<1>20. CASE UsbReady
    BY <1>20 DEF UsbReady
<1>21. CASE UsbEnumerated
    BY <1>21 DEF UsbEnumerated
<1>22. CASE TimePasses
  <2>1. /\ UNCHANGED <<channels, runtime>> /\ storage'.pc = storage.pc
        /\ storage'.plan = storage.plan /\ ble'.pc = ble.pc /\ ble'.owner = ble.owner
        /\ usb'.pc = usb.pc
    BY <1>22 DEF TimePasses
  <2> QED
    BY <2>1
<1>23. CASE ArriveAny
    BY <1>23, Arrivals
<1>24. CASE HostConnects
    BY <1>24 DEF HostConnects
<1>25. CASE HostDisconnects
    BY <1>25 DEF HostDisconnects
<1>26. CASE DeviceDetected
    BY <1>26 DEF DeviceDetected
<1>27. CASE FactoryResetPressed
    BY <1>27 DEF FactoryResetPressed
<1> QED
    BY <1>1, <1>2, <1>3, <1>4, <1>5, <1>6, <1>7, <1>8, <1>9, <1>10, <1>11, <1>12, <1>13, <1>14, <1>15, <1>16, <1>17, <1>18, <1>19, <1>20, <1>21, <1>22, <1>23, <1>24, <1>25, <1>26, <1>27
    DEF Step

(* The BLE task serves the USB hub task. *)
LEMMA UsbServed ==
    ASSUME StorageInv, Step
    PROVE  Serves("usb", UsbPhase)'
<1>0. /\ DOMAIN channels = Channels
      /\ DOMAIN ble = {"pc", "owner", "timer"}
      /\ DOMAIN runtime = {"pc", "generation", "health"}
      /\ DOMAIN usb = {"pc", "timer", "long"} /\ usb.pc \in {"idle", "ready", "enumerate"}
      /\ DOMAIN storage = {"pc", "timer", "backend", "reported", "plan"}
      /\ ble.pc \in {"barrier", "hold"} => ble.owner \in {"storage", "usb"}
      /\ BarrierAgrees /\ Serves("storage", StoragePhase)
      /\ Serves("usb", UsbPhase)
    BY DEF StorageInv, TypeOK, Shape, HandshakesAgree
<1> USE <1>0 DEF Full, Send, Receive, Request, Ready, Done, bounds, Channels, Serves, UsbPhase
<1>1. CASE BootReportsHealth
    BY <1>1 DEF BootReportsHealth, StorageGoes, Tell
<1>2. CASE BootRestoresBle
    BY <1>2 DEF BootRestoresBle, StorageGoes
<1>3. CASE BootRestoresRuntime
    BY <1>3 DEF BootRestoresRuntime, StorageGoes, Tell
<1>4. CASE ReceiveCommand
  <2>1. UNCHANGED <<ble, usb, runtime>>
    BY <1>4 DEF ReceiveCommand
  <2>2. UNCHANGED channels \/ channels' = Send("request", Unit)
    BY <1>4 DEF ReceiveCommand, Requests
  <2>3. \A c \in Channels : c # "request" => channels'[c] = channels[c]
    BY <2>2
  <2> QED
    BY <2>1, <2>3
<1>5. CASE FallAsleep
    BY <1>5 DEF FallAsleep
<1>6. CASE WakeUp
    BY <1>6 DEF WakeUp, StorageGoes
<1>7. CASE QuiesceAndPersist
    BY <1>7 DEF QuiesceAndPersist, Requests
<1>8. CASE QuiesceReady
  <2>1. CASE channels["ready"] = NoState
    BY <1>8, <2>1 DEF QuiesceReady, StorageGoes
  <2>2. CASE channels["ready"] # NoState
    BY <1>8, <2>2 DEF QuiesceReady, StorageGoes
  <2> QED
    BY <1>8, <2>1, <2>2 DEF QuiesceReady, StorageGoes
<1>9. CASE PersistDue
    BY <1>9 DEF PersistDue, Completion, EffectiveHealth
<1>10. CASE Complete
  <2>1. UNCHANGED <<ble, usb, runtime>>
    BY <1>10, Completing
  <2>2. UNCHANGED channels \/ channels' = Send("done", Unit)
    BY <1>10, Completing
  <2>3. \A c \in Channels : c # "done" => channels'[c] = channels[c]
    BY <2>2
  <2> QED
    BY <2>1, <2>3
<1>11. CASE ResetReady
    BY <1>11 DEF ResetReady, StorageGoes
<1>12. CASE EraseFails
    BY <1>12 DEF EraseFails, Completion
<1>13. CASE RuntimeProcesses
    BY <1>13, RuntimeProcessing DEF RuntimeProcesses
<1>14. CASE RuntimeStops
  <2>1. PICK state \in {runtime.generation, NoState} :
           channels' = [channels EXCEPT !["barrier"] = Empty, !["barrier_done"] = state]
    BY <1>14, Stopping
  <2>2. state # Empty
    BY <1>14, Stopping
  <2> QED
    BY <1>14, <2>1, <2>2 DEF RuntimeStops, BarrierTurn
<1>15. CASE RuntimeResumes
    BY <1>15 DEF RuntimeResumes
<1>16. CASE BleStarts
    BY <1>16 DEF BleStarts
<1>17. CASE BleStopped
  <2>1. CASE ble.owner = "storage"
    BY <1>17, <2>1 DEF BleStopped, RuntimeAnswered
  <2>2. CASE ble.owner = "usb"
    <3>1. /\ ble'.owner = "usb" /\ ble'.pc = "hold" /\ UsbPhase' = UsbPhase /\ ble.pc = "barrier"
          /\ channels' = [channels EXCEPT !["barrier_done"] = Empty, !["usb_ready"] = Unit]
      BY <1>17, <2>2 DEF BleStopped, RuntimeAnswered
    <3>2. UsbPhase = "waits" /\ ~Full("usb_request") /\ ~Full("usb_done")
      BY <2>2, <3>1
    <3> HIDE DEF UsbPhase
    <3> QED
      BY <3>1, <3>2
  <2> QED
    BY <1>17, <2>1, <2>2 DEF BleStopped, RuntimeAnswered
<1>18. CASE BleResumes
  <2>1. CASE ble.owner = "storage"
    BY <1>18, <2>1 DEF BleResumes
  <2>2. CASE ble.owner = "usb"
    BY <1>18, <2>2 DEF BleResumes
  <2> QED
    BY <1>18, <2>1, <2>2 DEF BleResumes
<1>19. CASE BleStopsAny
  <2>1. ble.pc = "run" /\ UsbPhase' = UsbPhase /\ ble'.pc = "barrier"
    BY <1>19 DEF BleStopsAny, BleStops
  <2>2. ~Full("usb_done") /\ ble.owner # "usb" /\ ~Full("usb_ready") /\ UsbPhase # "busy"
    BY <2>1
  <2>5. UsbPhase \in {"idle", "waits"}
    BY <2>2
  <2> HIDE DEF UsbPhase
  <2>3. CASE BleStops("storage")
    <3>1. /\ ble'.owner = "storage"
          /\ channels' = [channels EXCEPT !["request"] = Empty, !["barrier"] = Unit]
      BY <2>3 DEF BleStops
    <3> QED
      BY <2>1, <2>2, <2>5, <3>1
  <2>4. CASE BleStops("usb")
    <3>1. /\ ble'.owner = "usb" /\ Full("usb_request")
          /\ channels' = [channels EXCEPT !["usb_request"] = Empty, !["barrier"] = Unit]
      BY <2>4 DEF BleStops
    <3> QED
      BY <2>1, <2>2, <2>5, <3>1
  <2> QED
    BY <1>19, <2>3, <2>4 DEF BleStopsAny
<1>20. CASE UsbReady
    BY <1>20 DEF UsbReady
<1>21. CASE UsbEnumerated
    BY <1>21 DEF UsbEnumerated
<1>22. CASE TimePasses
  <2>1. /\ UNCHANGED <<channels, runtime>> /\ storage'.pc = storage.pc
        /\ storage'.plan = storage.plan /\ ble'.pc = ble.pc /\ ble'.owner = ble.owner
        /\ usb'.pc = usb.pc
    BY <1>22 DEF TimePasses
  <2> QED
    BY <2>1
<1>23. CASE ArriveAny
    BY <1>23, Arrivals
<1>24. CASE HostConnects
    BY <1>24 DEF HostConnects
<1>25. CASE HostDisconnects
    BY <1>25 DEF HostDisconnects
<1>26. CASE DeviceDetected
    BY <1>26 DEF DeviceDetected
<1>27. CASE FactoryResetPressed
    BY <1>27 DEF FactoryResetPressed
<1> QED
    BY <1>1, <1>2, <1>3, <1>4, <1>5, <1>6, <1>7, <1>8, <1>9, <1>10, <1>11, <1>12, <1>13, <1>14, <1>15, <1>16, <1>17, <1>18, <1>19, <1>20, <1>21, <1>22, <1>23, <1>24, <1>25, <1>26, <1>27
    DEF Step

=============================================================================
