\* Lanes small enough to fill: three or four events a scenario reach merging, refusal, ordered
\* flushes, switches, lights, answers and a rebuilt BLE stack.
CONSTANTS
  Hosts <- MCHosts
  Targets = {t1}
  CtlCap = 3
  NtfCap = 2
  UsbCap = 1
  StoCap = 1
  StaCap = 1
  AxisMax = 1
  Scenarios <- MCScenarios
SPECIFICATION Spec
CHECK_DEADLOCK FALSE
INVARIANTS
    NothingVanishes
    ReleasedHostHoldsNothing
    ActiveHostIsServed
PROPERTIES
    EverythingIsSent
