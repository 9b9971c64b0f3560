\* Six events a scenario: pairing, failures, revocation, quiesce and queues
\* that fill while a handler waits.
CONSTANTS
  a = a
  b = b
  Peers <- MCPeers
  Hosts <- MCHosts
  Slots <- MCSlots
  InCap = 2
  LaneCap = 2
  BackoffCap = 1
  Scenarios <- MCScenarios
SPECIFICATION Spec
CHECK_DEADLOCK FALSE
INVARIANTS
    ConnectionsAgree
    
    

    
