----------------------------- MODULE MCBleHost ------------------------------
(* Two computers, two hosts and two slots behind queues of two: a behaviour *)
(* has one of the scenarios' sets of events and starts with or without a    *)
(* bond.                                                                    *)
EXTENDS BleHost

CONSTANTS a, b

MCPeers == {a, b}

MCHosts == 1 .. 2

MCSlots == 0 .. 1

Unpaired == [h \in MCHosts |-> <<>>]

Paired == [Unpaired EXCEPT ![1] = <<a>>]

BothPaired == [Paired EXCEPT ![2] = <<b>>]

Scenario(kinds, events, bonds) == [kinds |-> kinds, events |-> events, bonds |-> bonds]

MCScenarios ==
  {Scenario({"connect", "open", "pair", "leave", "expire"}, 6, Paired),
   Scenario({"connect", "leave", "write", "other"}, 6, Paired),
   Scenario({"connect", "open", "fail", "leave"}, 6, Unpaired),
   Scenario({"connect", "open", "fail"}, 6, Paired),
   Scenario({"connect", "open", "forget", "pair", "quiesce"}, 6, Paired),
   Scenario({"connect", "leave", "write", "quiesce"}, 6, BothPaired)}

MCBackpressure == {Scenario({"connect", "write", "other", "open"}, 5, Paired)}

=============================================================================
