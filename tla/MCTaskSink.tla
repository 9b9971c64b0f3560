----------------------------- MODULE MCTaskSink -----------------------------
(* Two hosts and one keyboard behind lanes of one to three commands, so     *)
(* that every lane fills, merges and refuses.                               *)
EXTENDS TaskSink

MCHosts == 1 .. 2

Scenario(kinds, events) == [kinds |-> kinds, events |-> events, faults |-> 1]

MCScenarios == {Scenario({"key", "mouse", "switch"}, 3),
                Scenario({"mouse", "combo", "rebuild"}, 4),
                Scenario({"leds", "power", "switch"}, 3),
                Scenario({"mouse", "request", "rebuild"}, 4)}

MCClicks == {[kinds |-> {"mouse"}, events |-> 5, faults |-> 0]}

=============================================================================
