------------------------------- MODULE Delivery -------------------------------
(***************************************************************************)
(* What the runtime may expect of the link between the chips, whatever     *)
(* cells are corrupted and however often a session starts again: the       *)
(* commands it takes from its queue are processed by the Device in their   *)
(* order and without a gap, possibly more than once, and in the end all of *)
(* them.  Until the promise breaks: "broken" stands for an acknowledgement *)
(* that the Host counts for the wrong cell (Slips in module Interchip).    *)
(***************************************************************************)
EXTENDS Integers

CONSTANT Count            \* the commands there are

VARIABLES
    taken,                \* commands 1 .. taken have left the queue
    processed,            \* the commands that the Device has processed
    broken

vars == <<taken, processed, broken>>

Init == taken = 0 /\ processed = {} /\ broken = FALSE

Take ==
    /\ \E n \in taken + 1 .. Count : taken' = n
    /\ UNCHANGED processed

(* The next ones, in order; with them may come some that were sent before. *)
Process ==
    /\ processed # 1 .. taken
    /\ ~broken
    /\ \E n \in 1 .. taken : processed' = 1 .. n /\ processed \subseteq 1 .. n
    /\ processed' # processed
    /\ UNCHANGED <<taken, broken>>

(* Whoever took the commands has restarted and knows of none that is open. *)
Restart == processed' = 1 .. taken /\ UNCHANGED <<taken, broken>>

(* Nothing is promised any more. *)
Stray ==
    /\ broken
    /\ \E any \in SUBSET (1 .. taken) : processed' = processed \cup any
    /\ UNCHANGED <<taken, broken>>

Next ==
    \/ Take /\ broken' \in {broken, TRUE}
    \/ Process
    \/ Restart
    \/ ~broken /\ broken' = TRUE /\ UNCHANGED <<taken, processed>>
    \/ Stray

Spec == Init /\ [][Next]_vars /\ WF_vars(Process)

=============================================================================
