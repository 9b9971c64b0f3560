------------------------------ MODULE MCBridge ------------------------------
(***************************************************************************)
(* Instances of Bridge for TLC.                                            *)
(***************************************************************************)
EXTENDS Bridge, TLC

CONSTANTS i1, i2, k1, k2, b1, u1, u2

\* Every interface is a device of its own.
OwnDevice == [i \in Interfaces |-> i]

\* Two keyboards with a mouse button, or two remote controls.
TypingOrRemote ==
    {[i \in Interfaces |-> Keys \cup Buttons], [i \in Interfaces |-> Usages]}

\* Every interface can report every control.
AllControls == {[i \in Interfaces |-> Controls]}

\* Interfaces are interchangeable, and so are the keys and, with them, the usages.
Swap(a, b) == (a :> b) @@ (b :> a)
Symmetry ==
    {f @@ g : f \in Permutations({i1, i2}),
              g \in {Swap(k1, k2) @@ Swap(u1, u2), (k1 :> k1)}}
=============================================================================
