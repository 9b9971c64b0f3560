----------------------------- MODULE MCInterchip -----------------------------
(* Instances of Interchip: one batch of input, or a control response in two
   fragments and a control request of the computer. *)
EXTENDS Interchip

OneUnit == <<"Input">>
Response == <<"First", "Last">>
ControlOnly == {"Control"}

=============================================================================
