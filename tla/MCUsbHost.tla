----------------------------- MODULE MCUsbHost -----------------------------
(***************************************************************************)
(* Instances of UsbHost.  The ports of the hub are interchangeable model   *)
(* values in the safety run; the liveness run, where symmetry would not be *)
(* sound, names them apart.                                                *)
(***************************************************************************)
EXTENDS UsbHost, TLC

\* A device without a HID interface; one with one; one with two, of which both
\* are attached, the first has no pipe, or the second fails after the first was
\* announced.
MCFates == {<<>>, <<"ok">>, <<"ok", "ok">>, <<"nopipe", "ok">>, <<"ok", "error">>}

PortSymmetry == Permutations(Ports)
=============================================================================
