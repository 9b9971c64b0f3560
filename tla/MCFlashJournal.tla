--------------------------- MODULE MCFlashJournal ---------------------------
(* Two records per slot, so that every second persist into a slot erases it;
   generations wrap after a few; the payloads are interchangeable. *)
EXTENDS FlashJournal, TLC

CONSTANTS d1, d2

MCData == {d1, d2}
PayloadSymmetry == Permutations(MCData)

=============================================================================
