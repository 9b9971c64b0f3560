---------------------------- MODULE MCStorageTask ----------------------------
(* The delays of the code, 1 to 60 s, are shortened to a few ticks; the queues
   hold two messages, so that they fill up. *)
EXTENDS StorageTask

FlashWorks == {Persistent}
FlashMayBeMissing == {Persistent, UnavailableHealth}
FirstGens == {0, 2}

=============================================================================
