---------------------------- MODULE FlashJournal ----------------------------
(***************************************************************************)
(* The settings journal of the Host-role chip: NorFlashStorageBackend and  *)
(* persist_storage_state of src/storage.rs.                                *)
(*                                                                         *)
(* Two flash slots (one erase sector each) hold Records fixed-size records.*)
(* A persist goes to the slot that does NOT hold the newest valid image of *)
(* the RAM cache, appends at next_record, erases the slot first when it is *)
(* full, reads the record back and only then updates the cache.  A boot    *)
(* rebuilds cache and next_record by scanning the slots.                   *)
(*                                                                         *)
(* One flash operation is one step, so that power can be lost between any  *)
(* two of them and in the middle of each.  An image is its generation and  *)
(* an opaque payload; two snapshots of one generation have one payload     *)
(* (the README says when a rewrite of one generation could differ).        *)
(***************************************************************************)
EXTENDS Integers

CONSTANTS
    Records,     \* records_per_slot
    GenMod,      \* the generation counter wraps here (2^32 in the code)
    Data,        \* payloads
    MaxAhead     \* bound: snapshots taken since the newest one in the cache

ASSUME RecordsAssumption == Records \in Nat \ {0}
ASSUME GenModAssumption == GenMod \in Nat /\ GenMod > 3
ASSUME MaxAheadAssumption == MaxAhead \in Nat /\ 2 * MaxAhead < GenMod

Slots == {"A", "B"}
Gens == 0 .. GenMod - 1
Images == [gen : Gens, data : Data]
Blank == [gen |-> -1]                   \* no image: the 0xff-filled cache slot
Erased == [gen |-> -2]                  \* a record that is all 0xff
Torn == [gen |-> -3]                    \* a record that does not decode
Cells == Images \cup {Erased, Torn}
Index == 1 .. Records

VARIABLES
    flash,        \* flash[s][r]: content of record r of slot s
    slots,        \* RAM cache of the latest image of each slot
    next_record,  \* records already consumed in each slot (append position)
    op,           \* the flash operation in progress
    generation,   \* the generation of the newest snapshot handed to the journal
    acked,        \* history: the image whose persist last returned Ok
    attempted,    \* history: images a persist was tried for since then
    spoiled       \* history: a write failed, or an erase was torn

vars == <<flash, slots, next_record, op, generation, acked, attempted, spoiled>>

-----------------------------------------------------------------------------
(* Generations are compared in wrapping arithmetic. *)

WrappingSub(l, r) == IF l >= r THEN l - r ELSE l - r + GenMod

\* Mutant: plain comparison.
NewerWithoutWrap(l, r) == l >= r

NewerOrEqual(l, r) == 2 * WrappingSub(l, r) < GenMod

(* The generations one or more snapshots after g: each adds one, wrapping, and
   the debounce may hand only the last of several to the journal. *)
LaterGens(g) == {h \in Gens : WrappingSub(h, g) \in 1 .. MaxAhead}

(* The slot select_newest_valid_storage_image picks among two candidate
   images; "none" when neither is valid. *)
NewestSlot(a, b) ==
    IF a = Blank THEN (IF b = Blank THEN "none" ELSE "B")
    ELSE IF b = Blank \/ NewerOrEqual(a.gen, b.gen) THEN "A" ELSE "B"

NewestImage(sl) ==
    IF NewestSlot(sl["A"], sl["B"]) = "none" THEN Blank
    ELSE sl[NewestSlot(sl["A"], sl["B"])]

(* The slot the next persist writes. *)
Target == IF NewestSlot(slots["A"], slots["B"]) = "A" THEN "B" ELSE "A"

-----------------------------------------------------------------------------
(* scan_flash_slot reads records in order and stops at the first one that is
   erased or does not decode. *)

IsPrefix(f, p) ==
    /\ p \in 0 .. Records
    /\ \A r \in 1 .. p : f[r] \in Images
    /\ p < Records => f[p + 1] \notin Images

ScanLength(f) == CHOOSE p \in 0 .. Records : IsPrefix(f, p)
ScanImage(f) == IF ScanLength(f) = 0 THEN Blank ELSE f[ScanLength(f)]

\* Mutants: the append position behind a record that does not decode, and one that
\* counts the record the scan stopped at.
ScanNextIgnoresTorn(f) == ScanLength(f)
ScanNextTooFar(f) == ScanLength(f) + 1

(* A slot that ends in a record that does not decode counts as full. *)
ScanNext(f) ==
    IF ScanLength(f) < Records /\ f[ScanLength(f) + 1] = Torn
    THEN Records ELSE ScanLength(f)

(* What a boot would restore from a given flash content. *)
Recoverable(fl) == NewestImage([s \in Slots |-> ScanImage(fl[s])])

-----------------------------------------------------------------------------
(* The flash chip (external): what an operation leaves behind. *)

(* An erase cut short leaves the sector untouched or destroys every record.  It
   tears the sector when some of the destroyed records read as erased and others
   do not. *)
CleanlyCut(f) == {f, [r \in Index |-> Torn], [r \in Index |-> Erased]}
InterruptedErase(f) == {f} \cup [Index -> {Torn, Erased}]

(* Programming can only clear bits: a record that is not erased is spoilt. *)
Programmed(cell, image) ==
    IF cell = Erased \/ cell = image THEN image ELSE Torn

InterruptedWrite(cell, image) == {cell, Torn, Programmed(cell, image)}

-----------------------------------------------------------------------------
Idle == [phase |-> "idle"]
Off == [phase |-> "off"]
Unavailable == [phase |-> "unavailable"]
Resetting == [phase |-> "reset"]
Step(phase, s, image) == [phase |-> phase, slot |-> s, image |-> image]

Ops == {Idle, Off, Unavailable, Resetting}
       \cup [phase : {"erase", "write", "verify"}, slot : Slots, image : Images]

Init ==
    /\ flash = [s \in Slots |-> [r \in Index |-> Erased]]
    /\ slots = [s \in Slots |-> Blank]
    /\ next_record = [s \in Slots |-> 0]
    /\ op = Off
    /\ generation = 0
    /\ acked = Blank
    /\ attempted = {}
    /\ spoiled = FALSE

(* NorFlashStorageBackend::new and restore_latest_storage_state: the runtime
   continues from the generation it restored. *)
Boot ==
    /\ op = Off
    /\ op' = Idle
    /\ slots' = [s \in Slots |-> ScanImage(flash[s])]
    /\ next_record' = [s \in Slots |-> ScanNext(flash[s])]
    /\ acked' = NewestImage(slots')
    /\ generation' = IF acked' = Blank THEN 0 ELSE acked'.gen
    /\ attempted' = {}
    /\ UNCHANGED <<flash, spoiled>>

(* A read error during the scan: the backend is Unavailable until a reboot. *)
BootReadError ==
    /\ op = Off
    /\ op' = Unavailable
    /\ UNCHANGED <<flash, slots, next_record, generation, acked, attempted,
                   spoiled>>

(* Power loss or a software reset while no flash operation runs. *)
PowerLoss ==
    /\ op \in {Idle, Unavailable}
    /\ op' = Off
    /\ UNCHANGED <<flash, slots, next_record, generation, acked, attempted,
                   spoiled>>

(* The bound that stands for "far fewer than 2^31 snapshots in between". *)
Ahead(g) ==
    LET newest == NewestImage(slots)
    IN  WrappingSub(g, IF newest = Blank THEN 0 ELSE newest.gen)

(* persist_storage_state: choose the slot, and whether it is erased first.
   The snapshot is a new one, or one that failed or is staged again. *)
Persist(image) ==
    /\ op = Idle
    /\ \/ /\ image.gen \in LaterGens(generation)
          /\ Ahead(image.gen) <= MaxAhead
       \/ image \in attempted \cup {acked} /\ image.gen = generation
    /\ generation' = image.gen
    /\ op' = Step(IF next_record[Target] >= Records THEN "erase" ELSE "write",
                  Target, image)
    /\ attempted' = attempted \cup {image}
    /\ UNCHANGED <<flash, slots, next_record, acked, spoiled>>

(* write_slot, the erase of a full slot.  The code restarts a local record_index
   at 0 and stores next_record with the record; an erase that is not followed by
   a record ends in a reboot, which scans the slot again. *)
EraseSlot ==
    /\ op.phase = "erase"
    /\ flash' = [flash EXCEPT ![op.slot] = [r \in Index |-> Erased]]
    /\ next_record' = [next_record EXCEPT ![op.slot] = 0]
    /\ op' = Step("write", op.slot, op.image)
    /\ UNCHANGED <<slots, generation, acked, attempted, spoiled>>

(* FlashErase is returned: neither the cache nor next_record changes. *)
EraseFails ==
    /\ op.phase = "erase"
    /\ \E f \in InterruptedErase(flash[op.slot]) :
          /\ flash' = [flash EXCEPT ![op.slot] = f]
          /\ spoiled' = (spoiled \/ f \notin CleanlyCut(flash[op.slot]))
    /\ op' = Idle
    /\ UNCHANGED <<slots, next_record, generation, acked, attempted>>

PowerLossInErase ==
    /\ op.phase = "erase"
    /\ \E f \in InterruptedErase(flash[op.slot]) :
          /\ flash' = [flash EXCEPT ![op.slot] = f]
          /\ spoiled' = (spoiled \/ f \notin CleanlyCut(flash[op.slot]))
    /\ op' = Off
    /\ UNCHANGED <<slots, next_record, generation, acked, attempted>>

Consumed(s) == next_record[s] + 1

(* write_slot, programming the record. *)
WriteRecord ==
    /\ op.phase = "write"
    /\ flash' = [flash EXCEPT ![op.slot][Consumed(op.slot)] =
                    Programmed(@, op.image)]
    /\ op' = Step("verify", op.slot, op.image)
    /\ UNCHANGED <<slots, next_record, generation, acked, attempted, spoiled>>

(* The driver returns Ok but the record is corrupt: the read-back will tell. *)
WriteCorrupts ==
    /\ op.phase = "write"
    /\ spoiled' = TRUE
    /\ flash' = [flash EXCEPT ![op.slot][Consumed(op.slot)] = Torn]
    /\ op' = Step("verify", op.slot, op.image)
    /\ UNCHANGED <<slots, next_record, generation, acked, attempted>>

(* FlashWrite is returned: the record counts as consumed. *)
WriteFails ==
    /\ op.phase = "write"
    /\ spoiled' = TRUE
    /\ \E c \in InterruptedWrite(flash[op.slot][Consumed(op.slot)], op.image) :
          flash' = [flash EXCEPT ![op.slot][Consumed(op.slot)] = c]
    /\ next_record' = [next_record EXCEPT ![op.slot] = @ + 1]
    /\ op' = Idle
    /\ UNCHANGED <<slots, generation, acked, attempted>>

PowerLossInWrite ==
    /\ op.phase = "write"
    /\ \E c \in InterruptedWrite(flash[op.slot][Consumed(op.slot)], op.image) :
          flash' = [flash EXCEPT ![op.slot][Consumed(op.slot)] = c]
    /\ op' = Off
    /\ UNCHANGED <<slots, next_record, generation, acked, attempted, spoiled>>

(* The read-back equals the image: the persist returns Ok. *)
VerifyOk ==
    /\ op.phase = "verify"
    /\ flash[op.slot][Consumed(op.slot)] = op.image
    /\ slots' = [slots EXCEPT ![op.slot] = op.image]
    /\ next_record' = [next_record EXCEPT ![op.slot] = @ + 1]
    /\ op' = Idle
    /\ acked' = op.image
    /\ attempted' = {}
    /\ UNCHANGED <<flash, generation, spoiled>>

(* FlashRead or FlashVerify: the record counts as consumed, the cache keeps
   the previous image. *)
VerifyFails ==
    /\ op.phase = "verify"
    /\ next_record' = [next_record EXCEPT ![op.slot] = @ + 1]
    /\ op' = Idle
    /\ UNCHANGED <<flash, slots, generation, acked, attempted, spoiled>>

PowerLossInVerify ==
    /\ op.phase = "verify"
    /\ op' = Off
    /\ UNCHANGED <<flash, slots, next_record, generation, acked, attempted,
                   spoiled>>

(* FactoryReset reaches the backend.  From here on nothing is promised. *)
FactoryReset ==
    /\ op = Idle
    /\ op' = Resetting
    /\ acked' = Blank
    /\ attempted' = {}
    /\ UNCHANGED <<flash, slots, next_record, generation, spoiled>>

(* erase_all succeeds; the storage task reboots. *)
EraseAll ==
    /\ op = Resetting
    /\ flash' = [s \in Slots |-> [r \in Index |-> Erased]]
    /\ slots' = [s \in Slots |-> Blank]
    /\ next_record' = [s \in Slots |-> 0]
    /\ op' = Off
    /\ spoiled' = FALSE
    /\ UNCHANGED <<generation, acked, attempted>>

(* Erasing both sectors, cut short: sector A first, then sector B. *)
InterruptedReset ==
    {[flash EXCEPT !["A"] = f] : f \in InterruptedErase(flash["A"])}
    \cup {[s \in Slots |-> IF s = "A" THEN [r \in Index |-> Erased] ELSE f] :
             f \in InterruptedErase(flash["B"])}

(* erase_all fails: the cache and next_record keep describing the old flash
   and the task carries on. *)
EraseAllFails ==
    /\ op = Resetting
    /\ flash' \in InterruptedReset
    /\ spoiled' = TRUE
    /\ op' = Idle
    /\ UNCHANGED <<slots, next_record, generation, acked, attempted>>

PowerLossInReset ==
    /\ op = Resetting
    /\ flash' \in InterruptedReset
    /\ spoiled' = (spoiled \/ \E s \in Slots : flash'[s] \notin CleanlyCut(flash[s]))
    /\ op' = Off
    /\ UNCHANGED <<slots, next_record, generation, acked, attempted>>

Next ==
    \/ Boot \/ BootReadError \/ PowerLoss
    \/ \E image \in Images : Persist(image)
    \/ EraseSlot \/ EraseFails \/ PowerLossInErase
    \/ WriteRecord \/ WriteCorrupts \/ WriteFails \/ PowerLossInWrite
    \/ VerifyOk \/ VerifyFails \/ PowerLossInVerify
    \/ FactoryReset \/ EraseAll \/ EraseAllFails \/ PowerLossInReset

Spec == Init /\ [][Next]_vars

-----------------------------------------------------------------------------
TypeOK ==
    /\ flash \in [Slots -> [Index -> Cells]]
    /\ slots \in [Slots -> Images \cup {Blank}]
    /\ next_record \in [Slots -> 0 .. Records]
    /\ op \in Ops
    /\ op.phase \in {"write", "verify"} => next_record[op.slot] < Records
    /\ generation \in Gens
    /\ acked \in Images \cup {Blank}
    /\ attempted \in SUBSET Images

(* Whatever the flash does, the image a persist acknowledged stays physically
   in flash until a newer one is acknowledged or a factory reset: write_slot
   only ever erases or programs the slot that does not hold it. *)
AckedOnFlash ==
    acked # Blank => \E s \in Slots : \E r \in Index : flash[s][r] = acked

(* A reboot at any moment restores the last acknowledged image, or a newer one
   whose persist was under way or reported as failed. *)
Restored ==
    acked # Blank => Recoverable(flash) \in attempted \cup {acked}

(* So it does as long as no write fault and no torn erase has left a record
   behind that stops the scan: whatever erases and reads fail, and whenever power
   is lost. *)
AckedRestored == spoiled \/ Restored

(* A record is only programmed when it is erased: the append position found
   by the scan never points at something half written or half erased. *)
ProgramsErasedRecords ==
    ~spoiled /\ op.phase = "write" => flash[op.slot][Consumed(op.slot)] = Erased

-----------------------------------------------------------------------------
(***************************************************************************)
(* The inductive invariant.                                                *)
(***************************************************************************)
Busy == op.phase \in {"erase", "write", "verify"}
Running == op.phase \notin {"off", "unavailable"}
Newest == NewestSlot(slots["A"], slots["B"])

\* A flash operation works on the slot that does not hold the newest image.
BusyOk ==
    Busy => /\ op.slot = Target
            /\ op.image \in attempted
            /\ op.image.gen = generation

\* The acknowledged image is the newest one of the cache, and its slot has it;
\* a factory reset withdraws the acknowledgement first.
AckedOk ==
    acked # Blank => /\ op # Resetting
                     /\ acked = NewestImage(slots)
                     /\ \E r \in Index : flash[Newest][r] = acked

\* Snapshots not yet acknowledged are newer than the newest cached image, by less
\* than half of the generation space.
GenerationsOk ==
    Running => /\ Ahead(generation) <= MaxAhead
               /\ \A image \in attempted :
                    image = acked \/ Ahead(image.gen) \in 1 .. MaxAhead

(* TypeOK and the three facts above, which together every step preserves:
   whatever fails, a persist only touches the slot without the newest image. *)
JournalInv == TypeOK /\ BusyOk /\ AckedOk /\ GenerationsOk

(***************************************************************************)
(* Its strengthening for a flash without spoiled records, from which       *)
(* AckedRestored follows.                                                  *)
(***************************************************************************)

\* A slot is a run of images, at most one torn record, and erased records; or an
\* erase of it was cut short.
Orderly(f) ==
    \/ \A q, r \in Index : q < r /\ f[r] # Erased => f[q] \in Images
    \/ \A r \in Index : f[r] = Torn

LaidOut(f, n) ==
    \A r \in Index : IF r <= n THEN f[r] \in Images ELSE f[r] = Erased

\* The append position of a slot that is not full is where its images end.
PositionOk(s) ==
    next_record[s] < Records =>
        LaidOut(flash[s], IF op.phase = "verify" /\ op.slot = s
                          THEN Consumed(s) ELSE next_record[s])

\* The cache agrees with the flash, but for what the persist under way or failed
\* ones have left in the slot that is written next.
CacheOk ==
    /\ acked = NewestImage(slots)
    /\ \A s \in Slots : PositionOk(s)
    /\ \A s \in Slots \ {Target} : ScanImage(flash[s]) = slots[s]
    /\ ScanImage(flash[Target]) \in {Blank, slots[Target]} \cup attempted
    /\ op.phase = "erase" => next_record[op.slot] = Records
    /\ op.phase = "verify" => flash[op.slot][Consumed(op.slot)] = op.image

\* Between two flash operations and within each, the flash holds what the cache
\* says, or what a persist under way is turning it into.
Intact ==
    /\ JournalInv
    /\ Restored
    /\ \A s \in Slots : Orderly(flash[s])
    /\ Running /\ op # Resetting => CacheOk

(* Cache and flash agree at every step, until a fault spoils a record. *)
RestoreInv == JournalInv /\ (spoiled \/ Intact)

=============================================================================
