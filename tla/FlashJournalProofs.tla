------------------------- MODULE FlashJournalProofs -------------------------
(***************************************************************************)
(* Proofs about FlashJournal: for any number of records, any generation    *)
(* width and any combination of flash faults.                              *)
(***************************************************************************)
EXTENDS FlashJournal, NaturalsInduction, WellFoundedInduction, TLAPS

-----------------------------------------------------------------------------
\* The scan of a slot stops at a definite length.
LEMMA ScanStops ==
    ASSUME NEW f
    PROVE  IsPrefix(f, ScanLength(f))
<1> DEFINE T == {p \in 0 .. Records : p = Records \/ f[p + 1] \notin Images}
<1>1. Records \in Nat BY RecordsAssumption
<1>2. Records \in T BY <1>1
<1>3. T \subseteq Nat BY <1>1
<1>4. PICK p \in T : \A q \in T : <<q, p>> \notin OpToRel(<, Nat)
  BY <1>2, <1>3, NatLessThanWellFounded, WFMin, Zenon
<1>5. p \in 0 .. Records /\ \A q \in T : ~(q < p)
  BY <1>3, <1>4 DEF OpToRel
<1>6. \A r \in 1 .. p : f[r] \in Images
  <2> SUFFICES ASSUME NEW r \in 1 .. p, f[r] \notin Images PROVE FALSE
    OBVIOUS
  <2>1. r - 1 \in 0 .. Records /\ (r - 1) + 1 = r /\ r - 1 < p BY <1>1, <1>5
  <2>2. r - 1 \in T BY <2>1
  <2> QED BY <2>1, <2>2, <1>5
<1>7. p < Records => f[p + 1] \notin Images BY <1>1
<1>8. IsPrefix(f, p) BY <1>5, <1>6, <1>7 DEF IsPrefix
<1> QED BY <1>5, <1>8 DEF ScanLength

\* What a scan finds is nothing or a valid record of the slot.
LEMMA ScanFinds ==
    ASSUME NEW f
    PROVE  /\ ScanImage(f) \in Images \cup {Blank}
           /\ ScanImage(f) # Blank => \E r \in Index : f[r] = ScanImage(f)
           /\ ScanNext(f) \in 0 .. Records
<1>1. Records \in Nat BY RecordsAssumption
<1>2. IsPrefix(f, ScanLength(f)) BY ScanStops
<1>3. ScanLength(f) \in 0 .. Records BY <1>2 DEF IsPrefix
<1>4. ScanLength(f) # 0 => ScanLength(f) \in 1 .. Records
  BY <1>1, <1>3
<1>5. ScanLength(f) # 0 => f[ScanLength(f)] \in Images
  BY <1>2, <1>3, <1>4 DEF IsPrefix
<1> QED BY <1>1, <1>3, <1>4, <1>5 DEF ScanImage, ScanNext, Index

\* An image is never one of the markers.
LEMMA ImagesAreNotMarkers ==
    ASSUME NEW image \in Images
    PROVE  image # Blank /\ image # Erased /\ image # Torn /\ image.gen \in Gens
BY GenModAssumption DEF Images, Blank, Erased, Torn, Gens

\* A flash operation under way names a slot and an image.
LEMMA BusyTypes ==
    ASSUME op \in Ops, Busy
    PROVE  op.slot \in Slots /\ op.image \in Images
BY DEF Ops, Busy, Idle, Off, Unavailable, Resetting

\* The record of a flash operation has the fields it is built from.
LEMMA StepTypes ==
    ASSUME NEW ph \in {"erase", "write", "verify"}, NEW s \in Slots,
           NEW image \in Images
    PROVE  /\ Step(ph, s, image) \in Ops
           /\ Step(ph, s, image).phase = ph
           /\ Step(ph, s, image).slot = s
           /\ Step(ph, s, image).image = image
BY DEF Step, Ops

\* The records that stand for no flash operation.
LEMMA QuietTypes ==
    /\ Idle \in Ops /\ Off \in Ops /\ Unavailable \in Ops /\ Resetting \in Ops
    /\ Idle.phase = "idle" /\ Off.phase = "off"
    /\ Unavailable.phase = "unavailable" /\ Resetting.phase = "reset"
BY DEF Ops, Idle, Off, Unavailable, Resetting

\* The slot that is written never holds the newest image.
LEMMA TargetIsFree ==
    /\ Target \in Slots
    /\ Newest \in Slots \cup {"none"}
    /\ Newest # Target
BY DEF Target, Newest, NewestSlot, Slots

\* The newest image of a cache is missing only when the whole cache is blank.
LEMMA NewestImageType ==
    ASSUME NEW sl \in [Slots -> Images \cup {Blank}]
    PROVE  /\ NewestImage(sl) \in Images \cup {Blank}
           /\ NewestImage(sl) = Blank <=> sl["A"] = Blank /\ sl["B"] = Blank
BY ImagesAreNotMarkers DEF NewestImage, NewestSlot, Slots

\* A newer image, put into the free slot, becomes the newest one.
LEMMA NewerImageWins ==
    ASSUME slots \in [Slots -> Images \cup {Blank}],
           NEW image \in Images, Ahead(image.gen) \in 1 .. MaxAhead,
           NEW sl, sl = [slots EXCEPT ![Target] = image]
    PROVE  NewestSlot(sl["A"], sl["B"]) = Target /\ NewestImage(sl) = image
<1> USE GenModAssumption, MaxAheadAssumption
<1>1. image # Blank /\ image.gen \in Gens BY ImagesAreNotMarkers
<1>2. CASE Newest = "none"
  BY <1>1, <1>2 DEF Newest, Target, NewestSlot, NewestImage, Slots
<1>3. CASE Newest = "A"
  <2>1. Target = "B" /\ NewestImage(slots) = slots["A"] /\ slots["A"] # Blank
    BY <1>3 DEF Newest, Target, NewestSlot, NewestImage
  <2>2. slots["A"] \in Images BY <2>1 DEF Slots
  <2>3. slots["A"].gen \in Gens BY <2>2, ImagesAreNotMarkers
  <2>4. WrappingSub(image.gen, slots["A"].gen) \in 1 .. MaxAhead
    BY <2>1 DEF Ahead
  <2>5. ~NewerOrEqual(slots["A"].gen, image.gen)
    BY <1>1, <2>3, <2>4 DEF NewerOrEqual, WrappingSub, Gens
  <2>6. sl["A"] = slots["A"] /\ sl["B"] = image BY <2>1 DEF Slots
  <2> QED BY <1>1, <2>1, <2>5, <2>6 DEF NewestSlot, NewestImage
<1>4. CASE Newest = "B"
  <2>1. Target = "A" /\ NewestImage(slots) = slots["B"] /\ slots["B"] # Blank
    BY <1>4 DEF Newest, Target, NewestSlot, NewestImage
  <2>2. slots["B"] \in Images BY <2>1 DEF Slots
  <2>3. slots["B"].gen \in Gens BY <2>2, ImagesAreNotMarkers
  <2>4. WrappingSub(image.gen, slots["B"].gen) \in 1 .. MaxAhead
    BY <2>1 DEF Ahead
  <2>5. NewerOrEqual(image.gen, slots["B"].gen)
    BY <1>1, <2>3, <2>4 DEF NewerOrEqual, WrappingSub, Gens
  <2>6. sl["B"] = slots["B"] /\ sl["A"] = image BY <2>1 DEF Slots
  <2> QED BY <1>1, <2>1, <2>5, <2>6 DEF NewestSlot, NewestImage
<1> QED BY <1>2, <1>3, <1>4, TargetIsFree DEF Slots

-----------------------------------------------------------------------------
\* An erased chip satisfies the invariant.
LEMMA JournalInvInit == Init => JournalInv
<1> SUFFICES ASSUME Init PROVE JournalInv OBVIOUS
<1> USE DEF Init
<1>1. Off \in Ops /\ Off.phase = "off" BY QuietTypes
<1>2. TypeOK
  BY <1>1, RecordsAssumption, GenModAssumption
     DEF TypeOK, Cells, Gens, Index, Slots
<1>3. BusyOk /\ GenerationsOk BY <1>1 DEF BusyOk, GenerationsOk, Busy, Running
<1>4. AckedOk BY DEF AckedOk
<1> QED BY <1>2, <1>3, <1>4 DEF JournalInv

\* A step that leaves the cache and the histories alone, and touches no slot but
\* the one being written, keeps the acknowledged image where it is.
LEMMA AckedKept ==
    ASSUME TypeOK, AckedOk, UNCHANGED <<slots, acked>>, op' # Resetting,
           \A r \in Index : Newest \in Slots => flash'[Newest][r] = flash[Newest][r]
    PROVE  AckedOk'
<1> SUFFICES ASSUME acked # Blank
             PROVE  \E r \in Index : flash'[Newest][r] = acked
  BY DEF AckedOk, Newest, NewestImage
<1>1. Newest \in Slots
  BY TargetIsFree DEF AckedOk, NewestImage, Newest
<1> QED BY <1>1 DEF AckedOk

\* The scan at boot establishes the invariant from any flash content.
LEMMA BootInv == JournalInv /\ Boot => JournalInv'
<1> SUFFICES ASSUME JournalInv, Boot PROVE JournalInv' OBVIOUS
<1> USE GenModAssumption, MaxAheadAssumption DEF Boot
<1>1. op' \in Ops /\ op'.phase = "idle" BY QuietTypes
<1>2. slots' \in [Slots -> Images \cup {Blank}] BY ScanFinds
<1>3. next_record' \in [Slots -> 0 .. Records] BY ScanFinds
<1>4. acked' \in Images \cup {Blank} BY <1>2, NewestImageType
<1>5. generation' \in Gens BY <1>4, ImagesAreNotMarkers DEF Gens
<1>6. TypeOK' BY <1>1, <1>2, <1>3, <1>4, <1>5 DEF TypeOK, JournalInv
<1>7. BusyOk' BY <1>1 DEF BusyOk, Busy
<1>8. AckedOk'
  <2> SUFFICES ASSUME acked' # Blank
               PROVE  \E r \in Index : flash'[Newest'][r] = acked'
    BY <1>1, QuietTypes DEF AckedOk
  <2>1. Newest' \in Slots /\ acked' = slots'[Newest']
    BY DEF Newest, NewestImage, NewestSlot, Slots
  <2>2. acked' = ScanImage(flash[Newest']) BY <2>1
  <2> QED BY <2>1, <2>2, ScanFinds
<1>9. GenerationsOk'
  <2>1. Ahead(generation)' = 0
    BY <1>5, <1>4 DEF Ahead, WrappingSub, Gens
  <2> QED BY <2>1 DEF GenerationsOk
<1> QED BY <1>6, <1>7, <1>8, <1>9 DEF JournalInv

\* Choosing the slot of a persist keeps the invariant: the snapshot is a new
\* generation or one tried before.
LEMMA PersistInv ==
    ASSUME NEW image \in Images
    PROVE  JournalInv /\ Persist(image) => JournalInv'
<1> SUFFICES ASSUME JournalInv, Persist(image) PROVE JournalInv' OBVIOUS
<1> USE GenModAssumption, MaxAheadAssumption DEF Persist, JournalInv
<1> DEFINE ph == IF next_record[Target] >= Records THEN "erase" ELSE "write"
<1>1. Target \in Slots BY TargetIsFree
<1>2. op' = Step(ph, Target, image) OBVIOUS
<1>3. ph \in {"erase", "write"} OBVIOUS
<1> HIDE DEF ph
<1>4. op' \in Ops /\ op'.phase = ph /\ op'.slot = Target /\ op'.image = image
  BY <1>1, <1>2, <1>3, StepTypes
<1>5. image # Blank /\ image.gen \in Gens BY ImagesAreNotMarkers
<1>6. ph = "write" => next_record[Target] < Records
  BY <1>1, RecordsAssumption DEF ph, TypeOK
<1>7. TypeOK'
  <2>1. attempted' \in SUBSET Images BY DEF TypeOK
  <2>2. op'.phase \in {"write", "verify"} => next_record'[op'.slot] < Records
    BY <1>3, <1>4, <1>6
  <2> QED BY <1>4, <1>5, <2>1, <2>2 DEF TypeOK
<1>8. BusyOk' BY <1>4 DEF BusyOk, Target
<1>9. AckedOk' BY <1>3, <1>4, QuietTypes, AckedKept
<1>10. GenerationsOk'
  <2>1. Ahead(generation) <= MaxAhead /\ generation \in Gens
    BY QuietTypes DEF GenerationsOk, Running, TypeOK
  <2>2. PICK base \in Gens :
            base = IF NewestImage(slots) = Blank THEN 0 ELSE NewestImage(slots).gen
    BY NewestImageType, ImagesAreNotMarkers DEF TypeOK, Gens
  <2>3. \A g : Ahead(g) = WrappingSub(g, base) /\ Ahead(g)' = WrappingSub(g, base)
    BY <2>2 DEF Ahead
  <2>4. CASE image.gen \in LaterGens(generation) /\ Ahead(image.gen) <= MaxAhead
    <3>1. WrappingSub(image.gen, base) \in 1 .. MaxAhead
      BY <2>1, <2>2, <2>3, <2>4 DEF WrappingSub, LaterGens, Gens
    <3> QED BY <2>3, <3>1, QuietTypes DEF GenerationsOk, Running
  <2>5. CASE image \in attempted \cup {acked} /\ image.gen = generation
    BY <2>1, <2>3, <2>5, QuietTypes DEF GenerationsOk, Running
  <2> QED BY <2>4, <2>5
<1> QED BY <1>7, <1>8, <1>9, <1>10

\* Any step of a flash operation that rewrites the slot of that operation and
\* leaves the cache alone.
LEMMA SlotStepInv ==
    ASSUME JournalInv, Busy, UNCHANGED <<slots, generation, acked, attempted>>,
           NEW f \in [Index -> Cells], flash' = [flash EXCEPT ![op.slot] = f],
           next_record' \in [Slots -> 0 .. Records], op' \in Ops,
           Busy' => op'.slot = op.slot /\ op'.image = op.image, op' # Resetting,
           op'.phase \in {"write", "verify"} => next_record'[op'.slot] < Records
    PROVE  JournalInv'
<1> USE DEF JournalInv
<1>1. op.slot \in Slots /\ op.slot = Target BY BusyTypes DEF TypeOK, BusyOk
<1>2. flash' \in [Slots -> [Index -> Cells]] BY <1>1 DEF TypeOK
<1>3. TypeOK' BY <1>2 DEF TypeOK
<1>4. BusyOk' BY <1>1 DEF BusyOk, Target
<1>5. \A r \in Index : Newest \in Slots => flash'[Newest][r] = flash[Newest][r]
  BY <1>1, TargetIsFree DEF TypeOK
<1>6. AckedOk' BY <1>5, AckedKept
<1>7. GenerationsOk'
  <2>1. Running BY DEF Running, Busy
  <2>2. \A g : Ahead(g)' = Ahead(g) BY DEF Ahead
  <2> QED BY <2>1, <2>2 DEF GenerationsOk
<1> QED BY <1>3, <1>4, <1>6, <1>7

\* What the flash chip leaves behind is always made of cells.
LEMMA FlashTypes ==
    /\ [r \in Index |-> Erased] \in [Index -> Cells]
    /\ \A f \in [Index -> Cells] : InterruptedErase(f) \subseteq [Index -> Cells]
    /\ \A cell \in Cells, image \in Images :
          /\ Programmed(cell, image) \in Cells
          /\ InterruptedWrite(cell, image) \subseteq Cells
BY DEF Cells, InterruptedErase, InterruptedWrite, Programmed

\* Erasing the full slot, completely, with an error or cut short by power loss.
LEMMA EraseInv ==
    JournalInv /\ (EraseSlot \/ EraseFails \/ PowerLossInErase) => JournalInv'
<1> SUFFICES ASSUME JournalInv, EraseSlot \/ EraseFails \/ PowerLossInErase
             PROVE  JournalInv'
  OBVIOUS
<1>1. Busy /\ op.slot \in Slots /\ op.image \in Images
  BY BusyTypes DEF Busy, EraseSlot, EraseFails, PowerLossInErase, JournalInv, TypeOK
<1>2. CASE EraseSlot
  <2>1. op' \in Ops /\ op'.phase = "write" /\ op'.slot = op.slot
          /\ op'.image = op.image
    BY <1>1, <1>2, StepTypes DEF EraseSlot
  <2>2. /\ next_record' \in [Slots -> 0 .. Records]
        /\ next_record'[op'.slot] < Records
    BY <1>1, <1>2, <2>1, RecordsAssumption DEF EraseSlot, JournalInv, TypeOK
  <2> QED
    BY <1>1, <1>2, <2>1, <2>2, FlashTypes, QuietTypes, SlotStepInv DEF EraseSlot
<1>3. CASE EraseFails \/ PowerLossInErase
  <2>1. op' \in Ops /\ op'.phase \in {"idle", "off"}
    BY <1>3, QuietTypes DEF EraseFails, PowerLossInErase
  <2>2. flash[op.slot] \in [Index -> Cells] BY <1>1 DEF JournalInv, TypeOK
  <2>3. PICK f \in InterruptedErase(flash[op.slot]) :
            flash' = [flash EXCEPT ![op.slot] = f]
    BY <1>3 DEF EraseFails, PowerLossInErase
  <2>4. f \in [Index -> Cells] BY <2>2, <2>3, FlashTypes
  <2>5. UNCHANGED <<slots, generation, acked, attempted, next_record>>
    BY <1>3 DEF EraseFails, PowerLossInErase
  <2>6. ~Busy' /\ op'.phase \notin {"write", "verify"} BY <2>1 DEF Busy
  <2>7. next_record' \in [Slots -> 0 .. Records] BY <2>5 DEF JournalInv, TypeOK
  <2> QED BY <1>1, <2>1, <2>3, <2>4, <2>5, <2>6, <2>7, QuietTypes, SlotStepInv
<1> QED BY <1>2, <1>3

\* Programming a record, correctly, corrupted, with an error or cut short.
LEMMA WriteInv ==
    JournalInv /\ (WriteRecord \/ WriteCorrupts \/ WriteFails \/ PowerLossInWrite)
        => JournalInv'
<1> SUFFICES ASSUME JournalInv,
                    WriteRecord \/ WriteCorrupts \/ WriteFails \/ PowerLossInWrite
             PROVE  JournalInv'
  OBVIOUS
<1> USE RecordsAssumption
<1> DEFINE at == Consumed(op.slot)
<1>1. Busy /\ op.slot \in Slots /\ op.image \in Images /\ op.phase = "write"
  BY BusyTypes
     DEF Busy, WriteRecord, WriteCorrupts, WriteFails, PowerLossInWrite,
         JournalInv, TypeOK
<1>2. at \in Index /\ flash[op.slot] \in [Index -> Cells]
  BY <1>1 DEF JournalInv, TypeOK, Consumed, Index
<1>3. PICK c \in Cells : flash' = [flash EXCEPT ![op.slot][at] = c]
  BY <1>1, <1>2, FlashTypes
     DEF WriteRecord, WriteCorrupts, WriteFails, PowerLossInWrite, Cells
<1> DEFINE f == [flash[op.slot] EXCEPT ![at] = c]
<1>4. f \in [Index -> Cells] BY <1>2, <1>3
<1>5. flash' = [flash EXCEPT ![op.slot] = f] BY <1>1, <1>3 DEF JournalInv, TypeOK
<1>6. UNCHANGED <<slots, generation, acked, attempted>>
  BY DEF WriteRecord, WriteCorrupts, WriteFails, PowerLossInWrite
<1>7. /\ op' \in Ops
      /\ op'.phase \in {"verify", "idle", "off"}
      /\ op'.phase = "verify" => /\ op'.slot = op.slot /\ op'.image = op.image
                                 /\ UNCHANGED next_record
  BY <1>1, StepTypes, QuietTypes
     DEF WriteRecord, WriteCorrupts, WriteFails, PowerLossInWrite
<1>8. next_record' \in [Slots -> 0 .. Records]
  BY <1>1 DEF JournalInv, TypeOK, WriteRecord, WriteCorrupts, WriteFails,
              PowerLossInWrite
<1>9. op'.phase \in {"write", "verify"} => next_record'[op'.slot] < Records
  BY <1>1, <1>7 DEF JournalInv, TypeOK
<1>10. Busy' => op'.slot = op.slot /\ op'.image = op.image BY <1>7 DEF Busy
<1> HIDE DEF f
<1> QED BY <1>1, <1>4, <1>5, <1>6, <1>7, <1>8, <1>9, <1>10, QuietTypes, SlotStepInv

\* An acknowledged image becomes the newest one of the cache.
LEMMA VerifyOkInv == JournalInv /\ VerifyOk => JournalInv'
<1> SUFFICES ASSUME JournalInv, VerifyOk PROVE JournalInv' OBVIOUS
<1> USE RecordsAssumption, GenModAssumption, MaxAheadAssumption
<1>1. Busy /\ op.slot \in Slots /\ op.image \in Images
  BY BusyTypes DEF Busy, VerifyOk, JournalInv, TypeOK
<1>2. op.slot = Target /\ op.image \in attempted /\ op.image.gen = generation
  BY <1>1 DEF JournalInv, BusyOk
<1>3. op.image # Blank /\ op.image.gen \in Gens BY <1>1, ImagesAreNotMarkers
<1>4. op' \in Ops /\ op'.phase = "idle" BY QuietTypes DEF VerifyOk
<1>5. TypeOK'
  BY <1>1, <1>4 DEF JournalInv, TypeOK, VerifyOk
<1>6. BusyOk' BY <1>4 DEF BusyOk, Busy
<1>7. /\ NewestImage(slots') = op.image
      /\ \E r \in Index : flash[Newest'][r] = op.image
  <2>1. Consumed(op.slot) \in Index /\ flash[op.slot][Consumed(op.slot)] = op.image
    BY <1>1 DEF JournalInv, TypeOK, VerifyOk, Consumed, Index
  <2>2. slots' = [slots EXCEPT ![Target] = op.image] BY <1>2 DEF VerifyOk
  <2>3. CASE Ahead(op.image.gen) \in 1 .. MaxAhead
    <3>1. Newest' = Target /\ NewestImage(slots') = op.image
      BY <1>1, <2>2, <2>3, NewerImageWins DEF Newest, JournalInv, TypeOK
    <3> QED BY <1>2, <2>1, <3>1
  <2>4. CASE op.image = acked
    <3>1. /\ acked = NewestImage(slots)
          /\ \E r \in Index : flash[Newest][r] = acked
      BY <1>3, <2>4 DEF JournalInv, AckedOk
    <3>2. Newest \in Slots /\ slots[Newest] = acked
      BY <1>3, <2>4, <3>1, TargetIsFree DEF NewestImage, Newest
    <3>3. \A s \in Slots : slots'[s] = acked
      BY <2>2, <2>4, <3>2, TargetIsFree
         DEF Slots, JournalInv, TypeOK
    <3>4. Newest' = "A" /\ NewestImage(slots') = acked
      BY <1>3, <2>4, <3>3
         DEF Newest, NewestSlot, NewestImage, NewerOrEqual, WrappingSub, Gens, Slots
    <3>5. Target = "A" \/ Newest = "A" BY <3>2 DEF Target, Newest, Slots
    <3> QED BY <1>2, <2>1, <2>4, <3>1, <3>4, <3>5
  <2>5. op.image = acked \/ Ahead(op.image.gen) \in 1 .. MaxAhead
    BY <1>1, <1>2 DEF JournalInv, GenerationsOk, Busy, Running
  <2> QED BY <2>3, <2>4, <2>5
<1>8. AckedOk' BY <1>4, <1>7, QuietTypes DEF AckedOk, VerifyOk
<1>9. GenerationsOk'
  <2>1. Ahead(generation)' = 0
    BY <1>2, <1>3, <1>7 DEF Ahead, WrappingSub, Gens, VerifyOk
  <2> QED BY <2>1 DEF GenerationsOk, VerifyOk
<1> QED BY <1>5, <1>6, <1>8, <1>9 DEF JournalInv

\* A read-back that fails, or power loss before it, leaves the cache alone.
LEMMA VerifyFailsInv ==
    JournalInv /\ (VerifyFails \/ PowerLossInVerify) => JournalInv'
<1> SUFFICES ASSUME JournalInv, VerifyFails \/ PowerLossInVerify PROVE JournalInv'
  OBVIOUS
<1>1. Busy /\ op.slot \in Slots /\ op.phase = "verify"
  BY BusyTypes DEF Busy, VerifyFails, PowerLossInVerify, JournalInv, TypeOK
<1>2. flash' = [flash EXCEPT ![op.slot] = flash[op.slot]]
  BY <1>1 DEF VerifyFails, PowerLossInVerify, JournalInv, TypeOK
<1>3. flash[op.slot] \in [Index -> Cells] BY <1>1 DEF JournalInv, TypeOK
<1>4. UNCHANGED <<slots, generation, acked, attempted>>
  BY DEF VerifyFails, PowerLossInVerify
<1>5. op' \in Ops /\ op'.phase \in {"idle", "off"}
  BY QuietTypes DEF VerifyFails, PowerLossInVerify
<1>6. next_record' \in [Slots -> 0 .. Records]
  BY <1>1, RecordsAssumption DEF VerifyFails, PowerLossInVerify, JournalInv, TypeOK
<1>7. ~Busy' /\ op'.phase \notin {"write", "verify"} BY <1>5 DEF Busy
<1> QED BY <1>1, <1>2, <1>3, <1>4, <1>5, <1>6, <1>7, QuietTypes, SlotStepInv

\* Steps outside a flash operation that only change op.
LEMMA QuietInv ==
    JournalInv /\ (BootReadError \/ PowerLoss) => JournalInv'
<1> SUFFICES ASSUME JournalInv, BootReadError \/ PowerLoss PROVE JournalInv'
  OBVIOUS
<1>1. op' \in Ops /\ op'.phase \in {"off", "unavailable"}
  BY QuietTypes DEF BootReadError, PowerLoss
<1>2. UNCHANGED <<flash, slots, next_record, generation, acked, attempted>>
  BY DEF BootReadError, PowerLoss
<1>3. TypeOK' BY <1>1, <1>2 DEF JournalInv, TypeOK
<1>4. BusyOk' /\ GenerationsOk'
  BY <1>1 DEF BusyOk, GenerationsOk, Busy, Running
<1>5. AckedOk' BY <1>1, <1>2, QuietTypes, AckedKept DEF JournalInv
<1> QED BY <1>3, <1>4, <1>5 DEF JournalInv

\* A factory reset withdraws the acknowledgement before it erases anything.
LEMMA ResetInv ==
    JournalInv /\ (FactoryReset \/ EraseAll \/ EraseAllFails \/ PowerLossInReset)
        => JournalInv'
<1> SUFFICES ASSUME JournalInv,
                    FactoryReset \/ EraseAll \/ EraseAllFails \/ PowerLossInReset
             PROVE  JournalInv'
  OBVIOUS
<1> USE DEF JournalInv
<1>1. CASE FactoryReset
  <2>1. op' \in Ops /\ op'.phase = "reset" BY <1>1, QuietTypes DEF FactoryReset
  <2>2. Running BY <1>1, QuietTypes DEF FactoryReset, Running
  <2>3. TypeOK' BY <1>1, <2>1 DEF TypeOK, FactoryReset
  <2>4. BusyOk' /\ AckedOk'
    BY <1>1, <2>1 DEF BusyOk, Busy, AckedOk, FactoryReset
  <2>5. Ahead(generation)' = Ahead(generation) BY <1>1 DEF FactoryReset, Ahead
  <2>6. GenerationsOk' BY <1>1, <2>2, <2>5 DEF GenerationsOk, FactoryReset
  <2> QED BY <2>3, <2>4, <2>6
<1>2. CASE EraseAll
  <2>1. op' \in Ops /\ op'.phase = "off" BY <1>2, QuietTypes DEF EraseAll
  <2>2. TypeOK'
    BY <1>2, <2>1, FlashTypes, RecordsAssumption DEF TypeOK, EraseAll
  <2>3. BusyOk' /\ GenerationsOk'
    BY <2>1 DEF BusyOk, Busy, GenerationsOk, Running
  <2>4. AckedOk' BY <1>2 DEF EraseAll, AckedOk
  <2> QED BY <2>2, <2>3, <2>4
<1>3. CASE EraseAllFails \/ PowerLossInReset
  <2>1. op' \in Ops /\ op'.phase \in {"idle", "off"}
    BY <1>3, QuietTypes DEF EraseAllFails, PowerLossInReset
  <2>2. /\ op = Resetting
        /\ flash' \in InterruptedReset
        /\ UNCHANGED <<slots, next_record, generation, acked, attempted>>
    BY <1>3 DEF EraseAllFails, PowerLossInReset
  <2>3. flash["A"] \in [Index -> Cells] /\ flash["B"] \in [Index -> Cells]
    BY DEF TypeOK, Slots
  <2>4. flash' \in [Slots -> [Index -> Cells]]
    BY <2>2, <2>3, FlashTypes DEF InterruptedReset, TypeOK, Slots
  <2>5. TypeOK' BY <2>1, <2>2, <2>4 DEF TypeOK
  <2>6. BusyOk' /\ AckedOk' BY <2>1, <2>2 DEF BusyOk, Busy, AckedOk
  <2>7. Running BY <2>2, QuietTypes DEF Running
  <2>8. \A g : Ahead(g)' = Ahead(g) BY <2>2 DEF Ahead
  <2>9. GenerationsOk' BY <2>2, <2>7, <2>8 DEF GenerationsOk
  <2> QED BY <2>5, <2>6, <2>9
<1> QED BY <1>1, <1>2, <1>3

\* Steps of the rest of the system leave the journal alone.
LEMMA StutterInv == JournalInv /\ UNCHANGED vars => JournalInv'
<1> SUFFICES ASSUME JournalInv, UNCHANGED vars PROVE JournalInv' OBVIOUS
<1> USE DEF JournalInv, vars
<1>1. TypeOK' BY DEF TypeOK
<1>2. BusyOk' BY DEF BusyOk, Busy, Target
<1>3. AckedOk' BY DEF AckedOk, Newest
<1>4. GenerationsOk' BY DEF GenerationsOk, Running, Ahead
<1> QED BY <1>1, <1>2, <1>3, <1>4

\* Every step preserves the invariant.
LEMMA JournalInvStep == JournalInv /\ [Next]_vars => JournalInv'
BY BootInv, PersistInv, EraseInv, WriteInv, VerifyOkInv, VerifyFailsInv, QuietInv,
   ResetInv, StutterInv
   DEF Next

\* The inductive invariant holds in every state of the journal, so in particular
\* write_slot never touches the slot of the newest image.
THEOREM JournalInvariant == Spec => []JournalInv
BY JournalInvInit, JournalInvStep, PTL DEF Spec

\* Type correctness: write_slot never writes past the last record of a slot.
THEOREM JournalTypeOK == Spec => []TypeOK
<1>1. JournalInv => TypeOK BY DEF JournalInv
<1> QED BY <1>1, JournalInvariant, PTL

\* Whatever flash operation fails and whenever power is lost, the image that was
\* acknowledged last stays in flash until a newer one is acknowledged.
THEOREM AcknowledgedStaysOnFlash == Spec => []AckedOnFlash
<1>1. JournalInv => AckedOnFlash
  <2> SUFFICES ASSUME JournalInv, acked # Blank
               PROVE  \E s \in Slots : \E r \in Index : flash[s][r] = acked
    BY DEF AckedOnFlash
  <2>1. Newest \in Slots
    BY TargetIsFree DEF JournalInv, AckedOk, NewestImage, Newest
  <2> QED BY <2>1 DEF JournalInv, AckedOk
<1> QED BY <1>1, JournalInvariant, PTL
=============================================================================
