------------------------ MODULE JournalRestoreProofs ------------------------
(***************************************************************************)
(* A reboot restores what was acknowledged, and only erased records are    *)
(* programmed, as long as no flash fault has spoiled a record or torn an   *)
(* erase.  The lemmas are about an intact flash; the theorems follow       *)
(* because every other step sets spoiled.                                  *)
(***************************************************************************)
EXTENDS FlashJournalProofs

-----------------------------------------------------------------------------
\* A slot has only one prefix of images, so a scan finds exactly that one.
LEMMA ScanIs ==
    ASSUME NEW f, NEW p, IsPrefix(f, p)
    PROVE  ScanLength(f) = p
<1> DEFINE q == ScanLength(f)
<1>1. Records \in Nat BY RecordsAssumption
<1>2. IsPrefix(f, q) BY ScanStops
<1>3. p \in 0 .. Records /\ q \in 0 .. Records BY <1>2 DEF IsPrefix
<1> HIDE DEF q
<1>4. ~(q < p)
  <2> SUFFICES ASSUME q < p PROVE FALSE OBVIOUS
  <2>1. q + 1 \in 1 .. p /\ q < Records BY <1>1, <1>3
  <2> QED BY <1>2, <2>1 DEF IsPrefix
<1>5. ~(p < q)
  <2> SUFFICES ASSUME p < q PROVE FALSE OBVIOUS
  <2>1. p + 1 \in 1 .. q /\ p < Records BY <1>1, <1>3
  <2> QED BY <1>2, <2>1 DEF IsPrefix
<1> QED BY <1>1, <1>3, <1>4, <1>5 DEF q

\* A slot laid out up to n is scanned up to n, whatever record n + 1 holds that
\* is not an image.
LEMMA ScanOfLaidOut ==
    ASSUME NEW f, NEW n \in 0 .. Records,
           \A r \in Index : r <= n => f[r] \in Images,
           n < Records => f[n + 1] \notin Images
    PROVE  ScanImage(f) = IF n = 0 THEN Blank ELSE f[n]
<1>1. Records \in Nat BY RecordsAssumption
<1>2. \A r \in 1 .. n : f[r] \in Images BY <1>1 DEF Index
<1>3. IsPrefix(f, n) BY <1>2 DEF IsPrefix
<1> QED BY <1>3, ScanIs DEF ScanImage

\* A destroyed or erased sector restores nothing.
LEMMA ScanOfDestroyed ==
    ASSUME NEW f, f[1] \notin Images
    PROVE  ScanImage(f) = Blank
<1>1. Records \in Nat /\ Records > 0 BY RecordsAssumption
<1> QED BY <1>1, ScanOfLaidOut DEF Index

\* A scanned slot that is not taken as full is laid out up to its append position.
LEMMA ScanLaysOut ==
    ASSUME NEW f \in [Index -> Cells], Orderly(f), ScanNext(f) < Records
    PROVE  LaidOut(f, ScanNext(f))
<1> DEFINE p == ScanLength(f)
<1>1. Records \in Nat BY RecordsAssumption
<1>2. IsPrefix(f, p) BY ScanStops
<1>3. p \in 0 .. Records BY <1>2 DEF IsPrefix
<1> HIDE DEF p
<1>4. ScanNext(f) = p /\ p < Records /\ f[p + 1] # Torn
  BY <1>1, <1>3 DEF ScanNext, p
<1>5. p + 1 \in Index /\ f[p + 1] \notin Images
  BY <1>1, <1>2, <1>3, <1>4 DEF IsPrefix, Index
<1>6. f[p + 1] = Erased BY <1>4, <1>5 DEF Cells
<1>7. Erased # Torn /\ Erased \notin Images
  BY ImagesAreNotMarkers DEF Erased, Torn
<1>8. \A r \in Index : p + 1 < r => f[r] = Erased
  BY <1>5, <1>6, <1>7 DEF Orderly
<1>9. \A r \in Index : r <= p => f[r] \in Images
  BY <1>1, <1>2, <1>3 DEF IsPrefix, Index
<1>10. \A r \in Index : ~(r <= p) => f[r] = Erased
  <2> SUFFICES ASSUME NEW r \in Index, ~(r <= p) PROVE f[r] = Erased OBVIOUS
  <2>1. r = p + 1 \/ p + 1 < r BY <1>1, <1>3 DEF Index
  <2> QED BY <2>1, <1>6, <1>8
<1> QED BY <1>4, <1>9, <1>10 DEF LaidOut

\* Whatever the record at the append position becomes, the slot stays orderly.
LEMMA AppendIsOrderly ==
    ASSUME NEW f \in [Index -> Cells], NEW n \in 0 .. Records - 1, LaidOut(f, n),
           NEW c \in Cells
    PROVE  /\ Orderly([f EXCEPT ![n + 1] = c])
           /\ c \in Images => LaidOut([f EXCEPT ![n + 1] = c], n + 1)
<1> DEFINE g == [f EXCEPT ![n + 1] = c]
<1>1. Records \in Nat BY RecordsAssumption
<1>2. \A r \in Index : g[r] = IF r = n + 1 THEN c ELSE f[r] OBVIOUS
<1> HIDE DEF g
<1>3. ASSUME NEW q \in Index, NEW r \in Index, q < r, g[r] # Erased
      PROVE  g[q] \in Images
  <2>1. q <= n BY <1>1, <1>2, <1>3 DEF LaidOut, Index
  <2> QED BY <1>1, <1>2, <2>1 DEF LaidOut, Index
<1>4. ASSUME c \in Images, NEW r \in Index
      PROVE  IF r <= n + 1 THEN g[r] \in Images ELSE g[r] = Erased
  BY <1>1, <1>2, <1>4 DEF LaidOut, Index
<1>5. Orderly(g) BY <1>3 DEF Orderly
<1>6. c \in Images => LaidOut(g, n + 1) BY <1>4 DEF LaidOut
<1> QED BY <1>5, <1>6 DEF g

\* When every slot but the one written next holds what the cache says, and that
\* one nothing, the same or an attempted image, a boot restores the newest image
\* of the cache or an attempted one.
LEMMA RestoreFrom ==
    ASSUME NEW fl, NEW sl \in [Slots -> Images \cup {Blank}], NEW a, NEW tried,
           NEW t, t = IF NewestSlot(sl["A"], sl["B"]) = "A" THEN "B" ELSE "A",
           a = NewestImage(sl), a # Blank,
           \A s \in Slots \ {t} : ScanImage(fl[s]) = sl[s],
           ScanImage(fl[t]) \in {Blank, sl[t]} \cup tried
    PROVE  Recoverable(fl) \in tried \cup {a}
<1> DEFINE n == NewestSlot(sl["A"], sl["B"])
           scan == [s \in Slots |-> ScanImage(fl[s])]
<1>1. n \in Slots /\ a = sl[n] /\ t \in Slots /\ n # t
  BY DEF NewestImage, NewestSlot, Slots
<1>2. \A s \in Slots : s = n \/ s = t BY <1>1 DEF Slots
<1>3. scan[n] = a BY <1>1
<1>4. Recoverable(fl) = NewestImage(scan) BY DEF Recoverable
<1>5. CASE scan[t] = Blank
  BY <1>1, <1>2, <1>3, <1>4, <1>5 DEF NewestImage, NewestSlot, Slots
<1>6. CASE scan[t] = sl[t]
  <2>1. scan["A"] = sl["A"] /\ scan["B"] = sl["B"] BY <1>1, <1>2, <1>3, <1>6 DEF Slots
  <2>2. NewestImage(scan) = NewestImage(sl) BY <2>1 DEF NewestImage, NewestSlot
  <2> QED BY <1>4, <2>2
<1>7. CASE scan[t] \in tried
  <2>1. NewestImage(scan) \in {scan[n], scan[t]}
    BY <1>1, <1>2, <1>3 DEF NewestImage, NewestSlot, Slots
  <2> QED BY <1>3, <1>4, <1>7, <2>1
<1> QED BY <1>1, <1>5, <1>6, <1>7

\* The flash operation of a state other than a factory reset finds the cache in
\* agreement with the flash.
LEMMA BusyCache ==
    ASSUME Intact, Busy
    PROVE  /\ CacheOk
           /\ op.slot = Target /\ op.slot \in Slots /\ op.image \in Images
           /\ op.image \in attempted
           /\ flash[op.slot] \in [Index -> Cells]
<1>1. Running /\ op # Resetting BY QuietTypes DEF Busy, Running
<1>2. op.slot \in Slots /\ op.image \in Images
  BY BusyTypes DEF Intact, JournalInv, TypeOK
<1> QED BY <1>1, <1>2 DEF Intact, JournalInv, BusyOk, TypeOK

\* A step of a flash operation that leaves the cache alone, and in its slot leaves
\* nothing, what was there or an attempted image.
LEMMA RestoreSlotStep ==
    ASSUME Intact, Busy, JournalInv',
           UNCHANGED <<slots, acked, attempted>>, NEW t, t = op.slot,
           NEW f, flash' = [flash EXCEPT ![t] = f], Orderly(f),
           ScanImage(f) \in {Blank, slots[t]} \cup attempted,
           \A s \in Slots \ {t} : next_record'[s] = next_record[s],
           op' # Resetting, Busy' => op'.slot = t, op'.phase # "erase",
           Running' => PositionOk(t)',
           op'.phase = "verify" => f[next_record'[t] + 1] = op'.image
    PROVE  Intact'
<1>1. CacheOk /\ t = Target /\ t \in Slots BY BusyCache
<1>2. flash \in [Slots -> [Index -> Cells]] /\ slots \in [Slots -> Images \cup {Blank}]
  BY DEF Intact, JournalInv, TypeOK
<1>3. /\ flash'[t] = f
      /\ \A s \in Slots \ {t} : flash'[s] = flash[s]
  BY <1>1, <1>2
<1>4. \A s \in Slots : Orderly(flash'[s]) BY <1>3 DEF Intact
<1>5. Target' = Target BY DEF Target
<1>6. /\ acked' = NewestImage(slots')
      /\ \A s \in Slots \ {Target'} : ScanImage(flash'[s]) = slots'[s]
      /\ ScanImage(flash'[Target']) \in {Blank, slots'[Target']} \cup attempted'
  BY <1>1, <1>3, <1>5 DEF CacheOk
<1>7. Restored'
  <2> SUFFICES ASSUME acked' # Blank
               PROVE  Recoverable(flash') \in attempted' \cup {acked'}
    BY DEF Restored
  <2> QED BY <1>2, <1>6, RestoreFrom DEF Target
<1>8. ASSUME Running' PROVE CacheOk'
  <2>1. ASSUME NEW s \in Slots \ {t} PROVE PositionOk(s)'
    <3>1. ~(op'.phase = "verify" /\ op'.slot = s) BY <2>1 DEF Busy
    <3>2. ~(op.phase = "verify" /\ op.slot = s) BY <2>1
    <3>3. PositionOk(s) BY <1>1, <2>1 DEF CacheOk
    <3> QED BY <1>3, <2>1, <3>1, <3>2, <3>3 DEF PositionOk
  <2>2. \A s \in Slots : PositionOk(s)' BY <1>8, <2>1
  <2>3. op'.phase = "verify" => flash'[op'.slot][Consumed(op.slot)'] = op'.image
    BY <1>3 DEF Busy, Consumed
  <2> QED BY <1>6, <2>2, <2>3 DEF CacheOk
<1> QED BY <1>4, <1>7, <1>8 DEF Intact

-----------------------------------------------------------------------------
\* An erased chip satisfies the invariant.
LEMMA IntactInit == Init => Intact
<1> SUFFICES ASSUME Init PROVE Intact OBVIOUS
<1>1. JournalInv BY JournalInvInit
<1>2. \A s \in Slots : Orderly(flash[s]) BY DEF Init, Orderly
<1>3. Restored /\ ~Running
  BY QuietTypes DEF Init, Restored, Running
<1> QED BY <1>1, <1>2, <1>3 DEF Intact

\* After the scan at boot cache and flash agree.
LEMMA BootRestores == Intact /\ Boot => Intact'
<1> SUFFICES ASSUME Intact, Boot PROVE Intact' OBVIOUS
<1>1. JournalInv' BY BootInv DEF Intact
<1>2. slots' \in [Slots -> Images \cup {Blank}] /\ flash \in [Slots -> [Index -> Cells]]
  BY <1>1 DEF Intact, JournalInv, TypeOK
<1>3. op'.phase = "idle" /\ flash' = flash /\ acked' = NewestImage(slots')
  BY QuietTypes DEF Boot
<1>4. \A s \in Slots : ScanImage(flash'[s]) = slots'[s] BY <1>3 DEF Boot
<1>5. Target' \in Slots BY DEF Target, Slots
<1>6. ASSUME NEW s \in Slots PROVE PositionOk(s)'
  <2> SUFFICES ASSUME next_record'[s] < Records
               PROVE  LaidOut(flash[s], next_record'[s])
    BY <1>3 DEF PositionOk
  <2>1. next_record'[s] = ScanNext(flash[s]) BY DEF Boot
  <2>2. flash[s] \in [Index -> Cells] /\ Orderly(flash[s]) BY <1>2 DEF Intact
  <2> QED BY <2>1, <2>2, ScanLaysOut
<1>7. CacheOk' BY <1>3, <1>4, <1>5, <1>6 DEF CacheOk
<1>8. Restored'
  <2> SUFFICES ASSUME acked' # Blank
               PROVE  Recoverable(flash') \in attempted' \cup {acked'}
    BY DEF Restored
  <2> QED BY <1>2, <1>3, <1>4, <1>5, RestoreFrom DEF Target
<1> QED BY <1>1, <1>3, <1>7, <1>8 DEF Intact

\* Choosing the slot writes nothing.
LEMMA PersistRestores ==
    ASSUME NEW image \in Images
    PROVE  Intact /\ Persist(image) => Intact'
<1> SUFFICES ASSUME Intact, Persist(image) PROVE Intact' OBVIOUS
<1>1. JournalInv' BY PersistInv DEF Intact
<1>2. CacheOk BY QuietTypes DEF Intact, Persist, Running, Idle, Resetting
<1>3. UNCHANGED <<flash, slots, next_record, acked>> /\ attempted \subseteq attempted'
  BY DEF Persist
<1>4. Target' = Target BY <1>3 DEF Target
<1>5. /\ op'.phase \in {"erase", "write"} /\ op'.slot = Target /\ op.phase = "idle"
      /\ op'.phase = "erase" => next_record[Target] >= Records
  BY StepTypes, TargetIsFree, QuietTypes DEF Persist
<1>6. next_record[Target] \in 0 .. Records
  BY TargetIsFree DEF Intact, JournalInv, TypeOK
<1>7. \A s \in Slots : PositionOk(s)'
  BY <1>2, <1>3, <1>5 DEF CacheOk, PositionOk
<1>8. CacheOk'
  BY <1>2, <1>3, <1>4, <1>5, <1>6, <1>7, RecordsAssumption DEF CacheOk
<1>9. Restored' BY <1>3 DEF Intact, Restored
<1> QED BY <1>1, <1>3, <1>8, <1>9 DEF Intact

\* An erase, complete or cut short, leaves its slot as it was or restores nothing
\* from it.
LEMMA EraseRestores ==
    Intact /\ ~spoiled' /\ (EraseSlot \/ EraseFails \/ PowerLossInErase) => Intact'
<1> SUFFICES ASSUME Intact, ~spoiled', EraseSlot \/ EraseFails \/ PowerLossInErase
             PROVE  Intact'
  OBVIOUS
<1>1. JournalInv' BY EraseInv DEF Intact
<1>2. Busy /\ op.phase = "erase"
  BY DEF Busy, EraseSlot, EraseFails, PowerLossInErase
<1> PICK t \in Slots : t = op.slot BY <1>2, BusyCache
<1>3. /\ CacheOk /\ t = Target /\ t \in Slots /\ op.image \in Images
      /\ flash[t] \in [Index -> Cells]
  BY <1>2, BusyCache
<1>4. UNCHANGED <<slots, acked, attempted>>
  BY DEF EraseSlot, EraseFails, PowerLossInErase
<1>5. PICK f \in {flash[t], [r \in Index |-> Torn], [r \in Index |-> Erased]} :
          /\ flash' = [flash EXCEPT ![t] = f]
          /\ EraseSlot => f = [r \in Index |-> Erased]
  BY DEF EraseSlot, EraseFails, PowerLossInErase, CleanlyCut
<1>6. /\ Torn \notin Images /\ Erased \notin Images
      /\ 1 \in Index /\ Records \in Nat
  BY ImagesAreNotMarkers, RecordsAssumption DEF Index
<1>7. Orderly(f) BY <1>3, <1>5 DEF Orderly, Intact
<1>8. ScanImage(f) \in {Blank, slots[t]} \cup attempted
  <2>1. CASE f = flash[t] BY <1>3, <2>1 DEF CacheOk
  <2>2. CASE f # flash[t]
    <3>1. f[1] \notin Images BY <1>5, <1>6, <2>2
    <3> QED BY <3>1, ScanOfDestroyed
  <2> QED BY <2>1, <2>2
<1>9. \A s \in Slots \ {t} : next_record'[s] = next_record[s]
  BY <1>3 DEF EraseSlot, EraseFails, PowerLossInErase, Intact, JournalInv, TypeOK
<1>10. /\ op' # Resetting /\ op'.phase \in {"write", "idle", "off"}
       /\ op'.phase = "write" => op'.slot = t /\ EraseSlot
  BY <1>3, StepTypes, QuietTypes DEF EraseSlot, EraseFails, PowerLossInErase
<1>11. Busy' => op'.slot = t BY <1>10 DEF Busy
<1>12. PositionOk(t)'
  <2>1. flash'[t] = f BY <1>3, <1>5 DEF Intact, JournalInv, TypeOK
  <2>2. CASE EraseSlot
    <3>1. next_record'[t] = 0
      BY <1>3, <2>2 DEF EraseSlot, Intact, JournalInv, TypeOK
    <3> QED BY <1>5, <1>6, <1>10, <2>1, <2>2, <3>1 DEF PositionOk, LaidOut, Index
  <2>3. CASE ~EraseSlot
    <3>1. next_record'[t] = Records
      BY <1>2, <1>3, <2>3 DEF EraseFails, PowerLossInErase, CacheOk
    <3> QED BY <1>6, <3>1 DEF PositionOk
  <2> QED BY <2>2, <2>3
<1> QED
  BY <1>1, <1>2, <1>4, <1>5, <1>7, <1>8, <1>9, <1>10, <1>11, <1>12, RestoreSlotStep

\* Programming the erased record behind the images, completely or cut short, makes
\* the slot restore what it did before or the image of the persist.
LEMMA WriteRestores ==
    /\ Intact /\ op.phase = "write" => ProgramsErasedRecords
    /\ Intact /\ ~spoiled' /\ (WriteRecord \/ WriteCorrupts \/ WriteFails
                                \/ PowerLossInWrite) => Intact'
<1> SUFFICES ASSUME Intact, op.phase = "write"
             PROVE  /\ ProgramsErasedRecords
                    /\ WriteRecord \/ PowerLossInWrite => Intact'
  BY DEF WriteRecord, WriteCorrupts, WriteFails, PowerLossInWrite
<1>1. Busy BY DEF Busy
<1> PICK t \in Slots : t = op.slot BY <1>1, BusyCache
<1>2. /\ CacheOk /\ t = Target /\ op.image \in Images /\ op.image \in attempted
      /\ flash[t] \in [Index -> Cells]
  BY <1>1, BusyCache
<1> PICK n \in 0 .. Records - 1 : n = next_record[t]
  BY RecordsAssumption DEF Intact, JournalInv, TypeOK
<1>3. Records \in Nat /\ n + 1 \in Index /\ Consumed(op.slot) = n + 1
  BY RecordsAssumption DEF Index, Consumed
<1>4. LaidOut(flash[t], n) BY <1>2, <1>3 DEF CacheOk, PositionOk
<1>5. flash[t][n + 1] = Erased BY <1>3, <1>4 DEF LaidOut
<1>6. ProgramsErasedRecords BY <1>3, <1>5 DEF ProgramsErasedRecords
<1> SUFFICES ASSUME WriteRecord \/ PowerLossInWrite PROVE Intact'
  BY <1>6
<1>8. JournalInv' BY WriteInv DEF Intact
<1>9. PICK c \in {Erased, Torn, op.image} :
          /\ flash' = [flash EXCEPT ![t][n + 1] = c]
          /\ WriteRecord => c = op.image
  BY <1>3, <1>5 DEF WriteRecord, PowerLossInWrite, InterruptedWrite, Programmed,
     Intact, JournalInv, TypeOK
<1> DEFINE f == [flash[t] EXCEPT ![n + 1] = c]
<1>10. flash' = [flash EXCEPT ![t] = f]
  BY <1>9 DEF Intact, JournalInv, TypeOK
<1>11. c \in Cells BY <1>2 DEF Cells
<1>12. Orderly(f) /\ (c = op.image => LaidOut(f, n + 1))
  BY <1>2, <1>4, <1>11, AppendIsOrderly
<1>13. \A r \in Index : f[r] = IF r = n + 1 THEN c ELSE flash[t][r] BY <1>2
<1>14. Torn \notin Images /\ Erased \notin Images BY ImagesAreNotMarkers
<1> HIDE DEF f
<1>15. ScanImage(f) \in {Blank, slots[t]} \cup attempted
  <2>1. CASE c = op.image
    <3>1. \A r \in Index : r <= n + 1 => f[r] \in Images
      BY <1>12, <2>1 DEF LaidOut
    <3>2. n + 1 < Records => f[(n + 1) + 1] \notin Images
      BY <1>3, <1>12, <1>14, <2>1 DEF LaidOut, Index
    <3>3. ScanImage(f) = f[n + 1] BY <1>3, <3>1, <3>2, ScanOfLaidOut DEF Index
    <3> QED BY <1>2, <1>3, <1>13, <2>1, <3>3
  <2>2. CASE c # op.image
    <3>1. /\ \A r \in Index : r <= n => f[r] \in Images /\ flash[t][r] \in Images
          /\ f[n + 1] \notin Images /\ flash[t][n + 1] \notin Images
      BY <1>3, <1>4, <1>5, <1>9, <1>13, <1>14, <2>2 DEF LaidOut, Index
    <3>2. /\ ScanImage(f) = IF n = 0 THEN Blank ELSE f[n]
          /\ ScanImage(flash[t]) = IF n = 0 THEN Blank ELSE flash[t][n]
      BY <1>3, <3>1, ScanOfLaidOut DEF Index
    <3>3. n # 0 => n \in Index /\ f[n] = flash[t][n] BY <1>3, <1>13 DEF Index
    <3> QED BY <1>2, <3>2, <3>3 DEF CacheOk
  <2> QED BY <2>1, <2>2
<1>16. UNCHANGED <<slots, acked, attempted, next_record>>
  BY DEF WriteRecord, PowerLossInWrite
<1>17. /\ op' # Resetting /\ op'.phase \in {"verify", "off"}
       /\ op'.phase = "verify" => /\ op'.slot = t /\ op'.image = op.image
                                  /\ c = op.image
  BY <1>2, <1>9, StepTypes, QuietTypes DEF WriteRecord, PowerLossInWrite
<1>18. Running' => PositionOk(t)'
  <2>1. flash'[t] = f BY <1>10 DEF Intact, JournalInv, TypeOK
  <2> QED BY <1>3, <1>12, <1>16, <1>17, <2>1 DEF Running, PositionOk, Consumed
<1>19. Busy' => op'.slot = t BY <1>17 DEF Busy
<1>20. op'.phase = "verify" => f[next_record'[t] + 1] = op'.image
  BY <1>3, <1>13, <1>16, <1>17
<1> QED
  BY <1>1, <1>8, <1>10, <1>12, <1>15, <1>16, <1>17, <1>18, <1>19, <1>20,
     RestoreSlotStep

\* At the read-back the record of the persist is the last image of its slot.
LEMMA VerifyFinds ==
    ASSUME Intact, op.phase = "verify", NEW t, t = op.slot
    PROVE  /\ Busy /\ CacheOk /\ t = Target /\ t \in Slots /\ op.image \in Images
           /\ next_record[t] + 1 \in Index
           /\ LaidOut(flash[t], next_record[t] + 1)
           /\ flash[t][next_record[t] + 1] = op.image
           /\ ScanImage(flash[t]) = op.image
<1>1. Busy BY DEF Busy
<1>2. CacheOk /\ t = Target /\ t \in Slots /\ op.image \in Images BY <1>1, BusyCache
<1> PICK n \in 0 .. Records - 1 : n = next_record[t]
  BY <1>2, RecordsAssumption DEF Intact, JournalInv, TypeOK
<1>3. Records \in Nat /\ n + 1 \in Index BY RecordsAssumption DEF Index
<1>4. LaidOut(flash[t], n + 1) /\ flash[t][n + 1] = op.image
  BY <1>2, <1>3 DEF CacheOk, PositionOk, Consumed
<1>5. Erased \notin Images BY ImagesAreNotMarkers
<1>6. /\ \A r \in Index : r <= n + 1 => flash[t][r] \in Images
      /\ n + 1 < Records => flash[t][(n + 1) + 1] \notin Images
  BY <1>3, <1>4, <1>5 DEF LaidOut, Index
<1>7. ScanImage(flash[t]) = flash[t][n + 1]
  BY <1>3, <1>6, ScanOfLaidOut DEF Index
<1> QED BY <1>1, <1>2, <1>3, <1>4, <1>7

\* After an acknowledgement every slot holds what the cache says.
LEMMA VerifyOkRestores == Intact /\ VerifyOk => Intact'
<1> SUFFICES ASSUME Intact, VerifyOk PROVE Intact' OBVIOUS
<1> PICK t : t = op.slot OBVIOUS
<1>1. JournalInv' BY VerifyOkInv DEF Intact
<1>2. op.phase = "verify" BY DEF VerifyOk
<1>3. /\ CacheOk /\ t = Target /\ t \in Slots /\ op.image \in Images
      /\ LaidOut(flash[t], next_record[t] + 1)
      /\ ScanImage(flash[t]) = op.image
  BY <1>2, VerifyFinds
<1>4. op' # Resetting /\ op'.phase = "idle" BY QuietTypes DEF VerifyOk
<1>5. acked' = NewestImage(slots')
  BY <1>1, <1>3, ImagesAreNotMarkers DEF VerifyOk, JournalInv, AckedOk
<1>6. \A s \in Slots : ScanImage(flash'[s]) = slots'[s]
  BY <1>3 DEF VerifyOk, CacheOk, Intact, JournalInv, TypeOK
<1>7. ASSUME NEW s \in Slots PROVE PositionOk(s)'
  <2>1. flash' = flash BY DEF VerifyOk
  <2>2. CASE s = t
    <3>1. next_record'[s] = next_record[t] + 1
      BY <1>3, <2>2 DEF VerifyOk, Intact, JournalInv, TypeOK
    <3> QED BY <1>3, <1>4, <2>1, <2>2, <3>1 DEF PositionOk
  <2>3. CASE s # t
    <3>1. next_record'[s] = next_record[s]
      BY <2>3 DEF VerifyOk, Intact, JournalInv, TypeOK
    <3> QED BY <1>3, <1>4, <2>1, <2>3, <3>1 DEF CacheOk, PositionOk
  <2> QED BY <2>2, <2>3
<1>8. Target' \in Slots BY DEF Target, Slots
<1>9. CacheOk' BY <1>4, <1>5, <1>6, <1>7, <1>8 DEF CacheOk
<1>10. Restored'
  <2> SUFFICES ASSUME acked' # Blank
               PROVE  Recoverable(flash') \in attempted' \cup {acked'}
    BY DEF Restored
  <2>1. slots' \in [Slots -> Images \cup {Blank}] BY <1>1 DEF JournalInv, TypeOK
  <2> QED BY <1>5, <1>6, <1>8, <2>1, RestoreFrom DEF Target
<1> QED BY <1>1, <1>9, <1>10 DEF Intact, VerifyOk

\* A failed read-back skips a record that is intact.
LEMMA VerifyFailsRestores ==
    Intact /\ (VerifyFails \/ PowerLossInVerify) => Intact'
<1> SUFFICES ASSUME Intact, VerifyFails \/ PowerLossInVerify PROVE Intact'
  OBVIOUS
<1> PICK t : t = op.slot OBVIOUS
<1>1. JournalInv' BY VerifyFailsInv DEF Intact
<1>2. op.phase = "verify" BY DEF VerifyFails, PowerLossInVerify
<1>3. /\ Busy /\ CacheOk /\ t = Target /\ t \in Slots
      /\ LaidOut(flash[t], next_record[t] + 1)
  BY <1>2, VerifyFinds
<1>4. UNCHANGED <<slots, acked, attempted, flash>>
  BY DEF VerifyFails, PowerLossInVerify
<1>5. flash' = [flash EXCEPT ![t] = flash[t]]
  BY <1>4 DEF Intact, JournalInv, TypeOK
<1>6. op' # Resetting /\ op'.phase \in {"idle", "off"} /\ ~Busy'
  BY QuietTypes DEF VerifyFails, PowerLossInVerify, Busy
<1>7. \A s \in Slots \ {t} : next_record'[s] = next_record[s]
  BY DEF VerifyFails, PowerLossInVerify, Intact, JournalInv, TypeOK
<1>8. Running' => PositionOk(t)'
  <2> SUFFICES ASSUME Running' PROVE PositionOk(t)' OBVIOUS
  <2>1. VerifyFails BY QuietTypes DEF PowerLossInVerify, Running
  <2>2. next_record'[t] = next_record[t] + 1
    BY <1>3, <2>1 DEF VerifyFails, Intact, JournalInv, TypeOK
  <2> QED BY <1>3, <1>4, <1>6, <2>2 DEF PositionOk
<1>9. /\ Orderly(flash[t])
      /\ ScanImage(flash[t]) \in {Blank, slots[t]} \cup attempted
  BY <1>3 DEF Intact, CacheOk
<1> QED
  BY <1>1, <1>3, <1>4, <1>5, <1>6, <1>7, <1>8, <1>9, RestoreSlotStep

\* Power loss between flash operations, and a boot that cannot read the flash.
LEMMA QuietRestores == Intact /\ (BootReadError \/ PowerLoss) => Intact'
<1> SUFFICES ASSUME Intact, BootReadError \/ PowerLoss PROVE Intact'
  OBVIOUS
<1>1. JournalInv' BY QuietInv DEF Intact
<1>2. ~Running' /\ UNCHANGED <<flash, acked, attempted>>
  BY QuietTypes DEF BootReadError, PowerLoss, Running
<1>3. Restored' BY <1>2 DEF Intact, Restored
<1> QED BY <1>1, <1>2, <1>3 DEF Intact

\* A factory reset promises nothing, and leaves orderly slots wherever it stops.
LEMMA ResetRestores ==
    Intact /\ ~spoiled' /\ (FactoryReset \/ EraseAll \/ EraseAllFails
                            \/ PowerLossInReset) => Intact'
<1> SUFFICES ASSUME Intact, ~spoiled', FactoryReset \/ EraseAll \/ PowerLossInReset
             PROVE  Intact'
  BY DEF EraseAllFails
<1>1. JournalInv' BY ResetInv DEF Intact
<1>2. acked' = Blank
  BY DEF FactoryReset, EraseAll, PowerLossInReset, Intact, JournalInv, AckedOk
<1>3. ~Running' \/ op' = Resetting
  BY QuietTypes DEF FactoryReset, EraseAll, PowerLossInReset, Running
<1>4. \A s \in Slots : Orderly(flash'[s])
  <2>1. CASE FactoryReset BY <2>1 DEF FactoryReset, Intact
  <2>2. CASE EraseAll BY <2>2 DEF EraseAll, Orderly
  <2>3. CASE PowerLossInReset
    <3>1. \A s \in Slots : flash'[s] \in CleanlyCut(flash[s])
      BY <2>3 DEF PowerLossInReset
    <3>2. \A s \in Slots : \A f \in CleanlyCut(flash[s]) : Orderly(f)
      BY DEF CleanlyCut, Intact, Orderly
    <3> QED BY <3>1, <3>2
  <2> QED BY <2>1, <2>2, <2>3
<1> QED BY <1>1, <1>2, <1>3, <1>4 DEF Intact, Restored

\* Steps of the rest of the system.
LEMMA StutterRestores == Intact /\ UNCHANGED vars => Intact'
<1> SUFFICES ASSUME Intact, UNCHANGED vars PROVE Intact' OBVIOUS
<1>1. JournalInv' BY StutterInv DEF Intact
<1>2. Restored' BY DEF Intact, Restored, vars
<1>3. Running /\ op # Resetting => CacheOk'
  BY DEF Intact, CacheOk, PositionOk, Consumed, Target, vars
<1> QED BY <1>1, <1>2, <1>3 DEF Intact, vars, Running

\* Both slots erased: whatever was spoiled before is gone.
LEMMA EraseAllRepairs == JournalInv /\ EraseAll => Intact'
<1> SUFFICES ASSUME JournalInv, EraseAll PROVE Intact' OBVIOUS
<1>1. JournalInv' BY ResetInv
<1>2. acked' = Blank BY DEF EraseAll, JournalInv, AckedOk
<1>3. ~Running' BY QuietTypes DEF EraseAll, Running
<1>4. \A s \in Slots : Orderly(flash'[s]) BY DEF EraseAll, Orderly
<1> QED BY <1>1, <1>2, <1>3, <1>4 DEF Intact, Restored

\* Only the erasing of both slots ends the state in which nothing is promised.
LEMMA SpoiledStays == spoiled /\ [Next]_vars /\ ~EraseAll => spoiled'
BY DEF Next, vars, Boot, BootReadError, PowerLoss, Persist, EraseSlot, EraseFails,
   PowerLossInErase, WriteRecord, WriteCorrupts, WriteFails, PowerLossInWrite,
   VerifyOk, VerifyFails, PowerLossInVerify, FactoryReset, EraseAllFails,
   PowerLossInReset

\* Every step of an intact flash leaves it intact or sets spoiled.
LEMMA IntactStep == Intact /\ ~spoiled' /\ [Next]_vars => Intact'
BY BootRestores, PersistRestores, EraseRestores, WriteRestores, VerifyOkRestores,
   VerifyFailsRestores, QuietRestores, ResetRestores, StutterRestores
   DEF Next

\* Cache and flash agree at every step of every operation, as long as no write has
\* failed and no erase was torn since both slots were last erased.
THEOREM RestoreInvariant == Spec => []RestoreInv
<1>1. Init => RestoreInv
  BY IntactInit DEF RestoreInv, Intact
<1>2. RestoreInv /\ [Next]_vars => RestoreInv'
  <2> SUFFICES ASSUME RestoreInv, [Next]_vars PROVE RestoreInv' OBVIOUS
  <2>1. JournalInv' BY JournalInvStep DEF RestoreInv
  <2>2. spoiled' \/ Intact'
    BY IntactStep, SpoiledStays, EraseAllRepairs DEF RestoreInv
  <2> QED BY <2>1, <2>2 DEF RestoreInv
<1> QED BY <1>1, <1>2, PTL DEF Spec

\* Until then a reboot at any moment restores the image acknowledged last, or a
\* newer one whose persist was under way or had failed.
THEOREM AcknowledgedIsRestored == Spec => []AckedRestored
<1>1. RestoreInv => AckedRestored BY DEF RestoreInv, Intact, AckedRestored
<1> QED BY <1>1, RestoreInvariant, PTL

\* Until then write_slot programs only erased records.
THEOREM OnlyErasedIsProgrammed == Spec => []ProgramsErasedRecords
<1>1. RestoreInv => ProgramsErasedRecords
  BY WriteRestores DEF RestoreInv, ProgramsErasedRecords
<1> QED BY <1>1, RestoreInvariant, PTL
=============================================================================
