--------------------------- MODULE NandCacheProofs ---------------------------
(***************************************************************************)
(* Proofs about NandCache for every number of slots, blocks and cells and  *)
(* every width of the LRU clock.  The first two theorems hold whatever     *)
(* faults happen; the others assume none does.                             *)
(***************************************************************************)
EXTENDS NandCache, TLAPS

(* No fault happens and the .nand file has its full size. *)
Healthy == Faults = {} /\ FileBlocks = {MainBlocks}

------------------------------------------------------------------------------
(* Typing *)

(* Lemma: the LRU clock stays a number below its modulus. *)
LEMMA TickType == clock \in 0..ClockMod-1 => Tick \in 0..ClockMod-1
  BY SizesAssumption DEF Tick

(* Lemma: editing a block yields a block. *)
LEMMA ApplyType ==
  ASSUME NEW e \in Edits, NEW x \in Content
  PROVE  Apply(e, x) \in Content
<1>1. CASE e \in [op : {"get"}]
  BY <1>1 DEF Apply
<1>2. CASE e \in [op : {"erase"}]
  BY <1>2, ValuesAssumption DEF Apply, Blank, Content
<1>3. CASE e \in [op : {"set"}, cell : Cells, value : Values]
  BY <1>3 DEF Apply, Content
<1>4. QED
  BY <1>1, <1>2, <1>3 DEF Edits

(* Lemma: flushing a slot leaves a well-formed file. *)
LEMMA FlushType ==
  ASSUME TypeOK, NEW s \in Slots, NEW k \in 0..NumCells
  PROVE  /\ FileAfter(s, k) \in [Blocks -> Content]
         /\ LenAfter(s, k) \in 0..NumBlocks
<1> USE DEF TypeOK, Slot
<1>1. DataOf(s) \in Content
  BY DEF DataOf
<1>2. ASSUME NEW b \in Blocks, NEW x \in Content
      PROVE  FileWith(b, x, k) \in [Blocks -> Content]
  BY <1>2, ValuesAssumption DEF FileWith, Content
<1>3. FileAfter(s, k) \in [Blocks -> Content]
  BY <1>1, <1>2 DEF FileAfter, Writes
<1>4. LenAfter(s, k) \in 0..NumBlocks
  BY SizesAssumption DEF LenAfter, Writes, Blocks, NoBlock
<1>5. QED
  BY <1>3, <1>4

(* Lemma: a transfer moves at most a whole block. *)
LEMMA MovedType == \A f : Moved(f) \subseteq 0..NumCells
  BY SizesAssumption DEF Moved

(* Lemma: what is read from a well-formed file is a block. *)
LEMMA FetchType ==
  ASSUME NEW f \in [Blocks -> Content], NEW b \in Blocks, NEW r
  PROVE  Fetched(f, b, r) \in Content
  BY ValuesAssumption DEF Fetched, Blank, Content

(* Lemma: EmptySlot is a slot. *)
LEMMA EmptySlotType == EmptySlot \in Slot /\ Blank \in Content
  BY ValuesAssumption, SizesAssumption DEF EmptySlot, Slot, Blank, Content

(* Type correctness: every variable keeps its type, whatever faults occur. *)
THEOREM TypeCorrect == Spec => []TypeOK
<1>1. Init => TypeOK
  <2> SUFFICES ASSUME Init PROVE TypeOK
    OBVIOUS
  <2>1. slot \in [Slots -> Slot]
    BY EmptySlotType DEF Init
  <2>2. 0 \in 0..ClockMod-1 /\ 1 \in Slots /\ len \in 0..NumBlocks
    BY SizesAssumption DEF Slots, Init
  <2>3. QED
    BY <2>1, <2>2, EmptySlotType DEF Init, TypeOK
<1>2. TypeOK /\ [Next]_vars => TypeOK'
  <2> SUFFICES ASSUME TypeOK, [Next]_vars PROVE TypeOK'
    OBVIOUS
  <2>1. CASE Open
    <3>1. slot' \in [Slots -> Slot]
      BY <2>1 DEF Open, TypeOK, Slot
    <3>2. QED
      BY <2>1, <3>1 DEF Open, TypeOK, card
  <2>2. ASSUME NEW b \in Blocks, NEW e \in Edits, AccessHit(b, e)
        PROVE  TypeOK'
    <3>1. PICK s \in Slots : Hit(s, b, e)
      BY <2>2 DEF AccessHit
    <3>2. Apply(e, slot[s].data) \in Content /\ Apply(e, oom) \in Content
      BY ApplyType DEF TypeOK, Slot
    <3>3. (slot[s].dirty \/ Dirties(e)) \in BOOLEAN /\ Tick \in 0..ClockMod-1
      BY TickType DEF TypeOK, Slot
    <3>4. slot' \in [Slots -> Slot]
      BY <3>1, <3>2, <3>3 DEF TypeOK, Slot, Hit
    <3>5. QED
      BY <2>2, <3>1, <3>2, <3>3, <3>4 DEF AccessHit, Hit, TypeOK, card
  <2>3. ASSUME NEW b \in Blocks, NEW e \in Edits, AccessMiss(b, e)
        PROVE  TypeOK'
    <3>1. PICK s \in Slots, k \in Moved("write"), r \in Moved("read") :
            \E x \in BufferFor(s) : Refill(s, b, e, k, r, x)
      BY <2>3 DEF AccessMiss
    <3>1a. PICK buf \in BufferFor(s) : Refill(s, b, e, k, r, buf)
      BY <3>1
    <3>2. FileAfter(s, k) \in [Blocks -> Content] /\ len' \in 0..NumBlocks
      BY <3>1a, FlushType, MovedType DEF Refill
    <3>3. Apply(e, Fetched(FileAfter(s, k), b, r)) \in Content
      BY <3>2, FetchType, ApplyType
    <3>4. buf \in {"null", "own", "oom"}
      BY <3>1a DEF BufferFor, TypeOK, Slot
    <3>5. Dirties(e) \in BOOLEAN /\ Tick \in 0..ClockMod-1
      BY TickType DEF TypeOK, Dirties
    <3>6. slot' \in [Slots -> Slot] /\ oom' \in Content
      BY <3>1a, <3>3, <3>4, <3>5 DEF TypeOK, Slot, Refill
    <3>7. QED
      BY <2>3, <3>1a, <3>2, <3>5, <3>6 DEF AccessMiss, Refill, TypeOK
  <2>4. CASE SaveBegin
    BY <2>4, SizesAssumption DEF SaveBegin, TypeOK, ram, card, Slots
  <2>5. CASE SaveStep
    <3>1. file' \in [Blocks -> Content] /\ len' \in 0..NumBlocks
      BY <2>5, FlushType, MovedType DEF SaveStep, TypeOK
    <3>2. slot' \in [Slots -> Slot]
      BY <2>5 DEF SaveStep, TypeOK, Slot
    <3>3. cursor' \in Slots /\ mode' \in {"off", "run", "save"}
      BY <2>5, SizesAssumption DEF SaveStep, TypeOK, Slots, MoreSlots
    <3>4. QED
      BY <2>5, <3>1, <3>2, <3>3 DEF SaveStep, TypeOK
  <2>6. CASE Crash
    <3>1. file' \in [Blocks -> Content] /\ len' \in 0..NumBlocks
      BY <2>6, FlushType DEF Crash, TypeOK, card
    <3>2. slot' \in [Slots -> Slot]
      BY <2>6, EmptySlotType DEF Crash
    <3>3. 0 \in 0..ClockMod-1 /\ 1 \in Slots
      BY SizesAssumption DEF Slots
    <3>4. QED
      BY <2>6, <3>1, <3>2, <3>3, EmptySlotType DEF Crash, TypeOK
  <2>7. CASE UNCHANGED vars
    BY <2>7 DEF vars, TypeOK
  <2>8. QED
    BY <2>1, <2>2, <2>3, <2>4, <2>5, <2>6, <2>7 DEF Next, Access
<1>3. QED
  BY <1>1, <1>2, PTL DEF Spec

------------------------------------------------------------------------------
(* One slot per block *)

(* No block is ever held by two slots, whatever faults occur: a block is   *)
(* fetched only after the whole array was scanned for it.                  *)
THEOREM NoBlockTwice == Spec => []OneSlotPerBlock
<1>1. Init => OneSlotPerBlock
  BY DEF Init, OneSlotPerBlock, EmptySlot
<1>2. TypeOK /\ OneSlotPerBlock /\ [Next]_vars => OneSlotPerBlock'
  <2> SUFFICES ASSUME TypeOK, OneSlotPerBlock, [Next]_vars
               PROVE  OneSlotPerBlock'
    OBVIOUS
  <2>1. CASE Open
    BY <2>1 DEF Open, OneSlotPerBlock, TypeOK, Slot
  <2>2. ASSUME NEW b \in Blocks, NEW e \in Edits, AccessHit(b, e)
        PROVE  OneSlotPerBlock'
    BY <2>2 DEF AccessHit, IsHolder, Hit, OneSlotPerBlock, TypeOK
  <2>3. ASSUME NEW b \in Blocks, NEW e \in Edits, AccessMiss(b, e)
        PROVE  OneSlotPerBlock'
    BY <2>3 DEF AccessMiss, Cached, Refill, OneSlotPerBlock, TypeOK
  <2>4. CASE SaveBegin
    BY <2>4 DEF SaveBegin, OneSlotPerBlock, ram
  <2>5. CASE SaveStep
    BY <2>5 DEF SaveStep, OneSlotPerBlock, TypeOK, Slot
  <2>6. CASE Crash
    BY <2>6 DEF Crash, OneSlotPerBlock, EmptySlot
  <2>7. CASE UNCHANGED vars
    BY <2>7 DEF vars, OneSlotPerBlock
  <2>8. QED
    BY <2>1, <2>2, <2>3, <2>4, <2>5, <2>6, <2>7 DEF Next, Access
<1>3. QED
  BY <1>1, <1>2, TypeCorrect, PTL DEF Spec

------------------------------------------------------------------------------
(* Without faults *)

(***************************************************************************)
(* The inductive invariant of a healthy card: besides typing and           *)
(* uniqueness, no slot shares the fallback buffer, the file has its full   *)
(* length and is open while the machine runs, a slot marked clean mirrors  *)
(* the file, and a save has cleaned every slot before its cursor.          *)
(***************************************************************************)
FileReady ==
  /\ len >= MainBlocks
  /\ mode # "off" => fp
OwnBuffers   == \A s \in Slots : slot[s].buf # "oom"
OffIsEmpty   == mode = "off" => \A s \in Slots : IsEmpty(s)
SaveProgress == mode = "save" => \A s \in Slots : s < cursor => ~slot[s].dirty

HealthyInv ==
  /\ TypeOK
  /\ OneSlotPerBlock
  /\ FileReady
  /\ OwnBuffers
  /\ OffIsEmpty
  /\ CleanMirrorsFile
  /\ SaveProgress

(* Lemma: a main block is a block and none of them is NoBlock. *)
LEMMA MainFacts == Main \subseteq Blocks /\ Blocks \subseteq Int /\ NoBlock \notin Blocks
  BY SizesAssumption DEF Main, Blocks, NoBlock

(* Lemma: a full transfer moves the whole block. *)
LEMMA WholeBlock ==
  ASSUME NEW x \in Content, NEW y
  PROVE  [c \in Cells |-> IF c < NumCells THEN x[c] ELSE y[c]] = x
  BY SizesAssumption DEF Content, Cells

(* Lemma: without faults every transfer is a full one. *)
LEMMA HealthyMoved == Healthy => \A f : Moved(f) = {NumCells}
  BY DEF Healthy, Moved

(* Lemma: flushing slot s changes the file at that slot's block only, and   *)
(* there puts the slot's contents.                                          *)
LEMMA FlushEffect ==
  ASSUME TypeOK, OwnBuffers, len >= MainBlocks, NEW s \in Slots, NEW d \in Main
  PROVE  FileAfter(s, NumCells)[d] =
           IF Writes(s) /\ slot[s].block = d THEN slot[s].data ELSE file[d]
<1>1. slot[s].data \in Content /\ DataOf(s) = slot[s].data
  BY DEF DataOf, OwnBuffers, TypeOK, Slot
<1>2. d \in Blocks /\ d < len /\ d \in Int /\ len \in Int
  BY MainFacts, SizesAssumption DEF TypeOK, Main, Blocks
<1>3. ASSUME Writes(s), slot[s].block = d
      PROVE  FileWith(d, slot[s].data, NumCells)[d] = slot[s].data
  <2>1. FileWith(d, slot[s].data, NumCells)[d] =
          [c \in Cells |-> IF c < NumCells THEN slot[s].data[c] ELSE file[d][c]]
    BY <1>2 DEF FileWith
  <2>2. QED
    BY <2>1, <1>1, WholeBlock
<1>4. ASSUME slot[s].block # d
      PROVE  FileWith(slot[s].block, slot[s].data, NumCells)[d] = file[d]
  BY <1>2, <1>4 DEF FileWith
<1>5. NumCells > 0
  BY SizesAssumption
<1>6. QED
  BY <1>1, <1>3, <1>4, <1>5 DEF FileAfter

(* Lemma: flushing never shortens the file. *)
LEMMA FlushLen ==
  ASSUME TypeOK, NEW s \in Slots, NEW k
  PROVE  LenAfter(s, k) >= len
  BY SizesAssumption DEF TypeOK, LenAfter, Slot, Blocks, Writes, NoBlock

(* Lemma: a full read of a main block yields the file's copy. *)
LEMMA FetchEffect ==
  ASSUME fp, NEW f \in [Blocks -> Content], NEW b \in Main
  PROVE  Fetched(f, b, NumCells) = f[b]
<1>1. b \in Blocks /\ b < MainBlocks
  BY MainFacts, SizesAssumption DEF Main
<1>2. Fetched(f, b, NumCells) = [c \in Cells |-> IF c < NumCells THEN f[b][c] ELSE Erased]
  BY <1>1 DEF Fetched
<1>3. f[b] \in Content
  BY <1>1
<1>4. QED
  BY <1>2, <1>3, SizesAssumption DEF Content, Cells

(* Lemma: a refill leaves every slot but the victim alone, and the victim   *)
(* with the file's copy of b, edited.                                       *)
LEMMA RefillEffect ==
  ASSUME HealthyInv, Healthy, mode = "run",
         NEW b \in Blocks, NEW e \in Edits, ~Cached(b),
         NEW s \in Slots, NEW buf \in BufferFor(s),
         Refill(s, b, e, NumCells, NumCells, buf)
  PROVE  /\ slot' \in [Slots -> Slot]
         /\ \A t \in Slots : t # s => slot'[t] = slot[t]
         /\ slot'[s].block = b /\ slot'[s].dirty = Dirties(e) /\ slot'[s].buf # "oom"
         /\ b \in Main => slot'[s].data = Apply(e, file[b])
         /\ \A d \in Main : file'[d] = IF slot[s].block = d THEN slot[s].data ELSE file[d]
<1>1. buf \in {"null", "own"}
  BY DEF BufferFor, HealthyInv, OwnBuffers, Healthy, TypeOK, Slot
<1>2. NumCells \in 0..NumCells
  BY SizesAssumption
<1>3. FileAfter(s, NumCells) \in [Blocks -> Content]
  BY <1>2, FlushType DEF HealthyInv
<1>4. Fetched(FileAfter(s, NumCells), b, NumCells) \in Content
  BY <1>3, FetchType
<1>5. Apply(e, Fetched(FileAfter(s, NumCells), b, NumCells)) \in Content
  BY <1>4, ApplyType
<1>6. Tick \in 0..ClockMod-1 /\ Dirties(e) \in BOOLEAN
  BY TickType DEF HealthyInv, TypeOK, Dirties
<1>7. /\ slot' \in [Slots -> Slot]
      /\ \A t \in Slots : t # s => slot'[t] = slot[t]
      /\ slot'[s].block = b /\ slot'[s].dirty = Dirties(e) /\ slot'[s].buf # "oom"
      /\ slot'[s].data = Apply(e, Fetched(FileAfter(s, NumCells), b, NumCells))
  BY <1>1, <1>5, <1>6 DEF Refill, HealthyInv, TypeOK, Slot
<1>8. fp
  BY DEF HealthyInv, FileReady
<1>9. \A d \in Main : file'[d] = IF slot[s].block = d THEN slot[s].data ELSE file[d]
  <2> TAKE d \in Main
  <2>1. file'[d] = IF Writes(s) /\ slot[s].block = d THEN slot[s].data ELSE file[d]
    BY FlushEffect DEF Refill, HealthyInv, FileReady
  <2>2. slot[s].block = d => slot[s].block # NoBlock
    BY MainFacts
  <2>3. slot[s].block = d /\ ~slot[s].dirty => file[d] = slot[s].data
    BY DEF HealthyInv, CleanMirrorsFile, DataOf, OwnBuffers
  <2>4. QED
    BY <2>1, <2>2, <2>3, <1>8 DEF Writes
<1>10. ASSUME b \in Main
       PROVE  Fetched(FileAfter(s, NumCells), b, NumCells) = file[b]
  <2>1. slot[s].block # b
    BY DEF Cached
  <2>2. file'[b] = file[b]
    BY <1>9, <1>10, <2>1
  <2>3. QED
    BY <1>3, <1>8, <1>10, <2>2, FetchEffect DEF Refill
<1>11. QED
  BY <1>7, <1>9, <1>10

(* Lemma: the fault-free disjunct of a miss. *)
LEMMA MissCases ==
  ASSUME Healthy, NEW b, NEW e, AccessMiss(b, e)
  PROVE  \E s \in Slots : \E buf \in BufferFor(s) :
           Refill(s, b, e, NumCells, NumCells, buf)
  BY HealthyMoved DEF AccessMiss

(* Lemma: a save step cleans its slot and puts its contents in the file.    *)
LEMMA SaveStepEffect ==
  ASSUME HealthyInv, Healthy, SaveStep
  PROVE  /\ slot' = [slot EXCEPT ![cursor].dirty = FALSE]
         /\ len' >= MainBlocks
         /\ \A d \in Main :
              file'[d] = IF slot[cursor].block = d THEN slot[cursor].data ELSE file[d]
<1>1. cursor \in Slots /\ fp /\ len \in Int /\ len >= MainBlocks
  BY DEF HealthyInv, TypeOK, FileReady, SaveStep
<1>2. file' = FileAfter(cursor, NumCells) /\ len' = LenAfter(cursor, NumCells)
  BY HealthyMoved DEF SaveStep
<1>3. len' >= MainBlocks
  <2>1. LenAfter(cursor, NumCells) \in Int /\ MainBlocks \in Int
    BY <1>1, FlushType, SizesAssumption DEF HealthyInv
  <2>2. QED
    BY <1>1, <1>2, <2>1, FlushLen DEF HealthyInv
<1>4. ASSUME NEW d \in Main
      PROVE  file'[d] = IF slot[cursor].block = d THEN slot[cursor].data ELSE file[d]
  <2>1. file'[d] = IF Writes(cursor) /\ slot[cursor].block = d
                   THEN slot[cursor].data ELSE file[d]
    BY <1>1, <1>2, FlushEffect DEF HealthyInv
  <2>2. slot[cursor].block = d => slot[cursor].block # NoBlock
    BY MainFacts
  <2>3. slot[cursor].block = d /\ ~slot[cursor].dirty => file[d] = slot[cursor].data
    BY <1>1 DEF HealthyInv, CleanMirrorsFile, DataOf, OwnBuffers
  <2>4. QED
    BY <2>1, <2>2, <2>3, <1>1 DEF Writes
<1>5. QED
  BY <1>3, <1>4 DEF SaveStep

(* Lemma: the healthy invariant is inductive. *)
LEMMA HealthyInit == Healthy /\ Init => HealthyInv
<1> SUFFICES ASSUME Healthy, Init PROVE HealthyInv
  OBVIOUS
<1>1. TypeOK /\ OneSlotPerBlock
  <2>1. slot \in [Slots -> Slot]
    BY EmptySlotType DEF Init
  <2>2. 0 \in 0..ClockMod-1 /\ 1 \in Slots /\ len \in 0..NumBlocks
    BY SizesAssumption DEF Slots, Init
  <2>3. QED
    BY <2>1, <2>2, EmptySlotType DEF Init, TypeOK, OneSlotPerBlock, EmptySlot
<1>2. len = MainBlocks
  BY DEF Healthy, Init
<1>3. NoBlock \notin Main
  BY MainFacts
<1>4. QED
  BY <1>1, <1>2, <1>3, SizesAssumption
     DEF Init, HealthyInv, FileReady, OwnBuffers, OffIsEmpty, IsEmpty,
         CleanMirrorsFile, SaveProgress, EmptySlot

(* Lemma: every step of a healthy card preserves the healthy invariant.     *)
LEMMA HealthyStep ==
  ASSUME Healthy, HealthyInv, TypeOK', OneSlotPerBlock', [Next]_vars
  PROVE  HealthyInv'
<1> USE DEF HealthyInv
<1>1. CASE Open
  <2>1. fp'
    BY <1>1 DEF Open, Healthy
  <2>2. \A t \in Slots : slot'[t].block = NoBlock /\ slot'[t].buf = slot[t].buf
    BY <1>1 DEF Open, TypeOK, Slot
  <2>3. QED
    BY <1>1, <2>1, <2>2, MainFacts
       DEF Open, FileReady, OwnBuffers, OffIsEmpty, CleanMirrorsFile, SaveProgress, card
<1>2. ASSUME NEW b \in Blocks, NEW e \in Edits, AccessHit(b, e)
      PROVE  HealthyInv'
  <2>1. PICK s \in Slots : IsHolder(s, b) /\ Hit(s, b, e)
    BY <1>2 DEF AccessHit
  <2>2. mode = "run" /\ mode' = "run" /\ file' = file /\ len' = len /\ fp' = fp
    BY <1>2, <2>1 DEF AccessHit, Hit, card
  <2>3. slot[s].buf # "oom" /\ slot[s].block = b
    BY <2>1 DEF OwnBuffers, IsHolder
  <2>4. \A t \in Slots : t # s => slot'[t] = slot[t]
    BY <2>1 DEF Hit, TypeOK
  <2>5. /\ slot'[s].block = b /\ slot'[s].buf = slot[s].buf
        /\ slot'[s].dirty = (slot[s].dirty \/ Dirties(e))
        /\ slot'[s].data = Apply(e, slot[s].data)
    BY <2>1, <2>3 DEF Hit, TypeOK
  <2>6. ~Dirties(e) => Apply(e, slot[s].data) = slot[s].data
    BY DEF Dirties, Apply, Edits
  <2>7. OwnBuffers'
    BY <2>3, <2>4, <2>5 DEF OwnBuffers
  <2>8. CleanMirrorsFile'
    BY <2>2, <2>3, <2>4, <2>5, <2>6, <2>7
       DEF CleanMirrorsFile, DataOf, OwnBuffers
  <2>9. QED
    BY <2>2, <2>7, <2>8, <1>2 DEF FileReady, OffIsEmpty, SaveProgress
<1>3. ASSUME NEW b \in Blocks, NEW e \in Edits, AccessMiss(b, e)
      PROVE  HealthyInv'
  <2>1. PICK s \in Slots : \E buf \in BufferFor(s) :
                            Refill(s, b, e, NumCells, NumCells, buf)
    BY <1>3, MissCases
  <2>2. PICK buf \in BufferFor(s) : Refill(s, b, e, NumCells, NumCells, buf)
    BY <2>1
  <2>3. mode = "run" /\ mode' = "run" /\ ~Cached(b) /\ fp' = fp
        /\ len' = LenAfter(s, NumCells)
    BY <1>3, <2>2 DEF AccessMiss, Refill
  <2>4. /\ \A t \in Slots : t # s => slot'[t] = slot[t]
        /\ slot'[s].block = b /\ slot'[s].dirty = Dirties(e) /\ slot'[s].buf # "oom"
        /\ b \in Main => slot'[s].data = Apply(e, file[b])
        /\ \A d \in Main : file'[d] = IF slot[s].block = d THEN slot[s].data ELSE file[d]
    BY <2>2, <2>3, RefillEffect
  <2>5. OwnBuffers'
    BY <2>4 DEF OwnBuffers
  <2>6. FileReady'
    <3>1. len' \in Int /\ len \in Int /\ MainBlocks \in Int
      BY SizesAssumption DEF TypeOK
    <3>2. QED
      BY <2>3, <3>1, FlushLen DEF FileReady
  <2>7. CleanMirrorsFile'
    <3> SUFFICES ASSUME NEW t \in Slots, slot'[t].block \in Main, ~slot'[t].dirty
                 PROVE  slot'[t].data = file'[slot'[t].block]
      BY <2>5 DEF CleanMirrorsFile, DataOf, OwnBuffers
    <3>1. CASE t = s
      <4>1. Apply(e, file[b]) = file[b]
        BY <2>4, <3>1 DEF Dirties, Apply, Edits
      <4>2. slot[s].block # b
        BY <2>3 DEF Cached
      <4>3. QED
        BY <2>4, <3>1, <4>1, <4>2
    <3>2. CASE t # s
      <4>1. slot[t].block # slot[s].block
        BY <2>4, <3>2, MainFacts DEF OneSlotPerBlock
      <4>2. slot[t].data = file[slot[t].block]
        BY <2>4, <3>2 DEF CleanMirrorsFile, DataOf, OwnBuffers
      <4>3. QED
        BY <2>4, <3>2, <4>1, <4>2
    <3>3. QED
      BY <3>1, <3>2
  <2>8. QED
    BY <2>3, <2>5, <2>6, <2>7 DEF OffIsEmpty, SaveProgress
<1>4. CASE SaveBegin
  BY <1>4 DEF SaveBegin, ram, card, FileReady, OwnBuffers, OffIsEmpty, IsEmpty,
              CleanMirrorsFile, DataOf, SaveProgress, TypeOK, Slots
<1>5. CASE SaveStep
  <2>1. /\ slot' = [slot EXCEPT ![cursor].dirty = FALSE]
        /\ len' >= MainBlocks
        /\ \A d \in Main :
             file'[d] = IF slot[cursor].block = d THEN slot[cursor].data ELSE file[d]
    BY <1>5, SaveStepEffect
  <2>2. cursor \in Slots /\ mode = "save" /\ fp' = fp /\ oom' = oom
    BY <1>5 DEF SaveStep, TypeOK
  <2>3. \A t \in Slots :
          /\ slot'[t].block = slot[t].block /\ slot'[t].data = slot[t].data
          /\ slot'[t].buf = slot[t].buf
          /\ slot'[t].dirty = IF t = cursor THEN FALSE ELSE slot[t].dirty
    BY <2>1, <2>2 DEF TypeOK, Slot
  <2>4. CleanMirrorsFile' /\ OwnBuffers'
    <3>1. OwnBuffers'
      BY <2>3 DEF OwnBuffers
    <3> SUFFICES ASSUME NEW t \in Slots, slot'[t].block \in Main, ~slot'[t].dirty
                 PROVE  slot'[t].data = file'[slot'[t].block]
      BY <3>1 DEF CleanMirrorsFile, DataOf, OwnBuffers
    <3>2. CASE t = cursor
      BY <2>1, <2>3, <3>2
    <3>3. CASE t # cursor
      <4>1. slot[t].block \in Main /\ slot[t].block # NoBlock
        BY <2>3, MainFacts
      <4>2. slot[t].block # slot[cursor].block
        BY <2>2, <3>3, <4>1 DEF OneSlotPerBlock
      <4>3. slot[t].data = file[slot[t].block]
        BY <2>3, <3>3, <4>1 DEF CleanMirrorsFile, DataOf, OwnBuffers
      <4>4. QED
        BY <2>1, <2>3, <4>2, <4>3
    <3>4. QED
      BY <3>2, <3>3
  <2>5. SaveProgress'
    <3> SUFFICES ASSUME mode' = "save", NEW t \in Slots, t < cursor'
                 PROVE  ~slot'[t].dirty
      BY DEF SaveProgress
    <3>1. cursor' = cursor + 1
      BY <1>5 DEF SaveStep
    <3>2. t < cursor \/ t = cursor
      BY <2>2, <3>1, SizesAssumption DEF Slots
    <3>3. QED
      BY <2>2, <2>3, <3>2 DEF SaveProgress
  <2>6. FileReady' /\ OffIsEmpty'
    BY <1>5, <2>1, <2>2 DEF SaveStep, FileReady, OffIsEmpty
  <2>7. QED
    BY <2>4, <2>5, <2>6
<1>6. CASE Crash
  <2>1. len' >= MainBlocks
    <3>1. len' \in Int /\ len \in Int /\ MainBlocks \in Int
      BY SizesAssumption DEF TypeOK
    <3>2. QED
      BY <1>6, <3>1, FlushLen DEF Crash, card, FileReady
  <2>2. QED
    BY <1>6, <2>1, MainFacts
       DEF Crash, FileReady, OwnBuffers, OffIsEmpty, IsEmpty, CleanMirrorsFile,
           SaveProgress, EmptySlot
<1>7. CASE UNCHANGED vars
  BY <1>7 DEF vars, FileReady, OwnBuffers, OffIsEmpty, IsEmpty, CleanMirrorsFile,
              DataOf, SaveProgress
<1>8. QED
  BY <1>1, <1>2, <1>3, <1>4, <1>5, <1>6, <1>7 DEF Next, Access

(* Without faults a slot marked clean always mirrors the file, so evicting  *)
(* it loses nothing.                                                        *)
THEOREM CleanSlotsMirrorFile == Healthy => (Spec => []CleanMirrorsFile)
<1> SUFFICES ASSUME Healthy PROVE Spec => []CleanMirrorsFile
  OBVIOUS
<1>1. Init => HealthyInv
  BY HealthyInit
<1>2. TypeOK' /\ OneSlotPerBlock' /\ HealthyInv /\ [Next]_vars => HealthyInv'
  BY HealthyStep
<1>3. HealthyInv => CleanMirrorsFile
  BY DEF HealthyInv
<1>4. QED
  BY <1>1, <1>2, <1>3, TypeCorrect, NoBlockTwice, PTL DEF Spec

------------------------------------------------------------------------------
(* What the machine reads *)

(* A cached block reads as its slot's data, another as the file has it.     *)
ViewIs ==
  /\ \A s \in Slots : slot[s].block \in Main => View(slot[s].block) = slot[s].data
  /\ \A b \in Main : (\A s \in Slots : slot[s].block # b) => View(b) = file[b]

(* Lemma: on a healthy card that is what the machine reads.                 *)
LEMMA ViewFacts == HealthyInv => ViewIs
<1> SUFFICES ASSUME HealthyInv PROVE ViewIs
  OBVIOUS
<1> USE DEF HealthyInv
<1>1. ASSUME NEW s \in Slots, slot[s].block \in Main
      PROVE  View(slot[s].block) = slot[s].data
  <2> DEFINE b == slot[s].block
  <2>1. b # NoBlock
    BY <1>1, MainFacts
  <2>2. \A t \in Slots : slot[t].block = b => t = s
    BY <2>1 DEF OneSlotPerBlock
  <2>3. s <= s
    BY SizesAssumption DEF Slots
  <2>4. IsHolder(s, b)
    BY <2>2, <2>3 DEF IsHolder, FastHit, TypeOK
  <2>5. \A t \in Slots : IsHolder(t, b) => t = s
    BY <2>2 DEF IsHolder
  <2>6. (CHOOSE t \in Slots : IsHolder(t, b)) = s
    BY <2>4, <2>5
  <2>7. View(b) = DataOf(s)
    BY <2>6 DEF View, Cached
  <2>8. QED
    BY <2>7 DEF DataOf, OwnBuffers
<1>2. ASSUME NEW b \in Main, \A s \in Slots : slot[s].block # b
      PROVE  View(b) = file[b]
  <2>1. ~Cached(b) /\ b < MainBlocks
    BY <1>2, SizesAssumption DEF Cached, Main
  <2>2. CASE mode = "off"
    BY <2>1, <2>2 DEF View
  <2>3. CASE mode # "off"
    BY <2>1, <2>3, FetchEffect DEF View, FileReady, TypeOK
  <2>4. QED
    BY <2>2, <2>3
<1>3. QED
  BY <1>1, <1>2 DEF ViewIs

(* Without faults, a finished save has put every block of the main array in *)
(* the file as the machine last wrote it.                                   *)
THEOREM SavesAreDurable == Healthy => (Spec => SaveIsDurable)
<1> SUFFICES ASSUME Healthy PROVE Spec => SaveIsDurable
  OBVIOUS
<1>1. Init => HealthyInv
  BY HealthyInit
<1>2. TypeOK' /\ OneSlotPerBlock' /\ HealthyInv /\ [Next]_vars => HealthyInv'
  BY HealthyStep
<1>3. HealthyInv /\ HealthyInv' /\ [Next]_vars => MainIsFiled
  <2> SUFFICES ASSUME HealthyInv, HealthyInv', [Next]_vars,
                      mode = "save", mode' = "run", NEW b \in Main
               PROVE  file'[b] = View(b)'
    BY DEF MainIsFiled, SaveEnds
  <2>1. SaveStep /\ ~MoreSlots
    BY DEF Next, Access, Open, AccessHit, AccessMiss, SaveBegin, SaveStep, Crash, vars
  <2>2. \A t \in Slots : t = cursor \/ t < cursor
    BY <2>1, SizesAssumption DEF MoreSlots, HealthyInv, TypeOK, Slots
  <2>3. \A t \in Slots : ~slot'[t].dirty
    <3>1. \A t \in Slots : slot'[t].dirty = IF t = cursor THEN FALSE ELSE slot[t].dirty
      BY <2>1 DEF SaveStep, HealthyInv, TypeOK, Slot
    <3>2. QED
      BY <2>2, <3>1 DEF HealthyInv, SaveProgress
  <2>4. ViewIs'
    <3>1. HealthyInv' => ViewIs'
      BY ViewFacts, PTL
    <3>2. QED
      BY <3>1
  <2>5. CASE \E s \in Slots : slot'[s].block = b
    BY <2>3, <2>4, <2>5 DEF ViewIs, HealthyInv, CleanMirrorsFile, DataOf, OwnBuffers
  <2>6. CASE \A s \in Slots : slot'[s].block # b
    BY <2>4, <2>6 DEF ViewIs
  <2>7. QED
    BY <2>5, <2>6
<1>4. QED
  BY <1>1, <1>2, <1>3, TypeCorrect, NoBlockTwice, PTL DEF Spec, SaveIsDurable

(* Lemma: a hit edits what the machine reads at b, and nothing else.        *)
LEMMA HitView ==
  ASSUME HealthyInv, ViewIs, ViewIs', OneSlotPerBlock', OwnBuffers',
         NEW b \in Blocks, NEW e \in Edits, AccessHit(b, e)
  PROVE  /\ \A d \in Main : file'[d] = file[d]
         /\ \A d \in Main : View(d)' = IF d = b THEN Apply(e, View(b)) ELSE View(d)
         /\ slot'[last'].block = b
<1> USE DEF HealthyInv
<1>1. PICK s \in Slots : IsHolder(s, b) /\ Hit(s, b, e)
  BY DEF AccessHit
<1>2. slot[s].buf # "oom" /\ slot[s].block = b /\ file' = file /\ last' = s
  BY <1>1 DEF OwnBuffers, IsHolder, Hit, card
<1>3. /\ \A t \in Slots : t # s => slot'[t] = slot[t]
      /\ slot'[s].block = b /\ slot'[s].data = Apply(e, slot[s].data)
  BY <1>1, <1>2 DEF Hit, TypeOK
<1>4. ASSUME NEW d \in Main
      PROVE  View(d)' = IF d = b THEN Apply(e, View(b)) ELSE View(d)
  <2>1. CASE d = b
    BY <1>2, <1>3, <2>1 DEF ViewIs
  <2>2. CASE d # b /\ \E t \in Slots : slot[t].block = d
    <3>1. PICK t \in Slots : slot[t].block = d
      BY <2>2
    <3>2. slot'[t] = slot[t]
      BY <1>2, <1>3, <2>2, <3>1
    <3>3. QED
      BY <2>2, <3>1, <3>2 DEF ViewIs
  <2>3. CASE d # b /\ \A t \in Slots : slot[t].block # d
    <3>1. \A t \in Slots : slot'[t].block # d
      BY <1>3, <2>3
    <3>2. QED
      BY <1>2, <2>3, <3>1 DEF ViewIs
  <2>4. QED
    BY <2>1, <2>2, <2>3
<1>5. QED
  BY <1>2, <1>3, <1>4

(* Lemma: so does a miss, which may write one other block back on the way.  *)
LEMMA MissView ==
  ASSUME HealthyInv, Healthy, ViewIs, ViewIs',
         NEW b \in Blocks, NEW e \in Edits, AccessMiss(b, e)
  PROVE  /\ \E v \in Blocks \cup {NoBlock} : \A d \in Main :
              file'[d] = IF d = v THEN View(d) ELSE file[d]
         /\ \A d \in Main : View(d)' = IF d = b THEN Apply(e, View(b)) ELSE View(d)
         /\ slot'[last'].block = b
<1> USE DEF HealthyInv
<1>1. PICK s \in Slots : \E buf \in BufferFor(s) :
                          Refill(s, b, e, NumCells, NumCells, buf)
  BY MissCases
<1>2. PICK buf \in BufferFor(s) : Refill(s, b, e, NumCells, NumCells, buf)
  BY <1>1
<1>3. mode = "run" /\ ~Cached(b) /\ last' = s
  BY <1>2 DEF AccessMiss, Refill
<1>4. /\ \A t \in Slots : t # s => slot'[t] = slot[t]
      /\ slot'[s].block = b
      /\ b \in Main => slot'[s].data = Apply(e, file[b])
      /\ \A d \in Main : file'[d] = IF slot[s].block = d THEN slot[s].data ELSE file[d]
  BY <1>2, <1>3, RefillEffect
<1>5. \A d \in Main : file'[d] = IF d = slot[s].block THEN View(d) ELSE file[d]
  BY <1>4 DEF ViewIs
<1>6. ASSUME NEW d \in Main
      PROVE  View(d)' = IF d = b THEN Apply(e, View(b)) ELSE View(d)
  <2>1. CASE d = b
    <3>1. View(b) = file[b]
      BY <1>3, <2>1 DEF ViewIs, Cached
    <3>2. QED
      BY <1>4, <2>1, <3>1 DEF ViewIs
  <2>2. CASE d # b /\ d = slot[s].block
    <3>1. \A t \in Slots : slot'[t].block # d
      BY <1>4, <2>2, MainFacts DEF OneSlotPerBlock
    <3>2. View(d)' = file'[d]
      BY <3>1 DEF ViewIs
    <3>3. QED
      BY <1>5, <2>2, <3>2
  <2>3. CASE d # b /\ d # slot[s].block /\ \E t \in Slots : slot[t].block = d
    <3>1. PICK t \in Slots : slot[t].block = d
      BY <2>3
    <3>2. slot'[t] = slot[t]
      BY <1>4, <2>3, <3>1
    <3>3. QED
      BY <2>3, <3>1, <3>2 DEF ViewIs
  <2>4. CASE d # b /\ \A t \in Slots : slot[t].block # d
    <3>1. \A t \in Slots : slot'[t].block # d
      BY <1>4, <2>4
    <3>2. QED
      BY <1>5, <2>4, <3>1 DEF ViewIs
  <2>5. QED
    BY <2>1, <2>2, <2>3, <2>4
<1>7. slot[s].block \in Blocks \cup {NoBlock}
  BY DEF TypeOK, Slot
<1>8. QED
  BY <1>3, <1>4, <1>5, <1>6, <1>7

(* Lemma: a step of a save writes one block back and changes nothing the    *)
(* machine reads.                                                           *)
LEMMA SaveView ==
  ASSUME HealthyInv, Healthy, ViewIs, ViewIs', SaveStep
  PROVE  /\ \E v \in Blocks \cup {NoBlock} : \A d \in Main :
              file'[d] = IF d = v THEN View(d) ELSE file[d]
         /\ \A d \in Main : View(d)' = View(d)
<1> USE DEF HealthyInv
<1>1. /\ slot' = [slot EXCEPT ![cursor].dirty = FALSE]
      /\ \A d \in Main :
           file'[d] = IF slot[cursor].block = d THEN slot[cursor].data ELSE file[d]
  BY SaveStepEffect
<1>2. cursor \in Slots
  BY DEF TypeOK
<1>3. \A t \in Slots : slot'[t].block = slot[t].block /\ slot'[t].data = slot[t].data
  BY <1>1, <1>2 DEF TypeOK, Slot
<1>4. \A d \in Main : file'[d] = IF d = slot[cursor].block THEN View(d) ELSE file[d]
  BY <1>1, <1>2 DEF ViewIs
<1>5. ASSUME NEW d \in Main PROVE View(d)' = View(d)
  <2>1. CASE \E t \in Slots : slot[t].block = d
    <3>1. PICK t \in Slots : slot[t].block = d
      BY <2>1
    <3>2. QED
      BY <1>3, <3>1 DEF ViewIs
  <2>2. CASE \A t \in Slots : slot[t].block # d
    BY <1>2, <1>3, <1>4, <2>2 DEF ViewIs
  <2>3. QED
    BY <2>1, <2>2
<1>6. slot[cursor].block \in Blocks \cup {NoBlock}
  BY <1>2 DEF TypeOK, Slot
<1>7. QED
  BY <1>4, <1>5, <1>6

(* Without faults, an access changes what the machine reads in the block it *)
(* addresses and in no other.                                               *)
THEOREM AccessesAreLocal == Healthy => (Spec => OtherBlocksUntouched)
<1> SUFFICES ASSUME Healthy PROVE Spec => OtherBlocksUntouched
  OBVIOUS
<1>1. Init => HealthyInv
  BY HealthyInit
<1>2. TypeOK' /\ OneSlotPerBlock' /\ HealthyInv /\ [Next]_vars => HealthyInv'
  BY HealthyStep
<1>3. HealthyInv' => ViewIs'
  BY ViewFacts, PTL
<1>4. HealthyInv /\ HealthyInv' /\ [Next]_vars => [OnlyAddressedChanges]_vars
  <2> SUFFICES ASSUME HealthyInv, HealthyInv', Next, mode = "run", mode' = "run",
                      NEW d \in Main, d # slot'[last'].block
               PROVE  View(d)' = View(d)
    BY DEF OnlyAddressedChanges
  <2>1. PICK b \in Blocks, e \in Edits : AccessHit(b, e) \/ AccessMiss(b, e)
    BY DEF Next, Access, Open, SaveBegin, SaveStep, Crash
  <2>2. ViewIs /\ ViewIs'
    BY <1>3, ViewFacts
  <2>3. CASE AccessHit(b, e)
    BY <2>2, <2>3, HitView DEF HealthyInv
  <2>4. CASE AccessMiss(b, e)
    BY <2>2, <2>4, MissView DEF HealthyInv
  <2>5. QED
    BY <2>1, <2>3, <2>4
<1>5. QED
  BY <1>1, <1>2, <1>4, TypeCorrect, NoBlockTwice, PTL DEF Spec, OtherBlocksUntouched

------------------------------------------------------------------------------
(* Refinement *)

(* Lemma: a crash leaves the file as it was but for one block, which is a   *)
(* mixture of what the machine had written and what the file held.          *)
LEMMA CrashView ==
  ASSUME HealthyInv, ViewIs, ViewIs', Crash
  PROVE  /\ \A d \in Main : View(d)' = file'[d]
         /\ \/ \A d \in Main : file'[d] = file[d]
            \/ \E v \in Main, K \in SUBSET Cells : \A d \in Main :
                 file'[d] = IF d = v
                            THEN [c \in Cells |-> IF c \in K THEN View(v)[c] ELSE file[v][c]]
                            ELSE file[d]
<1> USE DEF HealthyInv
<1>1. \A d \in Main : View(d)' = file'[d]
  <2>1. \A t \in Slots : slot'[t].block = NoBlock
    BY DEF Crash, EmptySlot
  <2>2. QED
    BY <2>1, MainFacts DEF ViewIs
<1>2. CASE UNCHANGED card
  BY <1>1, <1>2 DEF card
<1>3. ASSUME NEW s \in Slots, NEW k \in 0..NumCells, file' = FileAfter(s, k),
             Writes(s), k > 0, slot[s].block \in Main
      PROVE  \E v \in Main, K \in SUBSET Cells : \A d \in Main :
               file'[d] = IF d = v
                          THEN [c \in Cells |-> IF c \in K THEN View(v)[c] ELSE file[v][c]]
                          ELSE file[d]
  <2> DEFINE v == slot[s].block
             K == {c \in Cells : c < k}
  <2>1. View(v) = slot[s].data /\ DataOf(s) = slot[s].data
    BY <1>3 DEF ViewIs, DataOf, OwnBuffers
  <2>2. ASSUME NEW d \in Main
        PROVE  file'[d] = IF d = v
                          THEN [c \in Cells |-> IF c \in K THEN View(v)[c] ELSE file[v][c]]
                          ELSE file[d]
    <3>1. d \in Blocks /\ ~(len <= d)
      BY MainFacts, SizesAssumption DEF FileReady, Main, TypeOK, Blocks
    <3>2. file'[d] = FileWith(v, slot[s].data, k)[d]
      BY <1>3, <2>1 DEF FileAfter
    <3>3. QED
      BY <2>1, <3>1, <3>2 DEF FileWith
  <2>3. K \in SUBSET Cells
    OBVIOUS
  <2> HIDE DEF K
  <2>4. QED
    BY <1>3, <2>2, <2>3
<1>4. ASSUME NEW s \in Slots, NEW k \in 0..NumCells, file' = FileAfter(s, k),
             ~(Writes(s) /\ k > 0 /\ slot[s].block \in Main)
      PROVE  \A d \in Main : file'[d] = file[d]
  <2> TAKE d \in Main
  <2>1. d \in Blocks /\ ~(len <= d)
    BY MainFacts, SizesAssumption DEF FileReady, Main, TypeOK, Blocks
  <2>2. QED
    BY <1>4, <2>1 DEF FileAfter, FileWith
<1>5. QED
  BY <1>1, <1>2, <1>3, <1>4 DEF Crash

(***************************************************************************)
(* Without faults the cache and its file are one array with a lagging      *)
(* disk: eviction, the LRU order and the fast path are invisible, and a    *)
(* crash loses nothing that had reached the file.                          *)
(***************************************************************************)
THEOREM CacheImplementsStore == Healthy => (Spec => ImplementsStore)
<1> SUFFICES ASSUME Healthy PROVE Spec => ImplementsStore
  OBVIOUS
<1>1. Init => HealthyInv
  BY HealthyInit
<1>2. TypeOK' /\ OneSlotPerBlock' /\ HealthyInv /\ [Next]_vars => HealthyInv'
  BY HealthyStep
<1>3. HealthyInv' => ViewIs'
  BY ViewFacts, PTL
<1>4. Init => Store!Init
  <2> SUFFICES ASSUME Init PROVE Store!Init
    OBVIOUS
  <2>1. \A b \in Main : View(b) = file[b]
    <3>1. ViewIs
      BY <1>1, ViewFacts
    <3>2. QED
      BY <3>1, MainFacts DEF ViewIs, Init, EmptySlot
  <2>2. MainFile \in [Main -> Content]
    BY MainFacts DEF MainFile, Init
  <2>3. MainView = MainFile
    BY <2>1 DEF MainView, MainFile
  <2>4. QED
    BY <2>2, <2>3 DEF Store!Init, Store!Content, Content
<1>5. HealthyInv /\ HealthyInv' /\ [Next]_vars => [Store!Next]_Store!vars
  <2> SUFFICES ASSUME HealthyInv, HealthyInv', [Next]_vars
               PROVE  [Store!Next]_Store!vars
    OBVIOUS
  <2> ViewIs /\ ViewIs'
    BY <1>3, ViewFacts
  <2> DEFINE Same     == \A d \in Main : View(d)' = View(d)
             Filed(v) == \A d \in Main : file'[d] = IF d = v THEN View(d) ELSE file[d]
             Kept     == \A d \in Main : file'[d] = file[d]
  <2>1. ASSUME Same, Kept PROVE UNCHANGED Store!vars
    BY <2>1 DEF Store!vars, MainView, MainFile
  <2>2. ASSUME Same, NEW v \in Blocks \cup {NoBlock}, Filed(v)
        PROVE  [Store!Next]_Store!vars
    <3>1. MainView' = MainView
      BY <2>2 DEF MainView
    <3>2. CASE v \in Main
      <4>1. MainFile' = [MainFile EXCEPT ![v] = MainView[v]]
        BY <2>2, <3>2 DEF MainFile, MainView
      <4>2. QED
        BY <3>1, <3>2, <4>1 DEF Store!Next, Store!WriteBack
    <3>3. CASE v \notin Main
      BY <2>1, <2>2, <3>3
    <3>4. QED
      BY <3>2, <3>3
  <2>3. ASSUME NEW b \in Blocks, NEW e \in Edits,
               NEW v \in Blocks \cup {NoBlock}, Filed(v) \/ Kept,
               \A d \in Main : View(d)' = IF d = b THEN Apply(e, View(b)) ELSE View(d)
        PROVE  [Store!Next]_Store!vars
    <3>1. CASE b \notin Main
      BY <2>1, <2>2, <2>3, <3>1
    <3>2. CASE b \in Main
      <4>1. View(b) \in Content
        BY <3>2, MainFacts DEF ViewIs, HealthyInv, TypeOK, Slot
      <4>2. Apply(e, View(b)) \in Store!Content
        BY <4>1, ApplyType DEF Store!Content, Content
      <4>3. MainView' = [MainView EXCEPT ![b] = Apply(e, View(b))]
        BY <2>3, <3>2 DEF MainView
      <4>4. MainFile' = MainFile \/ \E w \in Main :
              MainFile' = [MainFile EXCEPT ![w] = MainView[w]]
        <5>1. CASE Kept \/ v \notin Main
          BY <2>3, <5>1 DEF MainFile
        <5>2. CASE Filed(v) /\ v \in Main
          BY <5>2 DEF MainFile, MainView
        <5>3. QED
          BY <2>3, <5>1, <5>2
      <4>5. Store!Update(b)
        BY <4>2, <4>3, <4>4 DEF Store!Update
      <4>6. QED
        BY <3>2, <4>5 DEF Store!Next
    <3>3. QED
      BY <3>1, <3>2
  <2>4. CASE Open
    <3>1. \A t \in Slots : slot'[t].block = NoBlock /\ slot[t].block = NoBlock
      BY <2>4 DEF Open, HealthyInv, OffIsEmpty, IsEmpty, TypeOK, Slot
    <3>2. file' = file
      BY <2>4 DEF Open, card
    <3>3. Same /\ Kept
      BY <3>1, <3>2, MainFacts DEF ViewIs
    <3>4. QED
      BY <2>1, <3>3
  <2>5. ASSUME NEW b \in Blocks, NEW e \in Edits, AccessHit(b, e)
        PROVE  [Store!Next]_Store!vars
    BY <2>3, <2>5, HitView DEF HealthyInv
  <2>6. ASSUME NEW b \in Blocks, NEW e \in Edits, AccessMiss(b, e)
        PROVE  [Store!Next]_Store!vars
    BY <2>3, <2>6, MissView DEF HealthyInv
  <2>7. CASE SaveBegin
    <3>1. slot' = slot /\ file' = file
      BY <2>7 DEF SaveBegin, ram, card
    <3>2. Same /\ Kept
      BY <3>1 DEF ViewIs
    <3>3. QED
      BY <2>1, <3>2
  <2>8. CASE SaveStep
    BY <2>2, <2>8, SaveView DEF HealthyInv
  <2>9. CASE Crash
    <3>1. MainView' = MainFile'
      BY <2>9, CrashView DEF MainView, MainFile
    <3>2. CASE Kept
      <4>1. MainFile' = MainFile
        BY <3>2 DEF MainFile
      <4>2. QED
        BY <3>1, <4>1 DEF Store!Next, Store!Crash
    <3>3. CASE \E v \in Main, K \in SUBSET Cells : \A d \in Main :
                 file'[d] = IF d = v
                            THEN [c \in Cells |-> IF c \in K THEN View(v)[c] ELSE file[v][c]]
                            ELSE file[d]
      <4>1. PICK v \in Main, K \in SUBSET Cells : \A d \in Main :
                 file'[d] = IF d = v
                            THEN [c \in Cells |-> IF c \in K THEN View(v)[c] ELSE file[v][c]]
                            ELSE file[d]
        BY <3>3
      <4>2. MainFile' = [MainFile EXCEPT ![v] =
                          [c \in Cells |-> IF c \in K THEN MainView[v][c] ELSE MainFile[v][c]]]
        BY <4>1 DEF MainFile, MainView
      <4>3. QED
        BY <3>1, <4>2 DEF Store!Next, Store!Crash
    <3>4. QED
      BY <2>9, <3>2, <3>3, CrashView
  <2>10. CASE UNCHANGED vars
    <3>1. slot' = slot /\ file' = file
      BY <2>10 DEF vars
    <3>2. Same /\ Kept
      BY <3>1 DEF ViewIs
    <3>3. QED
      BY <2>1, <3>2
  <2>11. QED
    BY <2>4, <2>5, <2>6, <2>7, <2>8, <2>9, <2>10 DEF Next, Access
<1>6. QED
  BY <1>1, <1>2, <1>4, <1>5, TypeCorrect, NoBlockTwice, PTL
     DEF Spec, ImplementsStore, Store!Spec
==============================================================================
