------------------------------ MODULE NandCache ------------------------------
(***************************************************************************)
(* The demand paging of the NAND main array (components/nc2000/nand.cpp).  *)
(*                                                                         *)
(* The main array does not fit in PSRAM.  It lives in the .nand file and a *)
(* small array of slots caches its erase blocks: s_slots, with a           *)
(* least-recently-used victim, a dirty flag per slot and write-back on     *)
(* eviction.  nb_get, nb_set and nb_erase_block reach a block through      *)
(* nand_get_block; nand_flush_all writes every dirty slot when the user    *)
(* saves or leaves.  Everything runs in the main task, so the accesses are *)
(* atomic; a power loss may fall between any two of them, within a save,   *)
(* and within the write of a block.                                        *)
(*                                                                         *)
(* The faults the code can meet are parameters: an allocation that fails   *)
(* ("alloc", the slot then shares s_nand_oom), a seek, write or read of    *)
(* the card that fails or stops short ("write", "read"), and an open that  *)
(* fails ("open").                                                         *)
(***************************************************************************)
EXTENDS Integers

CONSTANTS
  NumSlots,     \* NAND_CACHE_SLOTS
  NumBlocks,    \* blocks the chip protocol can address
  MainBlocks,   \* blocks below s_nand_main_bytes
  NumCells,     \* places within a block
  Values,       \* what a cell can hold
  Erased,       \* 0xff
  Filler,       \* what the file system puts between the end of a file and a
                \* write beyond it
  FileBlocks,   \* sizes, in blocks, the .nand file may have on the card
  ClockMod,     \* 2^32: s_lru_clock is a uint32_t
  Faults        \* which of the faults below can happen

ASSUME SizesAssumption ==
  /\ NumSlots \in Nat \ {0}
  /\ NumBlocks \in Nat
  /\ MainBlocks \in 0..NumBlocks
  /\ NumCells \in Nat \ {0}
  /\ FileBlocks \subseteq 0..MainBlocks
  /\ ClockMod \in Nat \ {0}
ASSUME ValuesAssumption == Erased \in Values /\ Filler \in Values
ASSUME FaultsAssumption == Faults \subseteq {"alloc", "write", "read", "open"}

Slots   == 1..NumSlots
Blocks  == 0..NumBlocks-1
Main    == 0..MainBlocks-1
Cells   == 0..NumCells-1
Content == [Cells -> Values]
Blank   == [c \in Cells |-> Erased]
NoBlock == -1
NoSlot  == 0

VARIABLES
  slot,     \* s_slots
  oom,      \* s_nand_oom
  last,     \* s_last_slot
  clock,    \* s_lru_clock
  fp,       \* s_nand_fp is open
  file,     \* the .nand file; a block at or past len reads as Blank
  len,      \* its length in blocks
  mode,     \* "off" before the load and after a crash, "run", or "save"
  cursor    \* in a save, the next slot nand_flush_all looks at

ram  == <<slot, oom, last, clock, fp>>
card == <<file, len>>
vars == <<slot, oom, last, clock, fp, file, len, mode, cursor>>

Slot == [block : Blocks \cup {NoBlock}, buf : {"null", "own", "oom"},
         data : Content, dirty : BOOLEAN, lru : 0..ClockMod-1]

TypeOK ==
  /\ slot \in [Slots -> Slot]
  /\ oom \in Content
  /\ last \in Slots \cup {NoSlot}
  /\ clock \in 0..ClockMod-1
  /\ fp \in BOOLEAN
  /\ file \in [Blocks -> Content]
  /\ len \in 0..NumBlocks
  /\ mode \in {"off", "run", "save"}
  /\ cursor \in Slots

EmptySlot == [block |-> NoBlock, buf |-> "null", data |-> Blank,
              dirty |-> FALSE, lru |-> 0]

Init ==
  /\ slot = [s \in Slots |-> EmptySlot]
  /\ oom = Blank
  /\ last = NoSlot
  /\ clock = 0
  /\ fp = FALSE
  /\ len \in FileBlocks
  /\ file \in [Blocks -> Content]
  /\ \A b \in Blocks : b >= len => file[b] = Blank
  /\ mode = "off"
  /\ cursor = 1

------------------------------------------------------------------------------
(* Buffers and the card *)

(* The bytes behind slot s: its own buffer, or the shared fallback. *)
DataOf(s) == IF slot[s].buf = "oom" THEN oom ELSE slot[s].data

(* How many cells of a block a transfer moves before it stops. *)
Moved(fault) == IF fault \in Faults THEN 0..NumCells ELSE {NumCells}

(* The file after the first k cells of x were written over block b. *)
FileWith(b, x, k) ==
  [d \in Blocks |->
     IF d = b THEN [c \in Cells |-> IF c < k THEN x[c] ELSE file[b][c]]
     ELSE IF len <= d /\ d < b THEN [c \in Cells |-> Filler]
     ELSE file[d]]

(***************************************************************************)
(* nand_flush_slot: the card after slot s was flushed and k cells got out. *)
(* Nothing is written for an empty or clean slot or when no file is open;  *)
(* the caller's slot is clean afterwards in every case.                    *)
(***************************************************************************)
(* Mutant: block 0 taken for an empty slot. *)
WritesButBlock0(s) == slot[s].block > 0 /\ slot[s].dirty /\ fp
Writes(s) == slot[s].block # NoBlock /\ slot[s].dirty /\ fp

FileAfter(s, k) ==
  IF Writes(s) /\ k > 0 THEN FileWith(slot[s].block, DataOf(s), k) ELSE file

LenAfter(s, k) ==
  IF Writes(s) /\ k > 0 /\ slot[s].block >= len THEN slot[s].block + 1 ELSE len

(* Mutant: the last block of the main array is taken to lie past its end. *)
FetchedButLast(f, b, r) ==
  IF fp /\ b + 1 < MainBlocks
  THEN [c \in Cells |-> IF c < r THEN f[b][c] ELSE Erased] ELSE Blank
(* What nand_get_block reads for block b from file f: 0xff past the end. *)
Fetched(f, b, r) ==
  IF fp /\ b < MainBlocks THEN [c \in Cells |-> IF c < r THEN f[b][c] ELSE Erased]
  ELSE Blank

------------------------------------------------------------------------------
(* nand_get_block *)

(* Mutant: a scan that starts one slot late. *)
CachedFromSecond(b) == \E s \in Slots \ {1} : slot[s].block = b
Cached(b) == \E s \in Slots : slot[s].block = b

(* The slot a hit returns: s_last_slot if it has the block, else the first *)
(* one of the scan that has it.                                            *)
FastHit(b) == last # NoSlot /\ slot[last].block = b
IsHolder(s, b) ==
  /\ slot[s].block = b
  /\ IF FastHit(b) THEN s = last
     ELSE \A t \in Slots : slot[t].block = b => s <= t

(* The slot a miss takes: the first empty one, else the first of those with *)
(* the smallest lru.                                                        *)
IsEmpty(s) == slot[s].block = NoBlock
IsVictim(s) ==
  IF \E t \in Slots : IsEmpty(t)
  THEN IsEmpty(s) /\ \A t \in Slots : IsEmpty(t) => s <= t
  ELSE \A t \in Slots : \/ slot[s].lru < slot[t].lru
                        \/ slot[s].lru = slot[t].lru /\ s <= t

(* Mutant: a counter that never wraps. *)
TickUnbounded == clock + 1
Tick == (clock + 1) % ClockMod

(***************************************************************************)
(* What the caller does with the block it was handed: nb_get reads a cell, *)
(* nb_set writes one, nb_erase_block fills the block with 0xff.            *)
(***************************************************************************)
Edits ==
  [op : {"get"}] \cup [op : {"erase"}]
    \cup [op : {"set"}, cell : Cells, value : Values]

(* Mutant: an erase that forgets to mark the slot dirty. *)
DirtiesOnSetOnly(e) == e.op = "set"
Dirties(e) == e.op # "get"

Apply(e, x) ==
  CASE e.op = "get"   -> x
    [] e.op = "set"   -> [x EXCEPT ![e.cell] = e.value]
    [] e.op = "erase" -> Blank

(* The slot of a hit is stamped, and edited in whichever buffer it has. *)
Hit(s, b, e) ==
  /\ slot' = [slot EXCEPT ![s] =
       [block |-> b, buf |-> slot[s].buf,
        data  |-> IF slot[s].buf = "oom" THEN slot[s].data
                  ELSE Apply(e, slot[s].data),
        dirty |-> slot[s].dirty \/ Dirties(e), lru |-> Tick]]
  /\ oom' = IF slot[s].buf = "oom" THEN Apply(e, oom) ELSE oom
  /\ last' = s
  /\ clock' = Tick
  /\ UNCHANGED <<fp, card>>

(* An access to a cached block: the fast path or a hit of the scan. *)
AccessHit(b, e) ==
  /\ mode = "run"
  /\ \E s \in Slots : IsHolder(s, b) /\ Hit(s, b, e)
  /\ UNCHANGED <<mode, cursor>>

(***************************************************************************)
(* The victim s is flushed (k cells get out), is given a buffer if it has  *)
(* none (the shared one if malloc fails), takes block b from the file      *)
(* (r cells come in), and the caller's edit is made in it.                 *)
(***************************************************************************)
BufferFor(s) ==
  IF slot[s].buf # "null" THEN {slot[s].buf}
  ELSE {"own"} \cup (IF "alloc" \in Faults THEN {"oom"} ELSE {})

Refill(s, b, e, k, r, buf) ==
  /\ file' = FileAfter(s, k)
  /\ len' = LenAfter(s, k)
  /\ LET x == Apply(e, Fetched(FileAfter(s, k), b, r))
     IN  /\ slot' = [slot EXCEPT ![s] =
              [block |-> b, buf |-> buf,
               data  |-> IF buf = "oom" THEN slot[s].data ELSE x,
               dirty |-> Dirties(e), lru |-> Tick]]
         /\ oom' = IF buf = "oom" THEN x ELSE oom
  /\ last' = s
  /\ clock' = Tick
  /\ UNCHANGED fp

(* An access to a block that is not cached. *)
AccessMiss(b, e) ==
  /\ mode = "run"
  /\ ~Cached(b)
  /\ \E s \in Slots, k \in Moved("write"), r \in Moved("read") :
       /\ IsVictim(s)
       /\ \E buf \in BufferFor(s) : Refill(s, b, e, k, r, buf)
  /\ UNCHANGED <<mode, cursor>>

Access(b) == \E e \in Edits : AccessHit(b, e) \/ AccessMiss(b, e)

------------------------------------------------------------------------------
(* Load, save and power loss *)

(* read_nand_file, once per start of the application. *)
Open ==
  /\ mode = "off"
  /\ fp' \in {TRUE} \cup (IF "open" \in Faults THEN {FALSE} ELSE {})
  /\ slot' = [s \in Slots |-> [slot[s] EXCEPT !.block = NoBlock, !.dirty = FALSE]]
  /\ last' = NoSlot
  /\ mode' = "run"
  /\ UNCHANGED <<oom, clock, card, cursor>>

(* save_flash reaches nand_flush_all ... *)
SaveBegin ==
  /\ mode = "run"
  /\ mode' = "save"
  /\ cursor' = 1
  /\ UNCHANGED <<ram, card>>

(* Mutant: the loop stops before the last slot. *)
MoreSlotsButLast == cursor + 1 < NumSlots
MoreSlots == cursor < NumSlots

(* ... which flushes one slot after the other. *)
SaveStep ==
  /\ mode = "save"
  /\ \E k \in Moved("write") :
       /\ file' = FileAfter(cursor, k)
       /\ len' = LenAfter(cursor, k)
  /\ slot' = [slot EXCEPT ![cursor].dirty = FALSE]
  /\ IF MoreSlots THEN cursor' = cursor + 1 /\ mode' = mode
     ELSE cursor' = 1 /\ mode' = "run"
  /\ UNCHANGED <<oom, last, clock, fp>>

(***************************************************************************)
(* Power goes, or the application restarts, between two accesses or while  *)
(* the block of slot s is being written.                                   *)
(***************************************************************************)
BeingWritten(s) ==
  \/ mode = "save" /\ s = cursor
  \/ mode = "run" /\ IsVictim(s)

Crash ==
  /\ mode # "off"
  /\ \/ UNCHANGED card
     \/ \E s \in Slots, k \in 0..NumCells :
          /\ BeingWritten(s)
          /\ file' = FileAfter(s, k)
          /\ len' = LenAfter(s, k)
  /\ slot' = [s \in Slots |-> EmptySlot]
  /\ oom' = Blank
  /\ last' = NoSlot
  /\ clock' = 0
  /\ fp' = FALSE
  /\ mode' = "off"
  /\ cursor' = 1

Next ==
  \/ Open
  \/ \E b \in Blocks : Access(b)
  \/ SaveBegin
  \/ SaveStep
  \/ Crash

Spec == Init /\ [][Next]_vars

------------------------------------------------------------------------------
(* What the emulated machine reads *)

(* The contents of block b as the next access will find them. *)
View(b) ==
  IF Cached(b) THEN DataOf(CHOOSE s \in Slots : IsHolder(s, b))
  ELSE IF mode = "off" THEN (IF b < MainBlocks THEN file[b] ELSE Blank)
  ELSE Fetched(file, b, NumCells)

MainView == [b \in Main |-> View(b)]
MainFile == [b \in Main |-> file[b]]

Store == INSTANCE NandStore
           WITH Blocks <- Main, store <- MainView, disk <- MainFile

------------------------------------------------------------------------------
(* Properties *)

(* No erase block is ever held by two slots: otherwise a write to one copy *)
(* would be lost when the other is flushed.  (nand_get_block's fast path   *)
(* and scan, nand.cpp:86-112)                                              *)
OneSlotPerBlock ==
  \A s, t \in Slots :
    slot[s].block # NoBlock /\ slot[s].block = slot[t].block => s = t

(* A slot marked clean holds exactly what the file holds, so that dropping *)
(* it loses nothing.  (the dirty flag, nand.cpp:77-85 and 108)             *)
CleanMirrorsFile ==
  \A s \in Slots :
    slot[s].block \in Main /\ ~slot[s].dirty => DataOf(s) = file[slot[s].block]

(* An access changes at most the block it addresses: evicting and fetching *)
(* on its behalf never alters what any other block reads as.  (nb_get,     *)
(* nb_set and nb_erase_block, nand.cpp:114-140)                            *)
OnlyAddressedChanges ==
  mode = "run" /\ mode' = "run" =>
    \A b \in Main : b # slot'[last'].block => View(b)' = View(b)
OtherBlocksUntouched == [][OnlyAddressedChanges]_vars

(* When a save ends, every block of the main array is in the file as the   *)
(* machine last wrote it, so that a crash from then on loses only later    *)
(* writes.  (nand_flush_all, nand.cpp:142-144)                             *)
SaveEnds == mode = "save" /\ mode' = "run"
MainIsFiled == SaveEnds => \A b \in Main : file'[b] = View(b)'
SaveIsDurable == [][MainIsFiled]_vars

(* The cache, with its file, behaves as one array with a lagging disk.     *)
ImplementsStore == Store!Spec
==============================================================================
