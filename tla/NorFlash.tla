------------------------------ MODULE NorFlash ------------------------------
(***************************************************************************)
(* The NOR flash as the emulated machine sees it: the command machine of   *)
(* write_nor0 and what read_nor answers (components/nc2000/nor.cpp).  A    *)
(* command is a sequence of writes to addresses the memory map takes to    *)
(* the flash: two unlock cycles, a command, and for an erase two more      *)
(* unlock cycles.  The real chip forgets a sequence that goes wrong; this  *)
(* one stays where it is until the write it waits for comes, or 0xF0.      *)
(*                                                                         *)
(* A byte is its name; PatternOf gives the bits that matter of it, and a   *)
(* cell of the flash holds such a set of bits: programming intersects.     *)
(* A cell is a place in a page of a bank; which one an address is, the     *)
(* memory map says, and each access has it as a parameter.                 *)
(***************************************************************************)
EXTENDS MemMap

CONSTANTS
  Addrs,         \* addresses of the machine
  At5555,        \* those of them that are 0x5555 or 0xd555
  AtAAAA,        \* 0xAAAA
  Machines,      \* the machines emulated, of the four there are
  PageCells,     \* cells of a page: 0x2000
  SectorCells,   \* what one erase clears: 0x800, or 0x1000 on some machines
  InfoCells,     \* cells of nor_info_block
  InfoAt,        \* addr & 0xff
  Bytes,         \* bytes the machine writes, as names: "AA", "55", ...
  Bits,          \* the bits of a byte that are told apart
  PatternOf      \* the bits of each byte

Cells  == [bank : 0..NumBanks-1, quarter : 0..3, offset : 0..PageCells-1]
Infos  == 0..InfoCells-1
Full   == Bits

Unlocks  == {"AA", "55"}
TypeCmds == {"90", "A0", "80", "A8", "88", "78", "70"}

ASSUME NorAssumption ==
  /\ At5555 \subseteq Addrs /\ At5555 # {} /\ AtAAAA \in Addrs /\ AtAAAA \notin At5555
  /\ Machines \subseteq {"nc1020", "nc2000", "nc3000", "pc1000"}
  /\ PageCells \in Nat \ {0} /\ InfoCells \in Nat \ {0}
  /\ SectorCells \in [Machines -> Nat \ {0}]
  /\ InfoAt \in [Addrs -> Infos]
  /\ Unlocks \cup TypeCmds \cup {"30", "10", "F0"} \subseteq Bytes
  /\ PatternOf \in [Bytes -> SUBSET Bits]

VARIABLES
  machine,   \* which of the machines it is
  fp_step,   \* 0..6, how far the command is
  fp_type,   \* NOR_CMD
  nor,       \* nor_buff
  info,      \* nor_info_block
  read       \* what the last read answered

nvars == <<machine, fp_step, fp_type, nor, info, read>>

Types == {"NONE", "SW_ID", "BYTE_PROGRAM", "BLOCK_OR_MASS_ERASE",
          "INFO_BYTE_PROGRAM", "INFO_OR_BMASS_ERASE", "INFO_READ", "POLL_STATUS"}
EraseTypes == {"BLOCK_OR_MASS_ERASE", "INFO_OR_BMASS_ERASE"}

Answers == [kind : {"data"}, bits : SUBSET Bits]
             \cup [kind : {"maker", "device", "busy", "none", "any"}]

(* Each step belongs to some commands only: the assertions of write_nor0   *)
(* and what its branches take for granted.                                 *)
StepMatchesType ==
  /\ fp_step \in 0..2 => fp_type = "NONE"
  /\ fp_step >= 3 => fp_type # "NONE"
  /\ fp_step = 4 => fp_type \notin {"SW_ID", "INFO_READ", "POLL_STATUS"}
  /\ fp_step \in 5..6 => fp_type \in EraseTypes

NorTypeOK ==
  /\ machine \in Machines
  /\ fp_step \in 0..6
  /\ fp_type \in Types
  /\ nor \in [Cells -> SUBSET Bits]
  /\ info \in [Infos -> SUBSET Bits]
  /\ read \in Answers

NorInit ==
  /\ machine \in Machines
  /\ fp_step = 0 /\ fp_type = "NONE"
  /\ nor = [c \in Cells |-> Full]
  /\ info = [i \in Infos |-> Full]
  /\ read = [kind |-> "none"]

pc1000mode == machine = "pc1000"   \* its flash resets by itself

------------------------------------------------------------------------------
(* write_nor0 *)

(* Mutant: the command survives a reset. *)
ResetStepOnly == fp_step' = 0 /\ fp_type' = fp_type
reset_nor_status == fp_step' = 0 /\ fp_type' = "NONE"

(* Mutant: every machine resets by itself, or none does. *)
DoneOrResetSwapped(step) ==
  IF pc1000mode THEN fp_step' = step /\ fp_type' = fp_type ELSE reset_nor_status
(* Mutant: the step is advanced by what it should be set to. *)
DoneCounts(step) ==
  IF pc1000mode THEN reset_nor_status ELSE fp_step' = fp_step + step /\ fp_type' = fp_type
(* Mutant: the step stays, and a program takes one byte after another. *)
DoneStays(step) ==
  IF pc1000mode THEN reset_nor_status ELSE fp_step' = fp_step /\ fp_type' = fp_type
(* A program or erase was carried out: the chip is busy till it is reset. *)
DoneOrReset(step) ==
  IF pc1000mode THEN reset_nor_status ELSE fp_step' = step /\ fp_type' = fp_type

CommandOf(v) ==
  CASE v = "90" -> "SW_ID"               [] v = "A0" -> "BYTE_PROGRAM"
    [] v = "80" -> "BLOCK_OR_MASS_ERASE" [] v = "A8" -> "INFO_BYTE_PROGRAM"
    [] v = "88" -> "INFO_OR_BMASS_ERASE" [] v = "78" -> "INFO_READ"
    [] v = "70" -> "POLL_STATUS"

(* The write that takes the sequence one step on and changes no cell. *)
Unlocking(a, v) ==
  \/ fp_step = 0 /\ a \in At5555 /\ v = "AA"
  \/ fp_step = 1 /\ a = AtAAAA /\ v = "55"
  \/ fp_step = 3 /\ fp_type \in EraseTypes /\ a \in At5555 /\ v = "AA"
  \/ fp_step = 4 /\ fp_type \in EraseTypes /\ a = AtAAAA /\ v = "55"
Unlock(a, v) ==
  /\ Unlocking(a, v)
  /\ fp_step' = fp_step + 1
  /\ UNCHANGED <<fp_type, nor, info>>

Choosing(a, v) == fp_step = 2 /\ a \in At5555 /\ v \in TypeCmds
Choose(a, v) ==
  /\ Choosing(a, v)
  /\ fp_type' = CommandOf(v) /\ fp_step' = 3
  /\ UNCHANGED <<nor, info>>

(* Mutant: programming replaces the cell. *)
ProgrammedOver(old, v) == PatternOf[v]
Programmed(old, v) == old \cap PatternOf[v]

Programming == fp_step = 3 /\ fp_type \in {"BYTE_PROGRAM", "INFO_BYTE_PROGRAM"}
Program(c, a, v) ==
  /\ Programming
  /\ IF fp_type = "BYTE_PROGRAM"
     THEN nor' = [nor EXCEPT ![c] = Programmed(@, v)] /\ info' = info
     ELSE info' = [info EXCEPT ![InfoAt[a]] = Programmed(@, v)] /\ nor' = nor
  /\ DoneOrReset(4)

SamePage(c, d) == c.bank = d.bank /\ c.quarter = d.quarter
(* Mutant: an erase that clears from the addressed cell on. *)
SectorFrom(c) ==
  {d \in Cells : SamePage(c, d) /\ d.offset \in c.offset..c.offset + SectorCells[machine] - 1}
(* The cells erased with cell c. *)
Sector(c) ==
  {d \in Cells : /\ SamePage(c, d)
                 /\ d.offset \div SectorCells[machine] = c.offset \div SectorCells[machine]}

MassErasing(a, v) == fp_step = 5 /\ a \in At5555 /\ v = "10"
MassErase(a, v) ==
  /\ MassErasing(a, v)
  /\ nor' = [c \in Cells |-> Full]
  /\ info' = IF fp_type = "INFO_OR_BMASS_ERASE" THEN [i \in Infos |-> Full] ELSE info
  /\ DoneOrReset(6)

Erasing(v) == fp_step = 5 /\ v = "30"
Erase(c, v) ==
  /\ Erasing(v)
  /\ IF fp_type = "BLOCK_OR_MASS_ERASE"
     THEN /\ nor' = [d \in Cells |-> IF d \in Sector(c) THEN Full ELSE nor[d]]
          /\ info' = info
     ELSE info' = [i \in Infos |-> Full] /\ nor' = nor
  /\ DoneOrReset(6)

(* Mutant: 0xF0 resets only a command that was carried out. *)
OtherWhenDone(v) ==
  IF v = "F0" /\ fp_step \in {4, 6} THEN reset_nor_status
  ELSE UNCHANGED <<fp_step, fp_type>>
(* 0xF0 resets; anything else that is not expected is ignored. *)
Other(v) ==
  IF v = "F0" THEN reset_nor_status ELSE UNCHANGED <<fp_step, fp_type>>

Unexpected(a, v) ==
  ~Unlocking(a, v) /\ ~Choosing(a, v) /\ ~Programming /\ ~MassErasing(a, v) /\ ~Erasing(v)

(* write_nor at address a, which is cell c.  With a bank number beyond the *)
(* flash the write is dropped, 0xF0 too.                                   *)
Write(a, v, c, bankOk) ==
  /\ UNCHANGED <<machine, read>>
  /\ IF ~bankOk THEN UNCHANGED <<fp_step, fp_type, nor, info>>
     ELSE \/ Unlock(a, v)
          \/ Choose(a, v)
          \/ Program(c, a, v)
          \/ MassErase(a, v)
          \/ Erase(c, v)
          \/ Unexpected(a, v) /\ Other(v) /\ UNCHANGED <<nor, info>>

------------------------------------------------------------------------------
(* Load with read_nor: some states answer in place of the cell.  "first"   *)
(* and "second" are addresses 0x8000 and 0x8001.                           *)

Data(bits) == [kind |-> "data", bits |-> bits]

(* The maker's identifier.  The nc3000 has none: where an assertion would  *)
(* fail, the device, which has it compiled out, answers with a byte that   *)
(* was never set: "any".                                                   *)
Maker == [kind |-> IF machine = "nc3000" THEN "any" ELSE "maker"]

Busy == \/ fp_type = "POLL_STATUS" /\ fp_step = 3
        \/ fp_type = "BYTE_PROGRAM" /\ fp_step = 4
        \/ fp_type = "BLOCK_OR_MASS_ERASE" /\ fp_step = 6

Load(a, c, first, second) ==
  CASE fp_type = "INFO_READ" /\ fp_step = 3               -> Data(info[InfoAt[a]])
    [] fp_type = "SW_ID" /\ fp_step = 3 /\ a = first      -> Maker
    [] fp_type = "SW_ID" /\ fp_step = 3 /\ a = second     -> [kind |-> "device"]
    [] Busy                                               -> [kind |-> "busy"]
    [] OTHER                                              -> Data(nor[c])

(* Mutant: the fast path looks at the step, which a finished command keeps. *)
PeekUnlessUnlocking(a, c, first, second) ==
  IF fp_step \notin 1..3 THEN Data(nor[c]) ELSE Load(a, c, first, second)
(* CPU_PEEK: the fast path is taken while no command is in progress. *)
CPU_PEEK(a, c, first, second) ==
  IF fp_type = "NONE" THEN Data(nor[c]) ELSE Load(a, c, first, second)

Read(a, c, first, second) ==
  /\ read' = CPU_PEEK(a, c, first, second)
  /\ UNCHANGED <<machine, fp_step, fp_type, nor, info>>
==============================================================================
