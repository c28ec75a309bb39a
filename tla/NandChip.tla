------------------------------ MODULE NandChip ------------------------------
(***************************************************************************)
(* The NAND chip as the emulated machine sees it through port $29          *)
(* (components/nc2000/nand.cpp, read_nand and nand_write): a command       *)
(* register, an address register and a data register, kept as three        *)
(* queues, and the array behind them.                                      *)
(*                                                                         *)
(* A byte written with CLE high is a command, with ALE high an address     *)
(* byte, with neither a data byte; with both it is dropped.  The sizes are *)
(* parameters: a byte has Base values, a page 2 * Base main cells and      *)
(* SpareBytes spare ones, an address is one column byte and a page number  *)
(* of two bytes and a bit.  The array is flat here; NandCache says how     *)
(* its blocks are kept.                                                    *)
(*                                                                         *)
(* The device is built without assertions, so a wrong sequence does not    *)
(* stop the program: what happens then is modelled.                        *)
(***************************************************************************)
EXTENDS Naturals, Sequences

CONSTANTS
  Base,         \* 256
  SpareBytes,   \* 16
  BlockPages,   \* NAND_BLOCK_PAGES
  BootPages,    \* NAND0_PAGES: pages kept in s_nand0
  Values,       \* what a cell can hold
  Erased        \* 0xff

ASSUME ChipAssumption ==
  /\ Base \in Nat \ {0, 1} /\ SpareBytes \in Nat \ {0}
  /\ BlockPages \in Nat \ {0} /\ BootPages \in Nat
  /\ Erased \in Values

MainBytes == 2 * Base
PageBytes == MainBytes + SpareBytes
NumPages  == 2 * Base * Base
Byte      == 0..Base-1
(* A sequential read may run past the last page: one page more is kept.    *)
Cells     == 0..(NumPages + 1) * PageBytes - 1

Begins   == {"ff", "00", "01", "50", "60", "70", "90"}
Reads    == {"00", "01", "50"}
Commands == Begins \cup {"10", "80", "d0"}

VARIABLES
  cmd,    \* nand_cmd
  addr,   \* nand_addr
  dat,    \* nand_data
  cnt,    \* nand_read_cnt
  mem,    \* the array
  out     \* what the last read of the port returned

regs == <<cmd, addr, dat, cnt>>
chip == <<cmd, addr, dat, cnt, mem, out>>

ChipTypeOK ==
  /\ cmd \in Seq(Commands)
  /\ addr \in Seq(Byte)
  /\ dat \in Seq(Values)
  /\ cnt \in Nat
  /\ mem \in [Cells -> Values]
  /\ out \in Values \cup {"40", "ec", "75", "00"}

ChipInit ==
  /\ cmd = <<>> /\ addr = <<>> /\ dat = <<>> /\ cnt = 0
  /\ mem = [c \in Cells |-> Erased]
  /\ out = Erased

(* Mutant: nand_data survives a clear. *)
FlushButData == addr' = <<>> /\ dat' = dat /\ cnt' = 0
(* clear_nand_status but for the command, which Begin replaces. *)
Flush == addr' = <<>> /\ dat' = <<>> /\ cnt' = 0

(* Mutant: the command survives a clear. *)
ClearButCommand == cmd' = cmd /\ Flush
Clear == cmd' = <<>> /\ Flush

------------------------------------------------------------------------------
(* Where a command points *)

PageOf(a) == (a[4] % 2) * Base * Base + a[3] * Base + a[2]

Offset(c) == CASE c = "00" -> 0 [] c = "01" -> Base [] c = "50" -> MainBytes

(* Mutant: the spare area taken to start where the second half does. *)
OriginOffByArea(c, a) ==
  PageOf(a) * PageBytes + a[1] + IF c = "00" THEN 0 ELSE Base
Origin(c, a) == PageOf(a) * PageBytes + a[1] + Offset(c)

(* Mutant: the boot pages forgotten when a block is turned into pages. *)
ErasedPagesShifted(p) ==
  IF p + BlockPages <= BootPages THEN p..p+BlockPages-1
  ELSE LET b == (p - BootPages) \div BlockPages
       IN  b * BlockPages .. (b + 1) * BlockPages - 1
(* Mutant: an erase that clears to 0. *)
BlankByteZero == "00"
(* What an erased cell is filled with. *)
BlankByte == Erased

(* nb_erase_block for the block at page p.  A boot block is erased from p  *)
(* on, one of the main array from where it starts; a misaligned page near  *)
(* the end of the boot pages wraps to a block that does not exist.         *)
ErasedPages(p) ==
  IF p + BlockPages <= BootPages THEN p..p+BlockPages-1
  ELSE IF p < BootPages THEN {}
  ELSE LET b == (p - BootPages) \div BlockPages
       IN  BootPages + b * BlockPages .. BootPages + (b + 1) * BlockPages - 1

------------------------------------------------------------------------------
(* nand_write *)

(* A command that starts an operation; 0xff only resets. *)
Begin(c) ==
  /\ c \in Begins
  /\ cmd' = IF c = "ff" THEN <<>> ELSE <<c>>
  /\ Flush
  /\ UNCHANGED <<mem, out>>

CanProgram(first, n) ==
  /\ cmd # <<>> /\ cmd[1] = first /\ Len(cmd) = 2
  /\ Len(addr) = 4 /\ Len(dat) = n

(* The array after the queued data was written from cell o on.  A cell     *)
(* that is not erased is erased first, so the data is what it then holds.  *)
Written(o) ==
  [c \in Cells |-> IF o <= c /\ c < o + Len(dat) THEN dat[c - o + 1] ELSE mem[c]]

(* 0x10: program the queued spare area or page; else nothing happens. *)
Confirm ==
  \/ /\ CanProgram("50", SpareBytes)
     /\ mem' = Written(Origin("50", addr))
     /\ Clear
     /\ UNCHANGED out
  \/ /\ CanProgram("00", PageBytes)
     /\ mem' = Written(Origin("00", addr))
     /\ Clear
     /\ UNCHANGED out
  \/ /\ ~CanProgram("50", SpareBytes) /\ ~CanProgram("00", PageBytes)
     /\ UNCHANGED chip

(* 0xd0: erase the addressed block.  The address bytes that are missing    *)
(* are whatever the queue's memory holds.                                  *)
PaddedAddress ==
  {a \in [1..3 -> Byte] : \A i \in 1..3 : i <= Len(addr) => a[i] = addr[i]}

EraseConfirm ==
  /\ \E a \in PaddedAddress :
       LET p == (a[3] % 2) * Base * Base + a[2] * Base + a[1]
       IN  mem' = [c \in Cells |->
                     IF c \div PageBytes \in ErasedPages(p) THEN BlankByte ELSE mem[c]]
  /\ cmd' = Append(cmd, "d0")
  /\ cnt' = cnt + 1
  /\ UNCHANGED <<addr, dat, out>>

(* 0x80: data is to follow. *)
Setup ==
  /\ cmd' = Append(cmd, "80")
  /\ UNCHANGED <<addr, dat, cnt, mem, out>>

Command(c) ==
  \/ Begin(c)
  \/ c = "10" /\ Confirm
  \/ c = "d0" /\ EraseConfirm
  \/ c = "80" /\ Setup

Address(v) ==
  /\ addr' = Append(addr, v)
  /\ UNCHANGED <<cmd, dat, cnt, mem, out>>

(* A data byte, or a command byte that is none of Commands. *)
Data(v) ==
  /\ dat' = IF cmd # <<>> THEN Append(dat, v) ELSE dat
  /\ UNCHANGED <<cmd, addr, cnt, mem, out>>

------------------------------------------------------------------------------
(* read_nand *)

StatusAsked == cmd = <<"70">> /\ addr = <<>> /\ dat = <<>>
IdAsked     == cmd = <<"90">> /\ addr = <<0>> /\ dat = <<>>
DataAsked   == Len(cmd) = 1 /\ cmd[1] \in Reads /\ Len(addr) = 4 /\ dat = <<>>

ReadStatus == StatusAsked /\ out' = "40" /\ Clear

ReadId ==
  /\ IdAsked
  /\ IF cnt = 0 THEN out' = "ec" /\ cnt' = 1 /\ UNCHANGED <<cmd, addr, dat>>
     ELSE out' = "75" /\ Clear

ReadData ==
  /\ DataAsked
  /\ out' = mem[Origin(cmd[1], addr) + cnt]
  /\ cnt' = cnt + 1
  /\ UNCHANGED <<cmd, addr, dat>>

(* Nothing was asked, or the question is malformed. *)
ReadNothing ==
  /\ ~StatusAsked /\ ~IdAsked /\ ~DataAsked
  /\ out' = IF cmd = <<>> \/ cmd[1] \in Reads THEN Erased ELSE "00"
  /\ UNCHANGED regs

Read ==
  /\ ReadStatus \/ ReadId \/ ReadData \/ ReadNothing
  /\ UNCHANGED mem

------------------------------------------------------------------------------
(* The assertions nand_write makes of the machine's software, in the build *)
(* that has them: what the registers hold when a byte arrives.             *)

Idle      == cmd = <<>>
EraseDone == Len(cmd) = 2 /\ cmd[1] = "60" /\ Len(addr) = 3 /\ dat = <<>>

BeginExpected   == Idle \/ DataAsked \/ EraseDone
ConfirmExpected == CanProgram("50", SpareBytes) \/ CanProgram("00", PageBytes)
EraseExpected   == cmd = <<"60">> /\ Len(addr) = 3 /\ dat = <<>>
SetupExpected   == cmd # <<>> /\ cmd[1] \in {"50", "00"} /\ addr = <<>> /\ dat = <<>>
AddressExpected == cmd # <<>>
DataExpected    == Len(cmd) >= 2 /\ cmd[1] \in {"50", "00"} /\ cmd[2] = "80"

CommandExpected(c) ==
  CASE c \in Begins -> BeginExpected
    [] c = "10"     -> ConfirmExpected
    [] c = "d0"     -> EraseExpected
    [] c = "80"     -> SetupExpected
==============================================================================
