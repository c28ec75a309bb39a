----------------------------- MODULE NandDriver -----------------------------
(***************************************************************************)
(* The machine's NAND driver at work on NandChip.  The driver is in the    *)
(* machine's ROM, not in this repository: its sequences are those nand.cpp *)
(* accepts and asserts.  Each access of the port is a step, since an       *)
(* interrupt of the machine or a warm reset may fall between any two; a    *)
(* reset leaves the chip's registers as they are (nothing outside nand.cpp *)
(* calls clear_nand_status), and the next operation starts from there.     *)
(***************************************************************************)
EXTENDS NandChip

CONSTANTS
  Pages,      \* the pages the driver uses
  Columns,    \* the columns it reads from
  ReadLen,    \* how many bytes it reads
  Kinds,      \* the operations it knows
  MaxOps      \* bound: operations started

(* A read ends in the page after the one it begins in at the latest. *)
ASSUME DriverAssumption ==
  /\ Pages \subseteq 0..NumPages-1 /\ Columns \subseteq Byte
  /\ ReadLen \in Nat /\ MaxOps \in Nat
  /\ \A c \in Columns : c + MainBytes + ReadLen <= 2 * PageBytes

VARIABLES
  op,     \* the operation in progress, None, or Cut when the last was cut short
  todo,   \* the accesses it still has to make
  ops,    \* operations started
  whole   \* history: since the last reset of the chip all were carried through

vars == <<chip, op, todo, ops, whole>>

None == [kind |-> "none"]
Cut  == [kind |-> "cut"]
(* "poll" reads the status twice; "partial" programs a page with less data *)
(* than it has cells, as NAND chips allow.                                 *)
AllOperations ==
  [kind : {"read"}, area : Reads, page : Pages, column : Columns]
    \cup [kind : {"program"}, page : Pages, data : [1..PageBytes -> Values]]
    \cup [kind : {"partial"}, page : Pages, data : [1..SpareBytes -> Values]]
    \cup [kind : {"spare"}, page : Pages, data : [1..SpareBytes -> Values]]
    \cup [kind : {"erase"}, page : {p \in Pages : p % BlockPages = 0}]
    \cup [kind : {"status", "poll", "id", "reset"}]
Operations == {o \in AllOperations : o.kind \in Kinds}

(* Port accesses *)
C(c) == <<[port |-> "command", byte |-> c]>>
A(v) == <<[port |-> "address", byte |-> v]>>
D(v) == <<[port |-> "data", byte |-> v]>>
R(n) == [i \in 1..n |-> [port |-> "read"]]

PageAddress(p) ==
  A(p % Base) \o A((p \div Base) % Base) \o A(p \div (Base * Base))
DataBytes(d) == [i \in DOMAIN d |-> D(d[i])[1]]

Script(o) ==
  CASE o.kind = "read"    -> C(o.area) \o A(o.column) \o PageAddress(o.page) \o R(ReadLen)
    [] o.kind \in {"program", "partial"} ->
         C("00") \o C("80") \o A(0) \o PageAddress(o.page) \o DataBytes(o.data) \o C("10")
    [] o.kind = "spare"   -> C("50") \o C("80") \o A(0) \o PageAddress(o.page)
                               \o DataBytes(o.data) \o C("10")
    [] o.kind = "erase"   -> C("60") \o PageAddress(o.page) \o C("d0")
    [] o.kind = "status"  -> C("70") \o R(1)
    [] o.kind = "poll"    -> C("70") \o R(2)
    [] o.kind = "id"      -> C("90") \o A(0) \o R(2)
    [] o.kind = "reset"   -> C("ff")

Init == ChipInit /\ op = None /\ todo = <<>> /\ ops = 0 /\ whole = TRUE

Start ==
  /\ todo = <<>> /\ ops < MaxOps
  /\ op' \in Operations
  /\ todo' = Script(op')
  /\ ops' = ops + 1
  /\ whole' = (whole /\ op'.kind # "partial")
  /\ UNCHANGED chip

Advance ==
  /\ todo # <<>>
  /\ todo' = Tail(todo)
  /\ op' = IF Len(todo) = 1 THEN None ELSE op
  /\ whole' = (whole \/ (op.kind = "reset" /\ Len(todo) = 1))
  /\ UNCHANGED ops

WriteCommand ==
  /\ Advance /\ Head(todo).port = "command"
  /\ Command(Head(todo).byte)

WriteAddress ==
  /\ Advance /\ Head(todo).port = "address"
  /\ Address(Head(todo).byte)

WriteData ==
  /\ Advance /\ Head(todo).port = "data"
  /\ Data(Head(todo).byte)

ReadPort ==
  /\ Advance /\ Head(todo).port = "read"
  /\ Read

(* A warm reset: the driver forgets what it was doing, the chip does not. *)
Abandon ==
  /\ todo # <<>>
  /\ op' = Cut /\ todo' = <<>> /\ whole' = FALSE
  /\ UNCHANGED <<chip, ops>>

Next ==
  Start \/ WriteCommand \/ WriteAddress \/ WriteData \/ ReadPort \/ Abandon

Spec == Init /\ [][Next]_vars

------------------------------------------------------------------------------
(* Properties *)

TypeOK ==
  /\ ChipTypeOK
  /\ op \in Operations \cup {None, Cut}
  /\ op \in {None, Cut} <=> todo = <<>>
  /\ ops \in 0..MaxOps /\ whole \in BOOLEAN

(* What an operation is for: the array once it is complete. *)
PageStart(p) == p * PageBytes
Stored(o) ==
  CASE o.kind = "program" ->
         [c \in Cells |-> IF c \div PageBytes = o.page
                          THEN o.data[c - PageStart(o.page) + 1] ELSE mem[c]]
    [] o.kind = "spare" ->
         [c \in Cells |-> IF c \div PageBytes = o.page /\ c % PageBytes >= MainBytes
                          THEN o.data[c - PageStart(o.page) - MainBytes + 1] ELSE mem[c]]
    [] o.kind = "erase" ->
         [c \in Cells |-> IF c \div PageBytes \in o.page..o.page+BlockPages-1
                          THEN Erased ELSE mem[c]]
    [] OTHER -> mem

(* A program or an erase changes the array once, with its last access, and *)
(* changes exactly the page or block it names; an operation cut short at   *)
(* any access, and whatever it left in the queues, changes nothing then or *)
(* later; a partial program is dropped.  (nand_write, nand.cpp:396-583)     *)
Completes == todo # <<>> /\ op' = None
EffectAtLastAccess == mem' = IF Completes THEN Stored(op) ELSE mem

(* What the driver reads is what it asked for: the cells from the column   *)
(* it named on, in order and across the end of the page; the ready status, *)
(* once, and 0xff when the status is read again; the maker and device      *)
(* codes; whatever was cut short before.                                   *)
(* (read_nand, nand.cpp:240-384)                                           *)
Asked(o, k) ==
  CASE o.kind = "read"   -> mem[PageStart(o.page) + o.column
                                + (CASE o.area = "00" -> 0 [] o.area = "01" -> Base
                                     [] o.area = "50" -> MainBytes) + k]
    [] o.kind \in {"status", "poll"} -> IF k = 0 THEN "40" ELSE Erased
    [] o.kind = "id"     -> IF k = 0 THEN "ec" ELSE "75"

Reading == todo # <<>> /\ Head(todo).port = "read" /\ op' # Cut
ReadCount == Len(Script(op)) - Len(todo)
FirstRead == IF op.kind = "read" THEN 5 ELSE IF op.kind = "id" THEN 2 ELSE 1
ReadsWhatItAsked == Reading => out' = Asked(op, ReadCount - FirstRead)
OperationsAsAsked == [][EffectAtLastAccess /\ ReadsWhatItAsked]_vars

(* A driver that finishes what it starts never meets an assertion of       *)
(* nand_write, whatever it does in whatever order; and the chip's reset is *)
(* enough to get there again after an operation was cut short or a program *)
(* was partial.  (nand.cpp:425-428, 438, 471, 511-514, 530-533, 538-572)  *)
AssertionsHold ==
  whole /\ todo # <<>> =>
    CASE Head(todo).port = "command" -> CommandExpected(Head(todo).byte)
      [] Head(todo).port = "address" -> AddressExpected
      [] Head(todo).port = "data"    -> DataExpected
      [] Head(todo).port = "read"    -> TRUE
==============================================================================
