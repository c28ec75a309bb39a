------------------------------ MODULE NorDriver ------------------------------
(***************************************************************************)
(* The machine's flash routines at work on NorFlash.  They are in the      *)
(* machine's ROM, not in this repository: their sequences are those nor.cpp *)
(* knows.  Each access is a step; a warm reset may cut an operation short  *)
(* between any two, and leaves fp_step and fp_type as they are             *)
(* (nc2k_state_warm_reset does not touch them).                            *)
(***************************************************************************)
EXTENDS NorFlash, SequencesExt

CONSTANTS
  PageOf,      \* addr >> 13
  OffsetOf,    \* addr & 0x1fff, in cells
  First, Second, \* 0x8000 and 0x8001
  Targets,     \* addresses programmed, erased and read
  Payload,     \* bytes programmed
  MaxOps       \* bound: operations started

ASSUME DriverAssumption ==
  /\ PageOf \in [Addrs -> 0..7] /\ OffsetOf \in [Addrs -> 0..PageCells-1]
  /\ {First, Second} \subseteq Addrs /\ First # Second /\ Targets \subseteq Addrs
  /\ Payload \subseteq Bytes
  /\ MaxOps \in Nat

VARIABLES
  op,     \* the operation in progress, None, or Cut
  regs,   \* the bank registers
  memmap, \* the page each 8K of the machine's memory shows
  ram_40, \* where in RAM addresses 0x40 to 0x7f are
  todo,   \* the accesses op still has to make
  ops,    \* operations started
  whole   \* the last operation that ends with a reset was carried through

vars == <<nvars, op, regs, memmap, ram_40, todo, ops, whole>>
banks == <<regs, memmap, ram_40>>

(* in_nor_range, and the cell an address is. *)
InFlash(a) == memmap[PageOf[a]].mem = "nor"
CellOf(a) == [bank |-> memmap[PageOf[a]].bank, quarter |-> memmap[PageOf[a]].quarter,
              offset |-> OffsetOf[a]]
BankOk == regs.bs < NumBanks

None == [kind |-> "none"]
Cut  == [kind |-> "cut"]
Operations ==
  [kind : {"program", "infoProgram"}, at : Targets, byte : Payload]
    \cup [kind : {"erase", "infoErase", "infoRead", "fetch"}, at : Targets]
    \cup [kind : {"massErase", "infoMassErase", "id", "poll"}]

W(a, v) == <<[port |-> "write", addr |-> a, byte |-> v]>>
R(a)    == <<[port |-> "read", addr |-> a]>>

(* In bank 0 address 0x5555 is RAM, and 0xd555 the same cell of the flash. *)
The5555 == CHOOSE a \in At5555 : (\E b \in At5555 : InFlash(b)) => InFlash(a)
Magic(v) == W(The5555, "AA") \o W(AtAAAA, "55") \o W(The5555, v)
EraseWith(type, a, v) ==
  Magic(type) \o W(The5555, "AA") \o W(AtAAAA, "55") \o W(a, v)

Body(o) ==
  CASE o.kind = "program"       -> Magic("A0") \o W(o.at, o.byte) \o R(o.at)
    [] o.kind = "infoProgram"   -> Magic("A8") \o W(o.at, o.byte)
    [] o.kind = "erase"         -> EraseWith("80", o.at, "30") \o R(o.at)
    [] o.kind = "infoErase"     -> EraseWith("88", o.at, "30")
    [] o.kind = "massErase"     -> EraseWith("80", The5555, "10")
    [] o.kind = "infoMassErase" -> EraseWith("88", The5555, "10")
    [] o.kind = "infoRead"      -> Magic("78") \o R(o.at)
    [] o.kind = "id"            -> Magic("90") \o R(First) \o R(Second)
    [] o.kind = "poll"          -> Magic("70") \o R(First)
    [] o.kind = "fetch"         -> R(o.at)

(* Every operation but a plain read ends with a reset, and begins with one *)
(* if the last was cut short.                                              *)
Script(o) ==
  IF o.kind = "fetch" THEN R(o.at)
  ELSE (IF whole THEN <<>> ELSE W(First, "F0")) \o Body(o) \o W(First, "F0")

(* Where o's accesses go: all to the flash, or none, or some. *)
Reaches(o) ==
  BankOk /\ InFlash(First) /\ \A i \in DOMAIN Body(o) : InFlash(Body(o)[i].addr)
Misses(o) ==
  \/ ~BankOk
  \/ ~InFlash(First) /\ \A i \in DOMAIN Body(o) : ~InFlash(Body(o)[i].addr)

Init ==
  /\ NorInit /\ op = None /\ todo = <<>> /\ ops = 0 /\ whole = TRUE
  /\ regs \in RegisterSets
  /\ memmap = SuperSwitch(machine, regs, [p \in 0..7 |-> Ram(0)])
  /\ ram_40 = SwitchZP40(regs)

(* A write of one of the four bank registers. *)
SetRegister ==
  /\ todo = <<>>
  /\ regs' \in RegisterSets
  /\ \/ regs' = [regs EXCEPT !.bs = regs'.bs]
     \/ regs' = [regs EXCEPT !.roa = regs'.roa, !.bbs = regs'.bbs]
     \/ regs' = [regs EXCEPT !.vol = regs'.vol, !.ramb = regs'.ramb]
     \/ regs' = [regs EXCEPT !.zp = regs'.zp]
  /\ memmap' = SuperSwitch(machine, regs', memmap)
  /\ ram_40' = SwitchZP40(regs')
  /\ UNCHANGED <<nvars, op, todo, ops, whole>>

(* The firmware runs a routine where all of its accesses reach the flash   *)
(* or, having chosen the wrong bank, none does.                            *)
Start ==
  /\ todo = <<>> /\ ops < MaxOps
  /\ op' \in Operations
  /\ Reaches(op') \/ Misses(op') \/ op'.kind = "fetch"
  /\ todo' = Script(op')
  /\ ops' = ops + 1
  /\ UNCHANGED <<nvars, banks, whole>>

Advance ==
  /\ todo # <<>>
  /\ todo' = Tail(todo)
  /\ op' = IF Len(todo) = 1 THEN None ELSE op
  /\ whole' = (whole \/ (op.kind # "fetch" /\ Len(todo) = 1 /\ Reaches(op)))
  /\ UNCHANGED <<banks, ops>>

WritePort ==
  /\ Advance /\ Head(todo).port = "write"
  /\ IF InFlash(Head(todo).addr)
     THEN Write(Head(todo).addr, Head(todo).byte, CellOf(Head(todo).addr), BankOk)
     ELSE UNCHANGED nvars

ReadPort ==
  /\ Advance /\ Head(todo).port = "read"
  /\ IF InFlash(Head(todo).addr)
     THEN Read(Head(todo).addr, CellOf(Head(todo).addr), First, Second)
     ELSE UNCHANGED nvars

(* A warm reset: the routine is forgotten, the flash's state and the bank  *)
(* registers are not.                                                      *)
Abandon ==
  /\ todo # <<>>
  /\ op' = Cut /\ todo' = <<>> /\ whole' = FALSE
  /\ memmap' = SuperSwitch(machine, regs, memmap)
  /\ UNCHANGED <<nvars, regs, ram_40, ops>>

Next == SetRegister \/ Start \/ WritePort \/ ReadPort \/ Abandon

Spec == Init /\ [][Next]_vars

------------------------------------------------------------------------------
(* Properties *)

TypeOK ==
  /\ NorTypeOK
  /\ op \in Operations \cup {None, Cut}
  /\ op \in {None, Cut} <=> todo = <<>>
  /\ regs \in RegisterSets /\ memmap \in Maps /\ ram_40 \in 0..11
  /\ ops \in 0..MaxOps /\ whole \in BOOLEAN

(* However sequences are cut short and mixed, the command machine never    *)
(* reaches a step that its command does not have, where write_nor0 would   *)
(* fail an assertion.  (nor.cpp:212, 219, 225, 287)                        *)
StepsMatchTypes == StepMatchesType

(* How many accesses follow the one that takes effect. *)
Trailer(o) ==
  CASE o.kind \in {"program", "erase"} -> 2
    [] o.kind \in {"infoProgram", "infoErase", "massErase", "infoMassErase"} -> 1
    [] OTHER -> 99
TakesEffect == todo # <<>> /\ Reaches(op) /\ op' # Cut /\ Len(todo) = Trailer(op) + 1

(* What the operation is for. *)
NorStored(o) ==
  CASE o.kind = "program" ->
         [nor EXCEPT ![CellOf(o.at)] = @ \cap PatternOf[o.byte]]
    [] o.kind = "erase" ->
         [c \in Cells |->
            IF /\ <<c.bank, c.quarter>> = <<CellOf(o.at).bank, CellOf(o.at).quarter>>
               /\ c.offset \div SectorCells[machine] = OffsetOf[o.at] \div SectorCells[machine]
            THEN Full ELSE nor[c]]
    [] o.kind \in {"massErase", "infoMassErase"} -> [c \in Cells |-> Full]
    [] OTHER -> nor
InfoStored(o) ==
  CASE o.kind = "infoProgram" ->
         [info EXCEPT ![InfoAt[o.at]] = @ \cap PatternOf[o.byte]]
    [] o.kind \in {"infoErase", "infoMassErase"} -> [i \in Infos |-> Full]
    [] OTHER -> info

(* An operation changes the flash and the info block once, at the access   *)
(* that commits it, exactly as asked, whatever was done before; one that   *)
(* goes to no flash, or is cut short before, changes nothing.  After one   *)
(* was cut short, a single one carried through puts the chip right again.  *)
(* (write_nor0, nor.cpp:181-334)                                           *)
EffectAsAsked ==
  whole => /\ nor' = IF TakesEffect THEN NorStored(op) ELSE nor
           /\ info' = IF TakesEffect THEN InfoStored(op) ELSE info

(* Every read answers what the operation is for: busy after a program or   *)
(* an erase till the reset, the info block, the two identifiers (of which  *)
(* the code gives the nc3000 only the second), the status, and the cell    *)
(* itself once the chip was reset; so no state of the command machine      *)
(* leaks into a later read, but for that of an operation cut short.        *)
(* (read_nor, nor.cpp:133-174)                                             *)
AnswerDue(o, a) ==
  CASE o.kind \in {"program", "erase"} ->
         IF pc1000mode THEN Data(nor[CellOf(a)]) ELSE [kind |-> "busy"]
    [] o.kind = "infoRead" -> Data(info[InfoAt[a]])
    [] o.kind = "id" -> IF a = First THEN Maker ELSE [kind |-> "device"]
    [] o.kind = "poll" -> [kind |-> "busy"]
    [] o.kind = "fetch" -> Data(nor[CellOf(a)])
ReadsAsAsked ==
  whole /\ todo # <<>> /\ Head(todo).port = "read" /\ Reaches(op) /\ op' # Cut
    => read' = AnswerDue(op, Head(todo).addr)
OperationsAsAsked == [][EffectAsAsked /\ ReadsAsAsked]_vars

(* Though sequences are cut short anywhere, no cell ever regains a bit but *)
(* by an erase that was carried through, of its own sector or of all: with *)
(* a reset first, what is left of an erase never meets a later byte.  And  *)
(* a cell loses bits only by the program that names it; or it is where the *)
(* reset is written, when that reset comes while a program still waits for *)
(* its byte.  (nor.cpp:263-272, 286-325, and 327-331 for the reset)        *)
InfoErases == {"infoErase", "infoMassErase"}
NothingErasedByAccident ==
  /\ \A c \in Cells : ~(nor'[c] \subseteq nor[c]) =>
       TakesEffect /\ nor'[c] = NorStored(op)[c]
  /\ \A i \in Infos : ~(info'[i] \subseteq info[i]) =>
       TakesEffect /\ op.kind \in InfoErases
OnlyTheNamedCellIsProgrammed ==
  \A c \in Cells : ~(nor[c] \subseteq nor'[c]) =>
    /\ todo # <<>>
    /\ \/ op.kind = "program" /\ c = CellOf(op.at) /\ TakesEffect
       \/ Head(todo).byte = "F0" /\ c = CellOf(First)
NothingByAccident == [][NothingErasedByAccident /\ OnlyTheNamedCellIsProgrammed]_vars

(* What the machine sees depends on the bank registers alone, not on what  *)
(* was selected before, as long as the bank is there.  One that is not     *)
(* leaves the last one in sight, and the flash cannot be altered through   *)
(* it, not even its command machine.  (SwitchBank_2345, mem.cpp:272-274,   *)
(* nor.cpp:201-205)                                                        *)
Elsewhere == [p \in 0..7 |-> Page("rom2", 255, 3)]
MapFollowsRegisters ==
  [][/\ BankExists(machine, regs') => memmap' = SuperSwitch(machine, regs', Elsewhere)
     /\ ~BankExists(machine, regs') =>
          /\ \A p \in Windows : memmap'[p] = memmap[p]
          /\ <<fp_step, fp_type, nor, info>>' = <<fp_step, fp_type, nor, info>>]_vars

(* The inlined accesses do what Load and Store do: a byte of the flash is  *)
(* only read past the command machine where that would have given the same *)
(* ("a read is exactly memmap[addr>>13][addr&0x1FFF]"), and the addresses  *)
(* written without asking the flash are RAM under every map ("never a NOR  *)
(* bank").  (w65c02.h:145-182)                                             *)
FastPathsAgree ==
  /\ \A a \in Addrs : InFlash(a) =>
       CPU_PEEK(a, CellOf(a), First, Second) = Load(a, CellOf(a), First, Second)
  /\ memmap[0].mem = "ram" /\ memmap[1].mem \in {"ram", "ramb"}
==============================================================================
