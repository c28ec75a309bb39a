---------------------------- MODULE NorDriverProofs ----------------------------
(***************************************************************************)
(* What is proved of the NOR flash behind the memory map, for every number *)
(* and size of banks, every set of machines, registers and addresses.      *)
(***************************************************************************)
EXTENDS NorDriver, SequenceTheorems, TLAPS

Accesses == [port : {"write"}, addr : Addrs, byte : Bytes]
              \cup [port : {"read"}, addr : Addrs]

(* The inductive invariant: the types, with those of the accesses to come; *)
(* the steps and their commands; and the map the registers ask for, where  *)
(* they ask for one.                                                       *)
MapAsAsked ==
  /\ memmap[0].mem = "ram" /\ memmap[1].mem \in {"ram", "ramb"}
  /\ BankExists(machine, regs) => memmap = SuperSwitch(machine, regs, Elsewhere)
IInv == TypeOK /\ todo \in Seq(Accesses) /\ StepsMatchTypes /\ MapAsAsked

------------------------------------------------------------------------------
(* The memory map *)

LEMMA RegisterFacts ==
  ASSUME NEW r \in RegisterSets
  PROVE  /\ r.bs \in 0..255 /\ r.roa \in BOOLEAN /\ r.bbs \in 0..15 /\ r.vol \in 0..3
         /\ r.ramb \in BOOLEAN /\ r.zp \in 0..7
         /\ r.bbs < 4 * NumBanks /\ (r.roa => r.bs % 16 < NumBanks)
  BY MemMapAssumption DEF Registers

(* A page that exists: of the flash, in a bank it has. *)
Ok(page) == page \in Pages /\ (page.mem = "nor" => page.bank < NumBanks)

LEMMA PageOk ==
  ASSUME NEW mem \in Memories, NEW n \in 0..255, NEW q \in 0..3, mem = "nor" => n < NumBanks
  PROVE  Ok(Page(mem, n, q))
  BY DEF Ok, Page, Pages

LEMMA FlashPageOk ==
  ASSUME NEW n \in 0..255, NEW q \in 0..3, n < NumBanks
  PROVE  Ok(Page("nor", n, q))
  BY PageOk DEF Memories

LEMMA RamOk == ASSUME NEW n \in 0..7 PROVE Ok(Ram(n))
  <1>1. n \div 4 \in 0..255 /\ n % 4 \in 0..3
    OBVIOUS
  <1> QED BY <1>1, PageOk DEF Ram, Memories

LEMMA BankOkay ==
  ASSUME NEW mem \in Memories, NEW n \in 0..255, mem = "nor" => n < NumBanks, NEW p \in Windows
  PROVE  Ok(Bank(mem, n)[p])
  <1>1. p % 4 \in 0..3
    BY DEF Windows
  <1> QED BY <1>1, PageOk DEF Bank, Quarter

(* Whatever the registers hold, the windows show existing quarters, and of *)
(* the flash only banks it has.                                            *)
LEMMA WindowsOk ==
  ASSUME NEW m \in {"nc1020", "nc2000", "nc3000", "pc1000"}, NEW r \in RegisterSets,
         NEW p \in Windows, BankExists(m, r)
  PROVE  Ok(BankShown(m, r)[p])
  <1>1. /\ NumBanks \in 1..128 /\ r.bs \in 0..255 /\ r.bs % 16 \in 0..255 /\ p % 4 \in 0..3
        /\ r.roa \in BOOLEAN /\ r.vol \in 0..3
        /\ r.roa => r.bs % 16 < NumBanks
    BY RegisterFacts, MemMapAssumption DEF Windows
  <1>0. 0 < NumBanks /\ 0 \in 0..255
    BY MemMapAssumption
  <1>2. \A n \in 0..255 : n < NumBanks => Ok(Bank("nor", n)[p])
    BY BankOkay DEF Memories
  <1>3. Ok(Ram(2)) /\ Ok(Ram(3))
    BY RamOk
  <1>4. \A vol \in 0..2, n \in 0..255 : Ok(Rom(vol, n)[p])
    <2> SUFFICES ASSUME NEW vol \in 0..2, NEW n \in 0..255 PROVE Ok(Rom(vol, n)[p])
      OBVIOUS
    <2>1. Ok(Bank("rom0", n)[p]) /\ Ok(Bank("rom1", n)[p]) /\ Ok(Bank("rom2", n)[p])
      BY BankOkay DEF Memories
    <2>2. Rom(vol, n) \in {Bank("rom0", n), Bank("rom1", n), Bank("rom2", n)}
      BY DEF Rom
    <2> QED BY <2>1, <2>2
  <1>5. Ok(Bank("nor", 0)[p]) /\ Ok(Bank("ext", 0)[p])
    BY <1>0, BankOkay DEF Memories
  <1>6. CASE m = "pc1000"
    <2> DEFINE bank == IF r.roa THEN Bank("nor", r.bs % 16) ELSE Rom(r.vol % 2, r.bs)
    <2>1. r.vol % 2 \in 0..2
      BY <1>1
    <2>2. Ok(bank[p])
      BY <1>1, <1>2, <1>4, <2>1 DEF Memories
    <2>3. bank \in [Windows -> {bank[q] : q \in Windows}]
      BY DEF Rom, Bank
    <2>4. Ok(Page("nor", 0, 2)) /\ Ok(Page("nor", 0, 3))
      BY <1>0, FlashPageOk
    <2>5. BankShown(m, r)[p] \in {bank[p], Page("nor", 0, 2), Page("nor", 0, 3), Ram(2)}
      BY <1>6, <2>3 DEF BankShown, Pc1000Bank
    <2> QED BY <2>2, <2>4, <2>5, <1>3
  <1>7. CASE m = "nc3000"
    <2>1. CASE r.roa /\ r.bs \in {0, 1}
      <3>1. BankShown(m, r)[p] = Page("ram", r.bs, p % 4)
        BY <1>7, <2>1 DEF BankShown, Nc3000Bank, Quarter
      <3> QED BY <3>1, <1>1, PageOk DEF Memories
    <2>2. CASE ~(r.roa /\ r.bs \in {0, 1}) /\ r.bs = 0
      <3>1. BankShown(m, r)[p] \in {Bank("nor", 0)[p], Ram(2), Ram(3)}
        BY <1>7, <2>2 DEF BankShown, Nc3000Bank, Bank
      <3> QED BY <3>1, <1>3, <1>5
    <2>3. CASE ~(r.roa /\ r.bs \in {0, 1}) /\ r.bs # 0
      <3>1. r.bs < NumBanks
        BY <1>7, <2>3 DEF BankExists
      <3>2. BankShown(m, r) = Bank("nor", r.bs)
        BY <1>7, <2>3, <3>1 DEF BankShown, Nc3000Bank, GetBank
      <3> QED BY <1>1, <1>2, <3>1, <3>2 DEF Memories
    <2> QED BY <2>1, <2>2, <2>3
  <1>8. CASE m \in {"nc1020", "nc2000"}
    <2>1. CASE r.bs = 0
      <3>1. BankShown(m, r)[p] \in {Bank("nor", 0)[p], Bank("ext", 0)[p], Ram(2)}
        BY <1>8, <2>1 DEF BankShown, Nc1020Bank, Bank
      <3> QED BY <3>1, <1>3, <1>5
    <2>2. CASE r.bs # 0 /\ r.bs < NumBanks
      <3>1. BankShown(m, r) = GetBank(m, r)
        BY <1>8, <2>2 DEF BankShown, Nc1020Bank
      <3>11. GetBank(m, r) = Bank("nor", r.bs)
        BY <1>1, <1>8, <2>2, MemMapAssumption DEF GetBank
      <3> QED BY <1>1, <1>2, <2>2, <3>1, <3>11
    <2>3. CASE ~(r.bs < NumBanks)
      <3>1. r.bs >= 128 /\ r.bs # 0
        BY <1>1, <1>8, <2>3 DEF BankExists
      <3>2. \/ \E vol \in 0..2 : BankShown(m, r) = Rom(vol, r.bs)
            \/ BankShown(m, r) = Bank("ext", 0)
        BY <1>1, <1>8, <2>3, <3>1 DEF BankShown, Nc1020Bank, GetBank
      <3> QED BY <1>1, <1>4, <1>5, <3>2
    <2> QED BY <2>1, <2>2, <2>3
  <1> QED BY <1>6, <1>7, <1>8

LEMMA OtherPagesOk ==
  ASSUME NEW m \in {"nc1020", "nc2000", "nc3000", "pc1000"}, NEW r \in RegisterSets
  PROVE  /\ Ok(Switch0x2000(m, r)) /\ Switch0x2000(m, r).mem \in {"ram", "ramb"}
         /\ Ok(SwitchBbs(m, r)) /\ Ok(BbsPage(m, r, 1))
  <1>0. 0 < NumBanks /\ 0 \in 0..255
    BY MemMapAssumption
  <1>1. /\ NumBanks \in 1..128 /\ r.bbs \in 0..15 /\ r.bbs < 4 * NumBanks
    BY RegisterFacts, MemMapAssumption
  <1>2. \A i \in {1, r.bbs} : i \div 4 \in 0..255 /\ i \div 4 < NumBanks /\ (i + 2) % 4 \in 0..3
    BY <1>1
  <1>3. \A i \in {1, r.bbs} : Ok(BbsPage(m, r, i))
    <2> SUFFICES ASSUME NEW i \in {1, r.bbs} PROVE Ok(BbsPage(m, r, i))
      OBVIOUS
    <2>1. Ok(Page("nor", i \div 4, (i + 2) % 4))
      BY <1>2, FlashPageOk
    <2>2. \A mem \in {"rom0", "rom1"} : Ok(Page(mem, i \div 4, (i + 2) % 4))
      BY <1>2, PageOk DEF Memories
    <2> QED BY <2>1, <2>2 DEF BbsPage
  <1>4. /\ Ok(Ram(1)) /\ Ok(Ram(2)) /\ Ok(Ram(3))
        /\ Ok(Page("ramb", 0, 0)) /\ Ok(Page("nor", 0, 3))
    <2>1. Ok(Page("ramb", 0, 0))
      BY <1>0 DEF Ok, Page, Pages, Memories
    <2>2. Ok(Page("nor", 0, 3))
      BY <1>0, FlashPageOk
    <2> QED BY <2>1, <2>2, RamOk
  <1>5. Ok(Switch0x2000(m, r)) /\ Switch0x2000(m, r).mem \in {"ram", "ramb"}
    BY <1>4 DEF Switch0x2000, Ram, Page
  <1>6. SwitchBbs(m, r) \in {BbsPage(m, r, r.bbs), Ram(3), Page("nor", 0, 3), Ram(2)}
    BY DEF SwitchBbs
  <1> QED BY <1>3, <1>4, <1>5, <1>6

LEMMA SuperSwitchType ==
  ASSUME NEW m \in {"nc1020", "nc2000", "nc3000", "pc1000"}, NEW r \in RegisterSets,
         NEW old \in [0..7 -> Pages],
         BankExists(m, r) \/ old \in Maps
  PROVE  SuperSwitch(m, r, old) \in Maps
  <1> DEFINE new == SuperSwitch(m, r, old)
  <1>1. \A p \in Windows : Ok(new[p])
    <2> SUFFICES ASSUME NEW p \in Windows PROVE Ok(new[p])
      OBVIOUS
    <2>1. p \in 0..7 /\ p \notin {0, 1, 6, 7}
      BY DEF Windows
    <2>2. new[p] = SwitchBank(m, r, old)[p]
      BY <2>1 DEF SuperSwitch
    <2>3. CASE BankExists(m, r)
      BY <2>2, <2>3, WindowsOk DEF SwitchBank
    <2>4. CASE ~BankExists(m, r)
      BY <2>1, <2>2, <2>4 DEF SwitchBank, Maps, Ok
    <2> QED BY <2>3, <2>4
  <1>2. /\ new[0] = Ram(0) /\ new[1] = Switch0x2000(m, r)
        /\ new[6] = SwitchBbs(m, r) /\ new[7] = BbsPage(m, r, 1)
    BY DEF SuperSwitch, Windows
  <1>3. \A p \in 0..7 : Ok(new[p])
    BY <1>1, <1>2, OtherPagesOk, RamOk DEF Windows
  <1>4. new \in [0..7 -> {new[p] : p \in 0..7}]
    BY DEF SuperSwitch
  <1> QED BY <1>3, <1>4 DEF Maps, Ok

------------------------------------------------------------------------------
(* The command machine *)

LEMMA ResetType ==
  ASSUME reset_nor_status PROVE fp_step' = 0 /\ fp_type' = "NONE"
  BY DEF reset_nor_status

LEMMA DoneType ==
  ASSUME NEW step \in {4, 6}, DoneOrReset(step)
  PROVE  \/ fp_step' = 0 /\ fp_type' = "NONE"
         \/ fp_step' = step /\ fp_type' = fp_type
  <1>1. CASE machine = "pc1000"
    BY <1>1 DEF DoneOrReset, reset_nor_status, pc1000mode
  <1>2. CASE machine # "pc1000"
    BY <1>2 DEF DoneOrReset, pc1000mode
  <1> QED BY <1>1, <1>2

LEMMA ProgrammedType ==
  ASSUME NEW old \in SUBSET Bits, NEW v
  PROVE  Programmed(old, v) \in SUBSET Bits
  BY DEF Programmed

(* A write leaves the types as they are, and each step with a command it   *)
(* belongs to.                                                             *)
LEMMA WriteKeeps ==
  ASSUME NorTypeOK, NEW a \in Addrs, NEW v \in Bytes, NEW c \in Cells, NEW ok, Write(a, v, c, ok)
  PROVE  NorTypeOK' /\ (StepMatchesType => StepMatchesType')
  <1>1. /\ machine' = machine /\ read' = read
        /\ machine' \in Machines /\ read' \in Answers
    BY DEF Write, NorTypeOK
  <1>2. InfoAt[a] \in Infos
    BY NorAssumption
  <1>3. CASE UNCHANGED <<fp_step, fp_type, nor, info>>
    BY <1>1, <1>3 DEF NorTypeOK, StepMatchesType
  <1>4. CASE Unlock(a, v)
    <2>1. /\ fp_step \in {0, 1, 3, 4} /\ (fp_step \in {3, 4} => fp_type \in EraseTypes)
          /\ fp_step' = fp_step + 1 /\ fp_type' = fp_type /\ nor' = nor /\ info' = info
      BY <1>4 DEF Unlock, Unlocking
    <2>2. CASE fp_step \in {0, 1}
      BY <1>1, <2>1, <2>2 DEF NorTypeOK, StepMatchesType
    <2>3. CASE fp_step \in {3, 4}
      BY <1>1, <2>1, <2>3 DEF NorTypeOK, StepMatchesType, EraseTypes
    <2> QED BY <2>1, <2>2, <2>3
  <1>5. CASE Choose(a, v)
    <2>1. CommandOf(v) \in Types \ {"NONE"}
      BY <1>5 DEF Choose, Choosing, TypeCmds, CommandOf, Types
    <2>2. fp_step' = 3 /\ fp_type' = CommandOf(v) /\ nor' = nor /\ info' = info
      BY <1>5 DEF Choose
    <2> QED BY <1>1, <2>1, <2>2 DEF NorTypeOK, StepMatchesType
  <1>6. CASE Program(c, a, v)
    <2>1. fp_step = 3 /\ fp_type \in {"BYTE_PROGRAM", "INFO_BYTE_PROGRAM"}
      BY <1>6 DEF Program, Programming
    <2>2. nor' \in [Cells -> SUBSET Bits] /\ info' \in [Infos -> SUBSET Bits]
      BY <1>2, <1>6, ProgrammedType DEF Program, NorTypeOK
    <2>3. \/ fp_step' = 0 /\ fp_type' = "NONE"
          \/ fp_step' = 4 /\ fp_type' = fp_type
      BY <1>6, DoneType DEF Program
    <2> QED BY <1>1, <2>1, <2>2, <2>3 DEF NorTypeOK, StepMatchesType, Types
  <1>7. CASE MassErase(a, v) \/ Erase(c, v)
    <2>1. fp_step = 5
      BY <1>7 DEF MassErase, MassErasing, Erase, Erasing
    <2>2. nor' \in [Cells -> SUBSET Bits] /\ info' \in [Infos -> SUBSET Bits]
      BY <1>7 DEF MassErase, Erase, NorTypeOK, Full
    <2>3. \/ fp_step' = 0 /\ fp_type' = "NONE"
          \/ fp_step' = 6 /\ fp_type' = fp_type
      BY <1>7, DoneType DEF MassErase, Erase
    <2> QED BY <1>1, <2>1, <2>2, <2>3 DEF NorTypeOK, StepMatchesType, Types
  <1>8. CASE Other(v) /\ UNCHANGED <<nor, info>>
    <2>1. \/ fp_step' = 0 /\ fp_type' = "NONE"
          \/ fp_step' = fp_step /\ fp_type' = fp_type
      BY <1>8 DEF Other, reset_nor_status
    <2> QED BY <1>1, <1>8, <2>1 DEF NorTypeOK, StepMatchesType, Types
  <1> QED BY <1>3, <1>4, <1>5, <1>6, <1>7, <1>8 DEF Write

LEMMA ReadKeeps ==
  ASSUME NorTypeOK, NEW a \in Addrs, NEW c \in Cells, Read(a, c, First, Second)
  PROVE  NorTypeOK' /\ (StepMatchesType => StepMatchesType')
  <1>1. InfoAt[a] \in Infos
    BY NorAssumption
  <1>2. Data(nor[c]) \in Answers /\ Data(info[InfoAt[a]]) \in Answers
    BY <1>1 DEF Data, Answers, NorTypeOK
  <1>3. Load(a, c, First, Second) \in Answers
    <2>1. \A k \in {"maker", "device", "busy", "any"} : [kind |-> k] \in Answers
      BY DEF Answers
    <2>2. Maker \in Answers
      BY <2>1 DEF Maker
    <2> QED BY <1>2, <2>1, <2>2 DEF Load
  <1>4. read' \in Answers
    BY <1>2, <1>3 DEF Read, CPU_PEEK
  <1> QED BY <1>4 DEF Read, NorTypeOK, StepMatchesType

------------------------------------------------------------------------------
(* The driver *)

LEMMA AliasType == The5555 \in Addrs
  <1>1. \E a \in At5555 : (\E b \in At5555 : InFlash(b)) => InFlash(a)
    BY NorAssumption
  <1>2. The5555 \in At5555
    BY <1>1 DEF The5555
  <1> QED BY <1>2, NorAssumption

LEMMA AccessType ==
  ASSUME NEW a \in Addrs
  PROVE  /\ R(a) \in Seq(Accesses) /\ Len(R(a)) = 1
         /\ \A v \in Bytes : W(a, v) \in Seq(Accesses) /\ Len(W(a, v)) = 1
  BY DEF R, W, Accesses

LEMMA ScriptType ==
  ASSUME NEW o \in Operations
  PROVE  Script(o) \in Seq(Accesses) /\ Script(o) # <<>>
  <1>1. /\ The5555 \in Addrs /\ AtAAAA \in Addrs /\ First \in Addrs /\ Second \in Addrs
        /\ Targets \subseteq Addrs /\ Payload \subseteq Bytes
        /\ {"AA", "55", "90", "A0", "80", "A8", "88", "78", "70", "30", "10", "F0"} \subseteq Bytes
    BY AliasType, NorAssumption, DriverAssumption DEF Unlocks, TypeCmds
  <1>2. \A v \in Bytes : Magic(v) \in Seq(Accesses)
    BY <1>1, AccessType DEF Magic
  <1>3. \A type, v \in Bytes, a \in Addrs : EraseWith(type, a, v) \in Seq(Accesses)
    BY <1>1, <1>2, AccessType DEF EraseWith
  <1>4. Body(o) \in Seq(Accesses)
    <2>1. CASE o.kind \in {"program", "infoProgram"}
      <3>1. o.at \in Addrs /\ o.byte \in Bytes
        BY <1>1, <2>1 DEF Operations
      <3>2. W(o.at, o.byte) \in Seq(Accesses) /\ R(o.at) \in Seq(Accesses)
        BY <3>1, AccessType
      <3>3. Magic("A0") \in Seq(Accesses) /\ Magic("A8") \in Seq(Accesses)
        BY <1>1, <1>2
      <3> QED BY <2>1, <3>2, <3>3 DEF Body
    <2>2. CASE o.kind \in {"erase", "infoErase", "infoRead", "fetch"}
      <3>1. o.at \in Addrs
        BY <1>1, <2>2 DEF Operations
      <3>2. /\ EraseWith("80", o.at, "30") \in Seq(Accesses)
            /\ EraseWith("88", o.at, "30") \in Seq(Accesses)
            /\ Magic("78") \in Seq(Accesses) /\ R(o.at) \in Seq(Accesses)
        BY <1>1, <1>2, <1>3, <3>1, AccessType
      <3> QED BY <2>2, <3>2 DEF Body
    <2>3. CASE o.kind \in {"massErase", "infoMassErase", "id", "poll"}
      <3>1. /\ EraseWith("80", The5555, "10") \in Seq(Accesses)
            /\ EraseWith("88", The5555, "10") \in Seq(Accesses)
            /\ Magic("90") \in Seq(Accesses) /\ Magic("70") \in Seq(Accesses)
            /\ R(First) \in Seq(Accesses) /\ R(Second) \in Seq(Accesses)
        BY <1>1, <1>2, <1>3, AccessType
      <3> QED BY <2>3, <3>1 DEF Body
    <2> QED BY <2>1, <2>2, <2>3 DEF Operations
  <1>5. CASE o.kind = "fetch"
    <2>1. o.at \in Addrs
      BY <1>1, <1>5 DEF Operations
    <2> QED BY <1>5, <2>1, AccessType DEF Script
  <1>6. CASE o.kind # "fetch"
    <2> DEFINE last  == W(First, "F0")
               first == IF whole THEN <<>> ELSE last
    <2>1. last \in Seq(Accesses) /\ Len(last) = 1
      BY <1>1, AccessType
    <2>2. first \in Seq(Accesses)
      BY <2>1
    <2>3. Script(o) = (first \o Body(o)) \o last
      BY <1>6 DEF Script
    <2> HIDE DEF first, last
    <2>4. first \o Body(o) \in Seq(Accesses)
      BY <1>4, <2>2
    <2>5. \A s, t \in Seq(Accesses) :
            s \o t \in Seq(Accesses) /\ Len(s \o t) = Len(s) + Len(t)
      BY ConcatProperties
    <2>6. Script(o) \in Seq(Accesses)
      BY <2>1, <2>3, <2>4, <2>5
    <2>7. Len(Script(o)) = Len(first \o Body(o)) + Len(last)
      BY <2>1, <2>3, <2>4, <2>5
    <2>8. Len(first \o Body(o)) \in Nat
      BY <2>4, LenProperties
    <2> QED BY <2>1, <2>6, <2>7, <2>8
  <1> QED BY <1>5, <1>6

LEMMA CellType ==
  ASSUME memmap \in Maps, NEW a \in Addrs, InFlash(a)
  PROVE  CellOf(a) \in Cells
  <1>1. PageOf[a] \in 0..7 /\ OffsetOf[a] \in 0..PageCells-1
    BY DriverAssumption
  <1>2. memmap[PageOf[a]] \in Pages /\ memmap[PageOf[a]].bank < NumBanks
    BY <1>1 DEF Maps, InFlash
  <1>3. memmap[PageOf[a]].bank \in 0..NumBanks-1 /\ memmap[PageOf[a]].quarter \in 0..3
    BY <1>2, MemMapAssumption DEF Pages
  <1> QED BY <1>1, <1>3 DEF CellOf, Cells

(* What super_switch makes of any map: the first two pages are RAM, and    *)
(* what was selected before is of no account if the bank is there.         *)
LEMMA SuperSwitchFollows ==
  ASSUME NEW m \in {"nc1020", "nc2000", "nc3000", "pc1000"}, NEW r \in RegisterSets, NEW old
  PROVE  /\ SuperSwitch(m, r, old)[0].mem = "ram"
         /\ SuperSwitch(m, r, old)[1].mem \in {"ram", "ramb"}
         /\ BankExists(m, r) => SuperSwitch(m, r, old) = SuperSwitch(m, r, Elsewhere)
         /\ ~BankExists(m, r) => \A p \in Windows : SuperSwitch(m, r, old)[p] = old[p]
  <1>1. SuperSwitch(m, r, old)[0] = Ram(0) /\ SuperSwitch(m, r, old)[1] = Switch0x2000(m, r)
    BY DEF SuperSwitch, Windows
  <1>2. Ram(0).mem = "ram"
    BY DEF Ram, Page
  <1>3. BankExists(m, r) => SwitchBank(m, r, old) = SwitchBank(m, r, Elsewhere)
    BY DEF SwitchBank
  <1>4. BankExists(m, r) => SuperSwitch(m, r, old) = SuperSwitch(m, r, Elsewhere)
    BY <1>3 DEF SuperSwitch
  <1>5. ASSUME ~BankExists(m, r), NEW p \in Windows PROVE SuperSwitch(m, r, old)[p] = old[p]
    <2>1. p \in 0..7 /\ p \notin {0, 1, 6, 7}
      BY DEF Windows
    <2> QED BY <1>5, <2>1 DEF SuperSwitch, SwitchBank
  <1> QED BY <1>1, <1>2, <1>4, <1>5, OtherPagesOk

LEMMA MachineType ==
  ASSUME machine \in Machines PROVE machine \in {"nc1020", "nc2000", "nc3000", "pc1000"}
  BY NorAssumption

LEMMA InitIInv == Init => IInv
  <1> SUFFICES ASSUME Init PROVE IInv
    OBVIOUS
  <1>1. NorTypeOK /\ StepsMatchTypes
    BY DEF Init, NorInit, NorTypeOK, StepsMatchTypes, StepMatchesType, Types, EraseTypes,
           Answers, Full
  <1>2. machine \in {"nc1020", "nc2000", "nc3000", "pc1000"} /\ regs \in RegisterSets
    BY <1>1, MachineType DEF Init, NorTypeOK
  <1>3. [p \in 0..7 |-> Ram(0)] \in Maps
    <2>1. Ok(Ram(0))
      BY RamOk
    <2> QED BY <2>1 DEF Maps, Ok
  <1>4. memmap \in Maps /\ MapAsAsked
    <2> DEFINE old == [p \in 0..7 |-> Ram(0)]
    <2>1. old \in [0..7 -> Pages] /\ memmap = SuperSwitch(machine, regs, old)
      BY <1>3 DEF Init, Maps
    <2> HIDE DEF old
    <2> QED BY <1>2, <1>3, <2>1, SuperSwitchType, SuperSwitchFollows DEF MapAsAsked, old
  <1>5. ram_40 \in 0..11
    BY <1>2, RegisterFacts DEF Init, SwitchZP40
  <1>6. op \in Operations \cup {None, Cut} /\ (op \in {None, Cut} <=> todo = <<>>)
        /\ todo \in Seq(Accesses) /\ ops \in 0..MaxOps /\ whole \in BOOLEAN
    BY DriverAssumption DEF Init
  <1> QED BY <1>1, <1>2, <1>4, <1>5, <1>6 DEF IInv, TypeOK

LEMMA AdvanceKeeps ==
  ASSUME IInv, Advance
  PROVE  /\ Head(todo) \in Accesses /\ todo' \in Seq(Accesses)
         /\ op' \in Operations \cup {None, Cut} /\ (op' \in {None, Cut} <=> todo' = <<>>)
         /\ whole' \in BOOLEAN
         /\ regs' = regs /\ memmap' = memmap /\ ram_40' = ram_40 /\ ops' = ops
  <1>1. todo \in Seq(Accesses) /\ todo # <<>>
    BY DEF IInv, Advance
  <1>2. Head(todo) \in Accesses /\ Tail(todo) \in Seq(Accesses) /\ Len(Tail(todo)) = Len(todo) - 1
    BY <1>1, HeadTailProperties
  <1>3. Tail(todo) = <<>> <=> Len(todo) = 1
    <2>1. Tail(todo) = <<>> => Len(todo) = 1
      BY <1>1, <1>2, LenProperties, EmptySeq
    <2>2. Len(todo) = 1 => Len(Tail(todo)) = 0
      BY <1>2
    <2>3. Len(Tail(todo)) = 0 => Tail(todo) = <<>>
      BY <1>2, EmptySeq
    <2> QED BY <2>1, <2>2, <2>3
  <1>4. op \in Operations \cup {None, Cut} /\ op \notin {None, Cut} /\ whole \in BOOLEAN
    BY <1>1 DEF IInv, TypeOK
  <1> QED BY <1>2, <1>3, <1>4 DEF Advance, banks

LEMMA NextIInv == IInv /\ [Next]_vars => IInv'
  <1> SUFFICES ASSUME IInv, [Next]_vars PROVE IInv'
    OBVIOUS
  <1>1. machine \in {"nc1020", "nc2000", "nc3000", "pc1000"} /\ memmap \in Maps
    BY MachineType DEF IInv, TypeOK, NorTypeOK
  <1>2. memmap \in [0..7 -> Pages]
    BY <1>1 DEF Maps
  <1>3. CASE SetRegister
    <2>1. /\ regs' \in RegisterSets /\ memmap' = SuperSwitch(machine, regs', memmap)
          /\ ram_40' = SwitchZP40(regs') /\ machine' = machine
          /\ UNCHANGED <<nvars, op, todo, ops, whole>>
      BY <1>3 DEF SetRegister, nvars
    <2>2. memmap' \in Maps /\ MapAsAsked'
      BY <1>1, <1>2, <2>1, SuperSwitchType, SuperSwitchFollows DEF MapAsAsked
    <2>3. ram_40' \in 0..11
      BY <2>1, RegisterFacts DEF SwitchZP40
    <2>4. NorTypeOK' /\ StepsMatchTypes'
      BY <2>1 DEF IInv, TypeOK, NorTypeOK, StepsMatchTypes, StepMatchesType, nvars
    <2> QED BY <2>1, <2>2, <2>3, <2>4 DEF IInv, TypeOK
  <1>4. CASE Start
    <2>1. op' \in Operations /\ todo' \in Seq(Accesses) /\ todo' # <<>> /\ ops' \in 0..MaxOps
      <3>1. op' \in Operations /\ todo' = Script(op') /\ ops < MaxOps /\ ops' = ops + 1
        BY <1>4 DEF Start
      <3> QED BY <3>1, ScriptType, DriverAssumption DEF IInv, TypeOK
    <2>2. op' \notin {None, Cut}
      BY <2>1 DEF Operations, None, Cut
    <2>3. UNCHANGED <<nvars, banks, whole>>
      BY <1>4 DEF Start
    <2>4. NorTypeOK' /\ StepsMatchTypes' /\ MapAsAsked'
      BY <2>3 DEF IInv, TypeOK, NorTypeOK, StepsMatchTypes, StepMatchesType, MapAsAsked,
                  nvars, banks
    <2> QED BY <2>1, <2>2, <2>3, <2>4 DEF IInv, TypeOK, banks
  <1>5. ASSUME Advance, NorTypeOK' /\ StepsMatchTypes', machine' = machine PROVE IInv'
    <2>1. MapAsAsked'
      BY <1>5, AdvanceKeeps DEF IInv, MapAsAsked
    <2> QED BY <1>5, <2>1, AdvanceKeeps DEF IInv, TypeOK
  <1>6. ASSUME UNCHANGED nvars PROVE NorTypeOK' /\ StepsMatchTypes'
    BY <1>6 DEF IInv, TypeOK, NorTypeOK, StepsMatchTypes, StepMatchesType, nvars
  <1>7. CASE WritePort
    <2>1. Advance /\ Head(todo) \in Accesses /\ Head(todo).port = "write"
      BY <1>7, AdvanceKeeps DEF WritePort
    <2>2. Head(todo).addr \in Addrs /\ Head(todo).byte \in Bytes
      BY <2>1 DEF Accesses
    <2>3. CASE InFlash(Head(todo).addr)
      <3>1. Write(Head(todo).addr, Head(todo).byte, CellOf(Head(todo).addr), BankOk)
        BY <1>7, <2>3 DEF WritePort
      <3>2. NorTypeOK' /\ StepsMatchTypes'
        BY <1>1, <2>2, <2>3, <3>1, CellType, WriteKeeps DEF IInv, TypeOK, StepsMatchTypes
      <3>3. machine' = machine
        BY <3>1 DEF Write
      <3> QED BY <1>5, <2>1, <3>2, <3>3
    <2>4. CASE ~InFlash(Head(todo).addr)
      <3>1. UNCHANGED nvars
        BY <1>7, <2>4 DEF WritePort
      <3> QED BY <1>5, <1>6, <2>1, <3>1 DEF nvars
    <2> QED BY <2>3, <2>4
  <1>8. CASE ReadPort
    <2>1. Advance /\ Head(todo) \in Accesses
      BY <1>8, AdvanceKeeps DEF ReadPort
    <2>2. Head(todo).addr \in Addrs
      BY <2>1 DEF Accesses
    <2>3. CASE InFlash(Head(todo).addr)
      <3>1. Read(Head(todo).addr, CellOf(Head(todo).addr), First, Second)
        BY <1>8, <2>3 DEF ReadPort
      <3>2. NorTypeOK' /\ StepsMatchTypes'
        BY <1>1, <2>2, <2>3, <3>1, CellType, ReadKeeps DEF IInv, TypeOK, StepsMatchTypes
      <3>3. machine' = machine
        BY <3>1 DEF Read
      <3> QED BY <1>5, <2>1, <3>2, <3>3
    <2>4. CASE ~InFlash(Head(todo).addr)
      <3>1. UNCHANGED nvars
        BY <1>8, <2>4 DEF ReadPort
      <3> QED BY <1>5, <1>6, <2>1, <3>1 DEF nvars
    <2> QED BY <2>3, <2>4
  <1>9. CASE Abandon
    <2>1. /\ op' = Cut /\ todo' = <<>> /\ whole' = FALSE
          /\ memmap' = SuperSwitch(machine, regs, memmap)
          /\ UNCHANGED <<nvars, regs, ram_40, ops>>
      BY <1>9 DEF Abandon
    <2>2. regs \in RegisterSets /\ machine' = machine /\ regs' = regs
      BY <2>1 DEF IInv, TypeOK, nvars
    <2>3. memmap' \in Maps /\ MapAsAsked'
      <3> DEFINE new == SuperSwitch(machine, regs, memmap)
      <3>1. /\ new \in Maps /\ new[0].mem = "ram" /\ new[1].mem \in {"ram", "ramb"}
            /\ BankExists(machine, regs) => new = SuperSwitch(machine, regs, Elsewhere)
        BY <1>1, <1>2, <2>2, SuperSwitchType, SuperSwitchFollows
      <3>2. memmap' = new
        BY <2>1
      <3> HIDE DEF new
      <3>3. /\ memmap' \in Maps /\ memmap'[0].mem = "ram" /\ memmap'[1].mem \in {"ram", "ramb"}
            /\ BankExists(machine, regs) => memmap' = SuperSwitch(machine, regs, Elsewhere)
        BY <3>1, <3>2
      <3> QED BY <2>2, <3>3 DEF MapAsAsked
    <2>4. NorTypeOK' /\ StepsMatchTypes'
      BY <1>6, <2>1
    <2>5. /\ op' \in {None, Cut} /\ todo' = <<>> /\ todo' \in Seq(Accesses)
          /\ whole' \in BOOLEAN
      BY <2>1, EmptySeq
    <2>6. regs' \in RegisterSets /\ ram_40' \in 0..11 /\ ops' \in 0..MaxOps
      BY <2>1, <2>2 DEF IInv, TypeOK
    <2> QED BY <2>3, <2>4, <2>5, <2>6 DEF IInv, TypeOK
  <1>10. CASE UNCHANGED vars
    BY <1>10 DEF IInv, TypeOK, NorTypeOK, StepsMatchTypes, StepMatchesType, MapAsAsked, vars, nvars
  <1> QED BY <1>3, <1>4, <1>7, <1>8, <1>9, <1>10 DEF Next

LEMMA Invariance == Spec => []IInv
  BY InitIInv, NextIInv, PTL DEF Spec

------------------------------------------------------------------------------
(* The theorems *)

(* Every variable keeps its type: the map never shows a page that does not *)
(* exist, and no access leaves the flash's array.                          *)
THEOREM TypeCorrect == Spec => []TypeOK
  <1>1. IInv => TypeOK
    BY DEF IInv
  <1> QED BY <1>1, Invariance, PTL

(* However sequences are cut short and mixed, write_nor0's assertions      *)
(* hold: each step belongs to the command it is reached by.                *)
THEOREM StepsMatch == Spec => []StepsMatchTypes
  <1>1. IInv => StepsMatchTypes
    BY DEF IInv
  <1> QED BY <1>1, Invariance, PTL

(* The inlined reads and writes give what Load and Store give.             *)
THEOREM FastPaths == Spec => []FastPathsAgree
  <1>1. ASSUME NEW a, NEW c PROVE CPU_PEEK(a, c, First, Second) = Load(a, c, First, Second)
    BY DEF CPU_PEEK, Load, Busy
  <1>2. IInv => FastPathsAgree
    BY <1>1 DEF IInv, MapAsAsked, FastPathsAgree
  <1> QED BY <1>2, Invariance, PTL

(* What the machine sees is what the bank registers ask for; through a     *)
(* bank that is not there the flash cannot be altered.                     *)
THEOREM MapFollows == Spec => MapFollowsRegisters
  <1> DEFINE Follows ==
        /\ BankExists(machine, regs') => memmap' = SuperSwitch(machine, regs', Elsewhere)
        /\ ~BankExists(machine, regs') =>
             /\ \A p \in Windows : memmap'[p] = memmap[p]
             /\ <<fp_step, fp_type, nor, info>>' = <<fp_step, fp_type, nor, info>>
  <1>1. ASSUME IInv, Next PROVE Follows
    <2>1. machine \in {"nc1020", "nc2000", "nc3000", "pc1000"} /\ regs \in RegisterSets
      BY <1>1, MachineType DEF IInv, TypeOK, NorTypeOK
    <2>2. CASE SetRegister
      <3>1. regs' \in RegisterSets /\ memmap' = SuperSwitch(machine, regs', memmap)
            /\ <<fp_step, fp_type, nor, info>>' = <<fp_step, fp_type, nor, info>>
        BY <2>2 DEF SetRegister, nvars
      <3> QED BY <2>1, <3>1, SuperSwitchFollows
    <2>3. CASE Start
      <3>1. UNCHANGED <<nvars, banks>>
        BY <2>3 DEF Start
      <3> QED BY <1>1, <3>1 DEF nvars, banks, IInv, MapAsAsked
    <2>4. CASE WritePort
      <3>1. regs' = regs /\ memmap' = memmap
        BY <2>4 DEF WritePort, Advance, banks
      <3>2. ~BankExists(machine, regs) => ~BankOk
        BY DEF BankExists, BankOk
      <3>3. ~BankOk => <<fp_step, fp_type, nor, info>>' = <<fp_step, fp_type, nor, info>>
        BY <2>4 DEF WritePort, Write, nvars
      <3> QED BY <1>1, <3>1, <3>2, <3>3 DEF IInv, MapAsAsked
    <2>5. CASE ReadPort
      <3>1. regs' = regs /\ memmap' = memmap
            /\ <<fp_step, fp_type, nor, info>>' = <<fp_step, fp_type, nor, info>>
        BY <2>5 DEF ReadPort, Advance, Read, banks, nvars
      <3> QED BY <1>1, <3>1 DEF IInv, MapAsAsked
    <2>6. CASE Abandon
      <3>1. regs' = regs /\ memmap' = SuperSwitch(machine, regs, memmap)
            /\ <<fp_step, fp_type, nor, info>>' = <<fp_step, fp_type, nor, info>>
        BY <2>6 DEF Abandon, nvars
      <3> QED BY <2>1, <3>1, SuperSwitchFollows
    <2> QED BY <1>1, <2>2, <2>3, <2>4, <2>5, <2>6 DEF Next
  <1>2. IInv /\ [Next]_vars => [Follows]_vars
    BY <1>1
  <1> QED BY <1>2, Invariance, PTL DEF Spec, MapFollowsRegisters

------------------------------------------------------------------------------
(* What the routines send *)

Erases   == {"erase", "infoErase", "massErase", "infoMassErase"}
Programs == {"program", "infoProgram"}

Wr(a, v) == [port |-> "write", addr |-> a, byte |-> v]
Rd(a)    == [port |-> "read", addr |-> a]

Command(o) ==
  CASE o.kind = "program" -> "A0" [] o.kind = "infoProgram" -> "A8"
    [] o.kind \in {"erase", "massErase"} -> "80"
    [] o.kind \in {"infoErase", "infoMassErase"} -> "88"
    [] o.kind = "infoRead" -> "78" [] o.kind = "id" -> "90" [] o.kind = "poll" -> "70"

BodyLen(o) ==
  CASE o.kind = "erase" -> 7
    [] o.kind \in Erases \ {"erase"} -> 6
    [] o.kind \in {"program", "id"} -> 5
    [] o.kind \in {"infoProgram", "infoRead", "poll"} -> 4

(* How many accesses are behind an operation when it takes effect: 9 if it *)
(* never does.                                                             *)
Commits(o) == IF o.kind \in Erases THEN 5 ELSE IF o.kind \in Programs THEN 3 ELSE 9

(* The access with k others of the body behind it. *)
Sent(o, k) ==
  CASE k = BodyLen(o) -> Wr(First, "F0")
    [] k < BodyLen(o) /\ k = 0 -> Wr(The5555, "AA")
    [] k < BodyLen(o) /\ k = 1 -> Wr(AtAAAA, "55")
    [] k < BodyLen(o) /\ k = 2 -> Wr(The5555, Command(o))
    [] k < BodyLen(o) /\ k >= 3 ->
         IF k = Commits(o)
         THEN IF o.kind \in Programs THEN Wr(o.at, o.byte)
              ELSE IF o.kind \in {"erase", "infoErase"} THEN Wr(o.at, "30")
              ELSE Wr(The5555, "10")
         ELSE IF k = 3 /\ o.kind \in Erases THEN Wr(The5555, "AA")
         ELSE IF k = 4 /\ o.kind \in Erases THEN Wr(AtAAAA, "55")
         ELSE IF o.kind \in {"id", "poll"} THEN Rd(IF k = 3 THEN First ELSE Second)
         ELSE Rd(o.at)

(* u is s with x after it. *)
Grown(s, x, u) ==
  /\ u \in Seq(Accesses) /\ Len(u) = Len(s) + 1
  /\ u[Len(s) + 1] = x
  /\ \A i \in 1..Len(s) : u[i] = s[i]

LEMMA Grow ==
  ASSUME NEW s \in Seq(Accesses), NEW x \in Accesses
  PROVE  Grown(s, x, s \o <<x>>)
  <1>1. s \o <<x>> = Append(s, x)
    OBVIOUS
  <1> QED BY <1>1, AppendProperties DEF Grown

GrownByThree(s, x, y, z, n, u) ==
  /\ u \in Seq(Accesses) /\ Len(u) = n + 3
  /\ u[n + 1] = x /\ u[n + 2] = y /\ u[n + 3] = z
  /\ \A i \in 1..n : u[i] = s[i]

LEMMA ThreeMore ==
  ASSUME NEW s \in Seq(Accesses), NEW x \in Accesses, NEW y \in Accesses, NEW z \in Accesses,
         NEW n \in Nat, Len(s) = n
  PROVE  GrownByThree(s, x, y, z, n, ((s \o <<x>>) \o <<y>>) \o <<z>>)
  <1> DEFINE p == s \o <<x>>  q == p \o <<y>>  u == q \o <<z>>
  <1>1. p \in Seq(Accesses) /\ Len(p) = n + 1 /\ p[n + 1] = x /\ \A i \in 1..n : p[i] = s[i]
    BY Grow DEF Grown
  <1> HIDE DEF p
  <1>2. /\ q \in Seq(Accesses) /\ Len(q) = n + 2 /\ q[n + 2] = y
        /\ \A i \in 1..n+1 : q[i] = p[i]
    <2>1. Grown(p, y, q)
      BY <1>1, Grow
    <2> QED BY <1>1, <2>1 DEF Grown
  <1> HIDE DEF q
  <1>3. /\ u \in Seq(Accesses) /\ Len(u) = n + 3 /\ u[n + 3] = z
        /\ \A i \in 1..n+2 : u[i] = q[i]
    <2>1. Grown(q, z, u)
      BY <1>2, Grow
    <2> QED BY <1>2, <2>1 DEF Grown
  <1> HIDE DEF u
  <1>4. /\ u \in Seq(Accesses) /\ Len(u) = n + 3
        /\ u[n + 1] = x /\ u[n + 2] = y /\ u[n + 3] = z
        /\ \A i \in 1..n : u[i] = s[i]
    BY <1>1, <1>2, <1>3
  <1> QED BY <1>4 DEF u, q, p, GrownByThree

LEMMA Sendable ==
  /\ \A a \in {The5555, AtAAAA, First, Second} \cup Targets : a \in Addrs
  /\ \A v \in {"AA", "55", "90", "A0", "80", "A8", "88", "78", "70", "30", "10", "F0"} \cup Payload :
       v \in Bytes
  /\ \A a \in Addrs : Rd(a) \in Accesses /\ \A v \in Bytes : Wr(a, v) \in Accesses
  <1>1. \A a \in {The5555, AtAAAA, First, Second} \cup Targets : a \in Addrs
    BY AliasType, NorAssumption, DriverAssumption
  <1>2. \A v \in {"AA", "55", "90", "A0", "80", "A8", "88", "78", "70", "30", "10", "F0"} \cup Payload :
          v \in Bytes
    BY NorAssumption, DriverAssumption DEF Unlocks, TypeCmds
  <1> QED BY <1>1, <1>2 DEF Rd, Wr, Accesses

LEMMA MagicSends ==
  ASSUME NEW v \in Bytes
  PROVE  /\ Magic(v) \in Seq(Accesses) /\ Len(Magic(v)) = 3
         /\ Magic(v)[1] = Wr(The5555, "AA") /\ Magic(v)[2] = Wr(AtAAAA, "55")
         /\ Magic(v)[3] = Wr(The5555, v)
  <1> DEFINE x == Wr(The5555, "AA")  y == Wr(AtAAAA, "55")  z == Wr(The5555, v)
  <1>1. x \in Accesses /\ y \in Accesses /\ z \in Accesses
    BY Sendable
  <1>2. Magic(v) = (<<x>> \o <<y>>) \o <<z>>
    BY DEF Magic, W, Wr
  <1> HIDE DEF x, y, z
  <1> DEFINE p == <<x>> \o <<y>>
  <1>3. p \in Seq(Accesses) /\ Len(p) = 2 /\ p[1] = x /\ p[2] = y
    <2>1. <<x>> \in Seq(Accesses) /\ Len(<<x>>) = 1 /\ <<x>>[1] = x
      BY <1>1
    <2>2. Grown(<<x>>, y, p)
      BY <1>1, <2>1, Grow
    <2> QED BY <2>1, <2>2 DEF Grown
  <1> HIDE DEF p
  <1>4. Grown(p, z, p \o <<z>>)
    BY <1>1, <1>3, Grow
  <1>5. Magic(v) \in Seq(Accesses) /\ Len(Magic(v)) = 3 /\ Magic(v)[1] = x /\ Magic(v)[2] = y
        /\ Magic(v)[3] = z
    BY <1>2, <1>3, <1>4 DEF Grown, p
  <1> QED BY <1>5 DEF x, y, z

LEMMA EraseSends ==
  ASSUME NEW type \in Bytes, NEW a \in Addrs, NEW v \in Bytes
  PROVE  LET s == EraseWith(type, a, v)
         IN  /\ s \in Seq(Accesses) /\ Len(s) = 6
             /\ s[1] = Wr(The5555, "AA") /\ s[2] = Wr(AtAAAA, "55") /\ s[3] = Wr(The5555, type)
             /\ s[4] = Wr(The5555, "AA") /\ s[5] = Wr(AtAAAA, "55") /\ s[6] = Wr(a, v)
  <1> DEFINE m == Magic(type)
             x == Wr(The5555, "AA")  y == Wr(AtAAAA, "55")  z == Wr(a, v)
             s == ((m \o <<x>>) \o <<y>>) \o <<z>>
  <1>1. x \in Accesses /\ y \in Accesses /\ z \in Accesses
    BY Sendable
  <1>2. EraseWith(type, a, v) = s
    BY DEF EraseWith, W, Wr
  <1>3. m \in Seq(Accesses) /\ Len(m) = 3
        /\ m[1] = x /\ m[2] = y /\ m[3] = Wr(The5555, type)
    BY MagicSends
  <1> HIDE DEF m, x, y, z
  <1>4. GrownByThree(m, x, y, z, 3, s)
    BY <1>1, <1>3, ThreeMore
  <1> HIDE DEF s
  <1>5. /\ s \in Seq(Accesses) /\ Len(s) = 6
        /\ s[1] = x /\ s[2] = y /\ s[3] = Wr(The5555, type)
        /\ s[4] = x /\ s[5] = y /\ s[6] = z
    BY <1>3, <1>4 DEF GrownByThree
  <1> QED BY <1>2, <1>5 DEF x, y, z

LEMMA Kinds ==
  ASSUME NEW o \in Operations
  PROVE  /\ o.kind \in Erases \cup Programs \cup {"infoRead", "id", "poll", "fetch"}
         /\ o.kind \in Programs \cup {"erase", "infoErase", "infoRead", "fetch"} => o.at \in Targets
         /\ o.kind \in Programs => o.byte \in Payload
  BY DEF Operations, Erases, Programs

(* A body sends what Sent says. *)
LEMMA BodySends ==
  ASSUME NEW o \in Operations, o.kind # "fetch"
  PROVE  /\ Body(o) \in Seq(Accesses) /\ Len(Body(o)) = BodyLen(o)
         /\ \A k \in 0..BodyLen(o)-1 : Body(o)[k + 1] = Sent(o, k)
  <1> DEFINE b == Body(o)  c == Command(o)  m == Magic(c)
  <1>0. /\ o.kind \in Erases \cup Programs \cup {"infoRead", "id", "poll"}
        /\ o.kind \in Programs \cup {"erase", "infoErase", "infoRead"} =>
             o.at \in Addrs /\ Rd(o.at) \in Accesses
        /\ o.kind \in Programs => o.byte \in Bytes /\ Wr(o.at, o.byte) \in Accesses
        /\ First \in Addrs /\ Rd(First) \in Accesses /\ Rd(Second) \in Accesses
        /\ The5555 \in Addrs /\ "30" \in Bytes /\ "10" \in Bytes
    BY Kinds, Sendable
  <1>1. c \in Bytes
    BY <1>0, Sendable DEF Command, Erases, Programs
  <1>2. /\ m \in Seq(Accesses) /\ Len(m) = 3
        /\ m[1] = Wr(The5555, "AA") /\ m[2] = Wr(AtAAAA, "55") /\ m[3] = Wr(The5555, c)
    BY <1>1, MagicSends
  <1>3. ASSUME NEW x \in Accesses, b = m \o <<x>>, BodyLen(o) = 4, Sent(o, 3) = x
        PROVE  /\ b \in Seq(Accesses) /\ Len(b) = BodyLen(o)
               /\ \A k \in 0..BodyLen(o)-1 : b[k + 1] = Sent(o, k)
    <2>1. /\ b \in Seq(Accesses) /\ Len(b) = 4
          /\ b[1] = m[1] /\ b[2] = m[2] /\ b[3] = m[3] /\ b[4] = x
      <3> HIDE DEF b, m
      <3>1. Grown(m, x, b)
        BY <1>2, <1>3, Grow
      <3> QED BY <1>2, <3>1 DEF Grown
    <2>2. Sent(o, 0) = m[1] /\ Sent(o, 1) = m[2] /\ Sent(o, 2) = m[3]
      <3> HIDE DEF m
      <3> QED BY <1>2, <1>3 DEF Sent
    <2> HIDE DEF b, m
    <2>3. \A k \in 0..3 : k = 0 \/ k = 1 \/ k = 2 \/ k = 3
      OBVIOUS
    <2> QED BY <1>3, <2>1, <2>2, <2>3
  <1>4. ASSUME NEW x \in Accesses, NEW y \in Accesses, b = (m \o <<x>>) \o <<y>>,
               BodyLen(o) = 5, Sent(o, 3) = x, Sent(o, 4) = y
        PROVE  /\ b \in Seq(Accesses) /\ Len(b) = BodyLen(o)
               /\ \A k \in 0..BodyLen(o)-1 : b[k + 1] = Sent(o, k)
    <2> DEFINE p == m \o <<x>>
    <2>0. BodyLen(o) = 5 /\ Sent(o, 3) = x /\ Sent(o, 4) = y
      BY <1>4
    <2>1. /\ b \in Seq(Accesses) /\ Len(b) = 5
          /\ b[1] = m[1] /\ b[2] = m[2] /\ b[3] = m[3] /\ b[4] = x /\ b[5] = y
      <3> HIDE DEF b, m
      <3>1. Grown(m, x, p)
        BY <1>2, <1>4, Grow
      <3>2. p \in Seq(Accesses) /\ Len(p) = 4 /\ p[1] = m[1] /\ p[2] = m[2] /\ p[3] = m[3]
            /\ p[4] = x
        BY <1>2, <3>1 DEF Grown
      <3> HIDE DEF p
      <3>3. Grown(p, y, b)
        BY <1>4, <3>2, Grow DEF p
      <3> QED BY <3>2, <3>3 DEF Grown
    <2>2. Sent(o, 0) = m[1] /\ Sent(o, 1) = m[2] /\ Sent(o, 2) = m[3]
      <3> HIDE DEF m
      <3> QED BY <1>2, <1>4 DEF Sent
    <2> HIDE DEF b, m
    <2>3. ASSUME NEW k \in 0..4 PROVE b[k + 1] = Sent(o, k)
      <3>1. k = 0 \/ k = 1 \/ k = 2 \/ k = 3 \/ k = 4
        OBVIOUS
      <3> QED BY <2>0, <2>1, <2>2, <3>1
    <2>4. BodyLen(o) - 1 = 4
      BY <2>0
    <2> QED BY <2>0, <2>1, <2>3, <2>4
  <1>5. CASE o.kind = "program"
    <2> DEFINE x == Wr(o.at, o.byte)  y == Rd(o.at)
    <2>1. x \in Accesses /\ y \in Accesses
      BY <1>0, <1>5 DEF Programs
    <2>2. b = (m \o <<x>>) \o <<y>>
      BY <1>5 DEF Body, Command, W, R, Wr, Rd
    <2>3. BodyLen(o) = 5 /\ Sent(o, 3) = x /\ Sent(o, 4) = y
      BY <1>5 DEF BodyLen, Sent, Commits, Erases, Programs
    <2> HIDE DEF x, y, b, m
    <2> QED BY <1>4, <2>1, <2>2, <2>3 DEF b
  <1>6. CASE o.kind = "infoProgram"
    <2> DEFINE x == Wr(o.at, o.byte)
    <2>1. x \in Accesses
      BY <1>0, <1>6 DEF Programs
    <2>2. b = m \o <<x>>
      BY <1>6 DEF Body, Command, W, Wr
    <2>3. BodyLen(o) = 4 /\ Sent(o, 3) = x
      BY <1>6 DEF BodyLen, Sent, Commits, Erases, Programs
    <2> HIDE DEF x, b, m
    <2> QED BY <1>3, <2>1, <2>2, <2>3 DEF b
  <1>7. CASE o.kind = "infoRead"
    <2> DEFINE x == Rd(o.at)
    <2>1. x \in Accesses
      BY <1>0, <1>7
    <2>2. b = m \o <<x>>
      BY <1>7 DEF Body, Command, R, Rd
    <2>3. BodyLen(o) = 4 /\ Sent(o, 3) = x
      BY <1>7 DEF BodyLen, Sent, Commits, Erases, Programs
    <2> HIDE DEF x, b, m
    <2> QED BY <1>3, <2>1, <2>2, <2>3 DEF b
  <1>8. CASE o.kind = "poll"
    <2> DEFINE x == Rd(First)
    <2>1. x \in Accesses
      BY <1>0, <1>8
    <2>2. b = m \o <<x>>
      BY <1>8 DEF Body, Command, R, Rd
    <2>3. BodyLen(o) = 4 /\ Sent(o, 3) = x
      BY <1>8 DEF BodyLen, Sent, Commits, Erases, Programs
    <2> HIDE DEF x, b, m
    <2> QED BY <1>3, <2>1, <2>2, <2>3 DEF b
  <1>9. CASE o.kind = "id"
    <2> DEFINE x == Rd(First)  y == Rd(Second)
    <2>1. x \in Accesses /\ y \in Accesses
      BY <1>0, <1>9
    <2>2. b = (m \o <<x>>) \o <<y>>
      BY <1>9 DEF Body, Command, R, Rd
    <2>3. BodyLen(o) = 5 /\ Sent(o, 3) = x /\ Sent(o, 4) = y
      BY <1>9 DEF BodyLen, Sent, Commits, Erases, Programs
    <2> HIDE DEF x, y, b, m
    <2> QED BY <1>4, <2>1, <2>2, <2>3 DEF b
  <1>10. CASE o.kind \in Erases
    <2> DEFINE a == IF o.kind \in {"erase", "infoErase"} THEN o.at ELSE The5555
               v == IF o.kind \in {"erase", "infoErase"} THEN "30" ELSE "10"
               e == EraseWith(c, a, v)
    <2>1. a \in Addrs /\ v \in Bytes
      BY <1>0, <1>10
    <2>2. /\ e \in Seq(Accesses) /\ Len(e) = 6
          /\ e[1] = Wr(The5555, "AA") /\ e[2] = Wr(AtAAAA, "55") /\ e[3] = Wr(The5555, c)
          /\ e[4] = Wr(The5555, "AA") /\ e[5] = Wr(AtAAAA, "55") /\ e[6] = Wr(a, v)
      <3> HIDE DEF a, v, c
      <3> QED BY <1>1, <2>1, EraseSends
    <2>3. /\ BodyLen(o) >= 6
          /\ Sent(o, 0) = Wr(The5555, "AA") /\ Sent(o, 1) = Wr(AtAAAA, "55")
          /\ Sent(o, 2) = Wr(The5555, c)
          /\ Sent(o, 3) = Wr(The5555, "AA") /\ Sent(o, 4) = Wr(AtAAAA, "55")
          /\ Sent(o, 5) = Wr(a, v)
      <3>1. BodyLen(o) \in {6, 7} /\ Commits(o) = 5 /\ o.kind \notin Programs
        BY <1>10 DEF BodyLen, Commits, Erases, Programs
      <3>2. 5 # BodyLen(o) /\ 5 < BodyLen(o)
        BY <3>1
      <3>3. Sent(o, 5) = IF o.kind \in {"erase", "infoErase"} THEN Wr(o.at, "30") ELSE Wr(The5555, "10")
        BY <3>1, <3>2 DEF Sent
      <3>4. Sent(o, 3) = Wr(The5555, "AA") /\ Sent(o, 4) = Wr(AtAAAA, "55")
        BY <1>10, <3>1 DEF Sent
      <3>5. /\ Sent(o, 0) = Wr(The5555, "AA") /\ Sent(o, 1) = Wr(AtAAAA, "55")
            /\ Sent(o, 2) = Wr(The5555, c)
        BY <3>1 DEF Sent
      <3> QED BY <3>1, <3>3, <3>4, <3>5
    <2>4. \A k \in 0..5 : k = 0 \/ k = 1 \/ k = 2 \/ k = 3 \/ k = 4 \/ k = 5
      OBVIOUS
    <2>5. CASE o.kind # "erase"
      <3>1. b = e /\ BodyLen(o) = 6
        BY <1>10, <2>5 DEF Body, Command, BodyLen, Erases
      <3> HIDE DEF a, v, e, c, b
      <3> QED BY <2>2, <2>3, <2>4, <3>1 DEF b
    <2>6. CASE o.kind = "erase"
      <3> DEFINE x == Rd(o.at)
      <3>1. b = e \o <<x>> /\ BodyLen(o) = 7 /\ Sent(o, 6) = x
        BY <2>6 DEF Body, Command, BodyLen, Sent, Commits, Erases, Programs, R, Rd
      <3>2. x \in Accesses
        BY <1>0, <2>6
      <3> HIDE DEF a, v, e, c, b, x
      <3>3. Grown(e, x, b)
        BY <2>2, <3>1, <3>2, Grow
      <3>4. /\ b \in Seq(Accesses) /\ Len(b) = 7
            /\ b[1] = e[1] /\ b[2] = e[2] /\ b[3] = e[3] /\ b[4] = e[4] /\ b[5] = e[5]
            /\ b[6] = e[6] /\ b[7] = x
        BY <2>2, <3>3 DEF Grown
      <3>5. \A k \in 0..6 : k = 0 \/ k = 1 \/ k = 2 \/ k = 3 \/ k = 4 \/ k = 5 \/ k = 6
        OBVIOUS
      <3> QED BY <2>2, <2>3, <3>1, <3>4, <3>5 DEF b
    <2> QED BY <2>5, <2>6
  <1> QED BY <1>0, <1>5, <1>6, <1>7, <1>8, <1>9, <1>10 DEF Programs

(* A script is a reset, if the last operation was cut short, then the body, *)
(* then a reset.                                                           *)
Skipped == IF whole THEN 0 ELSE 1

LEMMA ScriptSends ==
  ASSUME NEW o \in Operations, o.kind # "fetch", whole \in BOOLEAN
  PROVE  /\ BodyLen(o) \in 4..7
         /\ Script(o) \in Seq(Accesses) /\ Len(Script(o)) = BodyLen(o) + 1 + Skipped
         /\ ~whole => Script(o)[1] = Wr(First, "F0")
         /\ \A k \in 0..BodyLen(o) : Script(o)[Skipped + k + 1] = Sent(o, k)
  <1> DEFINE b == Body(o)  n == BodyLen(o)  r == Wr(First, "F0")  s == Script(o)
             h == IF whole THEN b ELSE <<r>> \o b
  <1>1. n \in 4..7
    BY Kinds DEF BodyLen, Erases, Programs
  <1>2. r \in Accesses
    BY Sendable
  <1>3. b \in Seq(Accesses) /\ Len(b) = n /\ \A k \in 0..n-1 : b[k + 1] = Sent(o, k)
    BY BodySends
  <1>4. Sent(o, n) = r
    BY <1>1 DEF Sent
  <1>5. s = h \o <<r>>
    <2>1. <<>> \o b = b
      BY <1>3
    <2> QED BY <2>1 DEF Script, W, Wr
  <1> HIDE DEF b, n, r, s
  <1>6. /\ h \in Seq(Accesses) /\ Len(h) = n + Skipped
        /\ ~whole => h[1] = r
        /\ \A i \in 1..n : h[Skipped + i] = b[i]
    <2>1. CASE whole
      BY <1>1, <1>3, <2>1 DEF Skipped
    <2>2. CASE ~whole
      <3>1. <<r>> \in Seq(Accesses) /\ Len(<<r>>) = 1 /\ <<r>>[1] = r
        BY <1>2
      <3>2. h = <<r>> \o b
        BY <2>2
      <3> DEFINE f == <<r>>
      <3> HIDE DEF f, h
      <3>3. /\ h \in Seq(Accesses) /\ Len(h) = Len(f) + Len(b)
            /\ \A i \in 1..Len(h) : h[i] = IF i <= Len(f) THEN f[i] ELSE b[i - Len(f)]
        BY <1>3, <3>1, <3>2, ConcatProperties DEF f
      <3>4. Len(f) = 1 /\ f[1] = r
        BY <3>1 DEF f
      <3>5. h[1] = r
        BY <1>1, <1>3, <3>3, <3>4
      <3>6. ASSUME NEW i \in 1..n PROVE h[1 + i] = b[i]
        <4>1. 1 + i \in 1..Len(h) /\ ~(1 + i <= 1) /\ (1 + i) - 1 = i
          BY <1>1, <1>3, <3>3, <3>4
        <4> QED BY <3>3, <3>4, <4>1
      <3> QED BY <1>1, <1>3, <2>2, <3>3, <3>4, <3>5, <3>6 DEF Skipped
    <2> QED BY <2>1, <2>2
  <1> HIDE DEF h
  <1>7. Grown(h, r, s)
    BY <1>2, <1>5, <1>6, Grow
  <1>8. Skipped \in 0..1 /\ (~whole => Skipped = 1)
    BY DEF Skipped
  <1>9. s \in Seq(Accesses) /\ Len(s) = n + 1 + Skipped /\ s[n + Skipped + 1] = r
        /\ \A i \in 1..n+Skipped : s[i] = h[i]
    BY <1>1, <1>6, <1>7, <1>8 DEF Grown
  <1>10. ~whole => s[1] = r
    BY <1>1, <1>6, <1>8, <1>9
  <1>11. ASSUME NEW k \in 0..n PROVE s[Skipped + k + 1] = Sent(o, k)
    <2>1. CASE k = n
      <3>1. Skipped + k + 1 = n + Skipped + 1
        BY <1>1, <1>8, <2>1
      <3> QED BY <1>4, <1>9, <2>1, <3>1 DEF n
    <2>2. CASE k # n
      <3>1. k \in 0..n-1 /\ k + 1 \in 1..n /\ Skipped + k + 1 = Skipped + (k + 1)
            /\ Skipped + (k + 1) \in 1..n+Skipped
        BY <1>1, <1>8, <2>2
      <3> QED BY <1>3, <1>6, <1>9, <3>1
    <2> QED BY <2>1, <2>2
  <1> QED BY <1>1, <1>9, <1>10, <1>11 DEF n, s, r

(* The accesses to come are the last ones of the script. *)
Suffix ==
  op \in Operations =>
    /\ Len(todo) <= Len(Script(op))
    /\ \A i \in 1..Len(todo) : todo[i] = Script(op)[Len(Script(op)) - Len(todo) + i]

(* An operation at work on the flash, and how many accesses of its body    *)
(* are behind it: -1 if the reset before it is not.                        *)
Commanding == op \in Operations /\ op.kind # "fetch" /\ Reaches(op)
Behind == BodyLen(op) + 1 - Len(todo)

LEMMA HeadSent ==
  ASSUME IInv, Suffix, op \in Operations, op.kind # "fetch"
  PROVE  /\ BodyLen(op) \in 4..7 /\ Len(todo) \in 1..9 /\ Behind \in -1..BodyLen(op)
         /\ Behind = -1 => ~whole /\ Head(todo) = Wr(First, "F0")
         /\ Behind >= 0 => Head(todo) = Sent(op, Behind)
  <1> DEFINE n == BodyLen(op)  m == Len(todo)  s == Script(op)
  <1>1. whole \in BOOLEAN /\ todo \in Seq(Accesses) /\ todo # <<>>
    <2>1. op \notin {None, Cut}
      BY DEF Operations, None, Cut
    <2> QED BY <2>1 DEF IInv, TypeOK
  <1>2. m \in Nat /\ m # 0 /\ Head(todo) = todo[1]
    BY <1>1, EmptySeq, LenProperties, HeadTailProperties
  <1>3. /\ n \in 4..7 /\ Len(s) = n + 1 + Skipped
        /\ ~whole => s[1] = Wr(First, "F0")
        /\ \A k \in 0..n : s[Skipped + k + 1] = Sent(op, k)
    BY <1>1, ScriptSends
  <1>4. m <= Len(s) /\ \A i \in 1..m : todo[i] = s[Len(s) - m + i]
    BY DEF Suffix
  <1>5. Behind = n + 1 - m
    BY DEF Behind
  <1> HIDE DEF n, m, s
  <1>6. (whole /\ Skipped = 0) \/ (~whole /\ Skipped = 1)
    BY <1>1 DEF Skipped
  <1>7. m \in 1..9 /\ Behind \in -1..n /\ (Behind = -1 => ~whole)
    BY <1>2, <1>3, <1>4, <1>5, <1>6
  <1>8. Head(todo) = s[Len(s) - m + 1]
    BY <1>2, <1>4, <1>7
  <1>9. Len(s) - m + 1 = Skipped + Behind + 1
    BY <1>3, <1>5, <1>6, <1>7
  <1>10. Behind = -1 => Head(todo) = Wr(First, "F0")
    <2> SUFFICES ASSUME Behind = -1 PROVE Head(todo) = Wr(First, "F0")
      OBVIOUS
    <2>1. ~whole /\ Skipped = 1
      BY <1>6, <1>7
    <2>2. Len(s) - m + 1 = 1
      BY <1>9, <2>1
    <2> QED BY <1>3, <1>8, <2>1, <2>2
  <1>11. Behind >= 0 => Head(todo) = Sent(op, Behind)
    BY <1>3, <1>7, <1>8, <1>9
  <1> QED BY <1>3, <1>7, <1>10, <1>11 DEF n, m

(* While an operation is at work, neither its script nor where it goes     *)
(* changes.                                                                *)
LEMMA ScriptStays ==
  ASSUME memmap' = memmap, whole' = whole, regs' = regs, NEW o
  PROVE  /\ Script(o)' = Script(o) /\ Reaches(o)' = Reaches(o)
         /\ Misses(o)' = Misses(o)
  <1>1. \A a : InFlash(a)' = InFlash(a)
    BY DEF InFlash
  <1>2. The5555' = The5555
    BY <1>1 DEF The5555
  <1>3. \A v : Magic(v)' = Magic(v)
    BY <1>2 DEF Magic, W
  <1>4. \A type, a, v : EraseWith(type, a, v)' = EraseWith(type, a, v)
    BY <1>2, <1>3 DEF EraseWith, W
  <1>5. Body(o)' = Body(o)
    BY <1>2, <1>3, <1>4 DEF Body, W, R
  <1>6. Script(o)' = Script(o)
    BY <1>5 DEF Script, W, R
  <1>7. BankOk' = BankOk
    BY DEF BankOk
  <1> QED BY <1>1, <1>5, <1>6, <1>7 DEF Reaches, Misses

LEMMA SuffixStays == IInv /\ Suffix /\ [Next]_vars => Suffix'
  <1> SUFFICES ASSUME IInv, Suffix, [Next]_vars PROVE Suffix'
    OBVIOUS
  <1>1. CASE SetRegister \/ Abandon
    <2>1. op' = None \/ op' = Cut
      BY <1>1 DEF SetRegister, Abandon, IInv, TypeOK
    <2> QED BY <2>1 DEF Suffix, Operations, None, Cut
  <1>2. CASE Start
    <2>1. op' \in Operations /\ todo' = Script(op') /\ memmap' = memmap /\ whole' = whole
          /\ regs' = regs
      BY <1>2 DEF Start, banks
    <2>2. Script(op)' = Script(op')
      BY <2>1, ScriptStays
    <2>3. todo' = Script(op)' /\ todo' \in Seq(Accesses)
      BY <2>1, <2>2, ScriptType
    <2>4. Len(todo') \in Nat /\ \A i \in 1..Len(todo') : Len(todo') - Len(todo') + i = i
      BY <2>3, LenProperties
    <2> QED BY <2>3, <2>4 DEF Suffix
  <1>3. CASE Advance
    <2>1. todo \in Seq(Accesses) /\ todo # <<>> /\ todo' = Tail(todo)
      BY <1>3 DEF IInv, Advance
    <2>2. /\ Len(todo) \in Nat /\ Len(todo') = Len(todo) - 1
          /\ \A i \in 1..Len(todo') : todo'[i] = todo[i + 1]
      BY <2>1, LenProperties, HeadTailProperties
    <2>3. CASE Len(todo) = 1
      BY <1>3, <2>3 DEF Advance, Suffix, Operations, None
    <2>4. CASE Len(todo) # 1
      <3>1. op' = op /\ memmap' = memmap /\ regs' = regs /\ whole' = whole
        <4>1. whole \in BOOLEAN
          BY DEF IInv, TypeOK
        <4> QED BY <1>3, <2>4, <4>1 DEF Advance, banks
      <3>2. Script(op)' = Script(op)
        BY <3>1, ScriptStays
      <3> SUFFICES ASSUME op \in Operations
                   PROVE  /\ Len(todo') <= Len(Script(op))
                          /\ \A i \in 1..Len(todo') :
                               todo'[i] = Script(op)[Len(Script(op)) - Len(todo') + i]
        BY <3>1, <3>2 DEF Suffix
      <3> DEFINE s == Script(op)
      <3>3. /\ s \in Seq(Accesses) /\ Len(todo) <= Len(s)
            /\ \A i \in 1..Len(todo) : todo[i] = s[Len(s) - Len(todo) + i]
        BY ScriptType DEF Suffix
      <3> HIDE DEF s
      <3>4. Len(s) \in Nat
        BY <3>3, LenProperties
      <3>5. ASSUME NEW i \in 1..Len(todo') PROVE todo'[i] = s[Len(s) - Len(todo') + i]
        <4>1. i + 1 \in 1..Len(todo) /\ Len(s) - Len(todo) + (i + 1) = Len(s) - Len(todo') + i
          BY <2>2, <3>4
        <4> QED BY <2>2, <3>3, <4>1
      <3> QED BY <2>2, <3>3, <3>4, <3>5 DEF s
    <2> QED BY <2>3, <2>4
  <1>4. CASE UNCHANGED vars
    <2>1. op' = op /\ todo' = todo /\ memmap' = memmap /\ regs' = regs /\ whole' = whole
      BY <1>4 DEF vars
    <2>2. Script(op)' = Script(op)
      BY <2>1, ScriptStays
    <2> QED BY <2>1, <2>2 DEF Suffix
  <1> QED BY <1>1, <1>2, <1>3, <1>4 DEF Next, WritePort, ReadPort

------------------------------------------------------------------------------
(* What the writes do *)

Ready == fp_step = 0 /\ fp_type = "NONE"
Keeps == nor' = nor /\ info' = info

(* The command machine with k accesses of o's body behind it.              *)
Poised(o, k) ==
  IF k <= Commits(o)
  THEN /\ fp_step = (IF k <= 3 \/ o.kind \in Erases THEN k ELSE 3)
       /\ fp_type = (IF k < 3 THEN "NONE" ELSE CommandOf(Command(o)))
  ELSE IF pc1000mode THEN Ready
  ELSE fp_step = Commits(o) + 1 /\ fp_type = CommandOf(Command(o))

(* A program carried out that nothing has reset.                           *)
Stuck == fp_step = 4 /\ fp_type \in {"BYTE_PROGRAM", "INFO_BYTE_PROGRAM"}

LEMMA Unlocks1 ==
  ASSUME NEW a, NEW v, NEW c, Write(a, v, c, TRUE), Unlocking(a, v)
  PROVE  fp_step' = fp_step + 1 /\ fp_type' = fp_type /\ Keeps /\ machine' = machine
  <1>1. v \in {"AA", "55"} /\ fp_step \in {0, 1, 3, 4} /\ (fp_step = 3 => fp_type \in EraseTypes)
    BY DEF Unlocking
  <1>2. ~Choosing(a, v) /\ ~MassErasing(a, v) /\ ~Erasing(v)
    BY <1>1 DEF Choosing, TypeCmds, MassErasing, Erasing
  <1>3. ~Programming
    BY <1>1 DEF Programming, EraseTypes
  <1>4. Unlock(a, v)
    BY <1>2, <1>3 DEF Write, Choose, Program, MassErase, Erase, Unexpected
  <1> QED BY <1>4 DEF Unlock, Keeps, Write

LEMMA Chooses ==
  ASSUME NEW a, NEW v, NEW c, Write(a, v, c, TRUE), Choosing(a, v)
  PROVE  fp_step' = 3 /\ fp_type' = CommandOf(v) /\ Keeps /\ machine' = machine
  <1>1. fp_step = 2
    BY DEF Choosing
  <1>2. ~Unlocking(a, v) /\ ~MassErasing(a, v) /\ ~Erasing(v) /\ ~Programming
    BY <1>1 DEF Unlocking, MassErasing, Erasing, Programming
  <1>3. Choose(a, v)
    BY <1>2 DEF Write, Unlock, Program, MassErase, Erase, Unexpected
  <1> QED BY <1>3 DEF Choose, Keeps, Write

LEMMA Programs1 ==
  ASSUME NEW a, NEW v, NEW c, Write(a, v, c, TRUE), Programming
  PROVE  Program(c, a, v) /\ machine' = machine
  <1>1. fp_step = 3 /\ fp_type \notin EraseTypes
    BY DEF Programming, EraseTypes
  <1>2. ~Unlocking(a, v) /\ ~Choosing(a, v) /\ ~MassErasing(a, v) /\ ~Erasing(v)
    BY <1>1 DEF Unlocking, Choosing, MassErasing, Erasing
  <1> QED BY <1>2 DEF Write, Unlock, Choose, MassErase, Erase, Unexpected

LEMMA Erases1 ==
  ASSUME NEW a, NEW v, NEW c, Write(a, v, c, TRUE), fp_step = 5
  PROVE  /\ machine' = machine
         /\ v = "30" => Erase(c, v)
         /\ a \in At5555 /\ v = "10" => MassErase(a, v)
  <1>1. ~Unlocking(a, v) /\ ~Choosing(a, v) /\ ~Programming
    BY DEF Unlocking, Choosing, Programming
  <1>2. v = "30" => ~MassErasing(a, v) /\ Erasing(v)
    BY DEF MassErasing, Erasing
  <1>3. a \in At5555 /\ v = "10" => MassErasing(a, v) /\ ~Erasing(v)
    BY DEF MassErasing, Erasing
  <1> QED BY <1>1, <1>2, <1>3 DEF Write, Unlock, Choose, Program, MassErase, Erase, Unexpected

(* 0xF0 resets, but where a program waits for its byte.                    *)
LEMMA Resets ==
  ASSUME NEW a, NEW c, Write(a, "F0", c, TRUE), ~Programming
  PROVE  Ready' /\ Keeps /\ machine' = machine
  <1>1. ~Unlocking(a, "F0") /\ ~Choosing(a, "F0") /\ ~MassErasing(a, "F0") /\ ~Erasing("F0")
    BY DEF Unlocking, Choosing, TypeCmds, MassErasing, Erasing
  <1>2. Other("F0") /\ UNCHANGED <<nor, info>>
    BY <1>1 DEF Write, Unlock, Choose, Program, MassErase, Erase
  <1> QED BY <1>2 DEF Other, reset_nor_status, Ready, Keeps, Write

(* After a program, only 0xF0 is heeded.                                   *)
LEMMA StuckStays ==
  ASSUME NEW a, NEW v, NEW c, Write(a, v, c, TRUE), Stuck
  PROVE  /\ Keeps /\ machine' = machine
         /\ IF v = "F0" THEN Ready' ELSE Stuck'
  <1>1. fp_step = 4 /\ fp_type \notin EraseTypes
    BY DEF Stuck, EraseTypes
  <1>2. /\ ~Unlocking(a, v) /\ ~Choosing(a, v) /\ ~MassErasing(a, v) /\ ~Erasing(v)
        /\ ~Programming
    BY <1>1 DEF Unlocking, Choosing, MassErasing, Erasing, Programming
  <1>3. Other(v) /\ UNCHANGED <<nor, info>>
    BY <1>2 DEF Write, Unlock, Choose, Program, MassErase, Erase
  <1> QED BY <1>3 DEF Other, reset_nor_status, Ready, Keeps, Write, Stuck

LEMMA DonePoised ==
  ASSUME NEW o, NEW k \in Nat, k = Commits(o), k \in {3, 5}, DoneOrReset(k + 1),
         machine' = machine, fp_type = CommandOf(Command(o))
  PROVE  Poised(o, k + 1)'
  <1>1. ~(k + 1 <= Commits(o)) /\ k + 1 = Commits(o) + 1
    OBVIOUS
  <1>2. pc1000mode' = pc1000mode
    BY DEF pc1000mode
  <1>3. CASE pc1000mode
    BY <1>1, <1>2, <1>3 DEF DoneOrReset, reset_nor_status, Poised, Ready
  <1>4. CASE ~pc1000mode
    BY <1>1, <1>2, <1>4 DEF DoneOrReset, Poised
  <1> QED BY <1>3, <1>4

LEMMA Alias == The5555 \in At5555
  <1>1. \E a \in At5555 : (\E b \in At5555 : InFlash(b)) => InFlash(a)
    BY NorAssumption
  <1> QED BY <1>1 DEF The5555

(* What the access that commits an operation writes.                       *)
Committed(o, c) ==
  /\ o.kind = "program" =>
       nor' = [nor EXCEPT ![c] = Programmed(@, o.byte)] /\ info' = info
  /\ o.kind = "infoProgram" =>
       info' = [info EXCEPT ![InfoAt[o.at]] = Programmed(@, o.byte)] /\ nor' = nor
  /\ o.kind = "erase" =>
       nor' = [d \in Cells |-> IF d \in Sector(c) THEN Full ELSE nor[d]] /\ info' = info
  /\ o.kind = "infoErase" => info' = [i \in Infos |-> Full] /\ nor' = nor
  /\ o.kind = "massErase" => nor' = [d \in Cells |-> Full] /\ info' = info
  /\ o.kind = "infoMassErase" =>
       nor' = [d \in Cells |-> Full] /\ info' = [i \in Infos |-> Full]

(* A write of the body takes the command machine one step on.              *)
LEMMA PoisedWrites ==
  ASSUME NEW o \in Operations, o.kind # "fetch", NEW k \in 0..BodyLen(o), BodyLen(o) \in 4..7,
         Poised(o, k), NEW a, NEW v, Sent(o, k) = Wr(a, v), NEW c, Write(a, v, c, TRUE)
  PROVE  /\ machine' = machine
         /\ k < BodyLen(o) => Poised(o, k + 1)'
         /\ k = BodyLen(o) => Ready'
         /\ k # Commits(o) => Keeps
         /\ k = Commits(o) => Committed(o, c)
  <1>0. o.kind \in Erases \cup Programs \cup {"infoRead", "id", "poll"}
    BY Kinds
  <1>1. Commits(o) \in {3, 5, 9} /\ Commits(o) # BodyLen(o)
    BY <1>0 DEF Commits, BodyLen, Erases, Programs
  <1>2. ASSUME NEW b, NEW w, Sent(o, k) = Wr(b, w) PROVE a = b /\ v = w
    <2>1. Wr(a, v) = Wr(b, w)
      BY <1>2
    <2>2. Wr(a, v).addr = a /\ Wr(a, v).byte = v /\ Wr(b, w).addr = b /\ Wr(b, w).byte = w
      BY DEF Wr
    <2> QED BY <2>1, <2>2
  <1>3. CASE k = BodyLen(o)
    <2>1. Sent(o, k) = Wr(First, "F0")
      BY <1>3 DEF Sent
    <2>2. v = "F0"
      BY <1>2, <2>1
    <2>3. ~Programming
      <3>1. CASE o.kind \in Programs
        <4>1. ~(k <= Commits(o)) /\ Commits(o) = 3
          BY <1>3, <3>1 DEF Commits, BodyLen, Programs, Erases
        <4> QED BY <3>1, <4>1 DEF Poised, Ready, Programming
      <3>2. CASE o.kind \notin Programs
        <4>1. CommandOf(Command(o)) \notin {"BYTE_PROGRAM", "INFO_BYTE_PROGRAM"}
          BY <1>0, <3>2 DEF Command, CommandOf, Erases, Programs
        <4> QED BY <3>2, <4>1 DEF Poised, Ready, Programming
      <3> QED BY <3>1, <3>2
    <2>4. Ready' /\ Keeps /\ machine' = machine
      BY <2>2, <2>3, Resets
    <2> QED BY <1>1, <1>3, <2>4
  <1>4. CASE k < BodyLen(o) /\ k \in {0, 1}
    <2>1. Sent(o, k) = IF k = 0 THEN Wr(The5555, "AA") ELSE Wr(AtAAAA, "55")
      BY <1>4 DEF Sent
    <2>2. IF k = 0 THEN a = The5555 /\ v = "AA" ELSE a = AtAAAA /\ v = "55"
      BY <1>2, <2>1
    <2>3. k <= Commits(o) /\ k <= 3 /\ k < 3 /\ k + 1 <= Commits(o) /\ k + 1 <= 3 /\ k + 1 < 3
      BY <1>1, <1>4
    <2>4. fp_step = k /\ fp_type = "NONE"
      BY <2>3 DEF Poised
    <2>5. Unlocking(a, v)
      BY <1>4, <2>2, <2>4, Alias DEF Unlocking
    <2>6. fp_step' = k + 1 /\ fp_type' = "NONE" /\ Keeps /\ machine' = machine
      BY <2>4, <2>5, Unlocks1
    <2>7. Poised(o, k + 1)'
      BY <2>3, <2>6 DEF Poised
    <2> QED BY <1>1, <1>4, <2>6, <2>7
  <1>5. CASE k < BodyLen(o) /\ k = 2
    <2>1. Sent(o, k) = Wr(The5555, Command(o))
      BY <1>5 DEF Sent
    <2>2. a = The5555 /\ v = Command(o)
      BY <1>2, <2>1
    <2>3. k <= Commits(o) /\ k <= 3 /\ k < 3 /\ k + 1 = 3 /\ 3 <= Commits(o)
      BY <1>1, <1>5
    <2>4. fp_step = 2
      BY <1>5, <2>3 DEF Poised
    <2>5. Command(o) \in TypeCmds
      BY <1>0 DEF Command, TypeCmds, Erases, Programs
    <2>6. fp_step' = 3 /\ fp_type' = CommandOf(Command(o)) /\ Keeps /\ machine' = machine
      BY <2>2, <2>4, <2>5, Alias, Chooses DEF Choosing
    <2>7. Poised(o, k + 1)'
      BY <2>3, <2>6 DEF Poised
    <2> QED BY <1>1, <1>5, <2>6, <2>7
  <1>6. CASE k < BodyLen(o) /\ k >= 3 /\ k # Commits(o)
    <2>1. o.kind \in Erases /\ k \in {3, 4}
      <3>1. Sent(o, k).port = "write"
        BY DEF Wr
      <3>2. \A b : Rd(b).port = "read"
        BY DEF Rd
      <3>3. (o.kind \in Erases /\ k \in {3, 4}) \/ (\E b : Sent(o, k) = Rd(b))
        BY <1>6 DEF Sent
      <3> QED BY <3>1, <3>2, <3>3
    <2>2. Sent(o, k) = IF k = 3 THEN Wr(The5555, "AA") ELSE Wr(AtAAAA, "55")
      BY <1>6, <2>1 DEF Sent
    <2>3. IF k = 3 THEN a = The5555 /\ v = "AA" ELSE a = AtAAAA /\ v = "55"
      BY <1>2, <2>2
    <2>4. Commits(o) = 5
      BY <2>1 DEF Commits
    <2>5. k <= 5 /\ k + 1 <= 5 /\ ~(k < 3) /\ ~(k + 1 < 3)
      BY <2>1
    <2>6. fp_step = k /\ fp_type = CommandOf(Command(o))
      BY <2>1, <2>4, <2>5 DEF Poised
    <2>7. CommandOf(Command(o)) \in EraseTypes
      BY <2>1 DEF Command, CommandOf, EraseTypes, Erases
    <2>8. Unlocking(a, v)
      BY <2>1, <2>3, <2>6, <2>7, Alias DEF Unlocking
    <2>9. fp_step' = k + 1 /\ fp_type' = fp_type /\ Keeps /\ machine' = machine
      BY <2>6, <2>8, Unlocks1
    <2>10. Poised(o, k + 1)'
      BY <2>1, <2>4, <2>5, <2>6, <2>9 DEF Poised
    <2> QED BY <1>6, <2>9, <2>10
  <1>7. CASE k < BodyLen(o) /\ k = Commits(o) /\ o.kind \in Programs
    <2>1. k = 3 /\ Commits(o) = 3
      BY <1>7 DEF Commits, Programs, Erases
    <2>2. Sent(o, k) = Wr(o.at, o.byte)
      BY <1>7, <2>1 DEF Sent
    <2>3. a = o.at /\ v = o.byte
      BY <1>2, <2>2
    <2>4. fp_step = 3 /\ fp_type = CommandOf(Command(o))
      BY <2>1 DEF Poised
    <2>5. fp_type = IF o.kind = "program" THEN "BYTE_PROGRAM" ELSE "INFO_BYTE_PROGRAM"
      BY <1>7, <2>4 DEF Command, CommandOf, Programs
    <2>6. Program(c, a, v) /\ machine' = machine
      BY <2>4, <2>5, Programs1 DEF Programming
    <2>7. Poised(o, k + 1)'
      BY <2>1, <2>4, <2>6, DonePoised DEF Program
    <2>8. Committed(o, c)
      BY <1>7, <2>3, <2>5, <2>6 DEF Committed, Program, Programs
    <2> QED BY <1>7, <2>6, <2>7, <2>8
  <1>8. CASE k < BodyLen(o) /\ k = Commits(o) /\ o.kind \in Erases
    <2>1. k = 5 /\ Commits(o) = 5 /\ o.kind \notin Programs
      BY <1>8 DEF Commits, Programs, Erases
    <2>2. Sent(o, k) = IF o.kind \in {"erase", "infoErase"} THEN Wr(o.at, "30")
                       ELSE Wr(The5555, "10")
      BY <1>8, <2>1 DEF Sent
    <2>3. IF o.kind \in {"erase", "infoErase"} THEN v = "30" ELSE a = The5555 /\ v = "10"
      BY <1>2, <2>2
    <2>4. fp_step = 5 /\ fp_type = CommandOf(Command(o))
      BY <1>8, <2>1 DEF Poised
    <2>5. fp_type = IF o.kind \in {"erase", "massErase"} THEN "BLOCK_OR_MASS_ERASE"
                    ELSE "INFO_OR_BMASS_ERASE"
      BY <1>8, <2>4 DEF Command, CommandOf, Erases
    <2>6. machine' = machine
      BY <2>4, Erases1
    <2>7. CASE o.kind \in {"erase", "infoErase"}
      <3>1. Erase(c, v)
        BY <2>3, <2>4, <2>7, Erases1
      <3>2. Poised(o, k + 1)'
        BY <2>1, <2>4, <2>6, <3>1, DonePoised DEF Erase
      <3>3. Committed(o, c)
        BY <2>5, <2>7, <3>1 DEF Committed, Erase
      <3> QED BY <1>8, <2>6, <3>2, <3>3
    <2>8. CASE o.kind \in {"massErase", "infoMassErase"}
      <3>1. MassErase(a, v)
        BY <2>3, <2>4, <2>8, Erases1, Alias
      <3>2. Poised(o, k + 1)'
        BY <2>1, <2>4, <2>6, <3>1, DonePoised DEF MassErase
      <3>3. Committed(o, c)
        BY <2>5, <2>8, <3>1 DEF Committed, MassErase
      <3> QED BY <1>8, <2>6, <3>2, <3>3
    <2> QED BY <1>8, <2>7, <2>8 DEF Erases
  <1>9. k \in 0..7 /\ (k = BodyLen(o) \/ k < BodyLen(o))
    OBVIOUS
  <1>10. k = Commits(o) /\ k < BodyLen(o) => o.kind \in Programs \/ o.kind \in Erases
    BY <1>0 DEF Commits, BodyLen, Erases, Programs
  <1>11. k \in {0, 1} \/ k = 2 \/ k >= 3
    BY <1>9
  <1> QED BY <1>3, <1>4, <1>5, <1>6, <1>7, <1>8, <1>9, <1>10, <1>11

------------------------------------------------------------------------------
(* The operations *)

(* An operation goes to the flash or past it.  While one that is carried   *)
(* through is at work, the command machine is where the accesses behind it *)
(* take it, and otherwise it is at rest.  After one was cut short, the     *)
(* reset may be taken for the byte of a program: then the next operation   *)
(* finds the chip busy, until its last reset or a 0xF0 that is its byte.   *)
Early == Ready /\ op.kind \in Programs /\ Behind > 3
Chip ==
  /\ op \in Operations => Reaches(op) \/ Misses(op) \/ op.kind = "fetch"
  /\ whole /\ ~Commanding => Ready
  /\ Commanding /\ Behind >= 0 => Poised(op, Behind) \/ (~whole /\ (Stuck \/ Early))

LEMMA Busying ==
  ASSUME IInv, todo # <<>>
  PROVE  op \in Operations /\ whole \in BOOLEAN
  BY DEF IInv, TypeOK

(* Where the next access goes.                                             *)
LEMMA HeadAddress ==
  ASSUME IInv, Suffix, Chip, op \in Operations
  PROVE  /\ op.kind = "fetch" => Head(todo) = Rd(op.at) /\ Len(todo) = 1
         /\ Commanding => InFlash(Head(todo).addr) /\ BankOk
         /\ ~Commanding /\ op.kind # "fetch" => ~InFlash(Head(todo).addr) \/ ~BankOk
  <1>1. CASE op.kind = "fetch"
    <2>1. op.at \in Addrs
      BY <1>1, Kinds, Sendable
    <2>2. Script(op) = R(op.at) /\ R(op.at) = <<Rd(op.at)>>
      BY <1>1 DEF Script, R, Rd
    <2>3. todo \in Seq(Accesses) /\ todo # <<>>
      <3>1. op \notin {None, Cut}
        BY DEF Operations, None, Cut
      <3> QED BY <3>1 DEF IInv, TypeOK
    <2>4. Len(todo) \in Nat /\ Len(todo) # 0 /\ Head(todo) = todo[1]
      BY <2>3, EmptySeq, LenProperties, HeadTailProperties
    <2> DEFINE s == Script(op)
    <2>5. Len(s) = 1 /\ s[1] = Rd(op.at)
      BY <2>2
    <2>6. Len(todo) <= Len(s) /\ \A i \in 1..Len(todo) : todo[i] = s[Len(s) - Len(todo) + i]
      BY DEF Suffix
    <2> HIDE DEF s
    <2>7. Len(todo) = 1 /\ todo[1] = s[1]
      BY <2>4, <2>5, <2>6
    <2> QED BY <1>1, <2>4, <2>5, <2>7 DEF Commanding
  <1>2. CASE op.kind # "fetch"
    <2> DEFINE a == Head(todo).addr
    <2>1. a = First \/ \E i \in DOMAIN Body(op) : a = Body(op)[i].addr
      <3>1. /\ BodyLen(op) \in 4..7 /\ Behind \in -1..BodyLen(op)
            /\ Behind = -1 => Head(todo) = Wr(First, "F0")
            /\ Behind >= 0 => Head(todo) = Sent(op, Behind)
        BY <1>2, HeadSent
      <3>2. CASE Behind = -1
        BY <3>1, <3>2 DEF Wr
      <3>3. CASE Behind = BodyLen(op)
        <4>1. Sent(op, Behind) = Wr(First, "F0")
          BY <3>1, <3>3 DEF Sent
        <4>2. Head(todo) = Wr(First, "F0")
          BY <3>1, <3>3, <4>1
        <4> QED BY <4>2 DEF Wr
      <3>4. CASE Behind \in 0..BodyLen(op)-1
        <4>1. /\ Body(op) \in Seq(Accesses) /\ Len(Body(op)) = BodyLen(op)
              /\ \A k \in 0..BodyLen(op)-1 : Body(op)[k + 1] = Sent(op, k)
          BY <1>2, BodySends
        <4>2. Behind + 1 \in DOMAIN Body(op)
          BY <3>1, <3>4, <4>1
        <4>3. Head(todo) = Body(op)[Behind + 1]
          BY <3>1, <3>4, <4>1
        <4> QED BY <4>2, <4>3
      <3>5. Behind = -1 \/ Behind = BodyLen(op) \/ Behind \in 0..BodyLen(op)-1
        BY <3>1
      <3> QED BY <3>2, <3>3, <3>4, <3>5
    <2> HIDE DEF a
    <2>2. Reaches(op) => InFlash(a) /\ BankOk
      BY <2>1 DEF Reaches
    <2>3. Misses(op) => ~InFlash(a) \/ ~BankOk
      BY <2>1 DEF Misses
    <2> QED BY <1>2, <2>2, <2>3 DEF Commanding, Chip, a
  <1> QED BY <1>1, <1>2

(* An access past the flash leaves it alone, and so does a read.           *)
LEMMA OthersKeep ==
  ASSUME IInv, Suffix, Chip, ReadPort \/ (WritePort /\ ~Commanding)
  PROVE  fp_step' = fp_step /\ fp_type' = fp_type /\ Keeps /\ machine' = machine
  <1>1. CASE ReadPort
    BY <1>1 DEF ReadPort, Read, nvars, Keeps
  <1>2. CASE WritePort /\ ~Commanding
    <2>1. op \in Operations /\ Head(todo).port = "write"
      BY <1>2, Busying DEF WritePort, Advance
    <2>2. op.kind # "fetch"
      BY <2>1, HeadAddress DEF Rd
    <2>3. ~InFlash(Head(todo).addr) \/ ~BankOk
      BY <1>2, <2>1, <2>2, HeadAddress
    <2> QED BY <1>2, <2>3 DEF WritePort, Write, nvars, Keeps
  <1> QED BY <1>1, <1>2

(* A write of an operation at work on the flash.                           *)
LEMMA CommandWrites ==
  ASSUME IInv, Suffix, Chip, WritePort, Commanding
  PROVE  LET a == Head(todo).addr  v == Head(todo).byte
         IN  Head(todo) = Wr(a, v) /\ Write(a, v, CellOf(a), TRUE)
  <1> DEFINE a == Head(todo).addr  v == Head(todo).byte
  <1>1. Head(todo) \in Accesses /\ Head(todo).port = "write" /\ op \in Operations
    BY AdvanceKeeps, Busying DEF WritePort, Advance
  <1>2. Head(todo) = Wr(a, v)
    BY <1>1 DEF Accesses, Wr
  <1>3. InFlash(a) /\ BankOk
    BY <1>1, HeadAddress
  <1>4. Write(a, v, CellOf(a), BankOk)
    BY <1>3 DEF WritePort
  <1>5. Write(a, v, CellOf(a), TRUE)
    BY <1>3, <1>4 DEF Write
  <1> QED BY <1>2, <1>5

(* What is done by the write with k accesses of the body behind it, to     *)
(* cell c: what the operation is for; or the reset at its beginning is     *)
(* taken for a byte.                                                       *)
Effect(o, k, c) ==
  \/ Keeps /\ (k = Commits(o) => ~whole)
  \/ k = Commits(o) /\ Committed(o, c)
  \/ ~whole /\ k = -1 /\ Program(c, First, "F0")

LEMMA CommandSteps ==
  ASSUME IInv, Suffix, Chip, WritePort, Commanding,
         NEW o, o = op, NEW k, k = Behind
  PROVE  /\ machine' = machine
         /\ k < BodyLen(o) =>
              \/ Poised(o, k + 1)'
              \/ ~whole /\ (Stuck' \/ (Ready' /\ o.kind \in Programs /\ k >= 3))
         /\ k = BodyLen(o) => Ready'
         /\ Effect(o, k, CellOf(Head(todo).addr))
  <1> DEFINE a == Head(todo).addr  v == Head(todo).byte  c == CellOf(a)
             n == BodyLen(o)
             Goal == /\ machine' = machine
                     /\ k < n =>
                          \/ Poised(o, k + 1)'
                          \/ ~whole /\ (Stuck' \/ (Ready' /\ o.kind \in Programs /\ k >= 3))
                     /\ k = n => Ready'
                     /\ Effect(o, k, c)
  <1> SUFFICES Goal
    OBVIOUS
  <1>1. o \in Operations /\ o.kind # "fetch"
    BY DEF Commanding
  <1>2. Head(todo) = Wr(a, v) /\ Write(a, v, c, TRUE)
    BY CommandWrites
  <1>3. /\ n \in 4..7 /\ k \in -1..n
        /\ k = -1 => ~whole /\ Head(todo) = Wr(First, "F0")
        /\ k >= 0 => Head(todo) = Sent(o, k)
    BY <1>1, HeadSent
  <1>4. k >= 0 => Poised(o, k) \/ (~whole /\ (Stuck \/ (Ready /\ o.kind \in Programs /\ k > 3)))
    BY DEF Chip, Early
  <1>5. \A b, w : Wr(b, w).addr = b /\ Wr(b, w).byte = w /\ Wr(b, w).port = "write"
    BY DEF Wr
  <1>6. Commits(o) \in {3, 5, 9} /\ Commits(o) # n
    BY <1>1, Kinds DEF Commits, BodyLen, Erases, Programs
  <1>7. k = n => Sent(o, k) = Wr(First, "F0")
    BY <1>3 DEF Sent
  <1> HIDE DEF a, v, c, n
  <1>8. CASE k = -1
    <2>1. v = "F0" /\ a = First /\ ~whole
      BY <1>3, <1>5, <1>8 DEF a, v
    <2>2. CASE ~Programming
      <3>1. Ready' /\ Keeps /\ machine' = machine
        BY <1>2, <2>1, <2>2, Resets
      <3>2. Poised(o, 0)'
        BY <1>6, <3>1 DEF Poised, Ready
      <3> QED BY <1>3, <1>6, <1>8, <2>1, <3>1, <3>2 DEF Effect
    <2>3. CASE Programming
      <3>1. Program(c, First, "F0") /\ machine' = machine
        BY <1>2, <2>1, <2>3, Programs1
      <3>2. Ready' \/ Stuck'
        <4>1. fp_type \in {"BYTE_PROGRAM", "INFO_BYTE_PROGRAM"}
          BY <2>3 DEF Programming
        <4>2. DoneOrReset(4)
          BY <3>1 DEF Program
        <4> QED BY <4>1, <4>2, DoneType DEF Ready, Stuck
      <3>3. Ready' => Poised(o, 0)'
        BY <1>6 DEF Poised, Ready
      <3> QED BY <1>3, <1>8, <2>1, <3>1, <3>2, <3>3 DEF Effect
    <2> QED BY <2>2, <2>3
  <1>9. CASE k >= 0 /\ Poised(o, k)
    <2>1. Sent(o, k) = Wr(a, v) /\ k \in 0..n
      BY <1>2, <1>3, <1>9
    <2>2. /\ machine' = machine
          /\ k < n => Poised(o, k + 1)'
          /\ k = n => Ready'
          /\ k # Commits(o) => Keeps
          /\ k = Commits(o) => Committed(o, c)
      BY <1>1, <1>2, <1>3, <1>9, <2>1, PoisedWrites DEF n
    <2> QED BY <2>2 DEF Effect
  <1>10. CASE k >= 0 /\ ~whole /\ Stuck
    <2>1. /\ Keeps /\ machine' = machine
          /\ IF v = "F0" THEN Ready' ELSE Stuck'
      BY <1>2, <1>10, StuckStays
    <2>2. CASE k = n
      <3>1. v = "F0"
        BY <1>3, <1>5, <1>7, <1>10, <2>2 DEF v
      <3> QED BY <1>3, <1>10, <2>1, <2>2, <3>1 DEF Effect
    <2>3. CASE k < n /\ v # "F0"
      BY <1>3, <1>10, <2>1, <2>3 DEF Effect
    <2>4. CASE k < n /\ v = "F0"
      <3>1. o.kind \in Programs /\ k = 3
        <4>1. Sent(o, k) = Wr(a, "F0")
          BY <1>2, <1>3, <1>10, <2>4
        <4>2. Command(o) # "F0"
          BY <1>1, Kinds DEF Command, Erases, Programs
        <4>3. Sent(o, k).byte = "F0" /\ Sent(o, k).port = "write"
          BY <1>5, <4>1
        <4>4. \A b : Rd(b).port = "read"
          BY DEF Rd
        <4>5. \/ o.kind \in Programs /\ k = Commits(o)
              \/ \E b, w : Sent(o, k) = Wr(b, w) /\ w # "F0"
              \/ \E b : Sent(o, k) = Rd(b)
          BY <1>3, <1>10, <2>4, <4>2 DEF Sent, n
        <4>6. o.kind \in Programs /\ k = Commits(o)
          BY <1>5, <4>3, <4>4, <4>5
        <4> QED BY <4>6 DEF Commits, Programs, Erases
      <3> QED BY <1>10, <2>1, <2>4, <3>1 DEF Effect
    <2> QED BY <1>3, <2>2, <2>3, <2>4
  <1>11. CASE ~whole /\ Ready /\ o.kind \in Programs /\ k > 3
    <2>1. k = n
      <3>1. Commits(o) = 3 /\ o.kind \notin Erases /\ o.kind \notin {"id", "poll"}
        BY <1>11 DEF Commits, Programs, Erases
      <3>2. k < n => Sent(o, k) = Rd(o.at)
        BY <1>3, <1>11, <3>1 DEF Sent, n
      <3>3. Rd(o.at).port = "read" /\ k >= 0
        BY <1>3, <1>11 DEF Rd
      <3>4. ~(k < n)
        BY <1>2, <1>3, <1>5, <3>2, <3>3
      <3> QED BY <1>3, <3>4
    <2>2. v = "F0"
      BY <1>3, <1>5, <1>7, <1>11, <2>1 DEF v
    <2>3. ~Programming
      BY <1>11 DEF Ready, Programming
    <2>4. Ready' /\ Keeps /\ machine' = machine
      BY <1>2, <2>2, <2>3, Resets
    <2> QED BY <1>3, <1>6, <1>11, <2>1, <2>4 DEF Effect
  <1>12. k = -1 \/ k >= 0
    BY <1>3
  <1> QED BY <1>4, <1>8, <1>9, <1>10, <1>11, <1>12

(* A read leaves the command machine where the accesses behind take it.    *)
LEMMA PoisedReads ==
  ASSUME NEW o \in Operations, o.kind # "fetch", NEW k \in 0..BodyLen(o)-1, BodyLen(o) \in 4..7,
         Poised(o, k), NEW a, Sent(o, k) = Rd(a)
  PROVE  k >= 3 /\ Poised(o, k + 1)
  <1>1. o.kind \in Erases \cup Programs \cup {"infoRead", "id", "poll"}
    BY Kinds
  <1>2. Sent(o, k).port = "read" /\ \A b, w : Wr(b, w).port = "write"
    BY DEF Rd, Wr
  <1>3. k \in 0..6 /\ k < BodyLen(o) /\ k # BodyLen(o)
    OBVIOUS
  <1>4. k >= 3
    BY <1>2, <1>3 DEF Sent
  <1>5. k # Commits(o) /\ ~(o.kind \in Erases /\ k \in {3, 4})
    BY <1>2, <1>3, <1>4 DEF Sent
  <1>6. CASE o.kind \in Erases
    <2>1. Commits(o) = 5 /\ ~(k <= Commits(o)) /\ ~(k + 1 <= Commits(o))
      BY <1>3, <1>4, <1>5, <1>6 DEF Commits
    <2> QED BY <1>4, <2>1 DEF Poised
  <1>7. CASE o.kind \in Programs
    <2>1. Commits(o) = 3 /\ ~(k <= Commits(o)) /\ ~(k + 1 <= Commits(o))
      BY <1>3, <1>4, <1>5, <1>7 DEF Commits, Programs, Erases
    <2> QED BY <1>4, <2>1 DEF Poised
  <1>8. CASE o.kind \in {"infoRead", "id", "poll"}
    <2>1. Commits(o) = 9 /\ o.kind \notin Erases /\ k <= 9 /\ k + 1 <= 9 /\ ~(k < 3)
          /\ ~(k + 1 < 3) /\ ~(k + 1 <= 3)
      BY <1>3, <1>4, <1>8 DEF Commits, Programs, Erases
    <2>2. fp_step = 3 /\ fp_type = CommandOf(Command(o))
      BY <1>4, <2>1 DEF Poised
    <2> QED BY <1>4, <2>1, <2>2 DEF Poised
  <1> QED BY <1>1, <1>6, <1>7, <1>8

LEMMA InitChip == Init => Suffix /\ Chip
  <1>1. Init => op = None /\ fp_step = 0 /\ fp_type = "NONE"
    BY DEF Init, NorInit
  <1> QED BY <1>1 DEF Suffix, Chip, Commanding, Operations, None, Ready

LEMMA NextChip == IInv /\ Suffix /\ Chip /\ [Next]_vars => Chip'
  <1> SUFFICES ASSUME IInv, Suffix, Chip, [Next]_vars PROVE Chip'
    OBVIOUS
  <1>1. CASE SetRegister
    <2>1. op \in {None, Cut} /\ op' = op /\ whole' = whole /\ fp_step' = fp_step
          /\ fp_type' = fp_type
      BY <1>1 DEF SetRegister, IInv, TypeOK, nvars
    <2>2. op \notin Operations
      BY <2>1 DEF Operations, None, Cut
    <2> QED BY <2>1, <2>2 DEF Chip, Commanding, Ready
  <1>2. CASE Abandon
    BY <1>2 DEF Abandon, Chip, Commanding, Operations, Cut
  <1>3. CASE Start
    <2>1. /\ op' \in Operations /\ todo' = Script(op')
          /\ Reaches(op') \/ Misses(op') \/ op'.kind = "fetch"
          /\ memmap' = memmap /\ regs' = regs /\ whole' = whole
          /\ fp_step' = fp_step /\ fp_type' = fp_type
      BY <1>3 DEF Start, banks, nvars
    <2>2. Reaches(op)' = Reaches(op') /\ Misses(op)' = Misses(op')
      BY <2>1, ScriptStays
    <2>3. whole => Ready'
      <3>1. op \notin Operations
        BY <1>3 DEF Start, IInv, TypeOK, Operations, None, Cut
      <3> QED BY <2>1, <3>1 DEF Chip, Commanding, Ready
    <2>4. ASSUME op'.kind # "fetch", Behind' >= 0 PROVE Poised(op, Behind)' /\ whole
      <3>1. BodyLen(op') \in 4..7 /\ Len(todo') = BodyLen(op') + 1 + Skipped /\ whole \in BOOLEAN
        BY <2>1, <2>4, ScriptSends DEF IInv, TypeOK
      <3>2. Behind' = BodyLen(op') + 1 - Len(todo')
        BY DEF Behind
      <3>3. whole /\ Behind' = 0
        BY <2>4, <3>1, <3>2 DEF Skipped
      <3>4. 0 <= Commits(op')
        BY DEF Commits
      <3> QED BY <2>3, <3>3, <3>4 DEF Poised, Ready
    <2> QED BY <2>1, <2>2, <2>3, <2>4 DEF Chip, Commanding
  <1>4. CASE Advance /\ (WritePort \/ ReadPort)
    <2>1. /\ op \in Operations /\ whole \in BOOLEAN /\ memmap' = memmap /\ regs' = regs
          /\ op' = (IF Len(todo) = 1 THEN None ELSE op)
          /\ whole' = (whole \/ (op.kind # "fetch" /\ Len(todo) = 1 /\ Reaches(op)))
      BY <1>4, Busying DEF Advance, banks
    <2>2. Len(todo') = Len(todo) - 1 /\ Len(todo) \in Nat
      BY <1>4, LenProperties, HeadTailProperties DEF Advance, IInv
    <2>3. CASE ~Commanding
      <3>1. fp_step' = fp_step /\ fp_type' = fp_type
        BY <1>4, <2>3, OthersKeep
      <3>2. whole' = whole
        BY <2>1, <2>3 DEF Commanding
      <3>3. whole' => Ready'
        BY <2>3, <3>1, <3>2 DEF Chip, Ready
      <3>4. CASE Len(todo) = 1
        BY <2>1, <3>3, <3>4 DEF Chip, Commanding, Operations, None
      <3>5. CASE Len(todo) # 1
        <4>1. op' = op /\ Reaches(op)' = Reaches(op) /\ Misses(op)' = Misses(op)
          BY <2>1, <3>2, <3>5, ScriptStays
        <4> QED BY <2>3, <3>3, <4>1 DEF Chip, Commanding
      <3> QED BY <3>4, <3>5
    <2>4. CASE Commanding
      <3>1. op.kind # "fetch" /\ Reaches(op)
        BY <2>4 DEF Commanding
      <3> DEFINE n == BodyLen(op)  k == Behind
      <3>2. /\ n \in 4..7 /\ k \in -1..n /\ k = n + 1 - Len(todo)
            /\ k = -1 => ~whole /\ Head(todo) = Wr(First, "F0")
            /\ k >= 0 => Head(todo) = Sent(op, k)
        BY <2>1, <3>1, HeadSent DEF Behind
      <3>3. CASE Len(todo) = 1
        <4>1. k = n
          BY <3>2, <3>3
        <4>2. Ready'
          <5>1. CASE WritePort
            BY <2>4, <4>1, <5>1, CommandSteps
          <5>2. CASE ReadPort
            <6>1. Sent(op, k) = Wr(First, "F0")
              BY <3>2, <4>1 DEF Sent
            <6>2. Head(todo).port = "write"
              BY <3>2, <4>1, <6>1 DEF Wr
            <6> QED BY <5>2, <6>2 DEF ReadPort
          <5> QED BY <1>4, <5>1, <5>2
        <4> QED BY <2>1, <3>3, <4>2 DEF Chip, Commanding, Operations, None
      <3>4. CASE Len(todo) # 1
        <4>1. op' = op /\ whole' = whole
          BY <2>1, <3>4
        <4>2. Reaches(op)' = Reaches(op) /\ Misses(op)' = Misses(op)
          BY <2>1, <4>1, ScriptStays
        <4>3. k < n /\ Behind' = k + 1
          BY <2>2, <3>2, <3>4, <4>1 DEF Behind
        <4>4. Behind' >= 0 => Poised(op, Behind)' \/ (~whole' /\ (Stuck' \/ Early'))
          <5>1. CASE WritePort
            <6>1. PICK o, j : o = op /\ j = k
              OBVIOUS
            <6>2. \/ Poised(o, j + 1)'
                  \/ ~whole /\ (Stuck' \/ (Ready' /\ o.kind \in Programs /\ j >= 3))
              BY <2>4, <4>3, <5>1, <6>1, CommandSteps
            <6> HIDE DEF k, n
            <6>3. Poised(o, j + 1)' => Poised(op, Behind)'
              BY <4>1, <4>3, <6>1
            <6> QED BY <3>2, <4>1, <4>3, <6>1, <6>2, <6>3 DEF Early
          <5>2. CASE ReadPort
            <6>1. UNCHANGED <<fp_step, fp_type>> /\ machine' = machine
              BY <5>2, OthersKeep
            <6>2. PICK a : Head(todo) = Rd(a)
              <7>1. Head(todo) \in Accesses /\ Head(todo).port = "read"
                BY <5>2, AdvanceKeeps DEF ReadPort
              <7> QED BY <7>1 DEF Accesses, Rd
            <6>3. k # -1
              BY <3>2, <6>2 DEF Wr, Rd
            <6>4. k \in 0..n-1 /\ Sent(op, k) = Rd(a)
              BY <3>2, <4>3, <6>2, <6>3
            <6>5. Poised(op, k) => Poised(op, k + 1)
              BY <2>1, <3>1, <3>2, <6>4, PoisedReads
            <6>6. Poised(op, k + 1) => Poised(op, Behind)'
              BY <4>1, <4>3, <6>1 DEF Poised, Ready, pc1000mode
            <6>7. (Stuck => Stuck') /\ (Ready => Ready')
              BY <6>1 DEF Stuck, Ready
            <6>8. Poised(op, k) \/ (~whole /\ (Stuck \/ Early))
              BY <2>4, <6>4 DEF Chip
            <6> HIDE DEF k, n
            <6> QED BY <3>2, <4>1, <4>3, <6>4, <6>5, <6>6, <6>7, <6>8 DEF Early, k
          <5> QED BY <1>4, <5>1, <5>2
        <4> QED BY <2>1, <2>4, <4>1, <4>2, <4>4 DEF Chip, Commanding
      <3> QED BY <3>3, <3>4
    <2> QED BY <2>3, <2>4
  <1>5. CASE UNCHANGED vars
    <2>1. /\ op' = op /\ todo' = todo /\ memmap' = memmap /\ regs' = regs /\ whole' = whole
          /\ fp_step' = fp_step /\ fp_type' = fp_type /\ machine' = machine
      BY <1>5 DEF vars, nvars
    <2>2. Reaches(op)' = Reaches(op) /\ Misses(op)' = Misses(op)
      BY <2>1, ScriptStays
    <2>3. Behind' = Behind /\ (Ready' <=> Ready) /\ (Stuck' <=> Stuck)
      BY <2>1 DEF Behind, Ready, Stuck
    <2>4. Poised(op, Behind)' <=> Poised(op, Behind)
      BY <2>1, <2>3 DEF Poised, Ready, pc1000mode
    <2> QED BY <2>1, <2>2, <2>3, <2>4 DEF Chip, Commanding, Early
  <1> QED BY <1>1, <1>2, <1>3, <1>4, <1>5 DEF Next, WritePort, ReadPort

LEMMA ChipInvariance == Spec => [](IInv /\ Suffix /\ Chip)
  <1>1. Init => IInv /\ Suffix /\ Chip
    BY InitIInv, InitChip
  <1>2. IInv /\ Suffix /\ Chip /\ [Next]_vars => (IInv /\ Suffix /\ Chip)'
    BY NextIInv, SuffixStays, NextChip
  <1> QED BY <1>1, <1>2, PTL DEF Spec

(* An operation takes effect at the access that commits it.                *)
LEMMA WhenItTakesEffect ==
  ASSUME IInv, Suffix, Commanding, op' # Cut
  PROVE  TakesEffect <=> Behind = Commits(op)
  <1>1. op \in Operations /\ op.kind # "fetch" /\ Reaches(op)
    BY DEF Commanding
  <1>2. Len(todo) \in 1..9 /\ Behind = BodyLen(op) + 1 - Len(todo)
    BY <1>1, HeadSent DEF Behind
  <1>3. op.kind \in Erases \cup Programs \cup {"infoRead", "id", "poll"}
    BY <1>1, Kinds
  <1>4. Len(todo) = Trailer(op) + 1 <=> Behind = Commits(op)
    <2>1. CASE op.kind \in {"erase", "program"}
      <3>1. /\ Trailer(op) = 2
            /\ \/ BodyLen(op) = 5 /\ Commits(op) = 3
               \/ BodyLen(op) = 7 /\ Commits(op) = 5
        BY <2>1 DEF Trailer, BodyLen, Commits, Erases, Programs
      <3>2. CASE BodyLen(op) = 5 /\ Commits(op) = 3
        <4>1. Trailer(op) + 1 = 3 /\ Behind = 6 - Len(todo)
          BY <1>2, <3>1, <3>2
        <4>2. \A m \in 1..9 : m = 3 <=> 6 - m = 3
          OBVIOUS
        <4> QED BY <1>2, <3>2, <4>1, <4>2
      <3>3. CASE BodyLen(op) = 7 /\ Commits(op) = 5
        <4>1. Trailer(op) + 1 = 3 /\ Behind = 8 - Len(todo)
          BY <1>2, <3>1, <3>3
        <4>2. \A m \in 1..9 : m = 3 <=> 8 - m = 5
          OBVIOUS
        <4> QED BY <1>2, <3>3, <4>1, <4>2
      <3> QED BY <3>1, <3>2, <3>3
    <2>2. CASE op.kind \in (Erases \cup Programs) \ {"erase", "program"}
      <3>1. /\ Trailer(op) = 1
            /\ \/ BodyLen(op) = 4 /\ Commits(op) = 3
               \/ BodyLen(op) = 6 /\ Commits(op) = 5
        BY <2>2 DEF Trailer, BodyLen, Commits, Erases, Programs
      <3>2. CASE BodyLen(op) = 4 /\ Commits(op) = 3
        <4>1. Trailer(op) + 1 = 2 /\ Behind = 5 - Len(todo)
          BY <1>2, <3>1, <3>2
        <4>2. \A m \in 1..9 : m = 2 <=> 5 - m = 3
          OBVIOUS
        <4> QED BY <1>2, <3>2, <4>1, <4>2
      <3>3. CASE BodyLen(op) = 6 /\ Commits(op) = 5
        <4>1. Trailer(op) + 1 = 2 /\ Behind = 7 - Len(todo)
          BY <1>2, <3>1, <3>3
        <4>2. \A m \in 1..9 : m = 2 <=> 7 - m = 5
          OBVIOUS
        <4> QED BY <1>2, <3>3, <4>1, <4>2
      <3> QED BY <3>1, <3>2, <3>3
    <2>3. CASE op.kind \in {"infoRead", "id", "poll"}
      <3>1. Trailer(op) = 99 /\ BodyLen(op) \in {4, 5} /\ Commits(op) = 9
        BY <2>3 DEF Trailer, BodyLen, Commits, Erases, Programs
      <3> QED BY <1>2, <3>1
    <2> QED BY <1>3, <2>1, <2>2, <2>3
  <1>5. todo # <<>>
    BY <1>2
  <1> QED BY <1>1, <1>4, <1>5 DEF TakesEffect

(* What the committing access stores is what the operation is for.         *)
LEMMA StoredIsAsked ==
  ASSUME NEW o \in Operations, o.kind \in Erases \cup Programs, Committed(o, CellOf(o.at))
  PROVE  nor' = NorStored(o) /\ info' = InfoStored(o)
  <1>1. CASE o.kind \in Programs
    BY <1>1 DEF Committed, Programmed, NorStored, InfoStored, Programs
  <1>2. CASE o.kind = "erase"
    <2> DEFINE c == CellOf(o.at)
               new == [d \in Cells |-> IF d \in Sector(c) THEN Full ELSE nor[d]]
    <2>1. nor' = new /\ info' = info
      BY <1>2 DEF Committed
    <2>2. c.offset = OffsetOf[o.at]
      BY DEF CellOf
    <2>3. ASSUME NEW d \in Cells
          PROVE  d \in Sector(c) <=>
                   /\ <<d.bank, d.quarter>> = <<c.bank, c.quarter>>
                   /\ d.offset \div SectorCells[machine] = OffsetOf[o.at] \div SectorCells[machine]
      BY <2>2 DEF Sector, SamePage
    <2> HIDE DEF c
    <2>4. new = [d \in Cells |->
                   IF /\ <<d.bank, d.quarter>> = <<c.bank, c.quarter>>
                      /\ d.offset \div SectorCells[machine] = OffsetOf[o.at] \div SectorCells[machine]
                   THEN Full ELSE nor[d]]
      BY <2>3
    <2>5. NorStored(o) = new
      BY <1>2, <2>4 DEF NorStored, c
    <2> QED BY <1>2, <2>1, <2>5 DEF InfoStored
  <1>3. CASE o.kind \in Erases \ {"erase"}
    BY <1>3 DEF Committed, NorStored, InfoStored, Erases
  <1> QED BY <1>1, <1>2, <1>3

(* What a write of an operation at work does: nothing, or what the         *)
(* operation is for; or the reset at its beginning is taken for a byte.    *)
LEMMA CommandEffect ==
  ASSUME IInv, Suffix, Chip, WritePort, Commanding
  PROVE  \/ Keeps /\ (TakesEffect => ~whole)
         \/ /\ TakesEffect /\ op.kind \in Erases \cup Programs
            /\ Committed(op, CellOf(op.at)) /\ nor' = NorStored(op) /\ info' = InfoStored(op)
         \/ /\ ~whole /\ Head(todo).byte = "F0" /\ Head(todo).addr = First
            /\ Program(CellOf(First), First, "F0")
  <1> DEFINE c == CellOf(Head(todo).addr)
  <1>1. op \in Operations /\ op.kind # "fetch" /\ op' # Cut
    <2>1. op \in Operations /\ op.kind # "fetch"
      BY DEF Commanding
    <2>2. op' = None \/ op' = op
      BY DEF WritePort, Advance
    <2> QED BY <2>1, <2>2 DEF Operations, None, Cut
  <1>2. TakesEffect <=> Behind = Commits(op)
    BY <1>1, WhenItTakesEffect
  <1>3. /\ BodyLen(op) \in 4..7 /\ Behind \in -1..BodyLen(op)
        /\ Behind = -1 => Head(todo) = Wr(First, "F0")
        /\ Behind >= 0 => Head(todo) = Sent(op, Behind)
    BY <1>1, HeadSent
  <1>4. Effect(op, Behind, c)
    BY CommandSteps
  <1>5. Wr(First, "F0").byte = "F0" /\ Wr(First, "F0").addr = First
    BY DEF Wr
  <1>6. CASE Behind = Commits(op) /\ Committed(op, c)
    <2>1. op.kind \in Erases \cup Programs /\ Behind \in {3, 5}
      BY <1>3, <1>6 DEF Commits
    <2>2. op.kind \in {"program", "infoProgram", "erase", "infoErase"} => c = CellOf(op.at)
      <3>1. Behind # BodyLen(op)
        BY <1>6, <2>1 DEF Commits, BodyLen, Erases, Programs
      <3>2. /\ op.kind \in Programs => Sent(op, Behind) = Wr(op.at, op.byte)
            /\ op.kind \in {"erase", "infoErase"} => Sent(op, Behind) = Wr(op.at, "30")
        BY <1>3, <1>6, <2>1, <3>1 DEF Sent, Programs
      <3> QED BY <1>3, <2>1, <3>2 DEF Wr, Programs
    <2>3. Committed(op, CellOf(op.at))
      BY <1>6, <2>1, <2>2 DEF Committed, Erases, Programs
    <2> QED BY <1>1, <1>2, <1>6, <2>1, <2>3, StoredIsAsked
  <1> QED BY <1>2, <1>3, <1>4, <1>5, <1>6 DEF Effect

(* Outside of such a write, the flash keeps what it holds.                 *)
LEMMA OtherStepsKeep ==
  ASSUME IInv, Suffix, Chip, Next, ~(WritePort /\ Commanding)
  PROVE  Keeps /\ ~TakesEffect
  <1>1. CASE SetRegister
    BY <1>1 DEF SetRegister, nvars, Keeps, TakesEffect
  <1>2. CASE Start
    BY <1>2 DEF Start, nvars, Keeps, TakesEffect
  <1>3. CASE Abandon
    BY <1>3 DEF Abandon, nvars, Keeps, TakesEffect
  <1>4. CASE ReadPort \/ (WritePort /\ ~Commanding)
    <2>1. Keeps
      BY <1>4, OthersKeep
    <2>2. op \in Operations /\ op' # Cut
      <3>1. op \in Operations /\ (op' = None \/ op' = op)
        BY <1>4, Busying DEF ReadPort, WritePort, Advance
      <3> QED BY <3>1 DEF Operations, None, Cut
    <2>3. CASE op.kind = "fetch"
      <3>1. Len(todo) = 1 /\ Trailer(op) = 99
        BY <2>2, <2>3, HeadAddress DEF Trailer
      <3> QED BY <2>1, <3>1 DEF TakesEffect
    <2>4. CASE op.kind # "fetch"
      <3> SUFFICES ASSUME TakesEffect PROVE FALSE
        BY <2>1
      <3>1. Commanding
        BY <2>2, <2>4 DEF TakesEffect, Commanding
      <3>2. Behind = Commits(op)
        BY <2>2, <3>1, WhenItTakesEffect
      <3>3. /\ BodyLen(op) \in 4..7 /\ Behind \in -1..BodyLen(op)
            /\ Behind >= 0 => Head(todo) = Sent(op, Behind)
        BY <2>2, <2>4, HeadSent
      <3>4. Behind \in {3, 5} /\ Behind < BodyLen(op)
        BY <2>2, <2>4, <3>2, <3>3, Kinds DEF Commits, BodyLen, Erases, Programs
      <3>5. Head(todo) \in {Wr(op.at, op.byte), Wr(op.at, "30"), Wr(The5555, "10")}
        BY <3>2, <3>3, <3>4 DEF Sent
      <3>6. Head(todo).port = "read"
        BY <1>4, <3>1 DEF ReadPort
      <3> QED BY <3>5, <3>6 DEF Wr
    <2> QED BY <2>3, <2>4
  <1> QED BY <1>1, <1>2, <1>3, <1>4 DEF Next

(* What a read answers while nothing was cut short.                        *)
LEMMA AnswersAsAsked ==
  ASSUME IInv, Suffix, Chip, ReadPort, whole, Reaches(op)
  PROVE  read' = AnswerDue(op, Head(todo).addr)
  <1> DEFINE a == Head(todo).addr  c == CellOf(a)  d == CPU_PEEK(a, c, First, Second)
  <1>1. op \in Operations /\ Head(todo) \in Accesses /\ Head(todo).port = "read"
    BY AdvanceKeeps, Busying DEF ReadPort, Advance
  <1>2. ASSUME InFlash(a) PROVE read' = d
    BY <1>2 DEF ReadPort, Read
  <1>3. CASE op.kind = "fetch"
    <2>1. a = op.at
      BY <1>1, <1>3, HeadAddress DEF Rd
    <2>2. InFlash(a)
      <3>1. Body(op) = R(op.at)
        BY <1>3 DEF Body
      <3>2. 1 \in DOMAIN Body(op) /\ Body(op)[1].addr = op.at
        BY <3>1 DEF R
      <3> QED BY <2>1, <3>2 DEF Reaches
    <2>3. fp_type = "NONE"
      BY <1>3 DEF Chip, Commanding, Ready
    <2> QED BY <1>2, <1>3, <2>2, <2>3 DEF CPU_PEEK, AnswerDue
  <1>4. CASE op.kind # "fetch"
    <2> DEFINE k == Behind  n == BodyLen(op)
    <2>1. Commanding
      BY <1>1, <1>4 DEF Commanding
    <2>2. InFlash(a)
      BY <1>1, <2>1, HeadAddress
    <2>3. Head(todo) = Rd(a)
      BY <1>1 DEF Accesses, Rd
    <2>4. /\ n \in 4..7 /\ k \in 0..n /\ Sent(op, k) = Rd(a)
      <3>1. /\ n \in 4..7 /\ k \in -1..n
            /\ k = -1 => ~whole
            /\ k >= 0 => Head(todo) = Sent(op, k)
        BY <1>1, <1>4, HeadSent
      <3> QED BY <2>3, <3>1
    <2>5. Poised(op, k)
      BY <2>1, <2>4 DEF Chip
    <2>6. \A b, w : Wr(b, w) # Rd(a)
      <3>1. \A b, w : Wr(b, w).port = "write" /\ Rd(a).port = "read"
        BY DEF Wr, Rd
      <3> QED BY <3>1
    <2>7. k < n
      BY <2>4, <2>6 DEF Sent
    <2>8. k >= 3 /\ k # Commits(op) /\ ~(op.kind \in Erases /\ k \in {3, 4})
      BY <2>4, <2>6, <2>7 DEF Sent
    <2>9. op.kind \in Erases \cup Programs \cup {"infoRead", "id", "poll"}
      BY <1>1, <1>4, Kinds
    <2>10. read' = d
      BY <1>2, <2>2
    <2> HIDE DEF k, n
    <2>11. CASE op.kind \in Erases \cup Programs
      <3>1. op.kind \in {"program", "erase"} /\ ~(k <= Commits(op)) /\ Commits(op) \in {3, 5}
            /\ (Commits(op) = 3 <=> op.kind = "program")
        BY <2>4, <2>7, <2>8, <2>11 DEF n, BodyLen, Commits, Erases, Programs
      <3>2. CASE pc1000mode
        <4>1. fp_type = "NONE"
          BY <2>5, <3>1, <3>2 DEF Poised, Ready
        <4> QED BY <2>10, <3>1, <3>2, <4>1 DEF CPU_PEEK, AnswerDue
      <3>3. CASE ~pc1000mode
        <4>1. fp_step = Commits(op) + 1 /\ fp_type = CommandOf(Command(op))
          BY <2>5, <3>1, <3>3 DEF Poised
        <4>2. fp_type = IF op.kind = "program" THEN "BYTE_PROGRAM" ELSE "BLOCK_OR_MASS_ERASE"
          BY <3>1, <4>1 DEF Command, CommandOf
        <4>3. Busy /\ fp_type \notin {"NONE", "INFO_READ", "SW_ID"}
          BY <3>1, <4>1, <4>2 DEF Busy
        <4>4. d = [kind |-> "busy"]
          BY <4>3 DEF CPU_PEEK, Load
        <4> QED BY <2>10, <3>1, <3>3, <4>4 DEF AnswerDue
      <3> QED BY <3>2, <3>3
    <2>12. CASE op.kind \in {"infoRead", "id", "poll"}
      <3>1. Commits(op) = 9 /\ op.kind \notin Erases \cup Programs /\ n \in {4, 5}
            /\ (n = 5 <=> op.kind = "id")
        BY <2>12 DEF n, Commits, BodyLen, Erases, Programs
      <3>2. k \in {3, 4} /\ k <= 9 /\ ~(k < 3)
        BY <2>4, <2>7, <2>8, <3>1
      <3>3. fp_step = 3 /\ fp_type = CommandOf(Command(op))
        BY <2>5, <3>1, <3>2 DEF Poised
      <3>4. CASE op.kind = "infoRead"
        <4>1. fp_type = "INFO_READ"
          BY <3>3, <3>4 DEF Command, CommandOf
        <4>2. d = Data(info[InfoAt[a]])
          BY <3>3, <4>1 DEF CPU_PEEK, Load, Busy
        <4> QED BY <2>10, <3>4, <4>2 DEF AnswerDue
      <3>5. CASE op.kind = "poll"
        <4>1. fp_type = "POLL_STATUS"
          BY <3>3, <3>5 DEF Command, CommandOf
        <4>2. d = [kind |-> "busy"]
          BY <3>3, <4>1 DEF CPU_PEEK, Load, Busy
        <4> QED BY <2>10, <3>5, <4>2 DEF AnswerDue
      <3>6. CASE op.kind = "id"
        <4>1. fp_type = "SW_ID"
          BY <3>3, <3>6 DEF Command, CommandOf
        <4>2. First # Second
          BY DriverAssumption
        <4>3. a \in {First, Second}
          <5>1. Sent(op, k) = Rd(IF k = 3 THEN First ELSE Second)
            BY <2>4, <2>7, <3>1, <3>2, <3>6 DEF Sent, n
          <5> QED BY <2>4, <5>1 DEF Rd
        <4>4. d = IF a = First THEN Maker ELSE [kind |-> "device"]
          BY <3>3, <4>1, <4>2, <4>3 DEF CPU_PEEK, Load, Busy
        <4> QED BY <2>10, <3>6, <4>4 DEF AnswerDue
      <3> QED BY <2>12, <3>4, <3>5, <3>6
    <2> QED BY <2>9, <2>11, <2>12
  <1> QED BY <1>3, <1>4

(* Every operation that is carried through does what it is for, at the     *)
(* access that commits it and at no other, and every read answers what it  *)
(* is for; after one was cut short, a single one carried through puts the  *)
(* chip right again, whichever state it was left in.                       *)
(* (write_nor0 and read_nor, nor.cpp:133-334)                              *)
THEOREM OperationsDoAsAsked == Spec => OperationsAsAsked
  <1>1. ASSUME IInv, Suffix, Chip, Next PROVE EffectAsAsked
    <2>1. CASE WritePort /\ Commanding
      <3>1. \/ Keeps /\ (TakesEffect => ~whole)
            \/ TakesEffect /\ nor' = NorStored(op) /\ info' = InfoStored(op)
            \/ ~whole
        BY <1>1, <2>1, CommandEffect
      <3> QED BY <3>1 DEF EffectAsAsked, Keeps
    <2>2. CASE ~(WritePort /\ Commanding)
      BY <1>1, <2>2, OtherStepsKeep DEF EffectAsAsked, Keeps
    <2> QED BY <2>1, <2>2
  <1>2. ASSUME IInv, Suffix, Chip, Next PROVE ReadsAsAsked
    <2> SUFFICES ASSUME whole, todo # <<>>, Head(todo).port = "read", Reaches(op), op' # Cut
                 PROVE  read' = AnswerDue(op, Head(todo).addr)
      BY DEF ReadsAsAsked
    <2>1. ReadPort
      BY <1>2 DEF Next, SetRegister, Start, Abandon, WritePort
    <2> QED BY <1>2, <2>1, AnswersAsAsked
  <1>3. IInv /\ Suffix /\ Chip /\ [Next]_vars => [EffectAsAsked /\ ReadsAsAsked]_vars
    BY <1>1, <1>2
  <1> QED BY <1>3, ChipInvariance, PTL DEF Spec, OperationsAsAsked

(* Wherever operations are cut short, no bit comes back but by an erase    *)
(* that was carried through, and none is cleared but by the program that   *)
(* names its cell, or where the reset is written.                          *)
(* (nor.cpp:263-272, 286-331)                                              *)
THEOREM NoAccidents == Spec => NothingByAccident
  <1>1. ASSUME IInv, Suffix, Chip, Next PROVE NothingErasedByAccident
    <2>0. nor \in [Cells -> SUBSET Bits] /\ info \in [Infos -> SUBSET Bits]
      BY <1>1 DEF IInv, TypeOK, NorTypeOK
    <2>1. CASE Keeps
      BY <2>1 DEF Keeps, NothingErasedByAccident
    <2>2. CASE /\ TakesEffect /\ op.kind \in Erases \cup Programs
               /\ Committed(op, CellOf(op.at)) /\ nor' = NorStored(op) /\ info' = InfoStored(op)
      <3>1. ASSUME NEW i \in Infos, ~(info'[i] \subseteq info[i]) PROVE op.kind \in InfoErases
        <4>1. op.kind # "infoProgram"
          BY <2>0, <2>2, <3>1 DEF Committed, Programmed
        <4>2. op.kind \notin {"program", "erase", "massErase"}
          BY <2>2, <3>1 DEF Committed
        <4> QED BY <2>2, <4>1, <4>2 DEF InfoErases, Erases, Programs
      <3> QED BY <2>2, <3>1 DEF NothingErasedByAccident
    <2>3. CASE Program(CellOf(First), First, "F0")
      <3>1. \A c \in Cells : nor'[c] \subseteq nor[c]
        BY <2>0, <2>3 DEF Program, Programmed
      <3>2. \A i \in Infos : info'[i] \subseteq info[i]
        BY <2>0, <2>3 DEF Program, Programmed
      <3> QED BY <3>1, <3>2 DEF NothingErasedByAccident
    <2> QED BY <1>1, <2>1, <2>2, <2>3, CommandEffect, OtherStepsKeep
  <1>2. ASSUME IInv, Suffix, Chip, Next PROVE OnlyTheNamedCellIsProgrammed
    <2>0. nor \in [Cells -> SUBSET Bits]
      BY <1>2 DEF IInv, TypeOK, NorTypeOK
    <2>1. CASE Keeps
      BY <2>1 DEF Keeps, OnlyTheNamedCellIsProgrammed
    <2>2. CASE /\ TakesEffect /\ op.kind \in Erases \cup Programs
               /\ Committed(op, CellOf(op.at)) /\ nor' = NorStored(op) /\ info' = InfoStored(op)
      <3> SUFFICES ASSUME NEW c \in Cells, ~(nor[c] \subseteq nor'[c])
                   PROVE  todo # <<>> /\ op.kind = "program" /\ c = CellOf(op.at) /\ TakesEffect
        BY DEF OnlyTheNamedCellIsProgrammed
      <3>1. op.kind \notin {"infoProgram", "infoErase"}
        BY <2>2 DEF Committed
      <3>2. op.kind \notin {"massErase", "infoMassErase"}
        BY <2>0, <2>2 DEF Committed, Full
      <3>3. op.kind # "erase"
        BY <2>0, <2>2 DEF Committed, Full
      <3>4. op.kind = "program"
        BY <2>2, <3>1, <3>2, <3>3 DEF Erases, Programs
      <3>5. c = CellOf(op.at)
        BY <2>0, <2>2, <3>4 DEF Committed
      <3> QED BY <2>2, <3>4, <3>5 DEF TakesEffect
    <2>3. CASE WritePort /\ Head(todo).byte = "F0" /\ Program(CellOf(First), First, "F0")
      <3>1. \A c \in Cells : c # CellOf(First) => nor'[c] = nor[c]
        BY <2>0, <2>3 DEF Program
      <3> QED BY <2>3, <3>1 DEF OnlyTheNamedCellIsProgrammed, WritePort, Advance
    <2> QED BY <1>2, <2>1, <2>2, <2>3, CommandEffect, OtherStepsKeep
  <1> DEFINE Nothing == NothingErasedByAccident /\ OnlyTheNamedCellIsProgrammed
  <1>3. IInv /\ Suffix /\ Chip /\ [Next]_vars => [Nothing]_vars
    BY <1>1, <1>2
  <1> QED BY <1>3, ChipInvariance, PTL DEF Spec, NothingByAccident
==============================================================================
