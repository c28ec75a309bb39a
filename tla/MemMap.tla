-------------------------------- MODULE MemMap --------------------------------
(***************************************************************************)
(* The memory map: eight pages of 8K, of which the bank registers choose   *)
(* all but the first (components/nc2000/mem.cpp).  A page is a quarter of  *)
(* a bank of some memory.  RAM counts as two banks: ram04 is the third     *)
(* quarter of the first.                                                   *)
(***************************************************************************)
EXTENDS Naturals

CONSTANTS
  NumBanks,     \* num_nor_pages
  RegisterSets  \* contents of the bank registers

(* Register 0x00; bits 7 and 0 to 3 of 0x0a; bits 0 and 1, and 2, of 0x0d; *)
(* bits 0 to 2 of 0x0f.                                                    *)
Registers ==
  [bs : 0..255, roa : BOOLEAN, bbs : 0..15, vol : 0..3, ramb : BOOLEAN, zp : 0..7]

ASSUME MemMapAssumption ==
  /\ NumBanks \in 1..128
  /\ RegisterSets \subseteq Registers
  /\ \A r \in RegisterSets :
       r.bbs < 4 * NumBanks /\ (r.roa => r.bs % 16 < NumBanks)

Memories == {"ram", "ramb", "ext", "nor", "rom0", "rom1", "rom2"}
Pages    == [mem : Memories, bank : 0..255, quarter : 0..3]
Maps     == {f \in [0..7 -> Pages] : \A p \in 0..7 : f[p].mem = "nor" => f[p].bank < NumBanks}
Windows  == 2..5   \* the pages the bank number chooses

Odd(n) == n % 2 = 1
Page(mem, bank, quarter) == [mem |-> mem, bank |-> bank, quarter |-> quarter]
Ram(n) == Page("ram", n \div 4, n % 4)   \* Ram(2) is ram04

(* A bank of 32K in the windows: they show its quarters 2, 3, 0 and 1. *)
Quarter(p) == p % 4
Bank(mem, n) == [p \in Windows |-> Page(mem, n, Quarter(p))]
Rom(vol, n) == Bank(CASE vol = 0 -> "rom0" [] vol = 1 -> "rom1" [] vol = 2 -> "rom2", n)

(* GetBank: the machine has the bank the registers ask for. *)
BankExists(m, r) ==
  m = "pc1000" \/ r.bs < NumBanks \/ (r.bs >= 128 /\ m # "nc3000")
     \/ (m = "nc3000" /\ r.roa /\ r.bs \in {0, 1})

GetBank(m, r) ==
  CASE r.bs < NumBanks -> Bank("nor", r.bs)
    [] r.bs >= 128 /\ m = "nc1020" -> Rom(IF r.vol \in {1, 2} THEN r.vol ELSE 0, r.bs)
    [] r.bs >= 128 /\ m = "nc2000" -> Bank("ext", 0)

(* Without roa bank 0 of the PC1000 shows RAM, or a piece of the flash. *)
Pc1000Bank(r) ==
  LET bank == IF r.roa THEN Bank("nor", r.bs % 16) ELSE Rom(r.vol % 2, r.bs)
  IN  IF r.bs # 0 \/ r.roa THEN bank
      ELSE [bank EXCEPT ![2] = IF Odd(r.vol) THEN Page("nor", 0, 2) ELSE Ram(2),
                        ![3] = IF Odd(r.vol) THEN Page("nor", 0, 3) ELSE Ram(2)]

Nc3000Bank(r) ==
  IF r.roa /\ r.bs \in {0, 1} THEN [p \in Windows |-> Page("ram", r.bs, Quarter(p))]
  ELSE IF r.bs = 0 THEN [Bank("nor", 0) EXCEPT ![2] = Ram(2), ![3] = Ram(3)]
  ELSE GetBank("nc3000", r)

(* Bank 0 shows RAM in the first two windows, and with roa the external    *)
(* RAM in the others.                                                      *)
Nc1020Bank(m, r) ==
  IF r.bs # 0 THEN GetBank(m, r)
  ELSE [(IF r.roa THEN Bank("ext", 0) ELSE Bank("nor", 0)) EXCEPT ![2] = Ram(2), ![3] = Ram(2)]

BankShown(m, r) ==
  CASE m = "pc1000" -> Pc1000Bank(r)
    [] m = "nc3000" -> Nc3000Bank(r)
    [] OTHER -> Nc1020Bank(m, r)

(* Mutant: a bank that is not there shows the flash's first. *)
SwitchBankOrFirst(m, r, old) == IF BankExists(m, r) THEN BankShown(m, r) ELSE Bank("nor", 0)
(* SwitchBank_2345: a bank that is not there leaves the windows as they are. *)
SwitchBank(m, r, old) == IF BankExists(m, r) THEN BankShown(m, r) ELSE old

(* Mutant: the bit shows the flash there. *)
Switch0x2000Nor(m, r) ==
  IF m \in {"nc1020", "nc2000"} /\ r.ramb THEN Page("nor", 0, 1) ELSE Ram(1)
Switch0x2000(m, r) ==
  IF m \in {"nc1020", "nc2000"} /\ r.ramb THEN Page("ramb", 0, 0) ELSE Ram(1)

(* bbs_pages: four quarters of each of the first banks. *)
BbsPage(m, r, i) ==
  Page(IF m # "pc1000" THEN "nor" ELSE IF Odd(r.vol) THEN "rom1" ELSE "rom0",
       i \div 4, (i + 2) % 4)

(* Page 6, and page 7 which is always the BIOS. *)
SwitchBbs(m, r) ==
  CASE r.bbs # 1 -> BbsPage(m, r, r.bbs)
    [] r.bbs = 1 /\ m = "nc3000" -> Ram(3)
    [] r.bbs = 1 /\ m = "pc1000" /\ Odd(r.vol) -> Page("nor", 0, 3)
    [] OTHER -> Ram(2)

(* super_switch, which every write of a bank register calls. *)
SuperSwitch(m, r, old) ==
  [p \in 0..7 |->
     CASE p = 0 -> Ram(0)
       [] p = 1 -> Switch0x2000(m, r)
       [] p \in Windows -> SwitchBank(m, r, old)[p]
       [] p = 6 -> SwitchBbs(m, r)
       [] p = 7 -> BbsPage(m, r, 1)]

(* SwitchZP40: where in RAM, in units of 0x40, addresses 0x40 to 0x7f are. *)
SwitchZP40(r) == IF r.zp = 0 THEN 1 ELSE IF r.zp < 4 THEN 0 ELSE 8 + (r.zp - 4)
==============================================================================
