------------------------------ MODULE CpuProofs ------------------------------
(***************************************************************************)
(* Theorems about Cpu, for every firmware, memory, set of handlers and     *)
(* number of interrupts: the types of the core, decimal arithmetic, and    *)
(* that the two cores agree.                                               *)
(*                                                                         *)
(* Sound says of a core what each instruction, interrupt and round of the  *)
(* loop keeps.  There is a lemma for each of them, and one for each row of *)
(* the table of opcodes.  Twin is the other core's side of a sound one:    *)
(* again one lemma for each instruction, row, addressing and interrupt.    *)
(***************************************************************************)
EXTENDS Cpu, TLAPS

------------------------------------------------------------------------------
(* Sound cores *)

(* The registers are bytes; after an NMI found less than three bytes of    *)
(* stack, integers.  A core of n cycles at most whose registers are in R.  *)
Flags == DOMAIN FlagBit
Ranges == {Byte, Int}
Sound(c, R, n) ==
  /\ c \in [a : R, x : R, y : R, sp : R, pc : Word, ps : SUBSET Flags,
            mem : {c.mem}, irq : BOOLEAN, nmi : BOOLEAN, cyc : 0..n]
  /\ IsMemory(c.mem)

LEMMA ByteInRange == ASSUME NEW R \in Ranges PROVE Byte \subseteq R /\ R \subseteq Int
  BY DEF Ranges, Byte

LEMMA Integral == Byte \subseteq Int /\ Word \subseteq Int
  BY DEF Byte, Word

LEMMA Remainders ==
  ASSUME NEW i \in Int
  PROVE  i % 256 \in Byte /\ i % 65536 \in Word /\ i % 256 \in Int
  BY DEF Byte, Word

LEMMA AtIsByte ==
  ASSUME NEW m, IsMemory(m), NEW addr
  PROVE  At(m, addr) \in Byte
  BY DEF At, IsMemory, Byte

LEMMA InWord ==
  ASSUME NEW i \in Int, 0 <= i, i <= 65535
  PROVE  i \in Word
<1>1. i % 65536 = i
  OBVIOUS
<1> QED BY <1>1, Remainders

LEMMA WordAtIsWord ==
  ASSUME NEW m, IsMemory(m), NEW addr
  PROVE  WordAt(m, addr) \in Word
<1> DEFINE lo == At(m, addr)  hi == At(m, addr + 1)
<1>1. lo \in Int /\ 0 <= lo /\ lo <= 255 /\ hi \in Int /\ 0 <= hi /\ hi <= 255
  BY AtIsByte DEF Byte
<1>2. WordAt(m, addr) = lo + 256 * hi
  BY DEF WordAt
<1> HIDE DEF lo, hi
<1>3. lo + 256 * hi \in Int /\ 0 <= lo + 256 * hi /\ lo + 256 * hi <= 65535
  BY <1>1
<1> QED BY <1>2, <1>3, InWord

LEMMA WrittenIsMemory ==
  ASSUME NEW m, IsMemory(m), NEW addr \in Int, NEW b \in Int
  PROVE  IsMemory(Written(m, addr, b))
<1>1. addr % 65536 \in Word /\ b % 256 \in Byte
  BY Remainders
<1> QED BY <1>1 DEF Written, IsMemory

LEMMA FlagSound ==
  ASSUME NEW R, NEW n, NEW c, Sound(c, R, n), NEW f \in Flags, NEW on
  PROVE  Sound(Flag(c, f, on), R, n)
  BY DEF Sound, Flag

LEMMA RegisterSound ==
  ASSUME NEW R, NEW n, NEW c, Sound(c, R, n), NEW r \in {"a", "x", "y", "sp"}, NEW b \in R
  PROVE  Sound([c EXCEPT ![r] = b], R, n)
  BY DEF Sound

LEMMA StackPointerSound ==
  ASSUME NEW R, NEW n, NEW c, Sound(c, R, n), NEW b \in R
  PROVE  Sound([c EXCEPT !.sp = b], R, n)
  BY DEF Sound

LEMMA PokeSound ==
  ASSUME NEW R, NEW n, NEW c, Sound(c, R, n), NEW addr \in Int, NEW b \in Int
  PROVE  Sound(CPU_POKE(c, addr, b), R, n)
<1>1. IsMemory(Written(c.mem, addr, b))
  BY WrittenIsMemory DEF Sound
<1> QED BY <1>1 DEF Sound, CPU_POKE

LEMMA JumpSound ==
  ASSUME NEW R, NEW n, NEW c, Sound(c, R, n), NEW addr \in Int
  PROVE  Sound(Jump(c, addr), R, n)
  BY Remainders DEF Sound, Jump

LEMMA PeekType ==
  ASSUME NEW R, NEW n, NEW c, Sound(c, R, n), NEW addr
  PROVE  CPU_PEEK(c, addr) \in Byte /\ CPU_PEEKW(c, addr) \in Word
  BY AtIsByte, WordAtIsWord DEF Sound, CPU_PEEK, CPU_PEEKW

LEMMA SetNZSound ==
  ASSUME NEW R, NEW n, NEW c, Sound(c, R, n), NEW b
  PROVE  Sound(SET_NZ(c, b), R, n)
<1>1. "Z" \in Flags /\ "N" \in Flags
  BY DEF Flags, FlagBit
<1> QED BY <1>1, FlagSound DEF SET_NZ

LEMMA LoadSound ==
  ASSUME NEW R, NEW n, NEW c, Sound(c, R, n), NEW r \in {"a", "x", "y"}, NEW b \in R
  PROVE  Sound(Load(c, r, b), R, n)
  BY RegisterSound, SetNZSound DEF Load

LEMMA StackSound ==
  ASSUME NEW R \in Ranges, NEW n, NEW c, Sound(c, R, n)
  PROVE  /\ c.sp \in Int /\ 256 + c.sp \in Int
         /\ \A b \in Int : Sound(PUSH(c, b), R, n)
         /\ Sound(Popped(c), R, n)
         /\ PULL(c) \in Byte
<1>1. c.sp \in Int
  BY ByteInRange DEF Sound
<1>2. (c.sp - 1) % 256 \in R /\ (c.sp + 1) % 256 \in R
  BY <1>1, ByteInRange, Remainders
<1>3. ASSUME NEW b \in Int PROVE Sound(PUSH(c, b), R, n)
  <2> DEFINE d == CPU_POKE(c, 256 + c.sp, b)
  <2>1. Sound(d, R, n) /\ d.sp = c.sp
    BY <1>1, PokeSound DEF CPU_POKE, Sound
  <2>2. PUSH(c, b) = [d EXCEPT !.sp = (c.sp - 1) % 256]
    BY <2>1 DEF PUSH
  <2> HIDE DEF d
  <2> QED BY <1>2, <2>1, <2>2, StackPointerSound
<1>4. Sound(Popped(c), R, n)
  <2>1. Popped(c) = [c EXCEPT !.sp = (c.sp + 1) % 256]
    BY DEF Popped
  <2> QED BY <1>2, <2>1, StackPointerSound
<1>5. PULL(c) \in Byte
  BY PeekType DEF PULL
<1> QED BY <1>1, <1>3, <1>4, <1>5

LEMMA StatusSound ==
  ASSUME NEW R, NEW n, NEW c, Sound(c, R, n), NEW b
  PROVE  Sound(setPS(c, b), R, n)
<1>1. FlagsOf(b) \subseteq Flags
  BY DEF FlagsOf, Flags
<1> QED BY <1>1 DEF Sound, setPS

LEMMA ByteOfBits == ASSUME NEW bits PROVE ByteOf(bits) \in Byte
<1>1. \E b0 \in 0..1, b1 \in 0..2, b2 \in 0..4, b3 \in 0..8,
         b4 \in 0..16, b5 \in 0..32, b6 \in 0..64, b7 \in 0..128 :
        ByteOf(bits) = b0 + b1 + b2 + b3 + b4 + b5 + b6 + b7
  <2> DEFINE b(k) == Value(bits, k)
  <2>1. /\ b(0) \in 0..1 /\ b(1) \in 0..2 /\ b(2) \in 0..4 /\ b(3) \in 0..8
        /\ b(4) \in 0..16 /\ b(5) \in 0..32 /\ b(6) \in 0..64 /\ b(7) \in 0..128
    BY DEF Value
  <2>2. ByteOf(bits) = b(0) + b(1) + b(2) + b(3) + b(4) + b(5) + b(6) + b(7)
    BY DEF ByteOf
  <2> HIDE DEF b
  <2> QED BY <2>1, <2>2
<1> QED BY <1>1 DEF Byte

LEMMA Registers ==
  ASSUME NEW R \in Ranges, NEW n, NEW c, Sound(c, R, n)
  PROVE  /\ c.a \in R /\ c.x \in R /\ c.y \in R /\ c.sp \in R
         /\ c.a \in Int /\ c.x \in Int /\ c.y \in Int /\ c.sp \in Int
         /\ c.pc \in Word /\ c.pc \in Int /\ c.cyc \in 0..n /\ c.ps \subseteq Flags
<1>1. c.a \in R /\ c.x \in R /\ c.y \in R /\ c.sp \in R /\ c.pc \in Word
  BY DEF Sound
<1>2. c.cyc \in 0..n /\ c.ps \subseteq Flags
  BY DEF Sound
<1>3. R \subseteq Int
  BY ByteInRange
<1>4. c.pc \in Int
  BY <1>1, Integral
<1> QED BY <1>1, <1>2, <1>3, <1>4

LEMMA CarryType == ASSUME NEW c PROVE Carry(c) \in 0..1
  BY DEF Carry

LEMMA FlagNames == {"C", "Z", "I", "D", "B", "V", "N"} = Flags
  BY DEF Flags, FlagBit

LEMMA AddSound ==
  ASSUME NEW R \in Ranges, NEW n, NEW c, Sound(c, R, n), NEW v \in Byte
  PROVE  Sound(ADC(c, v), R, n)
<1>1. ASSUME NEW r \in Int, NEW p, NEW q
      PROVE  Sound(Flag(Flag(Load(c, "a", r % 256), "C", p), "V", q), R, n)
  <2>1. r % 256 \in R
    BY Remainders, ByteInRange
  <2>2. Sound(Load(c, "a", r % 256), R, n)
    BY <2>1, LoadSound
  <2>3. "C" \in Flags /\ "V" \in Flags
    BY FlagNames
  <2> QED BY <2>2, <2>3, FlagSound
<1>2. c.a \in Int /\ v \in Int /\ Carry(c) \in Int
  BY Registers, CarryType DEF Byte
<1>3. Sound(Sum(c, v, c.a + v + Carry(c)), R, n)
  <2> DEFINE r == c.a + v + Carry(c)
  <2>1. r \in Int
    BY <1>2
  <2> HIDE DEF r
  <2>2. Sound(Sum(c, v, r), R, n)
    BY <1>1, <2>1 DEF Sum
  <2> QED BY <2>2 DEF r
<1>4. Sound(DecimalSum(c, v), R, n)
  <2> DEFINE lo  == (c.a % 16) + (v % 16) + Carry(c)
             hi  == 16 * ((c.a \div 16) + (v \div 16)) + (IF lo > 9 THEN 16 ELSE 0)
             lo6 == IF lo > 9 THEN lo + 6 ELSE lo
             hi6 == IF hi > \h90 THEN hi + \h60 ELSE hi
             r   == (lo6 % 16) + 16 * ((hi6 \div 16) % 16)
             q   == Bit(c.a, 7) = Bit(v, 7) /\ Bit(c.a, 7) # Bit(hi, 7)
  <2>1. lo6 \in Int /\ hi6 \in Int
    BY <1>2
  <2>2. DecimalSum(c, v) = Flag(Flag(Load(c, "a", r), "C", hi6 > 255), "V", q)
    BY DEF DecimalSum
  <2> HIDE DEF lo6, hi6, q
  <2>3. r \in Int /\ r = r % 256
    BY <2>1
  <2> HIDE DEF r
  <2> QED BY <1>1, <2>2, <2>3
<1> QED BY <1>3, <1>4 DEF ADC

LEMMA SubtractSound ==
  ASSUME NEW R \in Ranges, NEW n, NEW c, Sound(c, R, n), NEW v \in Byte
  PROVE  Sound(SBC(c, v), R, n)
<1> DEFINE d == Difference(c, v)
           r == IF "D" \in c.ps THEN DecimalDifference(c, v) ELSE d % 256
           q == Bit(c.a, 7) # Bit(v, 7) /\ Bit(c.a, 7) # Bit(d, 7)
<1>1. c.a \in Int /\ v \in Int /\ Carry(c) \in Int
  BY Registers, CarryType DEF Byte
<1>2. d \in Int
  BY <1>1 DEF Difference
<1>3. DecimalDifference(c, v) \in Byte
  <2> DEFINE lo  == (c.a % 16) - (v % 16) - (1 - Carry(c))
             lo6 == IF (lo \div 16) % 16 # 0 THEN lo - 6 ELSE lo
             hi  == 16 * ((c.a \div 16) - (v \div 16)) - (IF Bit(lo6, 7) THEN 16 ELSE 0)
             hi6 == IF (hi \div 256) % 16 # 0 THEN hi - \h60 ELSE hi
  <2>1. lo6 \in Int
    BY <1>1
  <2>2. hi6 \in Int
    BY <1>1
  <2>3. DecimalDifference(c, v) = (lo6 % 16) + 16 * ((hi6 \div 16) % 16)
    BY DEF DecimalDifference
  <2> HIDE DEF lo6, hi6
  <2> QED BY <2>1, <2>2, <2>3 DEF Byte
<1>4. r \in R
  BY <1>2, <1>3, Remainders, ByteInRange
<1>5. SBC(c, v) = Flag(Flag(Load(c, "a", r), "C", d >= 0), "V", q)
  BY DEF SBC
<1> HIDE DEF d, r, q
<1> QED BY <1>4, <1>5, LoadSound, FlagSound, FlagNames

LEMMA LogicSound ==
  ASSUME NEW R \in Ranges, NEW n, NEW c, Sound(c, R, n), NEW v
  PROVE  /\ Sound(AND(c, v), R, n) /\ Sound(EOR(c, v), R, n) /\ Sound(ORA(c, v), R, n)
         /\ Sound(BIT(c, v), R, n)
<1>1. And(c.a, v) \in R /\ Or(c.a, v) \in R /\ Xor(c.a, v) \in R
  BY ByteOfBits, ByteInRange DEF And, Or, Xor
<1>2. Sound(AND(c, v), R, n) /\ Sound(EOR(c, v), R, n) /\ Sound(ORA(c, v), R, n)
  BY <1>1, LoadSound DEF AND, EOR, ORA
<1>3. Sound(BIT(c, v), R, n)
  BY FlagSound, FlagNames DEF BIT
<1> QED BY <1>2, <1>3

LEMMA ShiftType ==
  ASSUME NEW R \in Ranges, NEW c, NEW v \in R,
         NEW op \in {"ASL", "LSR", "ROL", "ROR", "ASLA", "LSRA", "ROLA", "RORA"}
  PROVE  Shift(op, c, v)[1] \in R /\ Shift(op, c, v)[1] \in Int
<1>1. v \in Int /\ Carry(c) \in 0..1
  BY ByteInRange, CarryType
<1>2. (2 * v) % 256 \in R /\ (2 * v + Carry(c)) % 256 \in R
  BY <1>1, Remainders, ByteInRange
<1>3. v \div 2 \in R /\ (v \div 2) + 128 * Carry(c) \in R
  BY <1>1 DEF Ranges, Byte
<1>4. Shift(op, c, v)[1] \in R
  BY <1>2, <1>3 DEF Shift, ASL, LSR, ROL, ROR
<1> QED BY <1>4, ByteInRange

LEMMA ShiftSound ==
  ASSUME NEW R \in Ranges, NEW n, NEW c, Sound(c, R, n), NEW o \in Int,
         NEW op \in {"ASL", "LSR", "ROL", "ROR", "ASLA", "LSRA", "ROLA", "RORA"}
  PROVE  Sound(ShiftA(op, c), R, n) /\ Sound(ShiftAt(op, c, o), R, n)
<1>1. Sound(ShiftA(op, c), R, n)
  <2> DEFINE r == Shift(op, c, c.a)
  <2>1. r[1] \in R
    BY Registers, ShiftType
  <2>2. ShiftA(op, c) = Load(Flag(c, "C", r[2]), "a", r[1])
    BY DEF ShiftA
  <2> HIDE DEF r
  <2> QED BY <2>1, <2>2, FlagNames, FlagSound, LoadSound
<1>2. Sound(ShiftAt(op, c, o), R, n)
  <2> DEFINE r == Shift(op, c, CPU_PEEK(c, o))
  <2>1. r[1] \in Int
    BY PeekType, ShiftType, ByteInRange
  <2>2. ShiftAt(op, c, o) = SET_NZ(CPU_POKE(Flag(c, "C", r[2]), o, r[1]), r[1])
    BY DEF ShiftAt
  <2> HIDE DEF r
  <2> QED BY <2>1, <2>2, FlagNames, FlagSound, PokeSound, SetNZSound
<1> QED BY <1>1, <1>2

LEMMA StepAtSound ==
  ASSUME NEW R, NEW n, NEW c, Sound(c, R, n), NEW o \in Int, NEW i \in Int
  PROVE  Sound(StepAt(c, o, i), R, n)
<1> DEFINE b == (CPU_PEEK(c, o) + i) % 256
<1>1. b \in Int
  BY PeekType DEF Byte
<1>2. StepAt(c, o, i) = SET_NZ(CPU_POKE(c, o, b), b)
  BY DEF StepAt
<1> HIDE DEF b
<1> QED BY <1>1, <1>2, PokeSound, SetNZSound

LEMMA CyclesSound ==
  ASSUME NEW R, NEW n, NEW c, Sound(c, R, n), NEW m, NEW k \in 0..m
  PROVE  Sound([c EXCEPT !.cyc = k], R, m)
  BY DEF Sound

LEMMA ByteSigned == ASSUME NEW b \in Byte PROVE Signed(b) \in Int
  BY DEF Signed, Byte

LEMMA BranchSound ==
  ASSUME NEW R \in Ranges, NEW c, Sound(c, R, 8), c.cyc = 2, NEW op
  PROVE  Sound(Branch(op, c), R, 8)
<1> DEFINE next == (c.pc + 1) % 65536
           by   == Signed(CPU_PEEK(c, c.pc))
<1>1. next \in Int /\ by \in Int
  <2>1. c.pc \in Int
    BY Registers
  <2>2. CPU_PEEK(c, c.pc) \in Byte
    BY PeekType
  <2> QED BY <2>1, <2>2, ByteSigned
<1>2. PageCrossed(next, by) \in 0..1
  BY DEF PageCrossed
<1>3. Sound(Jump(c, next + by), R, 8) /\ Sound(Jump(c, next), R, 8)
  BY <1>1, JumpSound
<1>4. Jump(c, next + by).cyc = 2
  BY DEF Jump, Sound
<1>5. Jump(c, next + by).cyc + 1 + PageCrossed(next, by) \in 0..8
  BY <1>2, <1>4
<1>6. Sound([Jump(c, next + by) EXCEPT !.cyc = @ + 1 + PageCrossed(next, by)], R, 8)
  <2> DEFINE d == Jump(c, next + by)  k == d.cyc + 1 + PageCrossed(next, by)
  <2>1. Sound(d, R, 8) /\ k \in 0..8
    BY <1>3, <1>5
  <2>2. [d EXCEPT !.cyc = @ + 1 + PageCrossed(next, by)] = [d EXCEPT !.cyc = k]
    OBVIOUS
  <2> HIDE DEF d, k
  <2>3. Sound([d EXCEPT !.cyc = k], R, 8)
    BY <2>1, CyclesSound
  <2> QED BY <2>2, <2>3 DEF d
<1>7. \/ Branch(op, c) = [Jump(c, next + by) EXCEPT !.cyc = @ + 1 + PageCrossed(next, by)]
      \/ Branch(op, c) = Jump(c, next)
  BY DEF Branch
<1> QED BY <1>3, <1>6, <1>7

LEMMA WordHalves ==
  ASSUME NEW w \in Int
  PROVE  HiByte(w) \in Int
  BY DEF HiByte

LEMMA PushWordSound ==
  ASSUME NEW R \in Ranges, NEW n, NEW c, Sound(c, R, n), NEW w \in Int
  PROVE  Sound(PUSHW(c, w), R, n)
  BY StackSound, WordHalves DEF PUSHW

LEMMA PullWordType ==
  ASSUME NEW R \in Ranges, NEW n, NEW c, Sound(c, R, n)
  PROVE  PULLW(c) \in Int
<1>1. PULL(c) \in Int /\ PULL(Popped(c)) \in Int
  BY StackSound, Integral
<1> QED BY <1>1 DEF PULLW

LEMMA StatusType == ASSUME NEW flags PROVE StatusOf(flags) \in Int
  BY ByteOfBits DEF StatusOf, Byte

LEMMA StackOperationsSound ==
  ASSUME NEW R \in Ranges, NEW n, NEW c, Sound(c, R, n), NEW o \in Int
  PROVE  /\ Sound(PHP(c), R, n) /\ Sound(PLP(c), R, n) /\ Sound(PLA(c), R, n)
         /\ Sound(JSR(c, o), R, n) /\ Sound(RTS(c), R, n) /\ Sound(RTI(c), R, n)
         /\ Sound(BRK(c), R, n)
<1>1. Sound(PHP(c), R, n)
  BY StackSound, StatusType DEF PHP
<1>2. Sound(PLP(c), R, n)
  <2> DEFINE d == setPS(Popped(c), PULL(c))
  <2>1. Sound(d, R, n)
    BY StackSound, StatusSound
  <2>2. PLP(c) = [d EXCEPT !.ps = @ \ {"B"}]
    BY DEF PLP
  <2> HIDE DEF d
  <2> QED BY <2>1, <2>2 DEF Sound
<1>3. Sound(PLA(c), R, n)
  BY StackSound, LoadSound, ByteInRange DEF PLA
<1>4. Sound(JSR(c, o), R, n)
  <2>1. (c.pc - 1) % 65536 \in Int
    <3>1. c.pc \in Int
      BY Registers
    <3> QED BY <3>1
  <2> QED BY <2>1, PushWordSound, JumpSound DEF JSR
<1>5. Sound(RTS(c), R, n)
  <2>1. PULLW(c) + 1 \in Int
    BY PullWordType
  <2> QED BY <2>1, StackSound, JumpSound DEF RTS
<1>6. Sound(RTI(c), R, n)
  <2> DEFINE t == setPS(Popped(c), PULL(c))
  <2>1. Sound(t, R, n)
    BY StackSound, StatusSound
  <2>2. RTI(c) = Jump(Popped(Popped(t)), PULLW(t))
    BY DEF RTI
  <2> HIDE DEF t
  <2> QED BY <2>1, <2>2, StackSound, PullWordType, JumpSound
<1>7. Sound(BRK(c), R, n)
  <2> DEFINE t == PHP(PUSHW(c, (c.pc + 1) % 65536))
             u == Flag(Flag(t, "D", FALSE), "I", TRUE)
  <2>1. (c.pc + 1) % 65536 \in Int
    <3>1. c.pc \in Int
      BY Registers
    <3> QED BY <3>1
  <2>2. Sound(t, R, n)
    <3> DEFINE d == PUSHW(c, (c.pc + 1) % 65536)
    <3>1. Sound(d, R, n)
      BY <2>1, PushWordSound
    <3> HIDE DEF d
    <3>2. Sound(PHP(d), R, n)
      BY <3>1, StackSound, StatusType DEF PHP
    <3> QED BY <3>2 DEF d
  <2> DEFINE place == CPU_PEEKW(t, \hFFFE)
  <2>3. BRK(c) = Jump(u, place)
    BY DEF BRK
  <2> HIDE DEF t
  <2>4. place \in Word
    BY <2>2, PeekType
  <2>5. Sound(u, R, n)
    BY <2>2, FlagSound, FlagNames
  <2> HIDE DEF u, place
  <2>6. place \in Int
    BY <2>4, Integral
  <2> QED BY <2>3, <2>5, <2>6, JumpSound
<1> QED BY <1>1, <1>2, <1>3, <1>4, <1>5, <1>6, <1>7

(* The instructions. *)
Instructions ==
  {"ADC", "SBC", "AND", "EOR", "ORA", "BIT", "INC", "DEC", "TXS", "PHA", "PHP", "PLA", "PLP",
   "JMP", "JSR", "RTS", "RTI", "BRK", "NOP",
   "ASL", "LSR", "ROL", "ROR", "ASLA", "LSRA", "ROLA", "RORA",
   "CMP", "CPX", "CPY", "INX", "INY", "DEX", "DEY", "LDA", "LDX", "LDY", "STA", "STX", "STY",
   "TAX", "TAY", "TSX", "TXA", "TYA", "CLC", "CLD", "CLI", "CLV", "SEC", "SED", "SEI",
   "BCC", "BCS", "BEQ", "BMI", "BNE", "BPL", "BVC", "BVS"}

LEMMA ComparisonSound ==
  ASSUME NEW R \in Ranges, NEW n, NEW c, Sound(c, R, n), NEW r, NEW v
  PROVE  Sound(Compare(c, r, v), R, n)
  BY FlagSound, FlagNames, SetNZSound DEF Compare

LEMMA SteppedRun ==
  ASSUME NEW c, NEW o, NEW op \in DOMAIN Stepped
  PROVE  Run(op, c, o) = Load(c, Stepped[op][1], (c[Stepped[op][1]] + Stepped[op][2]) % 256)
<1>1. op \in {"INX", "INY", "DEX", "DEY"} /\ op \in DOMAIN Stepped
  BY DEF Stepped
<1>2. DOMAIN Compared = {"CMP", "CPX", "CPY"} /\ DOMAIN Loaded = {"LDA", "LDX", "LDY"}
  BY DEF Compared, Loaded
<1>3. DOMAIN Stored = {"STA", "STX", "STY"} /\ DOMAIN Set = {"SEC", "SED", "SEI"}
  BY DEF Stored, Set
<1>4. /\ DOMAIN Moved = {"TAX", "TAY", "TSX", "TXA", "TYA"}
      /\ DOMAIN Cleared = {"CLC", "CLD", "CLI", "CLV"}
      /\ DOMAIN Branches = {"BCC", "BCS", "BEQ", "BMI", "BNE", "BPL", "BVC", "BVS"}
  BY DEF Moved, Cleared, Branches
<1> QED BY <1>1, <1>2, <1>3, <1>4, ZenonT(60) DEF Run

LEMMA RunSound ==
  ASSUME NEW R \in Ranges, NEW c, Sound(c, R, 8), NEW o \in Int, NEW op \in Instructions,
         op \in DOMAIN Branches => c.cyc = 2
  PROVE  Sound(Run(op, c, o), R, 8)
<1> DEFINE v == CPU_PEEK(c, o)
<1>1. v \in Byte /\ v \in R
  BY PeekType, ByteInRange
<1>2. Byte \subseteq R /\ R \subseteq Int
  BY ByteInRange
<1>3. CASE op = "ADC"
  <2>1. Run(op, c, o) = ADC(c, v)
    BY <1>3 DEF Run, Compared, Stepped, Loaded, Stored, Moved, Cleared, Set, Branches
  <2> HIDE DEF v
  <2> QED BY <1>1, <1>2, <1>3, <2>1, AddSound
<1>4. CASE op = "SBC"
  <2>1. Run(op, c, o) = SBC(c, v)
    BY <1>4 DEF Run, Compared, Stepped, Loaded, Stored, Moved, Cleared, Set, Branches
  <2> HIDE DEF v
  <2> QED BY <1>1, <1>2, <1>4, <2>1, SubtractSound
<1>5. CASE op = "AND"
  <2>1. Run(op, c, o) = AND(c, v)
    BY <1>5 DEF Run, Compared, Stepped, Loaded, Stored, Moved, Cleared, Set, Branches
  <2> HIDE DEF v
  <2> QED BY <1>1, <1>2, <1>5, <2>1, LogicSound
<1>6. CASE op = "EOR"
  <2>1. Run(op, c, o) = EOR(c, v)
    BY <1>6 DEF Run, Compared, Stepped, Loaded, Stored, Moved, Cleared, Set, Branches
  <2> HIDE DEF v
  <2> QED BY <1>1, <1>2, <1>6, <2>1, LogicSound
<1>7. CASE op = "ORA"
  <2>1. Run(op, c, o) = ORA(c, v)
    BY <1>7 DEF Run, Compared, Stepped, Loaded, Stored, Moved, Cleared, Set, Branches
  <2> HIDE DEF v
  <2> QED BY <1>1, <1>2, <1>7, <2>1, LogicSound
<1>8. CASE op = "BIT"
  <2>1. Run(op, c, o) = BIT(c, v)
    BY <1>8 DEF Run, Compared, Stepped, Loaded, Stored, Moved, Cleared, Set, Branches
  <2> HIDE DEF v
  <2> QED BY <1>1, <1>2, <1>8, <2>1, LogicSound
<1>9. CASE op \in DOMAIN Compared
  <2>1. Run(op, c, o) = Compare(c, Compared[op], v)
    BY <1>9 DEF Run, Compared, Stepped, Loaded, Stored, Moved, Cleared, Set, Branches
  <2> HIDE DEF v
  <2> QED BY <1>1, <1>2, <1>9, <2>1, ComparisonSound
<1>10. CASE op \in {"ASL", "LSR", "ROL", "ROR"}
  <2>1. Run(op, c, o) = ShiftAt(op, c, o)
    BY <1>10 DEF Run, Compared, Stepped, Loaded, Stored, Moved, Cleared, Set, Branches
  <2> HIDE DEF v
  <2> QED BY <1>1, <1>2, <1>10, <2>1, ShiftSound
<1>11. CASE op \in {"ASLA", "LSRA", "ROLA", "RORA"}
  <2>1. Run(op, c, o) = ShiftA(op, c)
    BY <1>11 DEF Run, Compared, Stepped, Loaded, Stored, Moved, Cleared, Set, Branches
  <2> HIDE DEF v
  <2> QED BY <1>1, <1>2, <1>11, <2>1, ShiftSound
<1>12. CASE op = "INC"
  <2>1. Run(op, c, o) = StepAt(c, o, 1)
    BY <1>12 DEF Run, Compared, Stepped, Loaded, Stored, Moved, Cleared, Set, Branches
  <2> HIDE DEF v
  <2> QED BY <1>1, <1>2, <1>12, <2>1, StepAtSound
<1>13. CASE op = "DEC"
  <2>1. Run(op, c, o) = StepAt(c, o, -1)
    BY <1>13 DEF Run, Compared, Stepped, Loaded, Stored, Moved, Cleared, Set, Branches
  <2> HIDE DEF v
  <2> QED BY <1>1, <1>2, <1>13, <2>1, StepAtSound
<1>14. CASE op \in DOMAIN Stepped
  <2>1. Run(op, c, o) = Load(c, Stepped[op][1], (c[Stepped[op][1]] + Stepped[op][2]) % 256)
    BY <1>14, SteppedRun
  <2>2. Stepped[op][1] \in {"x", "y"} /\ Stepped[op][2] \in Int
    BY <1>14 DEF Stepped
  <2> DEFINE r == Stepped[op][1]  i == Stepped[op][2]
  <2> HIDE DEF r, i
  <2>3. c[r] \in Int
    BY <2>2, Registers DEF r
  <2>4. (c[r] + i) % 256 \in R
    <3>1. c[r] + i \in Int
      BY <2>2, <2>3 DEF i
    <3> QED BY <1>2, <3>1, Remainders
  <2>5. Sound(Load(c, r, (c[r] + i) % 256), R, 8)
    BY <2>2, <2>4, LoadSound DEF r
  <2> QED BY <2>1, <2>5 DEF r, i
<1>15. CASE op \in DOMAIN Loaded
  <2>1. Run(op, c, o) = Load(c, Loaded[op], v)
    BY <1>15 DEF Run, Compared, Stepped, Loaded, Stored, Moved, Cleared, Set, Branches
  <2>2. Loaded[op] \in {"a", "x", "y"}
    BY <1>15 DEF Loaded
  <2> HIDE DEF v
  <2> QED BY <1>1, <2>1, <2>2, LoadSound
<1>16. CASE op \in DOMAIN Stored
  <2>1. Run(op, c, o) = CPU_POKE(c, o, c[Stored[op]])
    BY <1>16 DEF Run, Compared, Stepped, Loaded, Stored, Moved, Cleared, Set, Branches
  <2>2. c[Stored[op]] \in Int
    BY <1>16, Registers DEF Stored
  <2> QED BY <2>1, <2>2, PokeSound
<1>17. CASE op \in DOMAIN Moved
  <2>1. Run(op, c, o) = Load(c, Moved[op][2], c[Moved[op][1]])
    BY <1>17 DEF Run, Compared, Stepped, Loaded, Stored, Moved, Cleared, Set, Branches
  <2>2. Moved[op][2] \in {"a", "x", "y"}
    BY <1>17 DEF Moved
  <2>3. c[Moved[op][1]] \in R
    BY <1>17, Registers DEF Moved
  <2> QED BY <2>1, <2>2, <2>3, LoadSound
<1>18. CASE op = "TXS"
  <2>1. Run(op, c, o) = TXS(c)
    BY <1>18 DEF Run, Compared, Stepped, Loaded, Stored, Moved, Cleared, Set, Branches
  <2> QED BY <2>1, Registers, StackPointerSound DEF TXS
<1>19. CASE op \in DOMAIN Cleared
  <2>1. Run(op, c, o) = Flag(c, Cleared[op], FALSE)
    BY <1>19 DEF Run, Compared, Stepped, Loaded, Stored, Moved, Cleared, Set, Branches
  <2>2. Cleared[op] \in Flags
    BY <1>19 DEF Cleared, Flags, FlagBit
  <2> QED BY <2>1, <2>2, FlagSound
<1>20. CASE op \in DOMAIN Set
  <2>1. Run(op, c, o) = Flag(c, Set[op], TRUE)
    BY <1>20 DEF Run, Compared, Stepped, Loaded, Stored, Moved, Cleared, Set, Branches
  <2>2. Set[op] \in Flags
    BY <1>20 DEF Set, Flags, FlagBit
  <2> QED BY <2>1, <2>2, FlagSound
<1>21. CASE op \in DOMAIN Branches
  <2>1. Run(op, c, o) = Branch(op, c)
    BY <1>21 DEF Run, Compared, Stepped, Loaded, Stored, Moved, Cleared, Set, Branches
  <2> HIDE DEF v
  <2> QED BY <1>1, <1>2, <1>21, <2>1, BranchSound
<1>22. CASE op = "PHA"
  <2>1. Run(op, c, o) = PUSH(c, c.a)
    BY <1>22 DEF Run, Compared, Stepped, Loaded, Stored, Moved, Cleared, Set, Branches
  <2> HIDE DEF v
  <2> QED BY <1>1, <1>2, <1>22, <2>1, StackSound, Registers
<1>23. CASE op = "PHP"
  <2>1. Run(op, c, o) = PHP(c)
    BY <1>23 DEF Run, Compared, Stepped, Loaded, Stored, Moved, Cleared, Set, Branches
  <2> HIDE DEF v
  <2> QED BY <1>1, <1>2, <1>23, <2>1, StackOperationsSound
<1>24. CASE op = "PLA"
  <2>1. Run(op, c, o) = PLA(c)
    BY <1>24 DEF Run, Compared, Stepped, Loaded, Stored, Moved, Cleared, Set, Branches
  <2> HIDE DEF v
  <2> QED BY <1>1, <1>2, <1>24, <2>1, StackOperationsSound
<1>25. CASE op = "PLP"
  <2>1. Run(op, c, o) = PLP(c)
    BY <1>25 DEF Run, Compared, Stepped, Loaded, Stored, Moved, Cleared, Set, Branches
  <2> HIDE DEF v
  <2> QED BY <1>1, <1>2, <1>25, <2>1, StackOperationsSound
<1>26. CASE op = "JMP"
  <2>1. Run(op, c, o) = Jump(c, o)
    BY <1>26 DEF Run, Compared, Stepped, Loaded, Stored, Moved, Cleared, Set, Branches
  <2> HIDE DEF v
  <2> QED BY <1>1, <1>2, <1>26, <2>1, JumpSound
<1>27. CASE op = "JSR"
  <2>1. Run(op, c, o) = JSR(c, o)
    BY <1>27 DEF Run, Compared, Stepped, Loaded, Stored, Moved, Cleared, Set, Branches
  <2> HIDE DEF v
  <2> QED BY <1>1, <1>2, <1>27, <2>1, StackOperationsSound
<1>28. CASE op = "RTS"
  <2>1. Run(op, c, o) = RTS(c)
    BY <1>28 DEF Run, Compared, Stepped, Loaded, Stored, Moved, Cleared, Set, Branches
  <2> HIDE DEF v
  <2> QED BY <1>1, <1>2, <1>28, <2>1, StackOperationsSound
<1>29. CASE op = "RTI"
  <2>1. Run(op, c, o) = RTI(c)
    BY <1>29 DEF Run, Compared, Stepped, Loaded, Stored, Moved, Cleared, Set, Branches
  <2> HIDE DEF v
  <2> QED BY <1>1, <1>2, <1>29, <2>1, StackOperationsSound
<1>30. CASE op = "BRK"
  <2>1. Run(op, c, o) = BRK(c)
    BY <1>30 DEF Run, Compared, Stepped, Loaded, Stored, Moved, Cleared, Set, Branches
  <2> HIDE DEF v
  <2> QED BY <1>1, <1>2, <1>30, <2>1, StackOperationsSound
<1>31. CASE op = "NOP"
  <2>1. Run(op, c, o) = c
    BY <1>31 DEF Run, Compared, Stepped, Loaded, Stored, Moved, Cleared, Set, Branches
  <2> QED BY <2>1
<1> QED
  BY <1>3, <1>4, <1>5, <1>6, <1>7, <1>8, <1>9, <1>10, <1>11, <1>12, <1>13, <1>14, <1>15, <1>16, <1>17, <1>18, <1>19, <1>20, <1>21, <1>22, <1>23, <1>24, <1>25, <1>26, <1>27, <1>28, <1>29, <1>30, <1>31
  DEF Instructions, Compared, Stepped, Loaded, Stored, Moved, Cleared, Set, Branches

(* The opcodes. *)
Modes == {"", "imm", "zp", "zpx", "zpy", "abs", "absx", "absy", "indx", "indy", "indy2", "ind"}
IsOpcode(t) ==
  /\ t[1] \in Instructions /\ t[2] \in Modes /\ t[3] \in 2..7
  /\ t[1] \in DOMAIN Branches => t[2] = "" /\ t[3] = 2

LEMMA IllegalSets ==
  /\ \A n \in 2..8 : Taking[n] \subseteq Illegal
  /\ Taking[2] = Nops1 \cup {\h0B, \h2B, \h4B, \h6B, \h80, \h82, \h89, \h8B, \hAB, \hC2, \hCB, \hE2, \hEB}
  /\ Taking[3] = {\h04, \h44, \h64, \h87, \hA7}
  /\ Taking[4] = {\h14, \h34, \h54, \h74, \h97, \hB7, \hD4, \hF4, \h0C, \h1C, \h3C, \h5C, \h7C, \h8F,
                 \hAF, \hBB, \hBF, \hDC, \hFC}
  /\ Taking[5] = {\h07, \h27, \h47, \h67, \hB3, \hC7, \hE7, \h9B, \h9C, \h9E, \h9F}
  /\ Taking[6] = {\h17, \h37, \h57, \h77, \h83, \h93, \hA3, \hD7, \hF7, \h0F, \h2F, \h4F, \h6F,
                 \hCF, \hEF} \cup Jams
  /\ Taking[7] = {\h1B, \h1F, \h3B, \h3F, \h5B, \h5F, \h7B, \h7F, \hDB, \hDF, \hFB, \hFF}
  /\ Taking[8] = {\h03, \h13, \h23, \h33, \h43, \h53, \h63, \h73, \hC3, \hD3, \hE3, \hF3}
  BY DEF Taking, Illegal

LEMMA IllegalType ==
  ASSUME NEW code \in Illegal
  PROVE  illegal_op_cycle[code] \in 2..8 /\ illegal_op_byte[code] \in 1..3
<1>1. \E n \in 2..8 : code \in Taking[n]
  BY DEF Illegal
<1>2. illegal_op_cycle[code] = CHOOSE n \in 2..8 : code \in Taking[n]
  BY DEF illegal_op_cycle
<1>3. illegal_op_cycle[code] \in 2..8
  BY <1>1, <1>2
<1>4. illegal_op_byte[code] \in 1..3
  BY DEF illegal_op_byte
<1> QED BY <1>3, <1>4

LEMMA Row0Opcodes == ASSUME NEW c \in Byte \ Illegal, c \div 16 = 0 PROVE IsOpcode(Row0(c))
<1>1. \A i \in {\h02, \h03, \h04, \h07, \h0B, \h0C, \h0F} : i \in Illegal
  BY IllegalSets DEF Nops1, Jams
<1>2. c \in {\h00, \h01, \h05, \h06, \h08, \h09, \h0A, \h0D, \h0E}
  BY <1>1 DEF Byte
<1> USE DEF Row0, IsOpcode, Instructions, Modes, Branches
<1>3. CASE c = \h00 BY <1>3
<1>4. CASE c = \h01 BY <1>4
<1>5. CASE c = \h05 BY <1>5
<1>6. CASE c = \h06 BY <1>6
<1>7. CASE c = \h08 BY <1>7
<1>8. CASE c = \h09 BY <1>8
<1>9. CASE c = \h0A BY <1>9
<1>10. CASE c = \h0D BY <1>10
<1>11. CASE c = \h0E BY <1>11
<1> HIDE DEF Row0, IsOpcode, Instructions, Modes, Branches
<1> QED BY <1>2, <1>3, <1>4, <1>5, <1>6, <1>7, <1>8, <1>9, <1>10, <1>11

LEMMA Row1Opcodes == ASSUME NEW c \in Byte \ Illegal, c \div 16 = 1 PROVE IsOpcode(Row1(c))
<1>1. \A i \in {\h12, \h13, \h14, \h17, \h1A, \h1B, \h1C, \h1F} : i \in Illegal
  BY IllegalSets DEF Nops1, Jams
<1>2. c \in {\h10, \h11, \h15, \h16, \h18, \h19, \h1D, \h1E}
  BY <1>1 DEF Byte
<1> USE DEF Row1, IsOpcode, Instructions, Modes, Branches
<1>3. CASE c = \h10 BY <1>3
<1>4. CASE c = \h11 BY <1>4
<1>5. CASE c = \h15 BY <1>5
<1>6. CASE c = \h16 BY <1>6
<1>7. CASE c = \h18 BY <1>7
<1>8. CASE c = \h19 BY <1>8
<1>9. CASE c = \h1D BY <1>9
<1>10. CASE c = \h1E BY <1>10
<1> HIDE DEF Row1, IsOpcode, Instructions, Modes, Branches
<1> QED BY <1>2, <1>3, <1>4, <1>5, <1>6, <1>7, <1>8, <1>9, <1>10

LEMMA Row2Opcodes == ASSUME NEW c \in Byte \ Illegal, c \div 16 = 2 PROVE IsOpcode(Row2(c))
<1>1. \A i \in {\h22, \h23, \h27, \h2B, \h2F} : i \in Illegal
  BY IllegalSets DEF Nops1, Jams
<1>2. c \in {\h20, \h21, \h24, \h25, \h26, \h28, \h29, \h2A, \h2C, \h2D, \h2E}
  BY <1>1 DEF Byte
<1> USE DEF Row2, IsOpcode, Instructions, Modes, Branches
<1>3. CASE c = \h20 BY <1>3
<1>4. CASE c = \h21 BY <1>4
<1>5. CASE c = \h24 BY <1>5
<1>6. CASE c = \h25 BY <1>6
<1>7. CASE c = \h26 BY <1>7
<1>8. CASE c = \h28 BY <1>8
<1>9. CASE c = \h29 BY <1>9
<1>10. CASE c = \h2A BY <1>10
<1>11. CASE c = \h2C BY <1>11
<1>12. CASE c = \h2D BY <1>12
<1>13. CASE c = \h2E BY <1>13
<1> HIDE DEF Row2, IsOpcode, Instructions, Modes, Branches
<1> QED BY <1>2, <1>3, <1>4, <1>5, <1>6, <1>7, <1>8, <1>9, <1>10, <1>11, <1>12, <1>13

LEMMA Row3Opcodes == ASSUME NEW c \in Byte \ Illegal, c \div 16 = 3 PROVE IsOpcode(Row3(c))
<1>1. \A i \in {\h32, \h33, \h34, \h37, \h3A, \h3B, \h3C, \h3F} : i \in Illegal
  BY IllegalSets DEF Nops1, Jams
<1>2. c \in {\h30, \h31, \h35, \h36, \h38, \h39, \h3D, \h3E}
  BY <1>1 DEF Byte
<1> USE DEF Row3, IsOpcode, Instructions, Modes, Branches
<1>3. CASE c = \h30 BY <1>3
<1>4. CASE c = \h31 BY <1>4
<1>5. CASE c = \h35 BY <1>5
<1>6. CASE c = \h36 BY <1>6
<1>7. CASE c = \h38 BY <1>7
<1>8. CASE c = \h39 BY <1>8
<1>9. CASE c = \h3D BY <1>9
<1>10. CASE c = \h3E BY <1>10
<1> HIDE DEF Row3, IsOpcode, Instructions, Modes, Branches
<1> QED BY <1>2, <1>3, <1>4, <1>5, <1>6, <1>7, <1>8, <1>9, <1>10

LEMMA Row4Opcodes == ASSUME NEW c \in Byte \ Illegal, c \div 16 = 4 PROVE IsOpcode(Row4(c))
<1>1. \A i \in {\h42, \h43, \h44, \h47, \h4B, \h4F} : i \in Illegal
  BY IllegalSets DEF Nops1, Jams
<1>2. c \in {\h40, \h41, \h45, \h46, \h48, \h49, \h4A, \h4C, \h4D, \h4E}
  BY <1>1 DEF Byte
<1> USE DEF Row4, IsOpcode, Instructions, Modes, Branches
<1>3. CASE c = \h40 BY <1>3
<1>4. CASE c = \h41 BY <1>4
<1>5. CASE c = \h45 BY <1>5
<1>6. CASE c = \h46 BY <1>6
<1>7. CASE c = \h48 BY <1>7
<1>8. CASE c = \h49 BY <1>8
<1>9. CASE c = \h4A BY <1>9
<1>10. CASE c = \h4C BY <1>10
<1>11. CASE c = \h4D BY <1>11
<1>12. CASE c = \h4E BY <1>12
<1> HIDE DEF Row4, IsOpcode, Instructions, Modes, Branches
<1> QED BY <1>2, <1>3, <1>4, <1>5, <1>6, <1>7, <1>8, <1>9, <1>10, <1>11, <1>12

LEMMA Row5Opcodes == ASSUME NEW c \in Byte \ Illegal, c \div 16 = 5 PROVE IsOpcode(Row5(c))
<1>1. \A i \in {\h52, \h53, \h54, \h57, \h5A, \h5B, \h5C, \h5F} : i \in Illegal
  BY IllegalSets DEF Nops1, Jams
<1>2. c \in {\h50, \h51, \h55, \h56, \h58, \h59, \h5D, \h5E}
  BY <1>1 DEF Byte
<1> USE DEF Row5, IsOpcode, Instructions, Modes, Branches
<1>3. CASE c = \h50 BY <1>3
<1>4. CASE c = \h51 BY <1>4
<1>5. CASE c = \h55 BY <1>5
<1>6. CASE c = \h56 BY <1>6
<1>7. CASE c = \h58 BY <1>7
<1>8. CASE c = \h59 BY <1>8
<1>9. CASE c = \h5D BY <1>9
<1>10. CASE c = \h5E BY <1>10
<1> HIDE DEF Row5, IsOpcode, Instructions, Modes, Branches
<1> QED BY <1>2, <1>3, <1>4, <1>5, <1>6, <1>7, <1>8, <1>9, <1>10

LEMMA Row6Opcodes == ASSUME NEW c \in Byte \ Illegal, c \div 16 = 6 PROVE IsOpcode(Row6(c))
<1>1. \A i \in {\h62, \h63, \h64, \h67, \h6B, \h6F} : i \in Illegal
  BY IllegalSets DEF Nops1, Jams
<1>2. c \in {\h60, \h61, \h65, \h66, \h68, \h69, \h6A, \h6C, \h6D, \h6E}
  BY <1>1 DEF Byte
<1> USE DEF Row6, IsOpcode, Instructions, Modes, Branches
<1>3. CASE c = \h60 BY <1>3
<1>4. CASE c = \h61 BY <1>4
<1>5. CASE c = \h65 BY <1>5
<1>6. CASE c = \h66 BY <1>6
<1>7. CASE c = \h68 BY <1>7
<1>8. CASE c = \h69 BY <1>8
<1>9. CASE c = \h6A BY <1>9
<1>10. CASE c = \h6C BY <1>10
<1>11. CASE c = \h6D BY <1>11
<1>12. CASE c = \h6E BY <1>12
<1> HIDE DEF Row6, IsOpcode, Instructions, Modes, Branches
<1> QED BY <1>2, <1>3, <1>4, <1>5, <1>6, <1>7, <1>8, <1>9, <1>10, <1>11, <1>12

LEMMA Row7Opcodes == ASSUME NEW c \in Byte \ Illegal, c \div 16 = 7 PROVE IsOpcode(Row7(c))
<1>1. \A i \in {\h72, \h73, \h74, \h77, \h7A, \h7B, \h7C, \h7F} : i \in Illegal
  BY IllegalSets DEF Nops1, Jams
<1>2. c \in {\h70, \h71, \h75, \h76, \h78, \h79, \h7D, \h7E}
  BY <1>1 DEF Byte
<1> USE DEF Row7, IsOpcode, Instructions, Modes, Branches
<1>3. CASE c = \h70 BY <1>3
<1>4. CASE c = \h71 BY <1>4
<1>5. CASE c = \h75 BY <1>5
<1>6. CASE c = \h76 BY <1>6
<1>7. CASE c = \h78 BY <1>7
<1>8. CASE c = \h79 BY <1>8
<1>9. CASE c = \h7D BY <1>9
<1>10. CASE c = \h7E BY <1>10
<1> HIDE DEF Row7, IsOpcode, Instructions, Modes, Branches
<1> QED BY <1>2, <1>3, <1>4, <1>5, <1>6, <1>7, <1>8, <1>9, <1>10

LEMMA Row8Opcodes == ASSUME NEW c \in Byte \ Illegal, c \div 16 = 8 PROVE IsOpcode(Row8(c))
<1>1. \A i \in {\h80, \h82, \h83, \h87, \h89, \h8B, \h8F} : i \in Illegal
  BY IllegalSets DEF Nops1, Jams
<1>2. c \in {\h81, \h84, \h85, \h86, \h88, \h8A, \h8C, \h8D, \h8E}
  BY <1>1 DEF Byte
<1> USE DEF Row8, IsOpcode, Instructions, Modes, Branches
<1>3. CASE c = \h81 BY <1>3
<1>4. CASE c = \h84 BY <1>4
<1>5. CASE c = \h85 BY <1>5
<1>6. CASE c = \h86 BY <1>6
<1>7. CASE c = \h88 BY <1>7
<1>8. CASE c = \h8A BY <1>8
<1>9. CASE c = \h8C BY <1>9
<1>10. CASE c = \h8D BY <1>10
<1>11. CASE c = \h8E BY <1>11
<1> HIDE DEF Row8, IsOpcode, Instructions, Modes, Branches
<1> QED BY <1>2, <1>3, <1>4, <1>5, <1>6, <1>7, <1>8, <1>9, <1>10, <1>11

LEMMA Row9Opcodes == ASSUME NEW c \in Byte \ Illegal, c \div 16 = 9 PROVE IsOpcode(Row9(c))
<1>1. \A i \in {\h92, \h93, \h97, \h9B, \h9C, \h9E, \h9F} : i \in Illegal
  BY IllegalSets DEF Nops1, Jams
<1>2. c \in {\h90, \h91, \h94, \h95, \h96, \h98, \h99, \h9A, \h9D}
  BY <1>1 DEF Byte
<1> USE DEF Row9, IsOpcode, Instructions, Modes, Branches
<1>3. CASE c = \h90 BY <1>3
<1>4. CASE c = \h91 BY <1>4
<1>5. CASE c = \h94 BY <1>5
<1>6. CASE c = \h95 BY <1>6
<1>7. CASE c = \h96 BY <1>7
<1>8. CASE c = \h98 BY <1>8
<1>9. CASE c = \h99 BY <1>9
<1>10. CASE c = \h9A BY <1>10
<1>11. CASE c = \h9D BY <1>11
<1> HIDE DEF Row9, IsOpcode, Instructions, Modes, Branches
<1> QED BY <1>2, <1>3, <1>4, <1>5, <1>6, <1>7, <1>8, <1>9, <1>10, <1>11

LEMMA RowAOpcodes == ASSUME NEW c \in Byte \ Illegal, c \div 16 = 10 PROVE IsOpcode(RowA(c))
<1>1. \A i \in {\hA3, \hA7, \hAB, \hAF} : i \in Illegal
  BY IllegalSets DEF Nops1, Jams
<1>2. c \in {\hA0, \hA1, \hA2, \hA4, \hA5, \hA6, \hA8, \hA9, \hAA, \hAC, \hAD, \hAE}
  BY <1>1 DEF Byte
<1> USE DEF RowA, IsOpcode, Instructions, Modes, Branches
<1>3. CASE c = \hA0 BY <1>3
<1>4. CASE c = \hA1 BY <1>4
<1>5. CASE c = \hA2 BY <1>5
<1>6. CASE c = \hA4 BY <1>6
<1>7. CASE c = \hA5 BY <1>7
<1>8. CASE c = \hA6 BY <1>8
<1>9. CASE c = \hA8 BY <1>9
<1>10. CASE c = \hA9 BY <1>10
<1>11. CASE c = \hAA BY <1>11
<1>12. CASE c = \hAC BY <1>12
<1>13. CASE c = \hAD BY <1>13
<1>14. CASE c = \hAE BY <1>14
<1> HIDE DEF RowA, IsOpcode, Instructions, Modes, Branches
<1> QED BY <1>2, <1>3, <1>4, <1>5, <1>6, <1>7, <1>8, <1>9, <1>10, <1>11, <1>12, <1>13,
           <1>14

LEMMA RowBOpcodes == ASSUME NEW c \in Byte \ Illegal, c \div 16 = 11 PROVE IsOpcode(RowB(c))
<1>1. \A i \in {\hB2, \hB3, \hB7, \hBB, \hBF} : i \in Illegal
  BY IllegalSets DEF Nops1, Jams
<1>2. c \in {\hB0, \hB1, \hB4, \hB5, \hB6, \hB8, \hB9, \hBA, \hBC, \hBD, \hBE}
  BY <1>1 DEF Byte
<1> USE DEF RowB, IsOpcode, Instructions, Modes, Branches
<1>3. CASE c = \hB0 BY <1>3
<1>4. CASE c = \hB1 BY <1>4
<1>5. CASE c = \hB4 BY <1>5
<1>6. CASE c = \hB5 BY <1>6
<1>7. CASE c = \hB6 BY <1>7
<1>8. CASE c = \hB8 BY <1>8
<1>9. CASE c = \hB9 BY <1>9
<1>10. CASE c = \hBA BY <1>10
<1>11. CASE c = \hBC BY <1>11
<1>12. CASE c = \hBD BY <1>12
<1>13. CASE c = \hBE BY <1>13
<1> HIDE DEF RowB, IsOpcode, Instructions, Modes, Branches
<1> QED BY <1>2, <1>3, <1>4, <1>5, <1>6, <1>7, <1>8, <1>9, <1>10, <1>11, <1>12, <1>13

LEMMA RowCOpcodes == ASSUME NEW c \in Byte \ Illegal, c \div 16 = 12 PROVE IsOpcode(RowC(c))
<1>1. \A i \in {\hC2, \hC3, \hC7, \hCB, \hCF} : i \in Illegal
  BY IllegalSets DEF Nops1, Jams
<1>2. c \in {\hC0, \hC1, \hC4, \hC5, \hC6, \hC8, \hC9, \hCA, \hCC, \hCD, \hCE}
  BY <1>1 DEF Byte
<1> USE DEF RowC, IsOpcode, Instructions, Modes, Branches
<1>3. CASE c = \hC0 BY <1>3
<1>4. CASE c = \hC1 BY <1>4
<1>5. CASE c = \hC4 BY <1>5
<1>6. CASE c = \hC5 BY <1>6
<1>7. CASE c = \hC6 BY <1>7
<1>8. CASE c = \hC8 BY <1>8
<1>9. CASE c = \hC9 BY <1>9
<1>10. CASE c = \hCA BY <1>10
<1>11. CASE c = \hCC BY <1>11
<1>12. CASE c = \hCD BY <1>12
<1>13. CASE c = \hCE BY <1>13
<1> HIDE DEF RowC, IsOpcode, Instructions, Modes, Branches
<1> QED BY <1>2, <1>3, <1>4, <1>5, <1>6, <1>7, <1>8, <1>9, <1>10, <1>11, <1>12, <1>13

LEMMA RowDOpcodes == ASSUME NEW c \in Byte \ Illegal, c \div 16 = 13 PROVE IsOpcode(RowD(c))
<1>1. \A i \in {\hD2, \hD3, \hD4, \hD7, \hDA, \hDB, \hDC, \hDF} : i \in Illegal
  BY IllegalSets DEF Nops1, Jams
<1>2. c \in {\hD0, \hD1, \hD5, \hD6, \hD8, \hD9, \hDD, \hDE}
  BY <1>1 DEF Byte
<1> USE DEF RowD, IsOpcode, Instructions, Modes, Branches
<1>3. CASE c = \hD0 BY <1>3
<1>4. CASE c = \hD1 BY <1>4
<1>5. CASE c = \hD5 BY <1>5
<1>6. CASE c = \hD6 BY <1>6
<1>7. CASE c = \hD8 BY <1>7
<1>8. CASE c = \hD9 BY <1>8
<1>9. CASE c = \hDD BY <1>9
<1>10. CASE c = \hDE BY <1>10
<1> HIDE DEF RowD, IsOpcode, Instructions, Modes, Branches
<1> QED BY <1>2, <1>3, <1>4, <1>5, <1>6, <1>7, <1>8, <1>9, <1>10

LEMMA RowEOpcodes == ASSUME NEW c \in Byte \ Illegal, c \div 16 = 14 PROVE IsOpcode(RowE(c))
<1>1. \A i \in {\hE2, \hE3, \hE7, \hEB, \hEF} : i \in Illegal
  BY IllegalSets DEF Nops1, Jams
<1>2. c \in {\hE0, \hE1, \hE4, \hE5, \hE6, \hE8, \hE9, \hEA, \hEC, \hED, \hEE}
  BY <1>1 DEF Byte
<1> USE DEF RowE, IsOpcode, Instructions, Modes, Branches
<1>3. CASE c = \hE0 BY <1>3
<1>4. CASE c = \hE1 BY <1>4
<1>5. CASE c = \hE4 BY <1>5
<1>6. CASE c = \hE5 BY <1>6
<1>7. CASE c = \hE6 BY <1>7
<1>8. CASE c = \hE8 BY <1>8
<1>9. CASE c = \hE9 BY <1>9
<1>10. CASE c = \hEA BY <1>10
<1>11. CASE c = \hEC BY <1>11
<1>12. CASE c = \hED BY <1>12
<1>13. CASE c = \hEE BY <1>13
<1> HIDE DEF RowE, IsOpcode, Instructions, Modes, Branches
<1> QED BY <1>2, <1>3, <1>4, <1>5, <1>6, <1>7, <1>8, <1>9, <1>10, <1>11, <1>12, <1>13

LEMMA RowFOpcodes == ASSUME NEW c \in Byte \ Illegal, c \div 16 = 15 PROVE IsOpcode(RowF(c))
<1>1. \A i \in {\hF2, \hF3, \hF4, \hF7, \hFA, \hFB, \hFC, \hFF} : i \in Illegal
  BY IllegalSets DEF Nops1, Jams
<1>2. c \in {\hF0, \hF1, \hF5, \hF6, \hF8, \hF9, \hFD, \hFE}
  BY <1>1 DEF Byte
<1> USE DEF RowF, IsOpcode, Instructions, Modes, Branches
<1>3. CASE c = \hF0 BY <1>3
<1>4. CASE c = \hF1 BY <1>4
<1>5. CASE c = \hF5 BY <1>5
<1>6. CASE c = \hF6 BY <1>6
<1>7. CASE c = \hF8 BY <1>7
<1>8. CASE c = \hF9 BY <1>8
<1>9. CASE c = \hFD BY <1>9
<1>10. CASE c = \hFE BY <1>10
<1> HIDE DEF RowF, IsOpcode, Instructions, Modes, Branches
<1> QED BY <1>2, <1>3, <1>4, <1>5, <1>6, <1>7, <1>8, <1>9, <1>10

LEMMA OpcodeType == ASSUME NEW code \in Byte \ Illegal PROVE IsOpcode(Opcode[code])
<1>1. code \div 16 \in 0..15
  BY DEF Byte
<1>2. CASE code \div 16 = 0 BY <1>2, Row0Opcodes DEF Opcode
<1>3. CASE code \div 16 = 1 BY <1>3, Row1Opcodes DEF Opcode
<1>4. CASE code \div 16 = 2 BY <1>4, Row2Opcodes DEF Opcode
<1>5. CASE code \div 16 = 3 BY <1>5, Row3Opcodes DEF Opcode
<1>6. CASE code \div 16 = 4 BY <1>6, Row4Opcodes DEF Opcode
<1>7. CASE code \div 16 = 5 BY <1>7, Row5Opcodes DEF Opcode
<1>8. CASE code \div 16 = 6 BY <1>8, Row6Opcodes DEF Opcode
<1>9. CASE code \div 16 = 7 BY <1>9, Row7Opcodes DEF Opcode
<1>10. CASE code \div 16 = 8 BY <1>10, Row8Opcodes DEF Opcode
<1>11. CASE code \div 16 = 9 BY <1>11, Row9Opcodes DEF Opcode
<1>12. CASE code \div 16 = 10 BY <1>12, RowAOpcodes DEF Opcode
<1>13. CASE code \div 16 = 11 BY <1>13, RowBOpcodes DEF Opcode
<1>14. CASE code \div 16 = 12 BY <1>14, RowCOpcodes DEF Opcode
<1>15. CASE code \div 16 = 13 BY <1>15, RowDOpcodes DEF Opcode
<1>16. CASE code \div 16 = 14 BY <1>16, RowEOpcodes DEF Opcode
<1>17. CASE code \div 16 = 15 BY <1>17, RowFOpcodes DEF Opcode
<1> QED BY <1>1, <1>2, <1>3, <1>4, <1>5, <1>6, <1>7, <1>8, <1>9, <1>10, <1>11, <1>12, <1>13,
           <1>14, <1>15, <1>16, <1>17

(* The operand and the cycles it takes. *)
LEMMA OperandType ==
  ASSUME NEW R \in Ranges, NEW n, NEW c, Sound(c, R, n), NEW mode \in Modes
  PROVE  Operand(mode, c) \in Int /\ Extra(mode, c) \in 0..1 /\ Size(mode) \in 0..2
<1>1. c.x \in Int /\ c.y \in Int /\ c.pc \in Int
  BY Registers
<1>2. ASSUME NEW addr PROVE CPU_PEEK(c, addr) \in Int /\ CPU_PEEKW(c, addr) \in Int
  BY PeekType, Integral
<1>3. ZeroPage(c) \in Int /\ Absolute(c) \in Int
  BY <1>2 DEF ZeroPage, Absolute
<1>4. Base(mode, c) \in Int
  BY <1>2, <1>3 DEF Base
<1>5. /\ (ZeroPage(c) + c.x) % 256 \in Int /\ (ZeroPage(c) + c.y) % 256 \in Int
      /\ (Base(mode, c) + c.x) % 65536 \in Int /\ (Base(mode, c) + c.y) % 65536 \in Int
  BY <1>1, <1>3, <1>4
<1>6. Operand(mode, c) \in Int
  <2>1. CASE mode = ""
    <3>1. Operand("", c) \in Int
      BY DEF Operand
    <3> QED BY <2>1, <3>1
  <2>2. CASE mode = "imm"
    <3>1. Operand(mode, c) = c.pc
      BY <2>2 DEF Operand
    <3> QED BY <3>1, <1>1
  <2>3. CASE mode \in {"abs", "zp"}
    <3>1. Operand(mode, c) = Base(mode, c)
      BY <2>3 DEF Operand
    <3> QED BY <3>1, <1>4
  <2>4. CASE mode = "zpx"
    <3>1. Operand(mode, c) = (ZeroPage(c) + c.x) % 256
      BY <2>4 DEF Operand
    <3> QED BY <3>1, <1>5
  <2>5. CASE mode = "zpy"
    <3>1. Operand(mode, c) = (ZeroPage(c) + c.y) % 256
      BY <2>5 DEF Operand
    <3> QED BY <3>1, <1>5
  <2>6. CASE mode = "absx"
    <3>1. Operand(mode, c) = (Base(mode, c) + c.x) % 65536
      BY <2>6 DEF Operand
    <3> QED BY <3>1, <1>5
  <2>7. CASE mode \in {"absy", "indy", "indy2"}
    <3>1. Operand(mode, c) = (Base(mode, c) + c.y) % 65536
      BY <2>7 DEF Operand
    <3> QED BY <3>1, <1>5
  <2>8. CASE mode = "indx"
    <3>1. Operand(mode, c) = CPU_PEEKW(c, (ZeroPage(c) + c.x) % 256)
      BY <2>8 DEF Operand
    <3> QED BY <3>1, <1>2
  <2>9. CASE mode = "ind"
    <3>1. Operand(mode, c) = CPU_PEEKW(c, Absolute(c))
      BY <2>9 DEF Operand
    <3> QED BY <3>1, <1>2
  <2> QED BY <2>1, <2>2, <2>3, <2>4, <2>5, <2>6, <2>7, <2>8, <2>9 DEF Modes
<1>7. Extra(mode, c) \in 0..1
  BY DEF Extra, PageCrossed
<1>8. Size(mode) \in 0..2
  BY DEF Size
<1> QED BY <1>6, <1>7, <1>8

LEMMA CycleSum ==
  ASSUME NEW base \in 2..7, NEW more \in 0..1
  PROVE  base + more \in 0..8 /\ (base = 2 /\ more = 0 => base + more = 2)
  OBVIOUS

LEMMA InstructionSound ==
  ASSUME NEW R \in Ranges, NEW n, NEW c, Sound(c, R, n)
  PROVE  Sound(CpuExecuteOP(c), R, 8)
<1> DEFINE code == CPU_PEEK(c, c.pc)
           t    == Jump(c, c.pc + 1)
<1>1. code \in Byte /\ Sound(t, R, n)
  <2>1. c.pc + 1 \in Int
    BY Registers
  <2> QED BY <2>1, PeekType, JumpSound
<1>2. t.pc \in Int
  BY <1>1, Registers
<1>3. CASE code \in Illegal
  <2> DEFINE u == Jump(t, t.pc + illegal_op_byte[code] - 1)
  <2>1. CpuExecuteOP(c) = [u EXCEPT !.cyc = illegal_op_cycle[code]]
    BY <1>3 DEF CpuExecuteOP
  <2> HIDE DEF t, code
  <2>2. illegal_op_cycle[code] \in 0..8 /\ t.pc + illegal_op_byte[code] - 1 \in Int
    BY <1>2, <1>3, IllegalType
  <2>3. Sound(u, R, n)
    BY <1>1, <2>2, JumpSound
  <2> DEFINE k == illegal_op_cycle[code]
  <2> HIDE DEF u, k
  <2>4. k \in 0..8 /\ CpuExecuteOP(c) = [u EXCEPT !.cyc = k]
    BY <2>1, <2>2 DEF k
  <2> QED BY <2>3, <2>4, CyclesSound
<1>4. CASE code \notin Illegal
  <2> DEFINE op   == Opcode[code][1]
             mode == Opcode[code][2]
             base == Opcode[code][3]
             more == Extra(mode, t)
             k    == base + more
             u    == [Jump(t, t.pc + Size(mode)) EXCEPT !.cyc = k]
  <2>1. CpuExecuteOP(c) = Run(op, u, Operand(mode, t))
    BY <1>4 DEF CpuExecuteOP
  <2>2. /\ op \in Instructions /\ mode \in Modes /\ base \in 2..7
        /\ op \in DOMAIN Branches => mode = "" /\ base = 2
    BY <1>1, <1>4, OpcodeType DEF IsOpcode
  <2> HIDE DEF t, code, op, mode, base
  <2>3. Operand(mode, t) \in Int /\ more \in 0..1 /\ Size(mode) \in 0..2
    BY <1>1, <2>2, OperandType
  <2>4. mode = "" => more = 0
    BY DEF Extra
  <2> HIDE DEF more
  <2>5. k \in 0..8
    BY <2>2, <2>3, CycleSum
  <2>9. op \in DOMAIN Branches => k = 2
    BY <2>2, <2>3, <2>4, CycleSum
  <2>6. Sound(Jump(t, t.pc + Size(mode)), R, n)
    BY <1>1, <1>2, <2>3, JumpSound
  <2> DEFINE w == Jump(t, t.pc + Size(mode))
  <2> HIDE DEF k, w
  <2>7. Sound(u, R, 8)
    BY <2>5, <2>6, CyclesSound DEF w
  <2>8. u.cyc = k
    BY <2>6 DEF Sound, w
  <2> HIDE DEF u
  <2> QED BY <2>1, <2>2, <2>3, <2>7, <2>8, <2>9, RunSound
<1> QED BY <1>3, <1>4

(* Interrupts. *)
LEMMA IRQSound ==
  ASSUME NEW R \in Ranges, NEW n, NEW c, Sound(c, R, n)
  PROVE  Sound(CpuExecuteIRQ(c), R, 7) /\ CpuExecuteIRQ(c).cyc = 7
<1> DEFINE t == PUSH(PUSHW(c, c.pc), StatusOf(c.ps \ {"B"}))
           u == Flag(Flag(t, "I", TRUE), "D", FALSE)
           place == CPU_PEEKW(t, \hFFFE)
           v == Jump(u, place)
<1>1. CpuExecuteIRQ(c) = [v EXCEPT !.cyc = 7]
  BY DEF CpuExecuteIRQ
<1>2. Sound(t, R, n)
  <2> DEFINE d == PUSHW(c, c.pc)
  <2>1. Sound(d, R, n)
    BY Registers, PushWordSound
  <2> HIDE DEF d
  <2>2. Sound(PUSH(d, StatusOf(c.ps \ {"B"})), R, n)
    BY <2>1, StackSound, StatusType
  <2> QED BY <2>2 DEF d
<1> HIDE DEF t
<1>3. place \in Word
  BY <1>2, PeekType
<1>4. Sound(u, R, n)
  BY <1>2, FlagSound, FlagNames
<1> HIDE DEF u, place
<1>5. place \in Int
  BY <1>3, Integral
<1>6. Sound(v, R, n)
  BY <1>4, <1>5, JumpSound
<1> HIDE DEF v
<1>7. Sound([v EXCEPT !.cyc = 7], R, 7)
  BY <1>6, CyclesSound
<1>8. [v EXCEPT !.cyc = 7].cyc = 7
  BY <1>6 DEF Sound
<1> QED BY <1>1, <1>7, <1>8

(* The stack pointer stays a byte when there are three bytes of stack. *)
LEMMA NMISound ==
  ASSUME NEW R \in Ranges, NEW n, NEW c, Sound(c, R, n), R = Byte => c.sp >= 3
  PROVE  Sound(CpuExecuteNMI(c), R, 7)
<1>1. ASSUME NEW d, NEW b \in Int, NEW m \in 0..2, Sound(d, R, n), d.sp = c.sp - m
      PROVE  Sound(PushNMI(d, b), R, n) /\ PushNMI(d, b).sp = c.sp - (m + 1)
  <2> DEFINE e == CPU_POKE(d, 256 + d.sp, b)
  <2>1. c.sp \in Int /\ d.sp \in Int
    BY <1>1, Registers
  <2>2. Sound(e, R, n) /\ e.sp = d.sp
    BY <1>1, <2>1, PokeSound DEF CPU_POKE, Sound
  <2>3. PushNMI(d, b) = [e EXCEPT !.sp = d.sp - 1]
    BY <2>2 DEF PushNMI
  <2>4. d.sp - 1 = c.sp - (m + 1)
    BY <1>1, <2>1
  <2>5. d.sp - 1 \in R
    <3>1. CASE R = Byte
      <4>1. c.sp \in Byte
        BY <3>1, Registers
      <4>2. c.sp - (m + 1) \in Byte
        <5>1. c.sp >= 3 /\ m \in Int /\ 0 <= m /\ m <= 2
          BY <3>1
        <5> QED BY <4>1, <5>1 DEF Byte
      <4> QED BY <2>4, <3>1, <4>2
    <3>2. CASE R = Int
      BY <3>2, <2>1
    <3> QED BY <3>1, <3>2 DEF Ranges
  <2> HIDE DEF e
  <2>6. Sound([e EXCEPT !.sp = d.sp - 1], R, n)
    BY <2>2, <2>5, StackPointerSound
  <2>7. [e EXCEPT !.sp = d.sp - 1].sp = d.sp - 1
    BY <2>2 DEF Sound
  <2> QED BY <2>3, <2>4, <2>6, <2>7
<1> DEFINE d1 == PushNMI(c, HiByte(c.pc))
           d2 == PushNMI(d1, c.pc)
           t  == PushNMI(d2, PS(c))
           place == CPU_PEEKW(t, \hFFFA)
           u == Jump(t, place)
<1>2. CpuExecuteNMI(c) = [u EXCEPT !.cyc = 7]
  BY DEF CpuExecuteNMI
<1>3. c.pc \in Int /\ HiByte(c.pc) \in Int /\ PS(c) \in Int /\ c.sp \in Int /\ c.sp - 0 = c.sp
  <2>1. c.pc \in Int /\ c.sp \in Int
    BY Registers
  <2> QED BY <2>1, WordHalves, StatusType DEF PS
<1>4. Sound(d1, R, n) /\ d1.sp = c.sp - 1
  <2>1. Sound(d1, R, n) /\ d1.sp = c.sp - (0 + 1)
    BY <1>1, <1>3
  <2> QED BY <2>1
<1> HIDE DEF d1
<1>5. Sound(d2, R, n) /\ d2.sp = c.sp - 2
  <2>1. Sound(d2, R, n) /\ d2.sp = c.sp - (1 + 1)
    BY <1>1, <1>3, <1>4
  <2> QED BY <2>1
<1> HIDE DEF d2
<1>6. Sound(t, R, n)
  BY <1>1, <1>3, <1>5
<1> HIDE DEF t
<1>7. place \in Word
  BY <1>6, PeekType
<1> HIDE DEF place
<1>8. place \in Int
  BY <1>7, Integral
<1>9. Sound(u, R, n)
  BY <1>6, <1>8, JumpSound
<1> HIDE DEF u
<1> QED BY <1>2, <1>9, CyclesSound

LEMMA PendingSound ==
  ASSUME NEW R, NEW n, NEW c, Sound(c, R, n), NEW on \in BOOLEAN
  PROVE  Sound([c EXCEPT !.irq = on], R, n) /\ Sound([c EXCEPT !.nmi = on], R, n)
  BY DEF Sound

LEMMA RoundSound ==
  ASSUME NEW R \in Ranges, NEW n, NEW c, Sound(c, R, n)
  PROVE  Sound(Round(c), R, 15)
<1> DEFINE d == [c EXCEPT !.irq = FALSE]
           t == Interrupted(c)
           u == CpuExecuteOP([t EXCEPT !.cyc = 0])
           k == u.cyc + (IF TakesIRQ(c) THEN t.cyc ELSE 0)
<1>1. Round(c) = [u EXCEPT !.cyc = k]
  BY DEF Round
<1>2. Sound(d, R, n)
  BY PendingSound
<1>3. Sound(t, R, n) \/ (Sound(t, R, 7) /\ t.cyc = 7)
  <2>1. t = IF TakesIRQ(c) THEN CpuExecuteIRQ(d) ELSE c
    BY DEF Interrupted
  <2> HIDE DEF t, d
  <2> QED BY <1>2, <2>1, IRQSound
<1>4. TakesIRQ(c) => t.cyc = 7
  <2>1. TakesIRQ(c) => t = CpuExecuteIRQ(d)
    BY DEF Interrupted
  <2> HIDE DEF t, d
  <2> QED BY <1>2, <2>1, IRQSound
<1> HIDE DEF t
<1>5. Sound([t EXCEPT !.cyc = 0], R, 0)
  BY <1>3, CyclesSound
<1>6. Sound(u, R, 8)
  BY <1>5, InstructionSound
<1> HIDE DEF u
<1>7. u.cyc \in 0..8
  BY <1>6 DEF Sound
<1>8. k \in 0..15
  <2> DEFINE i == IF TakesIRQ(c) THEN t.cyc ELSE 0
  <2>1. i \in 0..7
    BY <1>4
  <2> HIDE DEF i
  <2>2. u.cyc + i \in 0..15
    BY <1>7, <2>1
  <2> QED BY <2>2 DEF i
<1> HIDE DEF k
<1>9. Sound([u EXCEPT !.cyc = k], R, 15)
  BY <1>6, <1>8, CyclesSound
<1> QED BY <1>1, <1>9

LEMMA EnterSound ==
  ASSUME NEW R \in Ranges, NEW c, Sound(c, R, 15), R = Byte /\ c.nmi => c.sp >= 3
  PROVE  Sound(Enter(c), R, 15)
<1>1. CASE ~TakesNMI(c)
  BY <1>1 DEF Enter
<1>2. CASE TakesNMI(c)
  <2> DEFINE d == [c EXCEPT !.nmi = FALSE]
             e == CpuExecuteNMI(d)
  <2>1. Sound(d, R, 15) /\ d.sp = c.sp
    BY PendingSound DEF Sound
  <2>2. Enter(c) = Flag(e, "I", TRUE)
    BY <1>2 DEF Enter
  <2> HIDE DEF d
  <2>3. Sound(e, R, 7)
    BY <1>2, <2>1, NMISound DEF TakesNMI
  <2> HIDE DEF e
  <2>4. Sound(e, R, 15)
    BY <2>3 DEF Sound
  <2> QED BY <2>2, <2>4, FlagSound, FlagNames
<1> QED BY <1>1, <1>2

LEMMA NowSound ==
  ASSUME NEW R \in Ranges, NEW c, Sound(c, R, 15)
  PROVE  Sound(irq_now(c), R, 15)
<1>1. Sound(set_irq_pending(c), R, 15)
  BY PendingSound DEF set_irq_pending
<1>2. Sound([CpuExecuteIRQ(c) EXCEPT !.irq = FALSE], R, 15)
  <2>1. Sound(CpuExecuteIRQ(c), R, 7)
    BY IRQSound
  <2> DEFINE e == CpuExecuteIRQ(c)
  <2> HIDE DEF e
  <2>2. Sound(e, R, 15)
    BY <2>1 DEF e, Sound
  <2>3. Sound([e EXCEPT !.irq = FALSE], R, 15)
    BY <2>2, PendingSound
  <2> QED BY <2>3 DEF e
<1> QED BY <1>1, <1>2 DEF irq_now

-----------------------------------------------------------------------------
(* Type correctness *)

(* The registers are bytes until an NMI found less than three bytes of     *)
(* stack, and whole numbers after it.                                      *)
CoreInv ==
  /\ Sound(s, Int, 15)
  /\ deep \/ Sound(s, Byte, 15)
  /\ phase \in {"idle", "fetch", "execute"}
  /\ done \in 0..Len(Firmware) /\ requests \in 0..MaxRequests
  /\ deep \in BOOLEAN

LEMMA Widened == ASSUME NEW c, NEW n, Sound(c, Byte, n) PROVE Sound(c, Int, n)
<1>1. Byte \subseteq Int
  BY Integral
<1> QED BY <1>1 DEF Sound

LEMMA BothRanges == Byte \in Ranges /\ Int \in Ranges
  BY DEF Ranges

LEMMA CoreInit == Init => CoreInv
<1> SUFFICES ASSUME Init PROVE CoreInv
  OBVIOUS
<1>1. s \in Cores(s.mem) /\ IsMemory(s.mem)
  BY CpuAssumption DEF Init
<1>2. Sound(s, Byte, 15)
  BY <1>1 DEF Sound, Cores, Flags
<1>3. 0 \in 0..Len(Firmware) /\ 0 \in 0..MaxRequests
  <2>1. Len(Firmware) \in Nat
    BY CpuAssumption
  <2> QED BY <2>1, CpuAssumption
<1> QED BY <1>2, <1>3, Widened DEF Init, CoreInv

(* A core that is sound as s is, before or after an NMI that was too deep. *)
LEMMA SoundAsBefore ==
  ASSUME CoreInv, deep' = deep, \A R \in Ranges : Sound(s, R, 15) => Sound(s', R, 15)
  PROVE  Sound(s, Int, 15)' /\ (deep \/ Sound(s, Byte, 15))'
<1>1. Sound(s', Int, 15)
  BY BothRanges DEF CoreInv
<1>2. deep \/ Sound(s', Byte, 15)
  BY BothRanges DEF CoreInv
<1> QED BY <1>1, <1>2 DEF Sound

LEMMA AskStep ==
  ASSUME CoreInv, NEW core, Ask(core), \A R \in Ranges : Sound(s, R, 15) => Sound(core, R, 15)
  PROVE  CoreInv'
<1>1. Sound(s, Int, 15)' /\ (deep \/ Sound(s, Byte, 15))'
  BY SoundAsBefore DEF Ask
<1>2. requests' \in 0..MaxRequests
  BY CpuAssumption DEF Ask, CoreInv
<1> QED BY <1>1, <1>2 DEF Ask, CoreInv

LEMMA ClearedSound ==
  ASSUME NEW R, NEW c, Sound(c, R, 15)
  PROVE  Sound([c EXCEPT !.cyc = 0], R, 15)
  BY CyclesSound

LEMMA BeginStep == ASSUME CoreInv, Begin PROVE CoreInv'
<1> DEFINE c == [s EXCEPT !.cyc = 0]
<1>1. s' = Enter(c) /\ phase' = "fetch" /\ done' = done /\ requests' = requests
  BY DEF Begin
<1>2. c.nmi = s.nmi /\ c.sp = s.sp
  BY DEF CoreInv, Sound
<1>3. \A R \in Ranges : Sound(s, R, 15) => Sound(c, R, 15)
  BY ClearedSound
<1> HIDE DEF c
<1>4. Sound(s', Int, 15)
  <2>1. Int # Byte
    BY DEF Byte
  <2>2. Sound(c, Int, 15)
    BY <1>3, BothRanges DEF CoreInv
  <2> QED BY <1>1, <2>1, <2>2, EnterSound, BothRanges
<1>5. deep' \in BOOLEAN /\ (deep' \/ Sound(s', Byte, 15))
  <2>1. CASE s.nmi
    <3>1. deep' = (deep \/ s.sp < 3)
      BY <2>1 DEF Begin
    <3>2. CASE deep'
      BY <3>1, <3>2
    <3>3. CASE ~deep'
      <4>1. Sound(s, Byte, 15) /\ ~(s.sp < 3)
        BY <3>1, <3>3 DEF CoreInv
      <4>2. s.sp >= 3
        <5>1. s.sp \in Int
          BY <4>1, BothRanges, Registers
        <5> QED BY <4>1, <5>1
      <4>3. Sound(c, Byte, 15)
        BY <1>3, <4>1, BothRanges
      <4>4. Sound(s', Byte, 15)
        BY <1>1, <1>2, <4>2, <4>3, EnterSound, BothRanges
      <4> QED BY <3>1, <3>3, <4>4 DEF CoreInv
    <3> QED BY <3>2, <3>3
  <2>2. CASE ~s.nmi
    <3>1. deep' = deep /\ ~c.nmi
      BY <1>2, <2>2 DEF Begin
    <3>2. CASE deep
      BY <3>1, <3>2
    <3>3. CASE ~deep
      <4>1. Sound(c, Byte, 15)
        BY <1>3, <3>3, BothRanges DEF CoreInv
      <4>2. Sound(s', Byte, 15)
        BY <1>1, <3>1, <4>1, EnterSound, BothRanges
      <4> QED BY <3>1, <4>2 DEF CoreInv
    <3> QED BY <3>2, <3>3
  <2> QED BY <2>1, <2>2
<1>6. Sound(s, Int, 15)' /\ (deep \/ Sound(s, Byte, 15))'
  BY <1>4, <1>5 DEF Sound
<1> QED BY <1>1, <1>5, <1>6 DEF CoreInv

LEMMA PlaceStep == ASSUME CoreInv, Place PROVE CoreInv'
<1>1. /\ done < Len(Firmware) /\ phase' = "execute" /\ done' = done + 1
      /\ requests' = requests /\ deep' = deep
  BY DEF Place
<1>2. Len(Firmware) \in Nat /\ done \in Nat
  BY CpuAssumption DEF CoreInv
<1>3. Firmware[done + 1] \in SUBSET (Byte \X Byte \X Byte)
  BY <1>1, <1>2, CpuAssumption
<1>4. PICK code \in Firmware[done + 1] :
        s' = CPU_POKE(CPU_POKE(CPU_POKE(s, s.pc, code[1]), s.pc + 1, code[2]), s.pc + 2, code[3])
  BY DEF Place
<1>5. code[1] \in Int /\ code[2] \in Int /\ code[3] \in Int
  BY <1>3, Integral
<1>6. s.pc \in Int /\ s.pc + 1 \in Int /\ s.pc + 2 \in Int
  <2>1. s.pc \in Int
    BY BothRanges, Registers DEF CoreInv
  <2> QED BY <2>1
<1>7. \A R \in Ranges : Sound(s, R, 15) => Sound(s', R, 15)
  <2> SUFFICES ASSUME NEW R \in Ranges, Sound(s, R, 15) PROVE Sound(s', R, 15)
    OBVIOUS
  <2> DEFINE c1 == CPU_POKE(s, s.pc, code[1])
             c2 == CPU_POKE(c1, s.pc + 1, code[2])
  <2>1. Sound(c1, R, 15)
    BY <1>5, <1>6, PokeSound
  <2> HIDE DEF c1
  <2>2. Sound(c2, R, 15)
    BY <1>5, <1>6, <2>1, PokeSound
  <2> HIDE DEF c2
  <2>3. Sound(CPU_POKE(c2, s.pc + 2, code[3]), R, 15)
    BY <1>5, <1>6, <2>2, PokeSound
  <2> QED BY <1>4, <2>3 DEF c1, c2
<1>8. Sound(s, Int, 15)' /\ (deep \/ Sound(s, Byte, 15))'
  BY <1>1, <1>7, SoundAsBefore
<1>9. done' \in 0..Len(Firmware)
  BY <1>1, <1>2
<1> QED BY <1>1, <1>8, <1>9 DEF CoreInv

LEMMA ExecuteStep == ASSUME CoreInv, Execute PROVE CoreInv'
<1>1. /\ s' = Round(s) /\ phase' \in {"fetch", "idle"}
      /\ done' = done /\ requests' = requests /\ deep' = deep
  BY DEF Execute
<1>2. Sound(s, Int, 15)' /\ (deep \/ Sound(s, Byte, 15))'
  BY <1>1, RoundSound, SoundAsBefore
<1> QED BY <1>1, <1>2 DEF CoreInv

LEMMA CoreNext == CoreInv /\ [Next]_vars => CoreInv'
<1> SUFFICES ASSUME CoreInv, [Next]_vars PROVE CoreInv'
  OBVIOUS
<1>1. CASE AskNMI
  <2>1. \A R \in Ranges : Sound(s, R, 15) => Sound(set_nmi_pending(s), R, 15)
    BY PendingSound DEF set_nmi_pending
  <2> QED BY <1>1, <2>1, AskStep DEF AskNMI
<1>2. CASE AskIRQ
  <2>1. \A R \in Ranges : Sound(s, R, 15) => Sound(set_irq_pending(s), R, 15)
    BY PendingSound DEF set_irq_pending
  <2> QED BY <1>2, <2>1, AskStep DEF AskIRQ
<1>3. CASE IRQNow
  <2>1. \A R \in Ranges : Sound(s, R, 15) => Sound(irq_now([s EXCEPT !.cyc = 0]), R, 15)
    BY ClearedSound, NowSound
  <2> QED BY <1>3, <2>1, AskStep DEF IRQNow
<1>4. CASE Begin
  BY <1>4, BeginStep
<1>5. CASE Place
  BY <1>5, PlaceStep
<1>6. CASE Execute
  BY <1>6, ExecuteStep
<1>7. CASE UNCHANGED vars
  BY <1>7 DEF vars, CoreInv, Sound
<1> QED BY <1>1, <1>2, <1>3, <1>4, <1>5, <1>6, <1>7 DEF Next

LEMMA AlwaysCore == Spec => []CoreInv
  BY CoreInit, CoreNext, PTL DEF Spec

(* The registers stay bytes, the place a word and the memory bytes, whatever *)
(* the firmware executes and however often it is interrupted, until an NMI   *)
(* finds less than three bytes of stack.  (w65c02macro.h, w65c02op.cpp,      *)
(* cpu.cpp:25-83)                                                            *)
THEOREM TypeCorrect == Spec => []TypeOK
<1>1. CoreInv => TypeOK
  BY DEF CoreInv, TypeOK, Sound, Cores, Flags
<1> QED BY <1>1, AlwaysCore, PTL

-----------------------------------------------------------------------------
(* Decimal arithmetic *)

(* One digit of the decimal ADC and of the decimal SBC, with its carry or  *)
(* borrow. *)
LEMMA DigitOfSum ==
  ASSUME NEW l \in 0..19
  PROVE  /\ l > 9 => (l + 6) % 16 = l - 10 /\ (l + 6) % 16 \in 0..9
         /\ ~(l > 9) => l % 16 = l /\ l % 16 \in 0..9
<1>1. CASE l > 9
  <2>1. l + 6 = 16 + (l - 10) /\ l - 10 \in 0..9
    BY <1>1
  <2> QED BY <1>1, <2>1
<1>2. CASE ~(l > 9)
  BY <1>2
<1> QED BY <1>1, <1>2

LEMMA HighDigitOfSum ==
  ASSUME NEW h \in 0..19
  PROVE  LET hi  == 16 * h
             hi6 == IF hi > \h90 THEN hi + \h60 ELSE hi
         IN  /\ h > 9 => (hi6 \div 16) % 16 = h - 10 /\ hi6 > 255
             /\ ~(h > 9) => (hi6 \div 16) % 16 = h /\ ~(hi6 > 255)
<1>1. CASE h > 9
  <2>1. 16 * h > \h90
    BY <1>1
  <2>2. (16 * h + \h60) \div 16 = h + 6
    OBVIOUS
  <2>3. (h + 6) % 16 = h - 10
    BY <1>1
  <2>4. 16 * h + \h60 > 255
    BY <1>1
  <2> QED BY <1>1, <2>1, <2>2, <2>3, <2>4
<1>2. CASE ~(h > 9)
  <2>1. ~(16 * h > \h90)
    BY <1>2
  <2>2. (16 * h) \div 16 = h /\ h % 16 = h
    BY <1>2
  <2> QED BY <1>2, <2>1, <2>2
<1> QED BY <1>1, <1>2

LEMMA DigitOfDifference ==
  ASSUME NEW l \in -10..9
  PROVE  LET l6 == IF (l \div 16) % 16 # 0 THEN l - 6 ELSE l
         IN  /\ l < 0 => l6 % 16 = l + 10 /\ Bit(l6, 7)
             /\ ~(l < 0) => l6 % 16 = l /\ ~Bit(l6, 7)
<1>1. CASE l < 0
  <2>1. (l \div 16) % 16 = 15
    <3>1. l \div 16 = -1
      BY <1>1
    <3> QED BY <3>1
  <2>2. (l - 6) % 16 = l + 10
    BY <1>1
  <2>3. ((l - 6) \div 128) % 2 = 1
    <3>1. (l - 6) \div 128 = -1
      BY <1>1
    <3> QED BY <3>1
  <2>4. 2^7 = 128
    OBVIOUS
  <2> QED BY <1>1, <2>1, <2>2, <2>3, <2>4 DEF Bit
<1>2. CASE ~(l < 0)
  <2>1. (l \div 16) % 16 = 0 /\ l % 16 = l /\ (l \div 128) % 2 = 0
    BY <1>2
  <2>2. 2^7 = 128
    OBVIOUS
  <2> QED BY <1>2, <2>1, <2>2 DEF Bit
<1> QED BY <1>1, <1>2

LEMMA HighDigitOfDifference ==
  ASSUME NEW h \in -10..9
  PROVE  LET hi  == 16 * h
             hi6 == IF (hi \div 256) % 16 # 0 THEN hi - \h60 ELSE hi
         IN  /\ h < 0 => (hi6 \div 16) % 16 = h + 10
             /\ ~(h < 0) => (hi6 \div 16) % 16 = h
<1>1. CASE h < 0
  <2>1. ((16 * h) \div 256) % 16 # 0
    <3>1. (16 * h) \div 256 = -1
      BY <1>1
    <3> QED BY <3>1
  <2>2. (16 * h - \h60) \div 16 = h - 6
    OBVIOUS
  <2>3. (h - 6) % 16 = h + 10
    BY <1>1
  <2> QED BY <1>1, <2>1, <2>2, <2>3
<1>2. CASE ~(h < 0)
  <2>1. ((16 * h) \div 256) % 16 = 0
    BY <1>2
  <2>2. (16 * h) \div 16 = h /\ h % 16 = h
    BY <1>2
  <2> QED BY <1>2, <2>1, <2>2
<1> QED BY <1>1, <1>2

(* The accumulator and the flags after an addition or a subtraction. *)
LEMMA AfterLoad ==
  ASSUME NEW R, NEW n, NEW c, Sound(c, R, n), NEW r, NEW p, NEW q
  PROVE  LET d == Flag(Flag(Load(c, "a", r), "C", p), "V", q)
         IN  d.a = r /\ ("C" \in d.ps <=> p) /\ ("Z" \in d.ps <=> r = 0)
<1> DEFINE c1 == [c EXCEPT !["a"] = r]
           c2 == Flag(c1, "Z", r = 0)
           c3 == Flag(c2, "N", Bit(r, 7))
           c4 == Flag(c3, "C", p)
           d  == Flag(c4, "V", q)
<1> DEFINE Shape(k) == k.a = r /\ DOMAIN k = {"a", "x", "y", "sp", "pc", "ps", "mem", "irq", "nmi", "cyc"}
<1>1. Shape(c1)
  BY DEF Sound
<1>2. ASSUME NEW k, Shape(k), NEW f, NEW on
      PROVE  /\ Shape(Flag(k, f, on)) /\ (f \in Flag(k, f, on).ps <=> on)
             /\ \A g : g # f => (g \in Flag(k, f, on).ps <=> g \in k.ps)
  BY <1>2 DEF Flag
<1> HIDE DEF Shape, c1
<1>3. Shape(c2) /\ ("Z" \in c2.ps <=> r = 0)
  BY <1>1, <1>2
<1> HIDE DEF c2
<1>4. Shape(c3) /\ ("Z" \in c3.ps <=> r = 0)
  BY <1>2, <1>3
<1> HIDE DEF c3
<1>5. Shape(c4) /\ ("Z" \in c4.ps <=> r = 0) /\ ("C" \in c4.ps <=> p)
  BY <1>2, <1>4
<1> HIDE DEF c4
<1>6. Shape(d) /\ ("Z" \in d.ps <=> r = 0) /\ ("C" \in d.ps <=> p)
  BY <1>2, <1>5
<1>7. d = Flag(Flag(Load(c, "a", r), "C", p), "V", q)
  BY DEF c1, c2, c3, c4, Load, SET_NZ
<1> QED BY <1>6, <1>7 DEF Shape

(* The digits of a decimal number. *)
LEMMA Digits ==
  ASSUME NEW b, IsDecimal(b)
  PROVE  /\ b % 16 \in 0..9 /\ b \div 16 \in 0..9
         /\ Decimal(b) = 10 * (b \div 16) + (b % 16)
<1>1. b \in Int /\ 0 <= b /\ b % 16 < 10 /\ b \div 16 < 10
  BY DEF IsDecimal, Byte
<1>2. b % 16 \in 0..9
  BY <1>1
<1>3. b \div 16 \in 0..9
  BY <1>1
<1>4. Decimal(b) = 10 * (b \div 16) + (b % 16)
  BY DEF Decimal
<1> QED BY <1>2, <1>3, <1>4

LEMMA OfDigits ==
  ASSUME NEW l \in 0..9, NEW h \in 0..9
  PROVE  IsDecimal(l + 16 * h) /\ Decimal(l + 16 * h) = 10 * h + l
<1>1. (l + 16 * h) % 16 = l /\ (l + 16 * h) \div 16 = h /\ l + 16 * h \in 0..255
  OBVIOUS
<1> QED BY <1>1 DEF IsDecimal, Decimal, Byte

(* Two digits of a number below 200, from the digits' sums. *)
LEMMA SumOfDigits ==
  ASSUME NEW l \in 0..19, NEW h \in 0..19, NEW l1 \in 0..9, NEW h1 \in 0..9, NEW h0 \in 0..18,
         l > 9 => l1 = l - 10 /\ h = h0 + 1,
         ~(l > 9) => l1 = l /\ h = h0,
         h > 9 => h1 = h - 10, ~(h > 9) => h1 = h
  PROVE  /\ 10 * h1 + l1 = (10 * h0 + l) % 100
         /\ h > 9 <=> 10 * h0 + l > 99
<1>1. 10 * h0 + l = 10 * h + l1
  OBVIOUS
<1>2. CASE h > 9
  BY <1>1, <1>2
<1>3. CASE ~(h > 9)
  BY <1>1, <1>3
<1> QED BY <1>2, <1>3

LEMMA DecimalAdds ==
  ASSUME NEW R, NEW n, NEW c, Sound(c, R, n), "D" \in c.ps, IsDecimal(c.a), NEW v, IsDecimal(v)
  PROVE  LET d      == ADC(c, v)
             result == Decimal(c.a) + Decimal(v) + Carry(c)
         IN  /\ IsDecimal(d.a) /\ Decimal(d.a) = result % 100
             /\ ("C" \in d.ps <=> result > 99) /\ ("Z" \in d.ps <=> d.a = 0)
<1> DEFINE d      == ADC(c, v)
           result == Decimal(c.a) + Decimal(v) + Carry(c)
           l   == (c.a % 16) + (v % 16) + Carry(c)
           h0  == (c.a \div 16) + (v \div 16)
           h   == h0 + (IF l > 9 THEN 1 ELSE 0)
           hi  == 16 * h0 + (IF l > 9 THEN 16 ELSE 0)
           l6  == IF l > 9 THEN l + 6 ELSE l
           hi6 == IF hi > \h90 THEN hi + \h60 ELSE hi
           l1  == l6 % 16
           h1  == (hi6 \div 16) % 16
           q   == Bit(c.a, 7) = Bit(v, 7) /\ Bit(c.a, 7) # Bit(hi, 7)
<1>1. d = Flag(Flag(Load(c, "a", l1 + 16 * h1), "C", hi6 > 255), "V", q)
  BY DEF ADC, DecimalSum
<1>2. /\ d.a = l1 + 16 * h1 /\ ("C" \in d.ps <=> hi6 > 255)
      /\ ("Z" \in d.ps <=> l1 + 16 * h1 = 0)
  <2> DEFINE r == l1 + 16 * h1  p == hi6 > 255
  <2> HIDE DEF r, p, q, d
  <2>1. d = Flag(Flag(Load(c, "a", r), "C", p), "V", q)
    BY <1>1 DEF r, p
  <2>2. d.a = r /\ ("C" \in d.ps <=> p) /\ ("Z" \in d.ps <=> r = 0)
    BY <2>1, AfterLoad
  <2> QED BY <2>2 DEF r, p
<1>3. l \in 0..19 /\ h0 \in 0..18 /\ h \in 0..19 /\ result = 10 * h0 + l /\ hi = 16 * h
  <2> DEFINE al == c.a % 16  ah == c.a \div 16  vl == v % 16  vh == v \div 16  k == Carry(c)
  <2>1. al \in 0..9 /\ ah \in 0..9 /\ vl \in 0..9 /\ vh \in 0..9 /\ k \in 0..1
    <3>1. c.a % 16 \in 0..9 /\ c.a \div 16 \in 0..9
      BY Digits
    <3>2. v % 16 \in 0..9 /\ v \div 16 \in 0..9
      BY Digits
    <3> QED BY <3>1, <3>2, CarryType
  <2>2. Decimal(c.a) = 10 * ah + al /\ Decimal(v) = 10 * vh + vl
    BY DEF Decimal
  <2> HIDE DEF al, ah, vl, vh, k
  <2>3. al + vl + k \in 0..19 /\ ah + vh \in 0..18
    BY <2>1
  <2>4. l = al + vl + k /\ h0 = ah + vh
    BY DEF al, ah, vl, vh, k
  <2>5. Decimal(c.a) + Decimal(v) + k = 10 * h0 + l
    BY <2>1, <2>2, <2>4
  <2>6. l \in 0..19 /\ h0 \in 0..18
    BY <2>3, <2>4
  <2> HIDE DEF l, h0
  <2>7. h \in 0..19 /\ hi = 16 * h
    BY <2>6
  <2> QED BY <2>5, <2>6, <2>7 DEF k
<1> HIDE DEF d, result, l, h0, h, hi
<1>4. /\ l > 9 => l1 = l - 10 /\ l1 \in 0..9
      /\ ~(l > 9) => l1 = l /\ l1 \in 0..9
  BY <1>3, DigitOfSum
<1>5. /\ h > 9 => h1 = h - 10 /\ hi6 > 255
      /\ ~(h > 9) => h1 = h /\ ~(hi6 > 255)
  BY <1>3, HighDigitOfSum
<1> HIDE DEF l1, h1, hi6
<1>6. l1 \in 0..9 /\ h1 \in 0..9
  BY <1>3, <1>4, <1>5
<1>7. (l > 9 => h = h0 + 1) /\ (~(l > 9) => h = h0)
  BY <1>3 DEF h
<1>8. 10 * h1 + l1 = result % 100 /\ (h > 9 <=> result > 99)
  BY <1>3, <1>4, <1>5, <1>6, <1>7, SumOfDigits
<1>9. IsDecimal(l1 + 16 * h1) /\ Decimal(l1 + 16 * h1) = 10 * h1 + l1
  BY <1>6, OfDigits
<1> QED BY <1>2, <1>5, <1>8, <1>9 DEF d, result

LEMMA DifferenceOfDigits ==
  ASSUME NEW l \in -10..9, NEW h \in -10..9, NEW l1 \in 0..9, NEW h1 \in 0..9, NEW h0 \in -9..9,
         l < 0 => l1 = l + 10 /\ h = h0 - 1,
         ~(l < 0) => l1 = l /\ h = h0,
         h < 0 => h1 = h + 10, ~(h < 0) => h1 = h
  PROVE  /\ 10 * h1 + l1 = (10 * h0 + l) % 100
         /\ 16 * h0 + l >= 0 <=> 10 * h0 + l >= 0
<1>1. 10 * h0 + l = 10 * h + l1
  OBVIOUS
<1>2. 10 * h1 + l1 = (10 * h0 + l) % 100
  <2>1. CASE h < 0
    BY <1>1, <2>1
  <2>2. CASE ~(h < 0)
    BY <1>1, <2>2
  <2> QED BY <2>1, <2>2
<1>3. 16 * h0 + l >= 0 <=> 10 * h0 + l >= 0
  <2>1. CASE h0 >= 1
    BY <2>1
  <2>2. CASE h0 = 0
    BY <2>2
  <2>3. CASE h0 <= -1
    BY <2>3
  <2> QED BY <2>1, <2>2, <2>3
<1> QED BY <1>2, <1>3

LEMMA DecimalSubtracts ==
  ASSUME NEW R, NEW n, NEW c, Sound(c, R, n), "D" \in c.ps, IsDecimal(c.a), NEW v, IsDecimal(v)
  PROVE  LET d      == SBC(c, v)
             result == Decimal(c.a) - Decimal(v) - (1 - Carry(c))
         IN  /\ IsDecimal(d.a) /\ Decimal(d.a) = result % 100
             /\ ("C" \in d.ps <=> result >= 0) /\ ("Z" \in d.ps <=> d.a = 0)
<1> DEFINE d      == SBC(c, v)
           result == Decimal(c.a) - Decimal(v) - (1 - Carry(c))
           bin == Difference(c, v)
           l   == (c.a % 16) - (v % 16) - (1 - Carry(c))
           h0  == (c.a \div 16) - (v \div 16)
           l6  == IF (l \div 16) % 16 # 0 THEN l - 6 ELSE l
           h   == h0 - (IF l < 0 THEN 1 ELSE 0)
           hi  == 16 * h0 - (IF Bit(l6, 7) THEN 16 ELSE 0)
           hi6 == IF (hi \div 256) % 16 # 0 THEN hi - \h60 ELSE hi
           l1  == l6 % 16
           h1  == (hi6 \div 16) % 16
           q   == Bit(c.a, 7) # Bit(v, 7) /\ Bit(c.a, 7) # Bit(bin, 7)
<1>1. d = Flag(Flag(Load(c, "a", l1 + 16 * h1), "C", bin >= 0), "V", q)
  BY DEF SBC, DecimalDifference
<1>2. /\ d.a = l1 + 16 * h1 /\ ("C" \in d.ps <=> bin >= 0)
      /\ ("Z" \in d.ps <=> l1 + 16 * h1 = 0)
  <2> DEFINE r == l1 + 16 * h1  p == bin >= 0
  <2> HIDE DEF r, p, q, d
  <2>1. d = Flag(Flag(Load(c, "a", r), "C", p), "V", q)
    BY <1>1 DEF r, p
  <2>2. d.a = r /\ ("C" \in d.ps <=> p) /\ ("Z" \in d.ps <=> r = 0)
    BY <2>1, AfterLoad
  <2> QED BY <2>2 DEF r, p
<1>3. /\ l \in -10..9 /\ h0 \in -9..9 /\ h \in -10..9
      /\ result = 10 * h0 + l /\ bin = 16 * h0 + l
  <2> DEFINE al == c.a % 16  ah == c.a \div 16  vl == v % 16  vh == v \div 16  k == Carry(c)
  <2>1. al \in 0..9 /\ ah \in 0..9 /\ vl \in 0..9 /\ vh \in 0..9 /\ k \in 0..1
    <3>1. c.a % 16 \in 0..9 /\ c.a \div 16 \in 0..9
      BY Digits
    <3>2. v % 16 \in 0..9 /\ v \div 16 \in 0..9
      BY Digits
    <3> QED BY <3>1, <3>2, CarryType
  <2>2. Decimal(c.a) = 10 * ah + al /\ Decimal(v) = 10 * vh + vl
    BY DEF Decimal
  <2>3. c.a = 16 * ah + al /\ v = 16 * vh + vl
    BY DEF IsDecimal, Byte
  <2>4. l = al - vl - (1 - k) /\ h0 = ah - vh /\ bin = c.a - v - (1 - k)
    BY DEF al, ah, vl, vh, k, Difference
  <2> HIDE DEF al, ah, vl, vh, k
  <2>5. al - vl - (1 - k) \in -10..9 /\ ah - vh \in -9..9
    BY <2>1
  <2>6. l \in -10..9 /\ h0 \in -9..9
    BY <2>4, <2>5
  <2>7. Decimal(c.a) - Decimal(v) - (1 - k) = 10 * h0 + l
    BY <2>1, <2>2, <2>4
  <2>8. bin = 16 * h0 + l
    BY <2>1, <2>3, <2>4
  <2> HIDE DEF l, h0, bin
  <2>9. h \in -10..9
    BY <2>6
  <2> QED BY <2>6, <2>7, <2>8, <2>9 DEF k
<1> HIDE DEF d, result, l, h0, bin
<1>4. /\ l < 0 => l1 = l + 10 /\ Bit(l6, 7)
      /\ ~(l < 0) => l1 = l /\ ~Bit(l6, 7)
  BY <1>3, DigitOfDifference
<1>5. hi = 16 * h
  BY <1>3, <1>4
<1> HIDE DEF l6, h, hi
<1>6. /\ h < 0 => h1 = h + 10
      /\ ~(h < 0) => h1 = h
  BY <1>3, <1>5, HighDigitOfDifference
<1> HIDE DEF l1, h1, hi6
<1>7. l1 \in 0..9 /\ h1 \in 0..9
  BY <1>3, <1>4, <1>6
<1>8. (l < 0 => h = h0 - 1) /\ (~(l < 0) => h = h0)
  BY <1>3 DEF h
<1>9. 10 * h1 + l1 = result % 100 /\ (bin >= 0 <=> result >= 0)
  BY <1>3, <1>4, <1>6, <1>7, <1>8, DifferenceOfDigits
<1>10. IsDecimal(l1 + 16 * h1) /\ Decimal(l1 + 16 * h1) = 10 * h1 + l1
  BY <1>7, OfDigits
<1> QED BY <1>2, <1>9, <1>10 DEF d, result

(* ADC and SBC of the byte after them, at their opcodes. *)
LEMMA DecimalOpcodes ==
  /\ \h69 \notin Illegal /\ \hE9 \notin Illegal
  /\ Opcode[\h69] = <<"ADC", "imm", 2>> /\ Opcode[\hE9] = <<"SBC", "imm", 2>>
<1>1. \A m \in 2..8 : \h69 \notin Taking[m] /\ \hE9 \notin Taking[m]
  BY IllegalSets DEF Nops1, Jams
<1>2. \h69 \notin Illegal /\ \hE9 \notin Illegal
  BY <1>1 DEF Illegal
<1>3. \h69 \in Byte /\ \hE9 \in Byte /\ \h69 \div 16 = 6 /\ \hE9 \div 16 = 14
  BY DEF Byte
<1>4. Opcode[\h69] = <<"ADC", "imm", 2>>
  <2>1. Opcode[\h69] = Row6(\h69)
    BY <1>2, <1>3 DEF Opcode
  <2>2. Row6(\h69) = <<"ADC", "imm", 2>>
    BY DEF Row6
  <2> QED BY <2>1, <2>2
<1>5. Opcode[\hE9] = <<"SBC", "imm", 2>>
  <2>1. Opcode[\hE9] = RowE(\hE9)
    BY <1>2, <1>3 DEF Opcode
  <2>2. RowE(\hE9) = <<"SBC", "imm", 2>>
    BY DEF RowE
  <2> QED BY <2>1, <2>2
<1> QED BY <1>2, <1>4, <1>5

LEMMA SameAddress ==
  ASSUME NEW m, NEW addr \in Int
  PROVE  At(m, addr % 65536) = At(m, addr)
<1>1. (addr % 65536) % 65536 = addr % 65536
  OBVIOUS
<1> QED BY <1>1 DEF At

LEMMA ImmediateOperation ==
  ASSUME NEW R \in Ranges, NEW n, NEW c, Sound(c, R, n), CPU_PEEK(c, c.pc) \in {\h69, \hE9}
  PROVE  \E u : /\ Sound(u, R, 8) /\ u.a = c.a /\ u.ps = c.ps
                /\ CpuExecuteOP(c) = IF CPU_PEEK(c, c.pc) = \h69
                                     THEN ADC(u, CPU_PEEK(c, c.pc + 1))
                                     ELSE SBC(u, CPU_PEEK(c, c.pc + 1))
<1> DEFINE code == CPU_PEEK(c, c.pc)
           v    == CPU_PEEK(c, c.pc + 1)
           t    == Jump(c, c.pc + 1)
           w    == Jump(t, t.pc + Size("imm"))
           k    == 2 + Extra("imm", t)
           u    == [w EXCEPT !.cyc = k]
           op   == IF code = \h69 THEN "ADC" ELSE "SBC"
<1>1. code \notin Illegal /\ Opcode[code] = <<op, "imm", 2>>
  BY DecimalOpcodes
<1>2. CpuExecuteOP(c) = Run(op, u, Operand("imm", t))
  <2>1. Opcode[code][1] = op /\ Opcode[code][2] = "imm" /\ Opcode[code][3] = 2
    BY <1>1
  <2> HIDE DEF op
  <2> QED BY <1>1, <2>1 DEF CpuExecuteOP
<1>3. c.pc \in Int /\ c.pc + 1 \in Int
  <2>1. c.pc \in Int
    BY Registers
  <2> QED BY <2>1
<1>4. Sound(t, R, n) /\ t.pc = (c.pc + 1) % 65536 /\ t.mem = c.mem /\ t.a = c.a /\ t.ps = c.ps
  BY <1>3, JumpSound DEF Jump, Sound
<1>5. Operand("imm", t) = t.pc
  BY DEF Operand
<1>6. t.pc + Size("imm") \in Int /\ k = 2
  <2>1. Size("imm") = 1 /\ Extra("imm", t) = 0
    BY DEF Size, Extra
  <2>2. t.pc \in Int
    BY <1>4, Registers
  <2> QED BY <2>1, <2>2
<1> HIDE DEF t
<1>7. Sound(w, R, n) /\ w.mem = t.mem /\ w.a = t.a /\ w.ps = t.ps
  BY <1>4, <1>6, JumpSound DEF Jump, Sound
<1> HIDE DEF w, k
<1>8. Sound(u, R, 8) /\ u.mem = w.mem /\ u.a = w.a /\ u.ps = w.ps
  <2>1. k \in 0..8
    BY <1>6
  <2>2. Sound(u, R, 8)
    BY <1>7, <2>1, CyclesSound
  <2> QED BY <1>7, <2>2 DEF Sound
<1> HIDE DEF u
<1>9. CPU_PEEK(u, t.pc) = v
  BY <1>3, <1>4, <1>7, <1>8, SameAddress DEF CPU_PEEK
<1>10. Run("ADC", u, t.pc) = ADC(u, v) /\ Run("SBC", u, t.pc) = SBC(u, v)
  <2>1. Run("ADC", u, t.pc) = ADC(u, CPU_PEEK(u, t.pc))
    BY DEF Run, Compared, Stepped, Loaded, Stored, Moved, Cleared, Set, Branches
  <2>2. Run("SBC", u, t.pc) = SBC(u, CPU_PEEK(u, t.pc))
    BY DEF Run, Compared, Stepped, Loaded, Stored, Moved, Cleared, Set, Branches
  <2> QED BY <1>9, <2>1, <2>2
<1>11. CpuExecuteOP(c) = IF code = \h69 THEN ADC(u, v) ELSE SBC(u, v)
  <2>1. CASE code = \h69
    <3>1. op = "ADC"
      BY <2>1
    <3> HIDE DEF op, code, v
    <3> QED BY <1>2, <1>5, <1>10, <2>1, <3>1
  <2>2. CASE code # \h69
    <3>1. op = "SBC"
      BY <2>2
    <3> HIDE DEF op, code, v
    <3> QED BY <1>2, <1>5, <1>10, <2>2, <3>1
  <2> QED BY <2>1, <2>2
<1> QED BY <1>4, <1>7, <1>8, <1>11

LEMMA RoundWithoutIRQ ==
  ASSUME NEW R \in Ranges, NEW n, NEW c, Sound(c, R, n), ~TakesIRQ(c)
  PROVE  LET d == CpuExecuteOP([c EXCEPT !.cyc = 0])
         IN  Round(c).a = d.a /\ Round(c).ps = d.ps
<1> DEFINE e == [c EXCEPT !.cyc = 0]
           d == CpuExecuteOP(e)
           k == d.cyc + (IF TakesIRQ(c) THEN c.cyc ELSE 0)
<1>1. Interrupted(c) = c
  BY DEF Interrupted
<1>2. Round(c) = [d EXCEPT !.cyc = k]
  BY <1>1 DEF Round
<1>3. Sound(d, R, 8)
  <2>1. Sound(e, R, 0)
    BY CyclesSound
  <2> HIDE DEF e
  <2> QED BY <2>1, InstructionSound
<1> HIDE DEF d, k
<1>4. [d EXCEPT !.cyc = k].a = d.a /\ [d EXCEPT !.cyc = k].ps = d.ps
  BY <1>3 DEF Sound
<1> QED BY <1>2, <1>4 DEF d

LEMMA DecimalNext == CoreInv /\ [Next]_vars => DecimalStep
<1> DEFINE code   == CPU_PEEK(s, s.pc)
           v      == CPU_PEEK(s, s.pc + 1)
           result == IF code = \h69 THEN Decimal(s.a) + Decimal(v) + Carry(s)
                     ELSE Decimal(s.a) - Decimal(v) - (1 - Carry(s))
<1> SUFFICES ASSUME CoreInv, Execute, ~TakesIRQ(s), code \in {\h69, \hE9}, "D" \in s.ps,
                    IsDecimal(s.a), IsDecimal(v)
             PROVE  /\ IsDecimal(s.a') /\ Decimal(s.a') = result % 100
                    /\ ("C" \in s.ps') = (IF code = \h69 THEN result > 99 ELSE result >= 0)
                    /\ ("Z" \in s.ps') = (s.a' = 0)
  BY DEF DecimalStep
<1> DEFINE e == [s EXCEPT !.cyc = 0]
           d == CpuExecuteOP(e)
<1>1. Sound(s, Int, 15)
  BY DEF CoreInv
<1>2. s.a' = d.a /\ s.ps' = d.ps
  <2>1. s' = Round(s)
    BY DEF Execute
  <2> HIDE DEF e
  <2>2. Round(s).a = d.a /\ Round(s).ps = d.ps
    BY <1>1, BothRanges, RoundWithoutIRQ DEF e
  <2> HIDE DEF d
  <2> QED BY <2>1, <2>2
<1>3. Sound(e, Int, 0) /\ e.pc = s.pc /\ e.mem = s.mem /\ e.a = s.a /\ e.ps = s.ps
  BY <1>1, CyclesSound DEF Sound
<1>4. CPU_PEEK(e, e.pc) = code /\ CPU_PEEK(e, e.pc + 1) = v
  BY <1>3 DEF CPU_PEEK
<1> HIDE DEF e, code, v
<1>5. PICK u : /\ Sound(u, Int, 8) /\ u.a = e.a /\ u.ps = e.ps
               /\ d = IF code = \h69 THEN ADC(u, v) ELSE SBC(u, v)
  BY <1>3, <1>4, BothRanges, ImmediateOperation
<1>6. u.a = s.a /\ u.ps = s.ps /\ Carry(u) = Carry(s)
  BY <1>3, <1>5 DEF Carry
<1> HIDE DEF d
<1>7. CASE code = \h69
  <2>1. d = ADC(u, v) /\ result = Decimal(u.a) + Decimal(v) + Carry(u)
    BY <1>5, <1>6, <1>7
  <2>2. /\ IsDecimal(d.a) /\ Decimal(d.a) = result % 100
        /\ ("C" \in d.ps <=> result > 99) /\ ("Z" \in d.ps <=> d.a = 0)
    BY <1>5, <1>6, <2>1, DecimalAdds
  <2> HIDE DEF result
  <2> QED BY <1>2, <1>7, <2>2
<1>8. CASE code # \h69
  <2>1. d = SBC(u, v) /\ result = Decimal(u.a) - Decimal(v) - (1 - Carry(u))
    BY <1>5, <1>6, <1>8
  <2>2. /\ IsDecimal(d.a) /\ Decimal(d.a) = result % 100
        /\ ("C" \in d.ps <=> result >= 0) /\ ("Z" \in d.ps <=> d.a = 0)
    BY <1>5, <1>6, <2>1, DecimalSubtracts
  <2> HIDE DEF result
  <2> QED BY <1>2, <1>8, <2>2
<1> QED BY <1>7, <1>8

(* In decimal mode ADC and SBC of decimal numbers give the decimal sum and *)
(* difference with their carry and Z, for every firmware and memory.       *)
(* (xADC, xSBC, w65c02macro.h:108-143, 743-775)                            *)
THEOREM DecimalArithmetic == Spec => DecimalIsDecimal
<1>1. CoreInv /\ [Next]_vars => [DecimalStep]_vars
  BY DecimalNext
<1> QED BY <1>1, AlwaysCore, PTL DEF Spec, DecimalIsDecimal

------------------------------------------------------------------------------
(* The two cores: bytes, registers and flags *)

(* What the other core is when c is this one and k cycles went before.      *)
Twin(c, k) ==
  [A |-> c.a, X |-> c.x, Y |-> c.y, SP |-> c.sp, PC |-> c.pc, P |-> c.ps \ {"B"}, mem |-> c.mem,
   irqPending |-> c.irq, nmiPending |-> c.nmi, clk |-> 12 * (c.cyc + k)]

LEMMA SameMemory ==
  ASSUME NEW mem, NEW addr
  PROVE  /\ Emux!At(mem, addr) = At(mem, addr)
         /\ Emux!WordAt(mem, addr) = WordAt(mem, addr)
         /\ \A b : Emux!Written(mem, addr, b) = Written(mem, addr, b)
  BY DEF Emux!At, At, Emux!WordAt, WordAt, Emux!Written, Written

LEMMA SameBits ==
  ASSUME NEW b
  PROVE  /\ \A n : Emux!Bit(b, n) = Bit(b, n)
         /\ \A v : /\ Emux!And(b, v) = And(b, v) /\ Emux!Or(b, v) = Or(b, v)
                   /\ Emux!Xor(b, v) = Xor(b, v)
         /\ Emux!Signed(b) = Signed(b) /\ Emux!HiByte(b) = HiByte(b)
         /\ Emux!FlagsOf(b) = FlagsOf(b)
  BY DEF Emux!And, And, Emux!Or, Or, Emux!Xor, Xor, Emux!ByteOf, ByteOf, Emux!Value, Value,
         Emux!Bit, Bit, Emux!Signed, Signed, Emux!HiByte, HiByte, Emux!FlagsOf, FlagsOf,
         Emux!FlagBit, FlagBit

LEMMA SameStatus == ASSUME NEW flags PROVE Emux!StatusOf(flags) = StatusOf(flags)
  BY DEF Emux!StatusOf, StatusOf, Emux!ByteOf, ByteOf, Emux!Value, Value, Emux!FlagBit, FlagBit

LEMMA SameOpcodes == Emux!Illegal = Illegal /\ Emux!Byte = Byte
<1>1. Emux!Taking = Taking
  BY DEF Emux!Taking, Taking, Emux!Nops1, Nops1, Emux!Jams, Jams
<1> QED BY <1>1 DEF Emux!Illegal, Illegal, Emux!Byte, Byte

LEMMA TwinReads ==
  ASSUME NEW c, NEW k, NEW addr
  PROVE  /\ Emux!read(Twin(c, k), addr) = CPU_PEEK(c, addr)
         /\ Emux!readAddress(Twin(c, k), addr) = CPU_PEEKW(c, addr)
  BY SameMemory DEF Emux!read, Emux!readAddress, CPU_PEEK, CPU_PEEKW, Twin

LEMMA TwinRegisters ==
  ASSUME NEW c, NEW k
  PROVE  /\ Twin(c, k).A = c.a /\ Twin(c, k).X = c.x /\ Twin(c, k).Y = c.y
         /\ Twin(c, k).SP = c.sp /\ Twin(c, k).PC = c.pc /\ Twin(c, k).P = c.ps \ {"B"}
         /\ Twin(c, k).irqPending = c.irq /\ Twin(c, k).nmiPending = c.nmi
         /\ Emux!Carry(Twin(c, k)) = Carry(c)
  BY DEF Twin, Emux!Carry, Carry

Fields == {"a", "x", "y", "sp", "pc", "ps", "mem", "irq", "nmi", "cyc"}
LEMMA CoreFields == ASSUME NEW c, NEW R, NEW n, Sound(c, R, n) PROVE DOMAIN c = Fields
  BY DEF Sound, Fields

(* A core with another register is the twin with another register.  (An    *)
(* operator for each, because the provers do not see through EXCEPT.)      *)
WithA(c, v)      == [c EXCEPT !.a = v]
WithPC(c, v)     == [c EXCEPT !.pc = v]
WithMem(c, v)    == [c EXCEPT !.mem = v]
WithCyc(c, v)    == [c EXCEPT !.cyc = v]
WithSP(c, v)     == [c EXCEPT !.sp = v]
WithIRQ(c, v)    == [c EXCEPT !.irq = v]
WithNMI(c, v)    == [c EXCEPT !.nmi = v]
Flagged(c, P)    == [c EXCEPT !.ps = P]
PuttingA(e, v)   == [e EXCEPT !.A = v]
PuttingPC(e, v)  == [e EXCEPT !.PC = v]
PuttingMem(e, v) == [e EXCEPT !.mem = v]
PuttingClk(e, v) == [e EXCEPT !.clk = v]
PuttingSP(e, v)  == [e EXCEPT !.SP = v]
PuttingIRQ(e, v) == [e EXCEPT !.irqPending = v]
PuttingNMI(e, v) == [e EXCEPT !.nmiPending = v]
Reflagged(e, P)  == [e EXCEPT !.P = P]
Shown(P)         == P \ {"B"}

LEMMA TwinUpdates ==
  ASSUME NEW c, DOMAIN c = Fields, NEW k, NEW v
  PROVE  /\ Twin(WithA(c, v), k) = PuttingA(Twin(c, k), v)
         /\ Twin(WithPC(c, v), k) = PuttingPC(Twin(c, k), v)
         /\ Twin(WithMem(c, v), k) = PuttingMem(Twin(c, k), v)
         /\ Twin(WithCyc(c, v), k) = PuttingClk(Twin(c, k), 12 * (v + k))
         /\ Twin(WithSP(c, v), k) = PuttingSP(Twin(c, k), v)
         /\ Twin(WithIRQ(c, v), k) = PuttingIRQ(Twin(c, k), v)
         /\ Twin(WithNMI(c, v), k) = PuttingNMI(Twin(c, k), v)
         /\ Twin(Flagged(c, v), k) = Reflagged(Twin(c, k), Shown(v))
<1>1. Twin(WithA(c, v), k) = PuttingA(Twin(c, k), v)
  BY DEF Twin, WithA, PuttingA, Fields
<1>2. Twin(WithPC(c, v), k) = PuttingPC(Twin(c, k), v)
  BY DEF Twin, WithPC, PuttingPC, Fields
<1>3. Twin(WithMem(c, v), k) = PuttingMem(Twin(c, k), v)
  BY DEF Twin, WithMem, PuttingMem, Fields
<1>4. Twin(WithCyc(c, v), k) = PuttingClk(Twin(c, k), 12 * (v + k))
  BY DEF Twin, WithCyc, PuttingClk, Fields
<1>5. Twin(WithSP(c, v), k) = PuttingSP(Twin(c, k), v)
  BY DEF Twin, WithSP, PuttingSP, Fields
<1>6. Twin(WithIRQ(c, v), k) = PuttingIRQ(Twin(c, k), v)
  BY DEF Twin, WithIRQ, PuttingIRQ, Fields
<1>7. Twin(WithNMI(c, v), k) = PuttingNMI(Twin(c, k), v)
  BY DEF Twin, WithNMI, PuttingNMI, Fields
<1>8. Twin(Flagged(c, v), k) = Reflagged(Twin(c, k), Shown(v))
  BY DEF Twin, Flagged, Reflagged, Shown, Fields
<1> QED BY <1>1, <1>2, <1>3, <1>4, <1>5, <1>6, <1>7, <1>8

(* Each keeps the fields and all but its own. *)
LEMMA Updates ==
  ASSUME NEW c, DOMAIN c = Fields, NEW v
  PROVE  /\ DOMAIN WithPC(c, v) = Fields /\ WithPC(c, v).pc = v /\ WithPC(c, v).cyc = c.cyc
         /\ WithPC(c, v).ps = c.ps /\ WithPC(c, v).irq = c.irq
         /\ DOMAIN WithSP(c, v) = Fields /\ DOMAIN WithCyc(c, v) = Fields
         /\ WithCyc(c, v).cyc = v /\ WithCyc(c, v).pc = c.pc /\ WithCyc(c, v).mem = c.mem
         /\ WithCyc(c, v).ps = c.ps /\ WithCyc(c, v).irq = c.irq
         /\ DOMAIN WithIRQ(c, v) = Fields /\ DOMAIN WithNMI(c, v) = Fields
         /\ DOMAIN Flagged(c, v) = Fields
  BY DEF WithPC, WithSP, WithCyc, WithIRQ, WithNMI, Flagged, Fields

LEMMA TwinGoes ==
  ASSUME NEW R, NEW n, NEW c, Sound(c, R, n), NEW k, NEW addr
  PROVE  Twin(Jump(c, addr), k) = Emux!Goto(Twin(c, k), addr)
<1> DEFINE p == addr % 65536
<1>1. Jump(c, addr) = [c EXCEPT !.pc = p] /\ Emux!Goto(Twin(c, k), addr) = [Twin(c, k) EXCEPT !.PC = p]
  BY DEF Jump, Emux!Goto
<1> HIDE DEF p
<1>2. Twin([c EXCEPT !.pc = p], k) = [Twin(c, k) EXCEPT !.PC = p]
  BY CoreFields DEF Twin, Fields
<1> QED BY <1>1, <1>2

LEMMA TwinWrites ==
  ASSUME NEW R, NEW n, NEW c, Sound(c, R, n), NEW k, NEW addr, NEW b
  PROVE  Twin(CPU_POKE(c, addr, b), k) = Emux!write(Twin(c, k), addr, b)
<1> DEFINE m == Written(c.mem, addr, b)
<1>1. /\ CPU_POKE(c, addr, b) = [c EXCEPT !.mem = m]
      /\ Emux!write(Twin(c, k), addr, b) = [Twin(c, k) EXCEPT !.mem = m]
  BY SameMemory DEF CPU_POKE, Emux!write, Twin
<1> HIDE DEF m
<1>2. Twin([c EXCEPT !.mem = m], k) = [Twin(c, k) EXCEPT !.mem = m]
  BY CoreFields DEF Twin, Fields
<1> QED BY <1>1, <1>2

(* The flags, all but B. *)
LEMMA TwinFlags ==
  ASSUME NEW R, NEW n, NEW c, Sound(c, R, n), NEW k, NEW f, f # "B", NEW on
  PROVE  Twin(Flag(c, f, on), k) = Emux!SetFlag(Twin(c, k), f, on)
<1> DEFINE p == IF on THEN c.ps \cup {f} ELSE c.ps \ {f}
           q == ((c.ps \ {"B"}) \ {f}) \cup Emux!If(f, on)
<1>1. p \ {"B"} = q
  BY DEF Emux!If
<1>2. Flag(c, f, on) = [c EXCEPT !.ps = p] /\ Emux!SetFlag(Twin(c, k), f, on) = [Twin(c, k) EXCEPT !.P = q]
  BY DEF Flag, Emux!SetFlag, Twin
<1> HIDE DEF p, q
<1>3. Twin([c EXCEPT !.ps = p], k) = [Twin(c, k) EXCEPT !.P = p \ {"B"}]
  BY CoreFields DEF Twin, Fields
<1> QED BY <1>1, <1>2, <1>3

LEMMA BitSeven == ASSUME NEW b \in Byte PROVE Bit(b, 7) <=> b > 127
  BY DEF Bit, Byte

(* The register r is Upper[r] there. *)
Upper == [a |-> "A", x |-> "X", y |-> "Y", sp |-> "SP"]
LEMMA TwinRegister ==
  ASSUME NEW c, NEW k, NEW r \in {"a", "x", "y", "sp"}
  PROVE  Twin(c, k)[Upper[r]] = c[r]
  BY DEF Twin, Upper

(* Z and N of a byte. *)
LEMMA TwinNZ ==
  ASSUME NEW R, NEW n, NEW c, Sound(c, R, n), NEW k, NEW b \in Byte
  PROVE  Twin(SET_NZ(c, b), k) = [Twin(c, k) EXCEPT !.P = (@ \ {"N", "Z"}) \cup Emux!znTbl(b)]
<1> DEFINE p == IF b = 0 THEN c.ps \cup {"Z"} ELSE c.ps \ {"Z"}
           q == IF b > 127 THEN p \cup {"N"} ELSE p \ {"N"}
           u == ((c.ps \ {"B"}) \ {"N", "Z"}) \cup Emux!znTbl(b)
<1>1. q \ {"B"} = u
  BY DEF Emux!znTbl
<1>2. SET_NZ(c, b) = [c EXCEPT !.ps = q]
  <2>1. Flag(c, "Z", b = 0) = [c EXCEPT !.ps = p] /\ [c EXCEPT !.ps = p].ps = p
    BY DEF Flag, Sound
  <2> HIDE DEF p
  <2>2. SET_NZ(c, b) = [[c EXCEPT !.ps = p] EXCEPT !.ps = q]
    BY <2>1, BitSeven DEF SET_NZ, Flag
  <2> HIDE DEF q
  <2> QED BY <2>2 DEF Sound
<1>3. [Twin(c, k) EXCEPT !.P = (@ \ {"N", "Z"}) \cup Emux!znTbl(b)] = [Twin(c, k) EXCEPT !.P = u]
  BY DEF Twin
<1> HIDE DEF p, q, u
<1>4. Twin([c EXCEPT !.ps = q], k) = [Twin(c, k) EXCEPT !.P = q \ {"B"}]
  BY CoreFields DEF Twin, Fields
<1> QED BY <1>1, <1>2, <1>3, <1>4

(* A byte put into a register. *)
LEMMA TwinLoads ==
  ASSUME NEW n, NEW c, Sound(c, Byte, n), NEW k, NEW r \in {"a", "x", "y"}, NEW b \in Byte
  PROVE  Twin(Load(c, r, b), k) = Emux!Put(Twin(c, k), Upper[r], b)
<1> DEFINE d == [c EXCEPT ![r] = b]
           t == [Twin(c, k) EXCEPT ![Upper[r]] = b]
<1>1. Sound(d, Byte, n)
  BY RegisterSound
<1>2. Twin(d, k) = t
  <2>0. DOMAIN c = Fields
    BY CoreFields
  <2>1. CASE r = "a"
    BY <2>0, <2>1 DEF Twin, Fields, Upper
  <2>2. CASE r = "x"
    BY <2>0, <2>2 DEF Twin, Fields, Upper
  <2>3. CASE r = "y"
    BY <2>0, <2>3 DEF Twin, Fields, Upper
  <2> QED BY <2>1, <2>2, <2>3
<1>3. Emux!Put(Twin(c, k), Upper[r], b) = [t EXCEPT !.P = (@ \ {"N", "Z"}) \cup Emux!znTbl(b)]
  <2> DEFINE z == Emux!znTbl(b)
  <2>1. Emux!Put(Twin(c, k), Upper[r], b) = [Twin(c, k) EXCEPT ![Upper[r]] = b, !.P = (@ \ {"N", "Z"}) \cup z]
    BY DEF Emux!Put
  <2> HIDE DEF z
  <2>2. Upper[r] \in {"A", "X", "Y"}
    BY DEF Upper
  <2>3. [Twin(c, k) EXCEPT ![Upper[r]] = b, !.P = (@ \ {"N", "Z"}) \cup z] = [t EXCEPT !.P = (@ \ {"N", "Z"}) \cup z]
    BY <2>2 DEF Twin
  <2> QED BY <2>1, <2>3 DEF z
<1>4. Load(c, r, b) = SET_NZ(d, b)
  BY DEF Load
<1> HIDE DEF d, t
<1> QED BY <1>1, <1>2, <1>3, <1>4, TwinNZ

(* The stack. *)
LEMMA TwinPushes ==
  ASSUME NEW n, NEW c, Sound(c, Byte, n), NEW k, NEW b
  PROVE  Twin(PUSH(c, b), k) = Emux!push(Twin(c, k), b)
<1> DEFINE d == CPU_POKE(c, 256 + c.sp, b)
           p == (c.sp - 1) % 256
           t == Emux!write(Twin(c, k), c.sp + 256, b)
<1>1. DOMAIN d = Fields /\ d.sp = c.sp
  BY CoreFields DEF CPU_POKE, Fields
<1>2. Twin(d, k) = t
  <2>1. 256 + c.sp = c.sp + 256
    BY BothRanges, Registers
  <2> QED BY <2>1, TwinWrites
<1>3. PUSH(c, b) = [d EXCEPT !.sp = p]
  BY <1>1 DEF PUSH
<1>4. Emux!push(Twin(c, k), b) = [t EXCEPT !.SP = p]
  BY DEF Emux!push, Emux!write, Twin
<1> HIDE DEF d, p, t
<1>5. Twin([d EXCEPT !.sp = p], k) = [Twin(d, k) EXCEPT !.SP = p]
  BY <1>1 DEF Twin, Fields
<1> QED BY <1>2, <1>3, <1>4, <1>5

LEMMA TwinPushesWord ==
  ASSUME NEW n, NEW c, Sound(c, Byte, n), NEW k, NEW w \in Int
  PROVE  Twin(PUSHW(c, w), k) = Emux!pushW(Twin(c, k), w)
<1>1. HiByte(w) \in Int
  BY DEF HiByte
<1>2. Sound(PUSH(c, HiByte(w)), Byte, n)
  BY <1>1, StackSound, BothRanges
<1> QED BY <1>2, TwinPushes, SameBits DEF PUSHW, Emux!pushW

LEMMA TwinPulls ==
  ASSUME NEW n, NEW c, Sound(c, Byte, n), NEW k
  PROVE  /\ Emux!pop(Twin(c, k)) = PULL(c)
         /\ Twin(Popped(c), k) = Emux!Less(Twin(c, k), 1)
         /\ Emux!popW(Twin(c, k)) = PULLW(c)
         /\ Twin(Popped(Popped(c)), k) = Emux!Less(Twin(c, k), 2)
<1>1. ASSUME NEW d, Sound(d, Byte, n) PROVE Emux!pop(Twin(d, k)) = PULL(d)
  BY TwinReads, TwinRegisters DEF Emux!pop, Emux!Top, PULL
<1>2. ASSUME NEW d, Sound(d, Byte, n) PROVE Twin(Popped(d), k) = Emux!Less(Twin(d, k), 1)
  <2> DEFINE p == (d.sp + 1) % 256
  <2>1. Popped(d) = [d EXCEPT !.sp = p] /\ Emux!Less(Twin(d, k), 1) = [Twin(d, k) EXCEPT !.SP = p]
    BY DEF Popped, Emux!Less, Twin
  <2> HIDE DEF p
  <2>2. Twin([d EXCEPT !.sp = p], k) = [Twin(d, k) EXCEPT !.SP = p]
    BY CoreFields DEF Twin, Fields
  <2> QED BY <2>1, <2>2
<1>3. Sound(Popped(c), Byte, n)
  BY StackSound, BothRanges
<1>4. Emux!popW(Twin(c, k)) = PULLW(c)
  <2>1. Emux!pop(Emux!Less(Twin(c, k), 1)) = PULL(Popped(c))
    BY <1>1, <1>2, <1>3
  <2> QED BY <1>1, <2>1 DEF Emux!popW, PULLW
<1>5. Emux!Less(Emux!Less(Twin(c, k), 1), 1) = Emux!Less(Twin(c, k), 2)
  <2> DEFINE p == (c.sp + 1) % 256
             q == (c.sp + 2) % 256
  <2>1. p \in Int /\ (p + 1) % 256 = q
    <3>1. c.sp \in 0..255
      BY BothRanges, Registers DEF Byte
    <3> QED BY <3>1
  <2>2. Emux!Less(Twin(c, k), 1) = [Twin(c, k) EXCEPT !.SP = p]
    BY DEF Emux!Less, Twin
  <2>3. Emux!Less(Twin(c, k), 2) = [Twin(c, k) EXCEPT !.SP = q]
    BY DEF Emux!Less, Twin
  <2> HIDE DEF p, q
  <2>4. Emux!Less([Twin(c, k) EXCEPT !.SP = p], 1) = [[Twin(c, k) EXCEPT !.SP = p] EXCEPT !.SP = q]
    BY <2>1 DEF Emux!Less, Twin
  <2>5. [[Twin(c, k) EXCEPT !.SP = p] EXCEPT !.SP = q] = [Twin(c, k) EXCEPT !.SP = q]
    BY DEF Twin
  <2> QED BY <2>2, <2>3, <2>4, <2>5
<1> QED BY <1>1, <1>2, <1>3, <1>4, <1>5

LEMMA TwinStatus ==
  ASSUME NEW n, NEW c, Sound(c, Byte, n), NEW k, NEW b
  PROVE  Twin(setPS(c, b), k) = [Twin(c, k) EXCEPT !.P = FlagsOf(b) \ {"B"}]
<1> DEFINE p == FlagsOf(b)
<1>1. setPS(c, b) = [c EXCEPT !.ps = p]
  BY DEF setPS
<1> HIDE DEF p
<1>2. Twin([c EXCEPT !.ps = p], k) = [Twin(c, k) EXCEPT !.P = p \ {"B"}]
  BY CoreFields DEF Twin, Fields
<1> QED BY <1>1, <1>2 DEF p

(* Several flags one after the other. *)
Changed(P, f, on) == IF on THEN P \cup {f} ELSE P \ {f}
NZChanged(P, b)   == Changed(Changed(P, "Z", b = 0), "N", Bit(b, 7))

LEMMA FlagsChange ==
  ASSUME NEW c, DOMAIN c = Fields
  PROVE  /\ \A f, on : Flag(c, f, on) = Flagged(c, Changed(c.ps, f, on))
         /\ \A P, f, on : Flag(Flagged(c, P), f, on) = Flagged(c, Changed(P, f, on))
         /\ \A P, b : SET_NZ(Flagged(c, P), b) = Flagged(c, NZChanged(P, b))
<1>1. ASSUME NEW f, NEW on PROVE Flag(c, f, on) = Flagged(c, Changed(c.ps, f, on))
  BY DEF Flag, Flagged, Changed
<1>2. ASSUME NEW P, NEW f, NEW on
      PROVE  Flag(Flagged(c, P), f, on) = Flagged(c, Changed(P, f, on))
  <2> DEFINE Q == Changed(P, f, on)
  <2>1. Flagged(c, P).ps = P
    BY DEF Flagged, Fields
  <2>2. Flag(Flagged(c, P), f, on) = [Flagged(c, P) EXCEPT !.ps = Q]
    BY <2>1 DEF Flag, Changed
  <2> HIDE DEF Q
  <2>3. [Flagged(c, P) EXCEPT !.ps = Q] = Flagged(c, Q)
    BY DEF Flagged
  <2> QED BY <2>2, <2>3 DEF Q
<1> QED BY <1>1, <1>2 DEF SET_NZ, NZChanged

LEMMA TwinFlagged ==
  ASSUME NEW c, DOMAIN c = Fields, NEW k, NEW P, NEW Q, Shown(P) = Q
  PROVE  Twin(Flagged(c, P), k) = Reflagged(Twin(c, k), Q)
  BY TwinUpdates

(* Addition and subtraction: A and four flags. *)
LEMMA TwinSums ==
  ASSUME NEW n, NEW c, Sound(c, Byte, n), NEW k, NEW dt, NEW j \in Int, NEW p, NEW q
  PROVE  Twin(Flag(Flag(Load(c, "a", j % 256), "C", p), "V", q), k) = Emux!Arith(Twin(c, k), dt, j, q, p)
<1> DEFINE b == j % 256
           d == [c EXCEPT !["a"] = b]
           P == Changed(Changed(NZChanged(c.ps, b), "C", p), "V", q)
           Q == (((((c.ps \ {"B"}) \ {"N", "V", "Z", "C"}) \cup Emux!If("V", q)) \cup Emux!If("C", p))
                  \cup Emux!znTbl(b))
<1>1. b \in Byte
  BY Remainders
<1>2. DOMAIN c = Fields
  BY CoreFields
<1>3. DOMAIN d = Fields /\ d.ps = c.ps
  BY <1>2 DEF Fields
<1>4. Shown(P) = Q
  BY <1>1, BitSeven DEF Shown, Changed, NZChanged, Emux!If, Emux!znTbl
<1>5. Emux!Arith(Twin(c, k), dt, j, q, p) = [Twin(c, k) EXCEPT !.A = b, !.P = Q]
  BY DEF Emux!Arith, Twin
<1>6. Load(c, "a", b) = SET_NZ(d, b)
  BY DEF Load
<1> HIDE DEF b
<1>7. Twin(d, k) = [Twin(c, k) EXCEPT !.A = b]
  BY <1>2 DEF Twin, Fields
<1> HIDE DEF d, Q
<1>8. Flag(Flag(Load(c, "a", b), "C", p), "V", q) = Flagged(d, P)
  BY <1>3, <1>6, FlagsChange DEF SET_NZ, NZChanged
<1> HIDE DEF P
<1>9. Twin(Flagged(d, P), k) = Reflagged(Twin(d, k), Q)
  BY <1>3, <1>4, TwinFlagged
<1>10. Reflagged([Twin(c, k) EXCEPT !.A = b], Q) = [Twin(c, k) EXCEPT !.A = b, !.P = Q]
  BY DEF Twin, Reflagged
<1> QED BY <1>5, <1>7, <1>8, <1>9, <1>10 DEF b

LEMMA TwinAdds ==
  ASSUME NEW n, NEW c, Sound(c, Byte, n), NEW k, NEW v \in Byte, "D" \notin c.ps
  PROVE  Twin(ADC(c, v), k) = Emux!add(Twin(c, k), v)
<1> DEFINE j == c.a + v + Carry(c)
           q == Bit(c.a, 7) = Bit(v, 7) /\ Bit(c.a, 7) # Bit(j, 7)
<1>1. j \in Int
  BY Registers, BothRanges, CarryType, Integral
<1>2. ADC(c, v) = Flag(Flag(Load(c, "a", j % 256), "C", j > 255), "V", q)
  BY DEF ADC, Sum
<1>3. Emux!add(Twin(c, k), v) = Emux!Arith(Twin(c, k), v, j, q, j > 255)
  BY TwinRegisters, SameBits DEF Emux!add
<1> HIDE DEF j, q
<1> QED BY <1>1, <1>2, <1>3, TwinSums

LEMMA TwinSubtracts ==
  ASSUME NEW n, NEW c, Sound(c, Byte, n), NEW k, NEW v \in Byte, "D" \notin c.ps
  PROVE  Twin(SBC(c, v), k) = Emux!sub(Twin(c, k), v)
<1> DEFINE j == c.a - v - (1 - Carry(c))
           q == Bit(c.a, 7) # Bit(v, 7) /\ Bit(c.a, 7) # Bit(j, 7)
<1>1. j \in Int
  BY Registers, BothRanges, CarryType, Integral
<1>2. SBC(c, v) = Flag(Flag(Load(c, "a", j % 256), "C", j >= 0), "V", q)
  BY DEF SBC, Difference
<1>3. Emux!sub(Twin(c, k), v) = Emux!Arith(Twin(c, k), v, j, q, j >= 0)
  BY TwinRegisters, SameBits DEF Emux!sub
<1> HIDE DEF j, q
<1> QED BY <1>1, <1>2, <1>3, TwinSums

(* C, N and Z together. *)
CarryFlags(P, p, b) == ((P \ {"N", "Z", "C"}) \cup Emux!If("C", p)) \cup Emux!znTbl(b)
LEMMA CarryFlagsChange ==
  ASSUME NEW P, NEW p, NEW b \in Byte
  PROVE  Shown(NZChanged(Changed(P, "C", p), b)) = CarryFlags(Shown(P), p, b)
  BY BitSeven DEF Shown, NZChanged, Changed, CarryFlags, Emux!If, Emux!znTbl

LEMMA TwinCompares ==
  ASSUME NEW n, NEW c, Sound(c, Byte, n), NEW k, NEW r \in {"a", "x", "y"}, NEW v \in Byte
  PROVE  Twin(Compare(c, r, v), k) = Emux!cmp(Twin(c, k), Twin(c, k)[Upper[r]], v)
<1> DEFINE b == (c[r] - v) % 256
           p == c[r] >= v
           P == NZChanged(Changed(c.ps, "C", p), b)
           Q == CarryFlags(Shown(c.ps), p, b)
<1>1. c[r] \in Int /\ v \in Int
  BY Registers, BothRanges, Integral
<1>2. b \in Byte /\ (p <=> c[r] - v >= 0)
  BY <1>1, Remainders
<1>3. DOMAIN c = Fields
  BY CoreFields
<1>4. Compare(c, r, v) = Flagged(c, P)
  BY <1>3, FlagsChange DEF Compare
<1>5. Twin(c, k)[Upper[r]] = c[r]
  BY TwinRegister
<1>6. Shown(P) = Q
  BY <1>2, CarryFlagsChange
<1>7. Emux!cmp(Twin(c, k), c[r], v) = Reflagged(Twin(c, k), Q)
  BY <1>2 DEF Emux!cmp, Twin, CarryFlags, Reflagged, Shown, Emux!If
<1> HIDE DEF P, Q
<1> QED BY <1>3, <1>4, <1>5, <1>6, <1>7, TwinFlagged

(* BIT takes N and V from the byte itself. *)
LEMMA TwinTestsBits ==
  ASSUME NEW n, NEW c, Sound(c, Byte, n), NEW k, NEW v
  PROVE  Twin(BIT(c, v), k) = Emux!BIT(Twin(c, k), v)
<1> DEFINE x == And(c.a, v) = 0
           P == Changed(Changed(Changed(c.ps, "Z", x), "N", Bit(v, 7)), "V", Bit(v, 6))
           Q == (((c.ps \ {"B"}) \ {"N", "V", "Z"}) \cup (FlagsOf(v) \cap {"N", "V"}))
                  \cup Emux!If("Z", x)
<1>1. ("N" \in FlagsOf(v) <=> Bit(v, 7)) /\ ("V" \in FlagsOf(v) <=> Bit(v, 6))
  BY DEF FlagsOf, FlagBit
<1>2. Emux!BIT(Twin(c, k), v) = Reflagged(Twin(c, k), Q)
  BY SameBits DEF Emux!BIT, Twin, Reflagged
<1>3. BIT(c, v) = Flag(Flag(Flag(c, "Z", x), "N", Bit(v, 7)), "V", Bit(v, 6))
  BY DEF BIT
<1> HIDE DEF x
<1>4. Shown(P) = Q
  BY <1>1 DEF Shown, Changed, Emux!If
<1>5. DOMAIN c = Fields
  BY CoreFields
<1>6. BIT(c, v) = Flagged(c, P)
  BY <1>3, <1>5, FlagsChange
<1> HIDE DEF P, Q
<1> QED BY <1>2, <1>4, <1>5, <1>6, TwinFlagged

(* The shifts of A have names of their own only in this core. *)
Plain(op) == CASE op = "ASLA" -> "ASL" [] op = "LSRA" -> "LSR" [] op = "ROLA" -> "ROL"
               [] op = "RORA" -> "ROR" [] OTHER -> op

LEMMA SameFlag == ASSUME NEW c, NEW f, NEW p, NEW q, p <=> q PROVE Flag(c, f, p) = Flag(c, f, q)
  BY DEF Flag

LEMMA CarryInFront ==
  ASSUME NEW x \in 0..1, NEW y \in 0..127, NEW i \in 0..1
  PROVE  /\ 256 * x + y \in Int /\ (256 * x + y) % 256 = y /\ (256 * x + y > 255 <=> x = 1)
         /\ 256 * x + y + 128 * i \in Int /\ (256 * x + y + 128 * i) % 256 = y + 128 * i
         /\ (256 * x + y + 128 * i > 255 <=> x = 1)
<1>1. CASE x = 0
  BY <1>1
<1>2. CASE x = 1
  BY <1>2
<1> QED BY <1>1, <1>2

LEMMA ShiftsAgree ==
  ASSUME NEW c, NEW k, NEW v \in Byte,
         NEW op \in {"ASL", "LSR", "ROL", "ROR", "ASLA", "LSRA", "ROLA", "RORA"},
         NEW j, j = Emux!Shifts(Plain(op), Twin(c, k), v)
  PROVE  /\ j \in Int /\ j % 256 = Shift(op, c, v)[1]
         /\ (j > 255 <=> Shift(op, c, v)[2])
<1> DEFINE i == Carry(c)
<1>1. i \in 0..1 /\ Emux!Carry(Twin(c, k)) = i
  BY CarryType, TwinRegisters
<1>2. v \in 0..255
  BY DEF Byte
<1>3. CASE op \in {"ASL", "ASLA"}
  <2>1. j = 2 * v
    BY <1>3 DEF Emux!Shifts, Plain, Emux!asl
  <2>2. Shift(op, c, v)[1] = (2 * v) % 256 /\ (Shift(op, c, v)[2] <=> Bit(v, 7))
    BY <1>3 DEF Shift, ASL
  <2>3. (2 * v > 255) <=> Bit(v, 7)
    BY <1>2, BitSeven
  <2> QED BY <1>2, <2>1, <2>2, <2>3
<1>4. CASE op \in {"ROL", "ROLA"}
  <2>1. j = 2 * v + i
    BY <1>1, <1>4 DEF Emux!Shifts, Plain, Emux!rol
  <2>2. Shift(op, c, v)[1] = (2 * v + i) % 256 /\ (Shift(op, c, v)[2] <=> Bit(v, 7))
    BY <1>4 DEF Shift, ROL
  <2>3. (2 * v + i > 255) <=> Bit(v, 7)
    BY <1>1, <1>2, BitSeven
  <2> QED BY <1>1, <1>2, <2>1, <2>2, <2>3
<1> DEFINE x == v % 2  y == v \div 2
<1>5. x \in 0..1 /\ y \in 0..127 /\ (Bit(v, 0) <=> x = 1)
  BY <1>2 DEF Bit
<1>6. CASE op \in {"LSR", "LSRA"}
  <2>1. j = 256 * x + y
    BY <1>6 DEF Emux!Shifts, Plain, Emux!lsr
  <2>2. Shift(op, c, v)[1] = y /\ (Shift(op, c, v)[2] <=> Bit(v, 0))
    BY <1>6 DEF Shift, LSR
  <2> HIDE DEF x, y
  <2> QED BY <1>5, <2>1, <2>2, CarryInFront
<1>7. CASE op \in {"ROR", "RORA"}
  <2>1. j = 256 * x + y + 128 * i
    BY <1>1, <1>7 DEF Emux!Shifts, Plain, Emux!ror
  <2>2. Shift(op, c, v)[1] = y + 128 * i /\ (Shift(op, c, v)[2] <=> Bit(v, 0))
    BY <1>7 DEF Shift, ROR
  <2> HIDE DEF x, y, i
  <2> QED BY <1>1, <1>5, <2>1, <2>2, CarryInFront
<1> QED BY <1>3, <1>4, <1>6, <1>7

(* Such cores with another A or another memory. *)
LEMMA FlaggedFields ==
  ASSUME NEW c, DOMAIN c = Fields, NEW P, NEW b
  PROVE  /\ DOMAIN WithA(Flagged(c, P), b) = Fields /\ WithA(Flagged(c, P), b).ps = P
         /\ DOMAIN WithMem(Flagged(c, P), b) = Fields /\ WithMem(Flagged(c, P), b).ps = P
         /\ \A k, Q : /\ Reflagged(Twin(WithA(Flagged(c, P), b), k), Q) = PuttingA(Reflagged(Twin(c, k), Q), b)
                      /\ Reflagged(Twin(WithMem(Flagged(c, P), b), k), Q)
                           = PuttingMem(Reflagged(Twin(c, k), Q), b)
<1> DEFINE d == WithA(Flagged(c, P), b)
           e == WithMem(Flagged(c, P), b)
<1>1. /\ DOMAIN d = Fields /\ d.ps = P
  BY DEF Flagged, Fields, WithA
<1>2. /\ DOMAIN e = Fields /\ e.ps = P
  BY DEF Flagged, Fields, WithMem
<1> HIDE DEF d, e
<1>3. DOMAIN Flagged(c, P) = Fields
  BY DEF Flagged
<1>4. ASSUME NEW f, DOMAIN f = Fields, NEW k
      PROVE  Twin(WithA(f, b), k) = PuttingA(Twin(f, k), b) /\ Twin(WithMem(f, b), k) = PuttingMem(Twin(f, k), b)
  BY <1>4, TwinUpdates
<1>5. ASSUME NEW k PROVE Twin(Flagged(c, P), k) = Reflagged(Twin(c, k), Shown(P))
  BY TwinFlagged
<1>6. ASSUME NEW k, NEW U, NEW Q
      PROVE  /\ Reflagged(PuttingA(Reflagged(Twin(c, k), U), b), Q) = PuttingA(Reflagged(Twin(c, k), Q), b)
             /\ Reflagged(PuttingMem(Reflagged(Twin(c, k), U), b), Q) = PuttingMem(Reflagged(Twin(c, k), Q), b)
  <2>1. Reflagged(PuttingA(Reflagged(Twin(c, k), U), b), Q) = PuttingA(Reflagged(Twin(c, k), Q), b)
    BY DEF Twin, Reflagged, PuttingA
  <2>2. Reflagged(PuttingMem(Reflagged(Twin(c, k), U), b), Q) = PuttingMem(Reflagged(Twin(c, k), Q), b)
    BY DEF Twin, Reflagged, PuttingMem
  <2> QED BY <2>1, <2>2
<1>7. ASSUME NEW k, NEW Q
      PROVE  /\ Reflagged(Twin(d, k), Q) = PuttingA(Reflagged(Twin(c, k), Q), b)
             /\ Reflagged(Twin(e, k), Q) = PuttingMem(Reflagged(Twin(c, k), Q), b)
  BY <1>3, <1>4, <1>5, <1>6 DEF d, e
<1> QED BY <1>1, <1>2, <1>7 DEF d, e

(* The mode of an instruction that is all opcode. *)
NoOperand == ""
LEMMA TwinShiftsA ==
  ASSUME NEW n, NEW c, Sound(c, Byte, n), NEW k, NEW o,
         NEW op \in {"ASLA", "LSRA", "ROLA", "RORA"}
  PROVE  Twin(ShiftA(op, c), k) = Emux!Shift(Plain(op), NoOperand, Twin(c, k), o)
<1> DEFINE j == Emux!Shifts(Plain(op), Twin(c, k), c.a)
           b == j % 256
           p == j > 255
           P == Changed(c.ps, "C", p)
           d == WithA(Flagged(c, P), b)
           Q == CarryFlags(Shown(c.ps), p, b)
<1>0. j = Emux!Shifts(Plain(op), Twin(c, k), c.a) /\ Twin(c, k).A = c.a /\ Twin(c, k).P = Shown(c.ps)
  BY TwinRegisters DEF Shown
<1> HIDE DEF j
<1>1. j \in Int /\ b = Shift(op, c, c.a)[1] /\ (p <=> Shift(op, c, c.a)[2])
  <2>1. c.a \in Byte
    BY Registers, BothRanges
  <2>2. op \in {"ASL", "LSR", "ROL", "ROR", "ASLA", "LSRA", "ROLA", "RORA"}
    OBVIOUS
  <2> QED BY <1>0, <2>1, <2>2, ShiftsAgree
<1>2. b \in Byte
  <2>1. j \in Int
    BY <1>1
  <2> QED BY <2>1, Remainders
<1>3. DOMAIN c = Fields
  BY CoreFields
<1>4. Emux!Shift(Plain(op), NoOperand, Twin(c, k), o) = PuttingA(Reflagged(Twin(c, k), Q), b)
  BY <1>0 DEF Emux!Shift, Reflagged, CarryFlags, PuttingA, NoOperand
<1> HIDE DEF b, p
<1>5. ShiftA(op, c) = SET_NZ(WithA(Flag(c, "C", p), b), b)
  BY <1>1, SameFlag DEF ShiftA, Load, WithA
<1>6. Flag(c, "C", p) = Flagged(c, P)
  BY <1>3, FlagsChange
<1>7. Shown(NZChanged(P, b)) = Q
  BY <1>2, CarryFlagsChange
<1> HIDE DEF P, Q
<1>8. /\ DOMAIN d = Fields /\ d.ps = P
      /\ Reflagged(Twin(d, k), Q) = PuttingA(Reflagged(Twin(c, k), Q), b)
  BY <1>3, FlaggedFields
<1>9. ShiftA(op, c) = SET_NZ(d, b)
  BY <1>5, <1>6
<1> HIDE DEF d
<1>10. SET_NZ(d, b) = Flagged(d, NZChanged(P, b))
  BY <1>8, FlagsChange DEF SET_NZ, NZChanged
<1>11. Twin(SET_NZ(d, b), k) = Reflagged(Twin(d, k), Q)
  BY <1>7, <1>8, <1>10, TwinFlagged
<1> QED BY <1>4, <1>8, <1>9, <1>11

(* A byte written to memory, and the flags set after it or before. *)
LEMMA TwinWritesFlags ==
  ASSUME NEW n, NEW c, Sound(c, Byte, n), NEW k, NEW P, NEW o, NEW b, NEW Q,
         Shown(NZChanged(P, b)) = Q
  PROVE  Twin(SET_NZ(CPU_POKE(Flagged(c, P), o, b), b), k) = Emux!write(Reflagged(Twin(c, k), Q), o, b)
<1> DEFINE m == Written(c.mem, o, b)
           d == WithMem(Flagged(c, P), m)
<1>1. DOMAIN c = Fields
  BY CoreFields
<1>2. CPU_POKE(Flagged(c, P), o, b) = d
  BY <1>1 DEF CPU_POKE, Flagged, Fields, WithMem
<1>3. Emux!write(Reflagged(Twin(c, k), Q), o, b) = PuttingMem(Reflagged(Twin(c, k), Q), m)
  BY SameMemory DEF Emux!write, Reflagged, Twin, PuttingMem
<1> HIDE DEF m
<1>4. /\ DOMAIN d = Fields /\ d.ps = P
      /\ Reflagged(Twin(d, k), Q) = PuttingMem(Reflagged(Twin(c, k), Q), m)
  BY <1>1, FlaggedFields
<1> HIDE DEF d
<1>6. SET_NZ(d, b) = Flagged(d, NZChanged(P, b))
  BY <1>4, FlagsChange DEF SET_NZ, NZChanged
<1>7. Twin(SET_NZ(d, b), k) = Reflagged(Twin(d, k), Q)
  BY <1>4, <1>6, TwinFlagged
<1> QED BY <1>2, <1>3, <1>4, <1>7

LEMMA TwinShiftsAt ==
  ASSUME NEW n, NEW c, Sound(c, Byte, n), NEW k, NEW o, NEW mode \in {"zp", "abs", "zpx", "absx"},
         NEW op \in {"ASL", "LSR", "ROL", "ROR"}
  PROVE  Twin(ShiftAt(op, c, o), k) = Emux!Shift(op, mode, Twin(c, k), o)
<1> DEFINE v == CPU_PEEK(c, o)
           j == Emux!Shifts(op, Twin(c, k), v)
           b == j % 256
           p == j > 255
           P == Changed(c.ps, "C", p)
           Q == CarryFlags(Shown(c.ps), p, b)
<1>0. /\ j = Emux!Shifts(op, Twin(c, k), v) /\ Emux!read(Twin(c, k), o) = v
      /\ Twin(c, k).P = Shown(c.ps) /\ v \in Byte
  BY TwinRegisters, TwinReads, PeekType DEF Shown
<1>5. ShiftAt(op, c, o) = SET_NZ(CPU_POKE(Flag(c, "C", Shift(op, c, v)[2]), o, Shift(op, c, v)[1]), Shift(op, c, v)[1])
  BY DEF ShiftAt
<1> HIDE DEF v, j
<1>1. j \in Int /\ b = Shift(op, c, v)[1] /\ (p <=> Shift(op, c, v)[2])
  <2>1. Plain(op) = op
    BY DEF Plain
  <2>2. op \in {"ASL", "LSR", "ROL", "ROR", "ASLA", "LSRA", "ROLA", "RORA"}
    OBVIOUS
  <2> QED BY <1>0, <2>1, <2>2, ShiftsAgree
<1>2. b \in Byte
  <2>1. j \in Int
    BY <1>1
  <2> QED BY <2>1, Remainders
<1>3. DOMAIN c = Fields
  BY CoreFields
<1>4. Emux!Shift(op, mode, Twin(c, k), o) = Emux!write(Reflagged(Twin(c, k), Q), o, b)
  BY <1>0 DEF Emux!Shift, Reflagged, CarryFlags, PuttingA
<1> HIDE DEF b, p
<1>6. Flag(c, "C", p) = Flagged(c, P)
  BY <1>3, FlagsChange
<1>7. Shown(NZChanged(P, b)) = Q
  BY <1>2, CarryFlagsChange
<1> HIDE DEF P, Q
<1>8. ShiftAt(op, c, o) = SET_NZ(CPU_POKE(Flagged(c, P), o, b), b)
  BY <1>1, <1>5, <1>6, SameFlag
<1>9. Twin(SET_NZ(CPU_POKE(Flagged(c, P), o, b), b), k) = Emux!write(Reflagged(Twin(c, k), Q), o, b)
  BY <1>7, TwinWritesFlags
<1> QED BY <1>4, <1>8, <1>9

LEMMA TwinStepsAt ==
  ASSUME NEW n, NEW c, Sound(c, Byte, n), NEW k, NEW o, NEW i \in Int
  PROVE  Twin(StepAt(c, o, i), k) = Emux!Bump(Twin(c, k), o, i)
<1> DEFINE v == CPU_PEEK(c, o)
           b == (v + i) % 256
           Q == (Shown(c.ps) \ {"N", "Z"}) \cup Emux!znTbl(b)
<1>1. /\ v \in Int /\ Emux!read(Twin(c, k), o) = v /\ Twin(c, k).P = Shown(c.ps)
  BY PeekType, Integral, TwinRegisters, TwinReads DEF Shown
<1>2. StepAt(c, o, i) = SET_NZ(CPU_POKE(c, o, b), b)
  BY DEF StepAt
<1> HIDE DEF v
<1>3. b \in Byte
  BY <1>1, Remainders
<1>4. Emux!Bump(Twin(c, k), o, i) = Emux!write(Reflagged(Twin(c, k), Q), o, b)
  BY <1>1 DEF Emux!Bump, Reflagged
<1> HIDE DEF b
<1>5. Shown(NZChanged(c.ps, b)) = Q
  BY <1>3, BitSeven DEF Shown, NZChanged, Changed, Emux!znTbl
<1>6. Flagged(c, c.ps) = c
  BY DEF Flagged, Sound
<1> HIDE DEF Q
<1>7. Twin(SET_NZ(CPU_POKE(Flagged(c, c.ps), o, b), b), k) = Emux!write(Reflagged(Twin(c, k), Q), o, b)
  BY <1>5, TwinWritesFlags
<1> QED BY <1>2, <1>4, <1>6, <1>7

(* To be in another page is to have another bit 8, for addresses that are   *)
(* less than a page apart. *)
LEMMA PageBit ==
  ASSUME NEW f \in Int, NEW b \in Int, -128 <= b, b <= 255
  PROVE  Bit(f, 8) # Bit(f + b, 8) <=> HiByte(f) # HiByte(f + b)
<1> DEFINE h == f \div 256  l == f % 256  d == (l + b) \div 256
<1>1. h \in Int /\ l \in 0..255 /\ f = 256 * h + l
  OBVIOUS
<1>2. d \in {-1, 0, 1}
  BY <1>1
<1>3. (f + b) \div 256 = h + d
  BY <1>1
<1>4. Bit(f, 8) = (h % 2 = 1) /\ Bit(f + b, 8) = (((f + b) \div 256) % 2 = 1)
  BY DEF Bit
<1>5. HiByte(f) = h /\ HiByte(f + b) = (f + b) \div 256
  BY DEF HiByte
<1> HIDE DEF h, d
<1>6. (h % 2 = 1) # ((h + d) % 2 = 1) <=> h # h + d
  BY <1>1, <1>2
<1> QED BY <1>3, <1>4, <1>5, <1>6

LEMMA SignedRange == ASSUME NEW b \in Byte PROVE Signed(b) \in Int /\ -128 <= Signed(b) /\ Signed(b) <= 127
  BY DEF Signed, Byte

LEMMA Wraps == ASSUME NEW i \in Int PROVE (i % 65536) % 65536 = i % 65536
  OBVIOUS

LEMMA BranchesAgree ==
  ASSUME NEW op \in DOMAIN Branches
  PROVE  /\ op \in DOMAIN Emux!Jumps
         /\ Emux!Jumps[op][1] = Branches[op][1] /\ Emux!Jumps[op][2] = Branches[op][2]
         /\ Branches[op][1] # "B" /\ Branches[op][2] \in BOOLEAN
<1>1. op \in {"BCC", "BCS", "BEQ", "BMI", "BNE", "BPL", "BVC", "BVS"}
  BY DEF Branches
<1>2. CASE op = "BCC"
  BY <1>2 DEF Branches, Emux!Jumps
<1>3. CASE op = "BCS"
  BY <1>3 DEF Branches, Emux!Jumps
<1>4. CASE op = "BEQ"
  BY <1>4 DEF Branches, Emux!Jumps
<1>5. CASE op = "BMI"
  BY <1>5 DEF Branches, Emux!Jumps
<1>6. CASE op = "BNE"
  BY <1>6 DEF Branches, Emux!Jumps
<1>7. CASE op = "BPL"
  BY <1>7 DEF Branches, Emux!Jumps
<1>8. CASE op = "BVC"
  BY <1>8 DEF Branches, Emux!Jumps
<1>9. CASE op = "BVS"
  BY <1>9 DEF Branches, Emux!Jumps
<1> QED BY <1>1, <1>2, <1>3, <1>4, <1>5, <1>6, <1>7, <1>8, <1>9

LEMMA TwinBranches ==
  ASSUME NEW n \in Nat, NEW c, Sound(c, Byte, n), NEW k \in Int, NEW op \in DOMAIN Branches
  PROVE  Twin(Branch(op, c), k) = Emux!rel_jmp(Twin(c, k), Emux!Jumps[op][1], Emux!Jumps[op][2])
<1> DEFINE next == (c.pc + 1) % 65536
           by   == Signed(CPU_PEEK(c, c.pc))
           f    == Branches[op][1]
           on   == Branches[op][2]
           t    == Emux!Goto(Twin(c, k), Twin(c, k).PC + 1)
           x    == PageCrossed(next, by)
<1>1. /\ c.pc \in Int /\ c.cyc \in Int /\ next \in Int
      /\ by \in Int /\ -128 <= by /\ by <= 127 /\ next % 65536 = next
  <2>1. c.pc \in Int /\ c.cyc \in 0..n
    BY Registers, BothRanges
  <2>2. by \in Int /\ -128 <= by /\ by <= 127
    BY PeekType, SignedRange
  <2> QED BY <2>1, <2>2, Wraps
<1>2. DOMAIN c = Fields
  BY CoreFields
<1>3. Jump(c, next) = WithPC(c, next)
  BY <1>1 DEF Jump, WithPC
<1>4. t = PuttingPC(Twin(c, k), next) /\ t.PC = next
  BY DEF Emux!Goto, Twin, PuttingPC
<1>5. by = Emux!Signed(Emux!read(Twin(c, k), Twin(c, k).PC))
  BY TwinReads, TwinRegisters, SameBits
<1>6. (f \in Twin(c, k).P) <=> (f \in c.ps)
  BY BranchesAgree DEF Twin
<1>7. Branch(op, c) = IF (f \in c.ps) = on THEN [Jump(c, next + by) EXCEPT !.cyc = @ + 1 + x] ELSE Jump(c, next)
  BY DEF Branch
<1>8. Emux!rel_jmp(Twin(c, k), f, on)
        = IF (f \in Twin(c, k).P) # on THEN t
          ELSE Emux!Takes(Emux!Goto(t, next + by), IF Bit(next, 8) # Bit(next + by, 8) THEN 24 ELSE 12)
  BY <1>4, <1>5, SameBits DEF Emux!rel_jmp
<1>9. x \in {0, 1} /\ (IF Bit(next, 8) # Bit(next + by, 8) THEN 24 ELSE 12) = 12 * (1 + x)
  BY <1>1, PageBit DEF PageCrossed
<1>10. on \in BOOLEAN /\ Emux!Jumps[op][1] = f /\ Emux!Jumps[op][2] = on
  BY BranchesAgree
<1> HIDE DEF next, by, f, on, t, x
<1>11. CASE (f \in c.ps) = on
  <2> DEFINE p == (next + by) % 65536
             y == c.cyc + 1 + x
             z == 12 * (1 + x)
  <2>1. [Jump(c, next + by) EXCEPT !.cyc = @ + 1 + x] = WithCyc(WithPC(c, p), y)
    BY <1>2 DEF Jump, Fields, WithCyc, WithPC
  <2>2. 12 * (c.cyc + k) + 12 * (1 + x) = 12 * (y + k)
    BY <1>1, <1>9
  <2>3. Emux!Takes(Emux!Goto(t, next + by), z) = PuttingClk(PuttingPC(Twin(c, k), p), 12 * (c.cyc + k) + z)
    <3> HIDE DEF z
    <3>1. Emux!Goto(t, next + by) = [t EXCEPT !.PC = p]
      BY DEF Emux!Goto
    <3> HIDE DEF p
    <3>2. [PuttingPC(Twin(c, k), next) EXCEPT !.PC = p] = PuttingPC(Twin(c, k), p)
      BY DEF PuttingPC, Twin
    <3>3. Emux!Takes(PuttingPC(Twin(c, k), p), z) = PuttingClk(PuttingPC(Twin(c, k), p), 12 * (c.cyc + k) + z)
      BY DEF Emux!Takes, PuttingClk, PuttingPC, Twin
    <3> QED BY <1>4, <3>1, <3>2, <3>3
  <2> HIDE DEF p, y
  <2>4. Twin(WithCyc(WithPC(c, p), y), k) = PuttingClk(PuttingPC(Twin(c, k), p), 12 * (y + k))
    BY <1>2, TwinUpdates, Updates
  <2>5. Branch(op, c) = WithCyc(WithPC(c, p), y)
    BY <1>7, <1>11, <2>1
  <2>6. ~((f \in Twin(c, k).P) # on)
    BY <1>6, <1>10, <1>11
  <2>7. Emux!rel_jmp(Twin(c, k), f, on) = Emux!Takes(Emux!Goto(t, next + by), z)
    BY <1>8, <1>9, <2>6
  <2> HIDE DEF z
  <2> QED BY <1>10, <2>2, <2>3, <2>4, <2>5, <2>7 DEF z
<1>12. CASE (f \in c.ps) # on
  <2>1. Twin(WithPC(c, next), k) = PuttingPC(Twin(c, k), next)
    BY <1>2, TwinUpdates
  <2>2. Branch(op, c) = WithPC(c, next)
    BY <1>3, <1>7, <1>12
  <2>3. Emux!rel_jmp(Twin(c, k), f, on) = t
    BY <1>6, <1>8, <1>10, <1>12
  <2> QED BY <1>4, <1>10, <2>1, <2>2, <2>3
<1> QED BY <1>11, <1>12

------------------------------------------------------------------------------
(* The two cores: instructions *)

(* The logical operations, loads, stores, transfers and steps. *)
LEMMA TwinLogic ==
  ASSUME NEW n, NEW c, Sound(c, Byte, n), NEW k, NEW v
  PROVE  /\ Twin(AND(c, v), k) = Emux!AND(Twin(c, k), v)
         /\ Twin(EOR(c, v), k) = Emux!EOR(Twin(c, k), v)
         /\ Twin(ORA(c, v), k) = Emux!ORA(Twin(c, k), v)
<1>1. And(c.a, v) \in Byte /\ Or(c.a, v) \in Byte /\ Xor(c.a, v) \in Byte
  BY ByteOfBits DEF And, Or, Xor
<1>2. ASSUME NEW b \in Byte PROVE Twin(Load(c, "a", b), k) = Emux!Put(Twin(c, k), "A", b)
  <2>1. Upper["a"] = "A"
    BY DEF Upper
  <2> QED BY <2>1, TwinLoads
<1>3. Twin(c, k).A = c.a
  BY TwinRegisters
<1>4. Twin(AND(c, v), k) = Emux!AND(Twin(c, k), v)
  BY <1>1, <1>2, <1>3, SameBits DEF AND, Emux!AND
<1>5. Twin(EOR(c, v), k) = Emux!EOR(Twin(c, k), v)
  BY <1>1, <1>2, <1>3, SameBits DEF EOR, Emux!EOR
<1>6. Twin(ORA(c, v), k) = Emux!ORA(Twin(c, k), v)
  BY <1>1, <1>2, <1>3, SameBits DEF ORA, Emux!ORA
<1> QED BY <1>4, <1>5, <1>6

LEMMA SameTables ==
  /\ \A op \in DOMAIN Compared : Compared[op] \in {"a", "x", "y"} /\ Emux!Compares[op] = Upper[Compared[op]]
  /\ \A op \in DOMAIN Loaded : Loaded[op] \in {"a", "x", "y"} /\ Emux!Loads[op] = Upper[Loaded[op]]
  /\ \A op \in DOMAIN Stored : Stored[op] \in {"a", "x", "y"} /\ Emux!Stores[op] = Upper[Stored[op]]
<1>1. \A op \in DOMAIN Compared : Compared[op] \in {"a", "x", "y"} /\ Emux!Compares[op] = Upper[Compared[op]]
  BY DEF Compared, Emux!Compares, Upper
<1>2. \A op \in DOMAIN Loaded : Loaded[op] \in {"a", "x", "y"} /\ Emux!Loads[op] = Upper[Loaded[op]]
  BY DEF Loaded, Emux!Loads, Upper
<1>3. \A op \in DOMAIN Stored : Stored[op] \in {"a", "x", "y"} /\ Emux!Stores[op] = Upper[Stored[op]]
  BY DEF Stored, Emux!Stores, Upper
<1> QED BY <1>1, <1>2, <1>3

LEMMA SameMoves ==
  ASSUME NEW op \in DOMAIN Moved
  PROVE  /\ Moved[op][1] \in {"a", "x", "y", "sp"} /\ Moved[op][2] \in {"a", "x", "y"}
         /\ Emux!Transfers[op][1] = Upper[Moved[op][1]] /\ Emux!Transfers[op][2] = Upper[Moved[op][2]]
<1>1. op \in {"TAX", "TAY", "TSX", "TXA", "TYA"}
  BY DEF Moved
<1> USE DEF Moved, Emux!Transfers, Upper
<1>2. CASE op = "TAX" BY <1>2
<1>3. CASE op = "TAY" BY <1>3
<1>4. CASE op = "TSX" BY <1>4
<1>5. CASE op = "TXA" BY <1>5
<1>6. CASE op = "TYA" BY <1>6
<1> HIDE DEF Moved, Emux!Transfers, Upper
<1> QED BY <1>1, <1>2, <1>3, <1>4, <1>5, <1>6

LEMMA SameBumps ==
  ASSUME NEW op \in DOMAIN Stepped
  PROVE  /\ Stepped[op][1] \in {"x", "y"} /\ Stepped[op][2] \in Int
         /\ Emux!Bumps[op][1] = Upper[Stepped[op][1]] /\ Emux!Bumps[op][2] = Stepped[op][2]
<1>1. op \in {"INX", "INY", "DEX", "DEY"}
  BY DEF Stepped
<1> USE DEF Stepped, Emux!Bumps, Upper
<1>2. CASE op = "INX" BY <1>2
<1>3. CASE op = "INY" BY <1>3
<1>4. CASE op = "DEX" BY <1>4
<1>5. CASE op = "DEY" BY <1>5
<1> HIDE DEF Stepped, Emux!Bumps, Upper
<1> QED BY <1>1, <1>2, <1>3, <1>4, <1>5

LEMMA SameFlagOps ==
  /\ \A op \in DOMAIN Cleared : /\ op \in DOMAIN Emux!FlagOps /\ Cleared[op] # "B"
                                /\ Emux!FlagOps[op][1] = Cleared[op] /\ Emux!FlagOps[op][2] = FALSE
  /\ \A op \in DOMAIN Set : /\ op \in DOMAIN Emux!FlagOps /\ Set[op] # "B"
                            /\ Emux!FlagOps[op][1] = Set[op] /\ Emux!FlagOps[op][2] = TRUE
<1>1. ASSUME NEW op \in DOMAIN Cleared
      PROVE  /\ op \in DOMAIN Emux!FlagOps /\ Cleared[op] # "B"
             /\ Emux!FlagOps[op][1] = Cleared[op] /\ Emux!FlagOps[op][2] = FALSE
  <2>1. op \in {"CLC", "CLD", "CLI", "CLV"}
    BY DEF Cleared
  <2> USE DEF Cleared, Emux!FlagOps
  <2>2. CASE op = "CLC" BY <2>2
  <2>3. CASE op = "CLD" BY <2>3
  <2>4. CASE op = "CLI" BY <2>4
  <2>5. CASE op = "CLV" BY <2>5
  <2> HIDE DEF Cleared, Emux!FlagOps
  <2> QED BY <2>1, <2>2, <2>3, <2>4, <2>5
<1>2. ASSUME NEW op \in DOMAIN Set
      PROVE  /\ op \in DOMAIN Emux!FlagOps /\ Set[op] # "B"
             /\ Emux!FlagOps[op][1] = Set[op] /\ Emux!FlagOps[op][2] = TRUE
  <2>1. op \in {"SEC", "SED", "SEI"}
    BY DEF Set
  <2> USE DEF Set, Emux!FlagOps
  <2>2. CASE op = "SEC" BY <2>2
  <2>3. CASE op = "SED" BY <2>3
  <2>4. CASE op = "SEI" BY <2>4
  <2> HIDE DEF Set, Emux!FlagOps
  <2> QED BY <2>1, <2>2, <2>3, <2>4
<1> QED BY <1>1, <1>2

LEMMA TwinSteps ==
  ASSUME NEW n, NEW c, Sound(c, Byte, n), NEW k, NEW r \in {"a", "x", "y"}, NEW i \in Int
  PROVE  Twin(Load(c, r, (c[r] + i) % 256), k)
           = Emux!Put(Twin(c, k), Upper[r], (Twin(c, k)[Upper[r]] + i) % 256)
<1>1. c[r] \in Int /\ Twin(c, k)[Upper[r]] = c[r]
  BY Registers, BothRanges, TwinRegister
<1>2. (c[r] + i) % 256 \in Byte
  BY <1>1, Remainders
<1> QED BY <1>1, <1>2, TwinLoads

LEMMA TwinMoves ==
  ASSUME NEW n, NEW c, Sound(c, Byte, n), NEW k, NEW q \in {"a", "x", "y", "sp"}, NEW r \in {"a", "x", "y"}
  PROVE  Twin(Load(c, r, c[q]), k) = Emux!Put(Twin(c, k), Upper[r], Twin(c, k)[Upper[q]])
<1>1. c[q] \in Byte /\ Twin(c, k)[Upper[q]] = c[q]
  BY Registers, BothRanges, TwinRegister
<1> QED BY <1>1, TwinLoads

LEMMA TwinTXS ==
  ASSUME NEW n, NEW c, Sound(c, Byte, n), NEW k
  PROVE  Twin(TXS(c), k) = [Twin(c, k) EXCEPT !.SP = Twin(c, k).X]
<1> DEFINE v == c.x
<1>1. DOMAIN c = Fields
  BY CoreFields
<1>2. TXS(c) = WithSP(c, v) /\ [Twin(c, k) EXCEPT !.SP = Twin(c, k).X] = PuttingSP(Twin(c, k), v)
  BY DEF TXS, WithSP, PuttingSP, Twin
<1> HIDE DEF v
<1> QED BY <1>1, <1>2, TwinUpdates

(* The stack operations. *)
LEMMA TwinPLP ==
  ASSUME NEW n, NEW c, Sound(c, Byte, n), NEW k
  PROVE  /\ Twin(setPS(Popped(c), PULL(c)), k) = Emux!PLP(Twin(c, k))
         /\ Twin(PLP(c), k) = Emux!PLP(Twin(c, k))
<1> DEFINE d == Popped(c)
           p == FlagsOf(PULL(c))
           q == p \ {"B"}
<1>1. Sound(d, Byte, n)
  BY StackSound, BothRanges
<1>2. Emux!PLP(Twin(c, k)) = [Twin(d, k) EXCEPT !.P = q]
  BY TwinPulls, SameBits DEF Emux!PLP
<1> HIDE DEF d
<1>3. DOMAIN d = Fields
  BY <1>1, CoreFields
<1>4. setPS(d, PULL(c)) = Flagged(d, p)
  BY DEF setPS, Flagged
<1>5. PLP(c) = [setPS(d, PULL(c)) EXCEPT !.ps = @ \ {"B"}]
  BY DEF PLP, d
<1> HIDE DEF p
<1>6. [Flagged(d, p) EXCEPT !.ps = @ \ {"B"}] = Flagged(d, q)
  BY <1>3 DEF Flagged, Fields
<1>7. Shown(p) = q /\ Shown(q) = q
  BY DEF Shown
<1> HIDE DEF q
<1>8. [Twin(d, k) EXCEPT !.P = q] = Reflagged(Twin(d, k), q)
  BY DEF Reflagged
<1>9. Twin(Flagged(d, p), k) = Reflagged(Twin(d, k), q) /\ Twin(Flagged(d, q), k) = Reflagged(Twin(d, k), q)
  BY <1>3, <1>7, TwinFlagged
<1> QED BY <1>2, <1>4, <1>5, <1>6, <1>8, <1>9 DEF d

LEMMA TwinPHP ==
  ASSUME NEW n, NEW c, Sound(c, Byte, n), NEW k
  PROVE  Twin(PHP(c), k) = Emux!PHP(Twin(c, k))
<1>1. (c.ps \ {"B"}) \cup {"B"} = c.ps \cup {"B"}
  OBVIOUS
<1>2. Emux!PHP(Twin(c, k)) = Emux!push(Twin(c, k), StatusOf(c.ps \cup {"B"}))
  BY <1>1, TwinRegisters, SameStatus DEF Emux!PHP
<1> QED BY <1>2, TwinPushes DEF PHP

LEMMA TwinPLA ==
  ASSUME NEW n, NEW c, Sound(c, Byte, n), NEW k
  PROVE  Twin(PLA(c), k) = Emux!PLA(Twin(c, k))
<1>1. Sound(Popped(c), Byte, n) /\ PULL(c) \in Byte
  BY StackSound, BothRanges
<1>2. Emux!PLA(Twin(c, k)) = Emux!Put(Twin(Popped(c), k), "A", PULL(c))
  BY TwinPulls DEF Emux!PLA
<1>3. Upper["a"] = "A"
  BY DEF Upper
<1> QED BY <1>1, <1>2, <1>3, TwinLoads DEF PLA

LEMMA TwinJSR ==
  ASSUME NEW n, NEW c, Sound(c, Byte, n), NEW k, NEW o
  PROVE  Twin(JSR(c, o), k) = Emux!JSR(Twin(c, k), o)
<1> DEFINE w == (c.pc - 1) % 65536
           d == PUSHW(c, w)
<1>1. w \in Int
  <2>1. c.pc \in Int
    BY Registers, BothRanges
  <2> QED BY <2>1
<1>2. Emux!JSR(Twin(c, k), o) = Emux!Goto(Emux!pushW(Twin(c, k), w), o) /\ JSR(c, o) = Jump(d, o)
  BY TwinRegisters DEF Emux!JSR, JSR
<1> HIDE DEF w
<1>3. Twin(d, k) = Emux!pushW(Twin(c, k), w) /\ Sound(d, Byte, n)
  BY <1>1, TwinPushesWord, PushWordSound, BothRanges
<1> HIDE DEF d
<1> QED BY <1>2, <1>3, TwinGoes

LEMMA TwinRTS ==
  ASSUME NEW n, NEW c, Sound(c, Byte, n), NEW k
  PROVE  Twin(RTS(c), k) = Emux!RTS(Twin(c, k))
<1> DEFINE d == Popped(Popped(c))
<1>1. Sound(d, Byte, n)
  BY StackSound, BothRanges
<1>2. Emux!RTS(Twin(c, k)) = Emux!Goto(Twin(d, k), PULLW(c) + 1)
  BY TwinPulls DEF Emux!RTS
<1> HIDE DEF d
<1>3. Twin(Jump(d, PULLW(c) + 1), k) = Emux!Goto(Twin(d, k), PULLW(c) + 1)
  BY <1>1, TwinGoes
<1> QED BY <1>2, <1>3 DEF RTS, d

(* An IRQ is not due in the other core when this one would not take it. *)
LEMMA NothingDue ==
  ASSUME NEW c, NEW k, ~TakesIRQ(c)
  PROVE  Emux!Serve(Twin(c, k)) = Twin(c, k)
<1>1. ~Emux!Due(Twin(c, k))
  BY TwinRegisters DEF Emux!Due, TakesIRQ
<1> QED BY <1>1 DEF Emux!Serve

LEMMA TwinRTI ==
  ASSUME NEW n, NEW c, Sound(c, Byte, n), NEW k, ~TakesIRQ(RTI(c))
  PROVE  Twin(RTI(c), k) = Emux!RTI(Twin(c, k))
<1> DEFINE t == setPS(Popped(c), PULL(c))
           d == Popped(Popped(t))
<1>1. Sound(t, Byte, n)
  BY StackSound, StatusSound, BothRanges
<1>2. Twin(t, k) = Emux!PLP(Twin(c, k))
  BY TwinPLP
<1>3. RTI(c) = Jump(d, PULLW(t))
  BY DEF RTI
<1> HIDE DEF t
<1>4. Sound(d, Byte, n)
  BY <1>1, StackSound, BothRanges
<1>5. Twin(d, k) = Emux!Less(Twin(t, k), 2) /\ PULLW(t) = Emux!popW(Twin(t, k))
  BY <1>1, TwinPulls
<1> HIDE DEF d
<1>6. Twin(RTI(c), k) = Emux!Goto(Twin(d, k), PULLW(t))
  BY <1>3, <1>4, TwinGoes
<1>7. Emux!RTI(Twin(c, k)) = Emux!Serve(Twin(RTI(c), k))
  BY <1>2, <1>5, <1>6 DEF Emux!RTI
<1> QED BY <1>7, NothingDue

(* On an interrupt and in BRK, I is set and, in this core, D cleared. *)
Broken(t, place)      == Jump(Flag(Flag(t, "D", FALSE), "I", TRUE), place)
Masked(t, place)      == Jump(Flag(Flag(t, "I", TRUE), "D", FALSE), place)
Reentered(e, place) == [Emux!Goto(e, place) EXCEPT !.P = @ \cup {"I"}]
LEMMA TwinMasks ==
  ASSUME NEW n, NEW t, Sound(t, Byte, n), NEW k, "D" \notin t.ps, NEW place
  PROVE  /\ Twin(Broken(t, place), k) = Reentered(Twin(t, k), place)
         /\ Twin(Masked(t, place), k) = Reentered(Twin(t, k), place)
<1> DEFINE P == t.ps \cup {"I"}
           Q == Shown(t.ps) \cup {"I"}
           p == place % 65536
           yes == TRUE
           no == FALSE
<1>1. DOMAIN t = Fields
  BY CoreFields
<1>2. Changed(Changed(t.ps, "D", no), "I", yes) = P /\ Changed(Changed(t.ps, "I", yes), "D", no) = P
  BY DEF Changed
<1>10. /\ Broken(t, place) = Jump(Flag(Flag(t, "D", no), "I", yes), place)
       /\ Masked(t, place) = Jump(Flag(Flag(t, "I", yes), "D", no), place)
  BY DEF Broken, Masked
<1> HIDE DEF yes, no, P
<1>3. Flag(Flag(t, "D", no), "I", yes) = Flagged(t, P) /\ Flag(Flag(t, "I", yes), "D", no) = Flagged(t, P)
  BY <1>1, <1>2, FlagsChange
<1>4. Shown(P) = Q
  BY DEF Shown, P
<1>5. Twin(t, k).P = Shown(t.ps)
  BY TwinRegisters DEF Shown
<1>6. Jump(Flagged(t, P), place) = WithPC(Flagged(t, P), p)
  BY DEF Jump, WithPC
<1>7. DOMAIN Flagged(t, P) = Fields
  BY <1>1, Updates
<1> HIDE DEF p
<1>8. Twin(WithPC(Flagged(t, P), p), k) = PuttingPC(Reflagged(Twin(t, k), Q), p)
  BY <1>1, <1>4, <1>7, TwinUpdates
<1>9. Reentered(Twin(t, k), place) = PuttingPC(Reflagged(Twin(t, k), Q), p)
  <2>1. Emux!Goto(Twin(t, k), place) = PuttingPC(Twin(t, k), p)
    BY DEF Emux!Goto, PuttingPC, p
  <2>2. [PuttingPC(Twin(t, k), p) EXCEPT !.P = @ \cup {"I"}] = PuttingPC(Reflagged(Twin(t, k), Q), p)
    BY <1>5 DEF PuttingPC, Reflagged, Twin
  <2>3. Reentered(Twin(t, k), place) = [Emux!Goto(Twin(t, k), place) EXCEPT !.P = @ \cup {"I"}]
    BY DEF Reentered
  <2> QED BY <2>1, <2>2, <2>3
<1> QED BY <1>3, <1>6, <1>8, <1>9, <1>10

LEMMA PushKeeps ==
  ASSUME NEW c, DOMAIN c = Fields, NEW b
  PROVE  /\ PUSH(c, b).ps = c.ps /\ PUSH(c, b).cyc = c.cyc /\ PUSH(c, b).irq = c.irq
         /\ DOMAIN PUSH(c, b) = Fields
<1> DEFINE d == CPU_POKE(c, 256 + c.sp, b)
<1>1. d.ps = c.ps /\ d.cyc = c.cyc /\ d.irq = c.irq /\ DOMAIN d = Fields
  BY DEF CPU_POKE, Fields
<1>2. PUSH(c, b) = [d EXCEPT !.sp = (@ - 1) % 256]
  BY DEF PUSH
<1> HIDE DEF d
<1> QED BY <1>1, <1>2 DEF Fields

LEMMA TwinBRK ==
  ASSUME NEW n, NEW c, Sound(c, Byte, n), NEW k, "D" \notin c.ps
  PROVE  Twin(BRK(c), k) = Emux!BRK(Twin(c, k))
<1> DEFINE w == (c.pc + 1) % 65536
           d == PUSHW(c, w)
           t == PHP(d)
           place == CPU_PEEKW(t, \hFFFE)
           e == Emux!PHP(Emux!pushW(Twin(c, k), w))
           target == Emux!readAddress(e, \hFFFE)
<1>1. w \in Int
  <2>1. c.pc \in Int
    BY Registers, BothRanges
  <2> QED BY <2>1
<1>2. Emux!BRK(Twin(c, k)) = Reentered(e, target)
  <2> DEFINE E == Twin(c, k)
             f == Emux!PHP(Emux!pushW(E, (E.PC + 1) % 65536))
  <2>1. E.PC = c.pc
    BY TwinRegisters
  <2> HIDE DEF E
  <2>2. Emux!BRK(E) = Reentered(f, Emux!readAddress(f, \hFFFE))
    BY DEF Emux!BRK, Reentered
  <2>3. f = e
    BY <2>1 DEF E
  <2> HIDE DEF f, e
  <2> QED BY <2>2, <2>3 DEF E
<1>3. BRK(c) = Broken(t, place)
  BY DEF BRK, Broken
<1> HIDE DEF w
<1>4. Twin(d, k) = Emux!pushW(Twin(c, k), w) /\ Sound(d, Byte, n)
  BY <1>1, TwinPushesWord, PushWordSound, BothRanges
<1>5. d.ps = c.ps
  BY CoreFields, PushKeeps DEF PUSHW
<1> HIDE DEF d
<1>6. Twin(t, k) = e /\ Sound(t, Byte, n)
  BY <1>4, TwinPHP, StackSound, StatusType, BothRanges DEF PHP
<1>7. t.ps = c.ps
  BY <1>4, <1>5, CoreFields, PushKeeps DEF PHP
<1> HIDE DEF t, e
<1>8. target = place
  BY <1>6, TwinReads
<1> HIDE DEF place, target
<1>9. "D" \notin t.ps
  BY <1>7
<1>10. Twin(Broken(t, place), k) = Reentered(Twin(t, k), place)
  BY <1>6, <1>9, TwinMasks
<1> QED BY <1>2, <1>3, <1>6, <1>8, <1>10

(* What each core does for an instruction. *)
LEMMA CoreTables ==
  /\ DOMAIN Compared = {"CMP", "CPX", "CPY"} /\ DOMAIN Loaded = {"LDA", "LDX", "LDY"}
  /\ DOMAIN Stored = {"STA", "STX", "STY"} /\ DOMAIN Stepped = {"INX", "INY", "DEX", "DEY"}
  /\ DOMAIN Moved = {"TAX", "TAY", "TSX", "TXA", "TYA"}
  /\ DOMAIN Cleared = {"CLC", "CLD", "CLI", "CLV"} /\ DOMAIN Set = {"SEC", "SED", "SEI"}
  /\ DOMAIN Branches = {"BCC", "BCS", "BEQ", "BMI", "BNE", "BPL", "BVC", "BVS"}
<1>1. DOMAIN Compared = {"CMP", "CPX", "CPY"} /\ DOMAIN Loaded = {"LDA", "LDX", "LDY"}
  BY DEF Compared, Loaded
<1>2. DOMAIN Stored = {"STA", "STX", "STY"} /\ DOMAIN Stepped = {"INX", "INY", "DEX", "DEY"}
  BY DEF Stored, Stepped
<1>3. DOMAIN Moved = {"TAX", "TAY", "TSX", "TXA", "TYA"}
  BY DEF Moved
<1>4. DOMAIN Cleared = {"CLC", "CLD", "CLI", "CLV"} /\ DOMAIN Set = {"SEC", "SED", "SEI"}
  BY DEF Cleared, Set
<1>5. DOMAIN Branches = {"BCC", "BCS", "BEQ", "BMI", "BNE", "BPL", "BVC", "BVS"}
  BY DEF Branches
<1> QED BY <1>1, <1>2, <1>3, <1>4, <1>5

LEMMA OtherTables ==
  /\ DOMAIN Emux!Compares = DOMAIN Compared /\ DOMAIN Emux!Loads = DOMAIN Loaded
  /\ DOMAIN Emux!Stores = DOMAIN Stored /\ DOMAIN Emux!Bumps = DOMAIN Stepped
  /\ DOMAIN Emux!Transfers = DOMAIN Moved
  /\ DOMAIN Emux!FlagOps = DOMAIN Cleared \cup DOMAIN Set
  /\ DOMAIN Emux!Jumps = DOMAIN Branches
<1>1. DOMAIN Emux!Compares = DOMAIN Compared /\ DOMAIN Emux!Loads = DOMAIN Loaded
  BY CoreTables DEF Emux!Compares, Emux!Loads
<1>2. DOMAIN Emux!Stores = DOMAIN Stored /\ DOMAIN Emux!Bumps = DOMAIN Stepped
  BY CoreTables DEF Emux!Stores, Emux!Bumps
<1>3. DOMAIN Emux!Transfers = DOMAIN Moved
  BY CoreTables DEF Emux!Transfers
<1>4. DOMAIN Emux!FlagOps = DOMAIN Cleared \cup DOMAIN Set
  BY CoreTables DEF Emux!FlagOps
<1>5. DOMAIN Emux!Jumps = DOMAIN Branches
  BY CoreTables DEF Emux!Jumps
<1> QED BY <1>1, <1>2, <1>3, <1>4, <1>5

LEMMA DoneSimply ==
  ASSUME NEW mode, NEW e, NEW o
  PROVE  /\ Emux!Do("ADC", mode, e, o) = Emux!add(e, Emux!read(e, o))
         /\ Emux!Do("SBC", mode, e, o) = Emux!sub(e, Emux!read(e, o))
         /\ Emux!Do("AND", mode, e, o) = Emux!AND(e, Emux!read(e, o))
         /\ Emux!Do("EOR", mode, e, o) = Emux!EOR(e, Emux!read(e, o))
         /\ Emux!Do("ORA", mode, e, o) = Emux!ORA(e, Emux!read(e, o))
         /\ Emux!Do("BIT", mode, e, o) = Emux!BIT(e, Emux!read(e, o))
         /\ Emux!Do("INC", mode, e, o) = Emux!Bump(e, o, 1)
         /\ Emux!Do("DEC", mode, e, o) = Emux!Bump(e, o, -1)
         /\ Emux!Do("TXS", mode, e, o) = PuttingSP(e, e.X)
         /\ Emux!Do("PHA", mode, e, o) = Emux!push(e, e.A)
         /\ Emux!Do("PHP", mode, e, o) = Emux!PHP(e)
         /\ Emux!Do("PLA", mode, e, o) = Emux!PLA(e)
         /\ Emux!Do("PLP", mode, e, o) = Emux!PLP(e)
         /\ Emux!Do("JMP", mode, e, o) = Emux!Goto(e, o)
         /\ Emux!Do("JSR", mode, e, o) = Emux!JSR(e, o)
         /\ Emux!Do("RTS", mode, e, o) = Emux!RTS(e)
         /\ Emux!Do("RTI", mode, e, o) = Emux!RTI(e)
         /\ Emux!Do("BRK", mode, e, o) = Emux!BRK(e)
         /\ Emux!Do("NOP", mode, e, o) = e
<1>1. Emux!Do("ADC", mode, e, o) = Emux!add(e, Emux!read(e, o))
  BY OtherTables, CoreTables DEF Emux!Do
<1>2. Emux!Do("SBC", mode, e, o) = Emux!sub(e, Emux!read(e, o))
  BY OtherTables, CoreTables DEF Emux!Do
<1>3. Emux!Do("AND", mode, e, o) = Emux!AND(e, Emux!read(e, o))
  BY OtherTables, CoreTables DEF Emux!Do
<1>4. Emux!Do("EOR", mode, e, o) = Emux!EOR(e, Emux!read(e, o))
  BY OtherTables, CoreTables DEF Emux!Do
<1>5. Emux!Do("ORA", mode, e, o) = Emux!ORA(e, Emux!read(e, o))
  BY OtherTables, CoreTables DEF Emux!Do
<1>6. Emux!Do("BIT", mode, e, o) = Emux!BIT(e, Emux!read(e, o))
  BY OtherTables, CoreTables DEF Emux!Do
<1>7. Emux!Do("INC", mode, e, o) = Emux!Bump(e, o, 1)
  BY OtherTables, CoreTables DEF Emux!Do
<1>8. Emux!Do("DEC", mode, e, o) = Emux!Bump(e, o, -1)
  BY OtherTables, CoreTables DEF Emux!Do
<1>9. Emux!Do("TXS", mode, e, o) = PuttingSP(e, e.X)
  BY OtherTables, CoreTables DEF Emux!Do, PuttingSP
<1>11. Emux!Do("PHA", mode, e, o) = Emux!push(e, e.A)
  BY OtherTables, CoreTables DEF Emux!Do
<1>12. Emux!Do("PHP", mode, e, o) = Emux!PHP(e)
  BY OtherTables, CoreTables DEF Emux!Do
<1>13. Emux!Do("PLA", mode, e, o) = Emux!PLA(e)
  BY OtherTables, CoreTables DEF Emux!Do
<1>14. Emux!Do("PLP", mode, e, o) = Emux!PLP(e)
  BY OtherTables, CoreTables DEF Emux!Do
<1>15. Emux!Do("JMP", mode, e, o) = Emux!Goto(e, o)
  BY OtherTables, CoreTables DEF Emux!Do
<1>16. Emux!Do("JSR", mode, e, o) = Emux!JSR(e, o)
  BY OtherTables, CoreTables DEF Emux!Do
<1>17. Emux!Do("RTS", mode, e, o) = Emux!RTS(e)
  BY OtherTables, CoreTables DEF Emux!Do
<1>18. Emux!Do("RTI", mode, e, o) = Emux!RTI(e)
  BY OtherTables, CoreTables DEF Emux!Do
<1>19. Emux!Do("BRK", mode, e, o) = Emux!BRK(e)
  BY OtherTables, CoreTables DEF Emux!Do
<1>20. Emux!Do("NOP", mode, e, o) = e
  BY OtherTables, CoreTables DEF Emux!Do
<1> QED BY <1>1, <1>2, <1>3, <1>4, <1>5, <1>6, <1>7, <1>8, <1>9, <1>11, <1>12, <1>13, <1>14, <1>15, <1>16, <1>17, <1>18, <1>19, <1>20

LEMMA DoneCLI ==
  ASSUME NEW mode, NEW e, NEW o, NEW off, off = FALSE
  PROVE  Emux!Do("CLI", mode, e, o) = Emux!Serve(Emux!SetFlag(e, "I", off))
<1>1. Emux!Do("CLI", mode, e, o) = Emux!Serve(Emux!SetFlag(e, "I", FALSE))
  BY OtherTables, CoreTables DEF Emux!Do
<1> QED BY <1>1, Zenon

LEMMA DoneByTable ==
  ASSUME NEW op, NEW mode, NEW e, NEW o
  PROVE  /\ op \in DOMAIN Compared
              => Emux!Do(op, mode, e, o) = Emux!cmp(e, e[Emux!Compares[op]], Emux!read(e, o))
         /\ op \in DOMAIN Loaded
              => Emux!Do(op, mode, e, o) = Emux!Put(e, Emux!Loads[op], Emux!read(e, o))
         /\ op \in DOMAIN Stored
              => Emux!Do(op, mode, e, o) = Emux!write(e, o, e[Emux!Stores[op]])
         /\ op \in {"ASL", "ROL", "LSR", "ROR"}
              => Emux!Do(op, mode, e, o) = Emux!Shift(op, mode, e, o)
         /\ op \in DOMAIN Stepped
              => Emux!Do(op, mode, e, o) = Emux!Put(e, Emux!Bumps[op][1], (e[Emux!Bumps[op][1]] + Emux!Bumps[op][2]) % 256)
         /\ op \in DOMAIN Moved
              => Emux!Do(op, mode, e, o) = Emux!Put(e, Emux!Transfers[op][2], e[Emux!Transfers[op][1]])
         /\ op \in DOMAIN Emux!FlagOps \ {"CLI"}
              => Emux!Do(op, mode, e, o) = Emux!SetFlag(e, Emux!FlagOps[op][1], Emux!FlagOps[op][2])
         /\ op \in DOMAIN Branches
              => Emux!Do(op, mode, e, o) = Emux!rel_jmp(e, Emux!Jumps[op][1], Emux!Jumps[op][2])
<1>1. ASSUME op \in DOMAIN Compared PROVE Emux!Do(op, mode, e, o) = Emux!cmp(e, e[Emux!Compares[op]], Emux!read(e, o))
  BY <1>1, OtherTables, CoreTables DEF Emux!Do
<1>2. ASSUME op \in DOMAIN Loaded PROVE Emux!Do(op, mode, e, o) = Emux!Put(e, Emux!Loads[op], Emux!read(e, o))
  BY <1>2, OtherTables, CoreTables DEF Emux!Do
<1>3. ASSUME op \in DOMAIN Stored PROVE Emux!Do(op, mode, e, o) = Emux!write(e, o, e[Emux!Stores[op]])
  BY <1>3, OtherTables, CoreTables DEF Emux!Do
<1>4. ASSUME op \in {"ASL", "ROL", "LSR", "ROR"} PROVE Emux!Do(op, mode, e, o) = Emux!Shift(op, mode, e, o)
  BY <1>4, OtherTables, CoreTables DEF Emux!Do
<1>5. ASSUME op \in DOMAIN Stepped PROVE Emux!Do(op, mode, e, o) = Emux!Put(e, Emux!Bumps[op][1], (e[Emux!Bumps[op][1]] + Emux!Bumps[op][2]) % 256)
  BY <1>5, OtherTables, CoreTables, ZenonT(60) DEF Emux!Do
<1>6. ASSUME op \in DOMAIN Moved PROVE Emux!Do(op, mode, e, o) = Emux!Put(e, Emux!Transfers[op][2], e[Emux!Transfers[op][1]])
  BY <1>6, OtherTables, CoreTables DEF Emux!Do
<1>7. ASSUME op \in DOMAIN Emux!FlagOps \ {"CLI"} PROVE Emux!Do(op, mode, e, o) = Emux!SetFlag(e, Emux!FlagOps[op][1], Emux!FlagOps[op][2])
  BY <1>7, OtherTables, CoreTables DEF Emux!Do
<1>8. ASSUME op \in DOMAIN Branches PROVE Emux!Do(op, mode, e, o) = Emux!rel_jmp(e, Emux!Jumps[op][1], Emux!Jumps[op][2])
  BY <1>8, OtherTables, CoreTables DEF Emux!Do
<1> QED BY <1>1, <1>2, <1>3, <1>4, <1>5, <1>6, <1>7, <1>8

(* Where an instruction does the same in both cores, and what the table     *)
(* gives instructions that the other core tells apart by their mode.        *)
Alike(op, c, o) ==
  /\ op \in {"ADC", "SBC", "BRK"} => "D" \notin c.ps
  /\ op \in {"CLI", "RTI"} => ~TakesIRQ(Run(op, c, o))
Applies(op, mode) ==
  /\ op \in {"ASLA", "LSRA", "ROLA", "RORA"} => mode = NoOperand
  /\ op \in {"ASL", "LSR", "ROL", "ROR"} => mode \in {"zp", "abs", "zpx", "absx"}

(* The twin of a core after an instruction is what the other core makes of  *)
(* the twin.                                                               *)
LEMMA TwinRuns ==
  ASSUME NEW n \in Nat, NEW c, Sound(c, Byte, n), NEW k \in Int, NEW o \in Int, NEW mode,
         NEW op \in Instructions, Alike(op, c, o), Applies(op, mode)
  PROVE  Twin(Run(op, c, o), k) = Emux!Do(Plain(op), mode, Twin(c, k), o)
<1> SUFFICES ASSUME NEW v, v = CPU_PEEK(c, o), NEW e, e = Twin(c, k)
             PROVE  Twin(Run(op, c, o), k) = Emux!Do(Plain(op), mode, e, o)
  OBVIOUS
<1>1. v \in Byte /\ v = Emux!read(e, o)
  BY PeekType, TwinReads
<1>2. op \notin {"ASLA", "LSRA", "ROLA", "RORA"} => Plain(op) = op
  BY DEF Plain
<1>3. /\ DOMAIN c = Fields /\ e.A = c.a /\ e.X = c.x
  BY CoreFields, TwinRegisters
<1>4. CASE op = "ADC"
  <2>1. Run(op, c, o) = ADC(c, v)
    BY <1>4 DEF Run, Compared, Stepped, Loaded, Stored, Moved, Cleared, Set, Branches
  <2>2. Plain(op) = op /\ Emux!Do("ADC", mode, e, o) = Emux!add(e, v)
    BY <1>1, <1>2, <1>4, DoneSimply
  <2>3. Twin(ADC(c, v), k) = Emux!add(e, v)
    BY <1>1, <1>3, <1>4, TwinAdds DEF Alike
  <2> QED BY <1>4, <2>1, <2>2, <2>3
<1>5. CASE op = "SBC"
  <2>1. Run(op, c, o) = SBC(c, v)
    BY <1>5 DEF Run, Compared, Stepped, Loaded, Stored, Moved, Cleared, Set, Branches
  <2>2. Plain(op) = op /\ Emux!Do("SBC", mode, e, o) = Emux!sub(e, v)
    BY <1>1, <1>2, <1>5, DoneSimply
  <2>3. Twin(SBC(c, v), k) = Emux!sub(e, v)
    BY <1>1, <1>3, <1>5, TwinSubtracts DEF Alike
  <2> QED BY <1>5, <2>1, <2>2, <2>3
<1>6. CASE op = "AND"
  <2>1. Run(op, c, o) = AND(c, v)
    BY <1>6 DEF Run, Compared, Stepped, Loaded, Stored, Moved, Cleared, Set, Branches
  <2>2. Plain(op) = op /\ Emux!Do("AND", mode, e, o) = Emux!AND(e, v)
    BY <1>1, <1>2, <1>6, DoneSimply
  <2>3. Twin(AND(c, v), k) = Emux!AND(e, v)
    BY <1>1, <1>3, <1>6, TwinLogic
  <2> QED BY <1>6, <2>1, <2>2, <2>3
<1>7. CASE op = "EOR"
  <2>1. Run(op, c, o) = EOR(c, v)
    BY <1>7 DEF Run, Compared, Stepped, Loaded, Stored, Moved, Cleared, Set, Branches
  <2>2. Plain(op) = op /\ Emux!Do("EOR", mode, e, o) = Emux!EOR(e, v)
    BY <1>1, <1>2, <1>7, DoneSimply
  <2>3. Twin(EOR(c, v), k) = Emux!EOR(e, v)
    BY <1>1, <1>3, <1>7, TwinLogic
  <2> QED BY <1>7, <2>1, <2>2, <2>3
<1>8. CASE op = "ORA"
  <2>1. Run(op, c, o) = ORA(c, v)
    BY <1>8 DEF Run, Compared, Stepped, Loaded, Stored, Moved, Cleared, Set, Branches
  <2>2. Plain(op) = op /\ Emux!Do("ORA", mode, e, o) = Emux!ORA(e, v)
    BY <1>1, <1>2, <1>8, DoneSimply
  <2>3. Twin(ORA(c, v), k) = Emux!ORA(e, v)
    BY <1>1, <1>3, <1>8, TwinLogic
  <2> QED BY <1>8, <2>1, <2>2, <2>3
<1>9. CASE op = "BIT"
  <2>1. Run(op, c, o) = BIT(c, v)
    BY <1>9 DEF Run, Compared, Stepped, Loaded, Stored, Moved, Cleared, Set, Branches
  <2>2. Plain(op) = op /\ Emux!Do("BIT", mode, e, o) = Emux!BIT(e, v)
    BY <1>1, <1>2, <1>9, DoneSimply
  <2>3. Twin(BIT(c, v), k) = Emux!BIT(e, v)
    BY <1>1, <1>3, <1>9, TwinTestsBits
  <2> QED BY <1>9, <2>1, <2>2, <2>3
<1>10. CASE op = "INC"
  <2>1. Run(op, c, o) = StepAt(c, o, 1)
    BY <1>10 DEF Run, Compared, Stepped, Loaded, Stored, Moved, Cleared, Set, Branches
  <2>2. Plain(op) = op /\ Emux!Do("INC", mode, e, o) = Emux!Bump(e, o, 1)
    BY <1>1, <1>2, <1>10, DoneSimply
  <2>3. Twin(StepAt(c, o, 1), k) = Emux!Bump(e, o, 1)
    BY <1>1, <1>3, <1>10, TwinStepsAt
  <2> QED BY <1>10, <2>1, <2>2, <2>3
<1>11. CASE op = "DEC"
  <2>1. Run(op, c, o) = StepAt(c, o, -1)
    BY <1>11 DEF Run, Compared, Stepped, Loaded, Stored, Moved, Cleared, Set, Branches
  <2>2. Plain(op) = op /\ Emux!Do("DEC", mode, e, o) = Emux!Bump(e, o, -1)
    BY <1>1, <1>2, <1>11, DoneSimply
  <2>3. Twin(StepAt(c, o, -1), k) = Emux!Bump(e, o, -1)
    BY <1>1, <1>3, <1>11, TwinStepsAt
  <2> QED BY <1>11, <2>1, <2>2, <2>3
<1>12. CASE op = "TXS"
  <2>1. Run(op, c, o) = TXS(c)
    BY <1>12 DEF Run, Compared, Stepped, Loaded, Stored, Moved, Cleared, Set, Branches
  <2>2. Plain(op) = op /\ Emux!Do("TXS", mode, e, o) = PuttingSP(e, e.X)
    BY <1>1, <1>2, <1>12, DoneSimply
  <2>3. Twin(TXS(c), k) = PuttingSP(e, e.X)
    BY <1>1, <1>3, <1>12, TwinTXS DEF PuttingSP
  <2> QED BY <1>12, <2>1, <2>2, <2>3
<1>13. CASE op = "PHA"
  <2>1. Run(op, c, o) = PUSH(c, c.a)
    BY <1>13 DEF Run, Compared, Stepped, Loaded, Stored, Moved, Cleared, Set, Branches
  <2>2. Plain(op) = op /\ Emux!Do("PHA", mode, e, o) = Emux!push(e, e.A)
    BY <1>1, <1>2, <1>13, DoneSimply
  <2>3. Twin(PUSH(c, c.a), k) = Emux!push(e, e.A)
    BY <1>1, <1>3, <1>13, TwinPushes
  <2> QED BY <1>13, <2>1, <2>2, <2>3
<1>14. CASE op = "PHP"
  <2>1. Run(op, c, o) = PHP(c)
    BY <1>14 DEF Run, Compared, Stepped, Loaded, Stored, Moved, Cleared, Set, Branches
  <2>2. Plain(op) = op /\ Emux!Do("PHP", mode, e, o) = Emux!PHP(e)
    BY <1>1, <1>2, <1>14, DoneSimply
  <2>3. Twin(PHP(c), k) = Emux!PHP(e)
    BY <1>1, <1>3, <1>14, TwinPHP
  <2> QED BY <1>14, <2>1, <2>2, <2>3
<1>15. CASE op = "PLA"
  <2>1. Run(op, c, o) = PLA(c)
    BY <1>15 DEF Run, Compared, Stepped, Loaded, Stored, Moved, Cleared, Set, Branches
  <2>2. Plain(op) = op /\ Emux!Do("PLA", mode, e, o) = Emux!PLA(e)
    BY <1>1, <1>2, <1>15, DoneSimply
  <2>3. Twin(PLA(c), k) = Emux!PLA(e)
    BY <1>1, <1>3, <1>15, TwinPLA
  <2> QED BY <1>15, <2>1, <2>2, <2>3
<1>16. CASE op = "PLP"
  <2>1. Run(op, c, o) = PLP(c)
    BY <1>16 DEF Run, Compared, Stepped, Loaded, Stored, Moved, Cleared, Set, Branches
  <2>2. Plain(op) = op /\ Emux!Do("PLP", mode, e, o) = Emux!PLP(e)
    BY <1>1, <1>2, <1>16, DoneSimply
  <2>3. Twin(PLP(c), k) = Emux!PLP(e)
    BY <1>1, <1>3, <1>16, TwinPLP
  <2> QED BY <1>16, <2>1, <2>2, <2>3
<1>17. CASE op = "JMP"
  <2>1. Run(op, c, o) = Jump(c, o)
    BY <1>17 DEF Run, Compared, Stepped, Loaded, Stored, Moved, Cleared, Set, Branches
  <2>2. Plain(op) = op /\ Emux!Do("JMP", mode, e, o) = Emux!Goto(e, o)
    BY <1>1, <1>2, <1>17, DoneSimply
  <2>3. Twin(Jump(c, o), k) = Emux!Goto(e, o)
    BY <1>1, <1>3, <1>17, TwinGoes
  <2> QED BY <1>17, <2>1, <2>2, <2>3
<1>18. CASE op = "JSR"
  <2>1. Run(op, c, o) = JSR(c, o)
    BY <1>18 DEF Run, Compared, Stepped, Loaded, Stored, Moved, Cleared, Set, Branches
  <2>2. Plain(op) = op /\ Emux!Do("JSR", mode, e, o) = Emux!JSR(e, o)
    BY <1>1, <1>2, <1>18, DoneSimply
  <2>3. Twin(JSR(c, o), k) = Emux!JSR(e, o)
    BY <1>1, <1>3, <1>18, TwinJSR
  <2> QED BY <1>18, <2>1, <2>2, <2>3
<1>19. CASE op = "RTS"
  <2>1. Run(op, c, o) = RTS(c)
    BY <1>19 DEF Run, Compared, Stepped, Loaded, Stored, Moved, Cleared, Set, Branches
  <2>2. Plain(op) = op /\ Emux!Do("RTS", mode, e, o) = Emux!RTS(e)
    BY <1>1, <1>2, <1>19, DoneSimply
  <2>3. Twin(RTS(c), k) = Emux!RTS(e)
    BY <1>1, <1>3, <1>19, TwinRTS
  <2> QED BY <1>19, <2>1, <2>2, <2>3
<1>20. CASE op = "RTI"
  <2>1. Run(op, c, o) = RTI(c)
    BY <1>20 DEF Run, Compared, Stepped, Loaded, Stored, Moved, Cleared, Set, Branches
  <2>2. Plain(op) = op /\ Emux!Do("RTI", mode, e, o) = Emux!RTI(e)
    BY <1>1, <1>2, <1>20, DoneSimply
  <2>3. Twin(RTI(c), k) = Emux!RTI(e)
    BY <1>1, <1>3, <1>20, TwinRTI, <2>1 DEF Alike
  <2> QED BY <1>20, <2>1, <2>2, <2>3
<1>21. CASE op = "BRK"
  <2>1. Run(op, c, o) = BRK(c)
    BY <1>21 DEF Run, Compared, Stepped, Loaded, Stored, Moved, Cleared, Set, Branches
  <2>2. Plain(op) = op /\ Emux!Do("BRK", mode, e, o) = Emux!BRK(e)
    BY <1>1, <1>2, <1>21, DoneSimply
  <2>3. Twin(BRK(c), k) = Emux!BRK(e)
    BY <1>1, <1>3, <1>21, TwinBRK DEF Alike
  <2> QED BY <1>21, <2>1, <2>2, <2>3
<1>22. CASE op = "NOP"
  <2>1. Run(op, c, o) = c
    BY <1>22 DEF Run, Compared, Stepped, Loaded, Stored, Moved, Cleared, Set, Branches
  <2>2. Plain(op) = op /\ Emux!Do("NOP", mode, e, o) = e
    BY <1>1, <1>2, <1>22, DoneSimply
  <2>3. Twin(c, k) = e
    BY <1>1, <1>3, <1>22
  <2> QED BY <1>22, <2>1, <2>2, <2>3
<1>23. CASE op = "CLI"
  <2> DEFINE f == Cleared["CLI"]
             off == FALSE
  <2>1. Run(op, c, o) = Flag(c, f, off)
    BY <1>23 DEF Run, Compared, Stepped, Loaded, Stored, Moved, Cleared, Set, Branches
  <2>2. f = "I"
    BY DEF Cleared
  <2>3. Plain(op) = op /\ Emux!Do("CLI", mode, e, o) = Emux!Serve(Emux!SetFlag(e, "I", off))
    BY <1>1, <1>2, <1>23, DoneCLI
  <2> HIDE DEF f, off
  <2>4. Twin(Flag(c, f, off), k) = Emux!SetFlag(e, "I", off)
    BY <2>2, TwinFlags
  <2>5. ~TakesIRQ(Flag(c, f, off))
    BY <1>23, <2>1 DEF Alike
  <2> QED BY <1>23, <2>1, <2>3, <2>4, <2>5, NothingDue
<1>24. CASE op \in DOMAIN Compared
  <2>1. Run(op, c, o) = Compare(c, Compared[op], v)
    BY <1>24 DEF Run, Compared, Stepped, Loaded, Stored, Moved, Cleared, Set, Branches
  <2>2. Plain(op) = op
    BY <1>2, <1>24, CoreTables
  <2>3. Emux!Do(op, mode, e, o) = Emux!cmp(e, e[Emux!Compares[op]], v)
    BY <1>1, <1>24, DoneByTable
  <2>4. Twin(Compare(c, Compared[op], v), k) = Emux!cmp(e, e[Emux!Compares[op]], v)
    BY <1>1, <1>24, SameTables, TwinCompares
  <2> QED BY <2>1, <2>2, <2>3, <2>4
<1>25. CASE op \in DOMAIN Loaded
  <2>1. Run(op, c, o) = Load(c, Loaded[op], v)
    BY <1>25 DEF Run, Compared, Stepped, Loaded, Stored, Moved, Cleared, Set, Branches
  <2>2. Plain(op) = op
    BY <1>2, <1>25, CoreTables
  <2>3. Emux!Do(op, mode, e, o) = Emux!Put(e, Emux!Loads[op], v)
    BY <1>1, <1>25, DoneByTable
  <2>4. Twin(Load(c, Loaded[op], v), k) = Emux!Put(e, Emux!Loads[op], v)
    BY <1>1, <1>25, SameTables, TwinLoads
  <2> QED BY <2>1, <2>2, <2>3, <2>4
<1>26. CASE op \in DOMAIN Stored
  <2>1. Run(op, c, o) = CPU_POKE(c, o, c[Stored[op]])
    BY <1>26 DEF Run, Compared, Stepped, Loaded, Stored, Moved, Cleared, Set, Branches
  <2>2. Plain(op) = op
    BY <1>2, <1>26, CoreTables
  <2>3. Emux!Do(op, mode, e, o) = Emux!write(e, o, e[Emux!Stores[op]])
    BY <1>1, <1>26, DoneByTable
  <2>4. Twin(CPU_POKE(c, o, c[Stored[op]]), k) = Emux!write(e, o, e[Emux!Stores[op]])
    BY <1>1, <1>26, SameTables, TwinRegister, TwinWrites
  <2> QED BY <2>1, <2>2, <2>3, <2>4
<1>27. CASE op \in {"ASL", "LSR", "ROL", "ROR"}
  <2>1. Run(op, c, o) = ShiftAt(op, c, o)
    BY <1>27 DEF Run, Compared, Stepped, Loaded, Stored, Moved, Cleared, Set, Branches
  <2>2. Plain(op) = op
    BY <1>2, <1>27, CoreTables
  <2>3. Emux!Do(op, mode, e, o) = Emux!Shift(op, mode, e, o)
    BY <1>1, <1>27, DoneByTable
  <2>4. mode \in {"zp", "abs", "zpx", "absx"}
    BY <1>27 DEF Applies
  <2>5. Twin(ShiftAt(op, c, o), k) = Emux!Shift(op, mode, e, o)
    BY <1>27, <2>4, TwinShiftsAt
  <2> QED BY <2>1, <2>2, <2>3, <2>5
<1>28. CASE op \in DOMAIN Stepped
  <2>1. Run(op, c, o) = Load(c, Stepped[op][1], (c[Stepped[op][1]] + Stepped[op][2]) % 256)
    BY <1>28, SteppedRun
  <2>2. Plain(op) = op
    BY <1>2, <1>28, CoreTables
  <2>3. Emux!Do(op, mode, e, o) = Emux!Put(e, Emux!Bumps[op][1], (e[Emux!Bumps[op][1]] + Emux!Bumps[op][2]) % 256)
    BY <1>1, <1>28, DoneByTable
  <2>4. Twin(Load(c, Stepped[op][1], (c[Stepped[op][1]] + Stepped[op][2]) % 256), k) = Emux!Put(e, Emux!Bumps[op][1], (e[Emux!Bumps[op][1]] + Emux!Bumps[op][2]) % 256)
    BY <1>1, <1>28, SameBumps, TwinSteps
  <2> QED BY <2>1, <2>2, <2>3, <2>4
<1>29. CASE op \in DOMAIN Moved
  <2>1. Run(op, c, o) = Load(c, Moved[op][2], c[Moved[op][1]])
    BY <1>29 DEF Run, Compared, Stepped, Loaded, Stored, Moved, Cleared, Set, Branches
  <2>2. Plain(op) = op
    BY <1>2, <1>29, CoreTables
  <2>3. Emux!Do(op, mode, e, o) = Emux!Put(e, Emux!Transfers[op][2], e[Emux!Transfers[op][1]])
    BY <1>1, <1>29, DoneByTable
  <2>4. Twin(Load(c, Moved[op][2], c[Moved[op][1]]), k) = Emux!Put(e, Emux!Transfers[op][2], e[Emux!Transfers[op][1]])
    BY <1>1, <1>29, SameMoves, TwinMoves
  <2> QED BY <2>1, <2>2, <2>3, <2>4
<1>30. CASE op \in DOMAIN Branches
  <2>1. Run(op, c, o) = Branch(op, c)
    BY <1>30 DEF Run, Compared, Stepped, Loaded, Stored, Moved, Cleared, Set, Branches
  <2>2. Plain(op) = op
    BY <1>2, <1>30, CoreTables
  <2>3. Emux!Do(op, mode, e, o) = Emux!rel_jmp(e, Emux!Jumps[op][1], Emux!Jumps[op][2])
    BY <1>1, <1>30, DoneByTable
  <2>4. Twin(Branch(op, c), k) = Emux!rel_jmp(e, Emux!Jumps[op][1], Emux!Jumps[op][2])
    BY <1>1, <1>30, TwinBranches
  <2> QED BY <2>1, <2>2, <2>3, <2>4
<1>31. CASE op \in DOMAIN Cleared \ {"CLI"}
  <2> DEFINE f == Cleared[op]
             on == FALSE
  <2>1. Run(op, c, o) = Flag(c, f, on)
    BY <1>31 DEF Run, Compared, Stepped, Loaded, Stored, Moved, Cleared, Set, Branches
  <2>2. Plain(op) = op
    BY <1>2, <1>31, CoreTables
  <2>3. f # "B" /\ Emux!FlagOps[op][1] = f /\ Emux!FlagOps[op][2] = on
    BY <1>31, SameFlagOps
  <2>4. op \in DOMAIN Emux!FlagOps \ {"CLI"}
    BY <1>31, CoreTables, OtherTables
  <2> HIDE DEF f, on
  <2>5. Emux!Do(op, mode, e, o) = Emux!SetFlag(e, f, on)
    BY <1>1, <2>3, <2>4, DoneByTable
  <2>6. Twin(Flag(c, f, on), k) = Emux!SetFlag(e, f, on)
    BY <2>3, TwinFlags
  <2> QED BY <2>1, <2>2, <2>5, <2>6
<1>32. CASE op \in DOMAIN Set
  <2> DEFINE f == Set[op]
             on == TRUE
  <2>1. Run(op, c, o) = Flag(c, f, on)
    BY <1>32 DEF Run, Compared, Stepped, Loaded, Stored, Moved, Cleared, Set, Branches
  <2>2. Plain(op) = op
    BY <1>2, <1>32, CoreTables
  <2>3. f # "B" /\ Emux!FlagOps[op][1] = f /\ Emux!FlagOps[op][2] = on
    BY <1>32, SameFlagOps
  <2>4. op \in DOMAIN Emux!FlagOps \ {"CLI"}
    BY <1>32, CoreTables, OtherTables
  <2> HIDE DEF f, on
  <2>5. Emux!Do(op, mode, e, o) = Emux!SetFlag(e, f, on)
    BY <1>1, <2>3, <2>4, DoneByTable
  <2>6. Twin(Flag(c, f, on), k) = Emux!SetFlag(e, f, on)
    BY <2>3, TwinFlags
  <2> QED BY <2>1, <2>2, <2>5, <2>6
<1>33. CASE op \in {"ASLA", "LSRA", "ROLA", "RORA"}
  <2>1. Run(op, c, o) = ShiftA(op, c)
    BY <1>33 DEF Run, Compared, Stepped, Loaded, Stored, Moved, Cleared, Set, Branches
  <2>2. Plain(op) \in {"ASL", "ROL", "LSR", "ROR"}
    BY <1>33 DEF Plain
  <2>3. Emux!Do(Plain(op), mode, e, o) = Emux!Shift(Plain(op), mode, e, o)
    BY <1>1, <2>2, DoneByTable
  <2>4. mode = NoOperand
    BY <1>33 DEF Applies
  <2>5. Twin(ShiftA(op, c), k) = Emux!Shift(Plain(op), NoOperand, e, o)
    BY <1>33, TwinShiftsA
  <2> QED BY <2>1, <2>3, <2>4, <2>5
<1> QED BY <1>4, <1>5, <1>6, <1>7, <1>8, <1>9, <1>10, <1>11, <1>12, <1>13, <1>14, <1>15, <1>16, <1>17, <1>18, <1>19, <1>20, <1>21, <1>22, <1>23, <1>24, <1>25, <1>26, <1>27, <1>28, <1>29, <1>30, <1>31, <1>32, <1>33, CoreTables DEF Instructions

------------------------------------------------------------------------------
(* The two cores: operands, opcodes and cycles *)

(* The operands. *)
LEMMA LowByte ==
  ASSUME NEW lo \in Byte, NEW hi \in Byte
  PROVE  (lo + 256 * hi) % 256 = lo
<1>1. lo \in 0..255 /\ hi \in Int
  BY DEF Byte
<1> QED BY <1>1

LEMMA NextByte ==
  ASSUME NEW z \in Byte, z # 255
  PROVE  z + 1 = (z + 1) % 256
  BY DEF Byte

LEMMA TwinZeroPage ==
  ASSUME NEW n, NEW c, Sound(c, Byte, n), NEW k, NEW z \in Byte, z # 255
  PROVE  Emux!ZeroPageWord(Twin(c, k), z) = CPU_PEEKW(c, z)
<1> DEFINE y == z + 1
<1>1. y = (z + 1) % 256
  BY NextByte
<1>2. CPU_PEEKW(c, z) = CPU_PEEK(c, z) + 256 * CPU_PEEK(c, y)
  BY DEF CPU_PEEKW, CPU_PEEK, WordAt
<1>3. Emux!ZeroPageWord(Twin(c, k), z) = Emux!read(Twin(c, k), z) + 256 * Emux!read(Twin(c, k), (z + 1) % 256)
  BY DEF Emux!ZeroPageWord
<1> HIDE DEF y
<1> QED BY <1>1, <1>2, <1>3, TwinReads

LEMMA TwinPlain ==
  ASSUME NEW n, NEW c, Sound(c, Byte, n), NEW k
  PROVE  /\ Operand("imm", c) = Emux!Address("imm", Twin(c, k))
         /\ Operand("zp", c) = Emux!Address("zp", Twin(c, k))
         /\ Operand("zpx", c) = Emux!Address("zpx", Twin(c, k))
         /\ Operand("zpy", c) = Emux!Address("zpy", Twin(c, k))
         /\ Operand("abs", c) = Emux!Address("abs", Twin(c, k))
         /\ Operand("absx", c) = Emux!Address("absx", Twin(c, k))
         /\ Operand("absy", c) = Emux!Address("absy", Twin(c, k))
         /\ Emux!Et("absx", Twin(c, k)) = Base("absx", c)
         /\ Emux!Et("absy", Twin(c, k)) = Base("absy", c)
<1> SUFFICES ASSUME NEW e, e = Twin(c, k)
             PROVE  /\ Operand("imm", c) = Emux!Address("imm", e)
                    /\ Operand("zp", c) = Emux!Address("zp", e)
                    /\ Operand("zpx", c) = Emux!Address("zpx", e)
                    /\ Operand("zpy", c) = Emux!Address("zpy", e)
                    /\ Operand("abs", c) = Emux!Address("abs", e)
                    /\ Operand("absx", c) = Emux!Address("absx", e)
                    /\ Operand("absy", c) = Emux!Address("absy", e)
                    /\ Emux!Et("absx", e) = Base("absx", c)
                    /\ Emux!Et("absy", e) = Base("absy", c)
  OBVIOUS
<1>1. /\ e.PC = c.pc /\ e.X = c.x /\ e.Y = c.y
      /\ Emux!read(e, e.PC) = ZeroPage(c) /\ Emux!readAddress(e, e.PC) = Absolute(c)
  BY TwinRegisters, TwinReads DEF ZeroPage, Absolute
<1>2. Operand("imm", c) = Emux!Address("imm", e)
  BY <1>1 DEF Operand, Emux!Address
<1>3. Operand("zp", c) = Emux!Address("zp", e)
  BY <1>1 DEF Operand, Base, Emux!Address
<1>4. Operand("zpx", c) = Emux!Address("zpx", e)
  BY <1>1 DEF Operand, Emux!Address
<1>5. Operand("zpy", c) = Emux!Address("zpy", e)
  BY <1>1 DEF Operand, Emux!Address
<1>6. Operand("abs", c) = Emux!Address("abs", e)
  BY <1>1 DEF Operand, Base, Emux!Address
<1>7. Emux!Et("absx", e) = Base("absx", c)
  BY <1>1 DEF Base, Emux!Et
<1>8. Emux!Et("absy", e) = Base("absy", c)
  BY <1>1 DEF Base, Emux!Et
<1>9. Emux!Address("absx", e) = (Emux!Et("absx", e) + e.X) % 65536
  BY DEF Emux!Address, Emux!EA_AX
<1>10. Emux!Address("absy", e) = (Emux!Et("absy", e) + e.Y) % 65536
  BY DEF Emux!Address, Emux!EA_AY, Emux!Et
<1>11. Operand("absx", c) = (Base("absx", c) + c.x) % 65536
  BY DEF Operand
<1>12. Operand("absy", c) = (Base("absy", c) + c.y) % 65536
  BY DEF Operand
<1> QED BY <1>1, <1>2, <1>3, <1>4, <1>5, <1>6, <1>7, <1>8, <1>9, <1>10, <1>11, <1>12

LEMMA TwinIndirect ==
  ASSUME NEW n, NEW c, Sound(c, Byte, n), NEW k
  PROVE  /\ ZeroPage(c) # 255
              => /\ Operand("indy", c) = Emux!Address("indy", Twin(c, k))
                 /\ Operand("indy2", c) = Emux!Address("indy", Twin(c, k))
                 /\ Emux!Et("indy", Twin(c, k)) = Base("indy2", c)
                 /\ Base("indy", c) = Base("indy2", c) /\ Base("indy2", c) = CPU_PEEKW(c, ZeroPage(c))
         /\ (ZeroPage(c) + c.x) % 256 # 255
              => Operand("indx", c) = Emux!Address("indx", Twin(c, k))
         /\ ZeroPage(c) # 255 => Operand("ind", c) = Emux!Address("ind", Twin(c, k))
<1> DEFINE e == Twin(c, k)
           z == ZeroPage(c)
           i == (z + c.x) % 256
           b == CPU_PEEKW(c, z)
           w == Absolute(c)
<1>1. /\ e.PC = c.pc /\ e.X = c.x /\ e.Y = c.y
      /\ Emux!read(e, e.PC) = z /\ Emux!readAddress(e, e.PC) = w
  BY TwinRegisters, TwinReads DEF ZeroPage, Absolute
<1>2. z \in Byte /\ i \in Byte
  <2>1. z \in Byte /\ c.x \in Int
    BY PeekType, Registers, BothRanges DEF ZeroPage
  <2>3. z \in Int /\ c.x \in Int
    BY <2>1, Integral
  <2>2. z + c.x \in Int
    BY <2>3
  <2> QED BY <2>1, <2>2, Remainders
<1>3. z # 255 => Emux!ZeroPageWord(e, z) = b
  BY <1>2, TwinZeroPage
<1>4. i # 255 => Emux!ZeroPageWord(e, i) = CPU_PEEKW(c, i)
  BY <1>2, TwinZeroPage
<1>5. w % 256 = z
  <2>1. w = z + 256 * CPU_PEEK(c, c.pc + 1)
    BY DEF Absolute, ZeroPage, CPU_PEEKW, CPU_PEEK, WordAt
  <2>2. CPU_PEEK(c, c.pc + 1) \in Byte
    BY PeekType
  <2> DEFINE hi == CPU_PEEK(c, c.pc + 1)
  <2> HIDE DEF hi, w, z
  <2> QED BY <1>2, <2>1, <2>2, LowByte DEF hi
<1>6. Emux!readAddress(e, w) = CPU_PEEKW(c, w)
  BY TwinReads
<1>7. Base("indy", c) = b /\ Base("indy2", c) = b
  BY DEF Base
<1>8. Operand("indy", c) = (b + c.y) % 65536 /\ Operand("indy2", c) = (b + c.y) % 65536
  BY <1>7 DEF Operand
<1>9. Operand("indx", c) = CPU_PEEKW(c, i) /\ Operand("ind", c) = CPU_PEEKW(c, w)
  BY DEF Operand
<1> HIDE DEF e, z, b, w
<1>10. Emux!Et("indy", e) = Emux!ZeroPageWord(e, z)
  BY <1>1 DEF Emux!Et
<1>11. Emux!Address("indy", e) = (Emux!Et("indy", e) + e.Y) % 65536
  BY DEF Emux!Address, Emux!EA_IY
<1>12. Emux!Address("indx", e) = Emux!ZeroPageWord(e, i)
  BY <1>1 DEF Emux!Address, Emux!EA_IX
<1>13. z # 255 => Emux!Address("ind", e) = Emux!readAddress(e, w)
  BY <1>1, <1>5 DEF Emux!Address, Emux!Target
<1>14. z # 255 => /\ Operand("indy", c) = Emux!Address("indy", e)
                  /\ Operand("indy2", c) = Emux!Address("indy", e)
                  /\ Emux!Et("indy", e) = b
  BY <1>1, <1>3, <1>8, <1>10, <1>11
<1>15. i # 255 => Operand("indx", c) = Emux!Address("indx", e)
  BY <1>4, <1>9, <1>12
<1>16. z # 255 => Operand("ind", c) = Emux!Address("ind", e)
  BY <1>6, <1>9, <1>13
<1> QED BY <1>7, <1>14, <1>15, <1>16 DEF e, z, b

(* What indexing costs. *)
LEMMA BitOfWord ==
  ASSUME NEW i \in Int, NEW j, j = i % 65536
  PROVE  Bit(j, 8) = Bit(i, 8)
<1> DEFINE q == i \div 65536
<1>1. q \in Int /\ j \in Int /\ i = 65536 * q + j
  OBVIOUS
<1>2. i \div 256 = 256 * q + (j \div 256)
  BY <1>1
<1> HIDE DEF q
<1>3. (i \div 256) % 2 = (j \div 256) % 2
  BY <1>1, <1>2
<1> QED BY <1>3 DEF Bit

LEMMA TwinPages ==
  ASSUME NEW f \in Int, NEW b \in Byte, NEW g, Bit(g, 8) = Bit(f + b, 8)
  PROVE  PageCrossed(f, b) = 1 <=> Emux!Bit(g, 8) # Emux!Bit(f, 8)
<1>1. b \in Int /\ -128 <= b /\ b <= 255
  BY DEF Byte
<1>2. Bit(f, 8) # Bit(f + b, 8) <=> HiByte(f) # HiByte(f + b)
  BY <1>1, PageBit
<1>3. PageCrossed(f, b) = 1 <=> HiByte(f) # HiByte(f + b)
  BY DEF PageCrossed
<1>4. Emux!Bit(g, 8) = Bit(g, 8) /\ Emux!Bit(f, 8) = Bit(f, 8)
  BY SameBits
<1> QED BY <1>2, <1>3, <1>4

(* The rows of the two tables of opcodes, but for BVS.  Only this core has  *)
(* a mode of its own for reads through (zp),Y, longer in another page.      *)
Other(mode) == IF mode = "indy2" THEN "indy" ELSE mode
SameRow(r, d) ==
  /\ r[1] = "BVS" \/ (d[1] = Plain(r[1]) /\ d[2] = Other(r[2]) /\ d[3] = 12 * r[3])
  /\ Applies(r[1], Other(r[2])) /\ (r[2] = "indy" => r[1] = "STA")

LEMMA Code0Rows == ASSUME NEW c \in Byte \ Illegal, c \div 16 = 0 PROVE SameRow(Row0(c), Emux!Code0(c))
<1>1. \A i \in {\h02, \h03, \h04, \h07, \h0B, \h0C, \h0F} : i \in Illegal
  BY IllegalSets DEF Nops1, Jams
<1>2. c \in {\h00, \h01, \h05, \h06, \h08, \h09, \h0A, \h0D, \h0E}
  BY <1>1 DEF Byte
<1> USE DEF Row0, Emux!Code0, SameRow, Plain, Other, Applies, NoOperand
<1>3. CASE c = \h00 BY <1>3
<1>4. CASE c = \h01 BY <1>4
<1>5. CASE c = \h05 BY <1>5
<1>6. CASE c = \h06 BY <1>6
<1>7. CASE c = \h08 BY <1>7
<1>8. CASE c = \h09 BY <1>8
<1>9. CASE c = \h0A BY <1>9
<1>10. CASE c = \h0D BY <1>10
<1>11. CASE c = \h0E BY <1>11
<1> HIDE DEF Row0, Emux!Code0, SameRow, Plain, Other, Applies, NoOperand
<1> QED BY <1>2, <1>3, <1>4, <1>5, <1>6, <1>7, <1>8, <1>9, <1>10, <1>11

LEMMA Code1Rows == ASSUME NEW c \in Byte \ Illegal, c \div 16 = 1 PROVE SameRow(Row1(c), Emux!Code1(c))
<1>1. \A i \in {\h12, \h13, \h14, \h17, \h1A, \h1B, \h1C, \h1F} : i \in Illegal
  BY IllegalSets DEF Nops1, Jams
<1>2. c \in {\h10, \h11, \h15, \h16, \h18, \h19, \h1D, \h1E}
  BY <1>1 DEF Byte
<1> USE DEF Row1, Emux!Code1, SameRow, Plain, Other, Applies, NoOperand
<1>3. CASE c = \h10 BY <1>3
<1>4. CASE c = \h11 BY <1>4
<1>5. CASE c = \h15 BY <1>5
<1>6. CASE c = \h16 BY <1>6
<1>7. CASE c = \h18 BY <1>7
<1>8. CASE c = \h19 BY <1>8
<1>9. CASE c = \h1D BY <1>9
<1>10. CASE c = \h1E BY <1>10
<1> HIDE DEF Row1, Emux!Code1, SameRow, Plain, Other, Applies, NoOperand
<1> QED BY <1>2, <1>3, <1>4, <1>5, <1>6, <1>7, <1>8, <1>9, <1>10

LEMMA Code2Rows == ASSUME NEW c \in Byte \ Illegal, c \div 16 = 2 PROVE SameRow(Row2(c), Emux!Code2(c))
<1>1. \A i \in {\h22, \h23, \h27, \h2B, \h2F} : i \in Illegal
  BY IllegalSets DEF Nops1, Jams
<1>2. c \in {\h20, \h21, \h24, \h25, \h26, \h28, \h29, \h2A, \h2C, \h2D, \h2E}
  BY <1>1 DEF Byte
<1> USE DEF Row2, Emux!Code2, SameRow, Plain, Other, Applies, NoOperand
<1>3. CASE c = \h20 BY <1>3
<1>4. CASE c = \h21 BY <1>4
<1>5. CASE c = \h24 BY <1>5
<1>6. CASE c = \h25 BY <1>6
<1>7. CASE c = \h26 BY <1>7
<1>8. CASE c = \h28 BY <1>8
<1>9. CASE c = \h29 BY <1>9
<1>10. CASE c = \h2A BY <1>10
<1>11. CASE c = \h2C BY <1>11
<1>12. CASE c = \h2D BY <1>12
<1>13. CASE c = \h2E BY <1>13
<1> HIDE DEF Row2, Emux!Code2, SameRow, Plain, Other, Applies, NoOperand
<1> QED BY <1>2, <1>3, <1>4, <1>5, <1>6, <1>7, <1>8, <1>9, <1>10, <1>11, <1>12, <1>13

LEMMA Code3Rows == ASSUME NEW c \in Byte \ Illegal, c \div 16 = 3 PROVE SameRow(Row3(c), Emux!Code3(c))
<1>1. \A i \in {\h32, \h33, \h34, \h37, \h3A, \h3B, \h3C, \h3F} : i \in Illegal
  BY IllegalSets DEF Nops1, Jams
<1>2. c \in {\h30, \h31, \h35, \h36, \h38, \h39, \h3D, \h3E}
  BY <1>1 DEF Byte
<1> USE DEF Row3, Emux!Code3, SameRow, Plain, Other, Applies, NoOperand
<1>3. CASE c = \h30 BY <1>3
<1>4. CASE c = \h31 BY <1>4
<1>5. CASE c = \h35 BY <1>5
<1>6. CASE c = \h36 BY <1>6
<1>7. CASE c = \h38 BY <1>7
<1>8. CASE c = \h39 BY <1>8
<1>9. CASE c = \h3D BY <1>9
<1>10. CASE c = \h3E BY <1>10
<1> HIDE DEF Row3, Emux!Code3, SameRow, Plain, Other, Applies, NoOperand
<1> QED BY <1>2, <1>3, <1>4, <1>5, <1>6, <1>7, <1>8, <1>9, <1>10

LEMMA Code4Rows == ASSUME NEW c \in Byte \ Illegal, c \div 16 = 4 PROVE SameRow(Row4(c), Emux!Code4(c))
<1>1. \A i \in {\h42, \h43, \h44, \h47, \h4B, \h4F} : i \in Illegal
  BY IllegalSets DEF Nops1, Jams
<1>2. c \in {\h40, \h41, \h45, \h46, \h48, \h49, \h4A, \h4C, \h4D, \h4E}
  BY <1>1 DEF Byte
<1> USE DEF Row4, Emux!Code4, SameRow, Plain, Other, Applies, NoOperand
<1>3. CASE c = \h40 BY <1>3
<1>4. CASE c = \h41 BY <1>4
<1>5. CASE c = \h45 BY <1>5
<1>6. CASE c = \h46 BY <1>6
<1>7. CASE c = \h48 BY <1>7
<1>8. CASE c = \h49 BY <1>8
<1>9. CASE c = \h4A BY <1>9
<1>10. CASE c = \h4C BY <1>10
<1>11. CASE c = \h4D BY <1>11
<1>12. CASE c = \h4E BY <1>12
<1> HIDE DEF Row4, Emux!Code4, SameRow, Plain, Other, Applies, NoOperand
<1> QED BY <1>2, <1>3, <1>4, <1>5, <1>6, <1>7, <1>8, <1>9, <1>10, <1>11, <1>12

LEMMA Code5Rows == ASSUME NEW c \in Byte \ Illegal, c \div 16 = 5 PROVE SameRow(Row5(c), Emux!Code5(c))
<1>1. \A i \in {\h52, \h53, \h54, \h57, \h5A, \h5B, \h5C, \h5F} : i \in Illegal
  BY IllegalSets DEF Nops1, Jams
<1>2. c \in {\h50, \h51, \h55, \h56, \h58, \h59, \h5D, \h5E}
  BY <1>1 DEF Byte
<1> USE DEF Row5, Emux!Code5, SameRow, Plain, Other, Applies, NoOperand
<1>3. CASE c = \h50 BY <1>3
<1>4. CASE c = \h51 BY <1>4
<1>5. CASE c = \h55 BY <1>5
<1>6. CASE c = \h56 BY <1>6
<1>7. CASE c = \h58 BY <1>7
<1>8. CASE c = \h59 BY <1>8
<1>9. CASE c = \h5D BY <1>9
<1>10. CASE c = \h5E BY <1>10
<1> HIDE DEF Row5, Emux!Code5, SameRow, Plain, Other, Applies, NoOperand
<1> QED BY <1>2, <1>3, <1>4, <1>5, <1>6, <1>7, <1>8, <1>9, <1>10

LEMMA Code6Rows == ASSUME NEW c \in Byte \ Illegal, c \div 16 = 6 PROVE SameRow(Row6(c), Emux!Code6(c))
<1>1. \A i \in {\h62, \h63, \h64, \h67, \h6B, \h6F} : i \in Illegal
  BY IllegalSets DEF Nops1, Jams
<1>2. c \in {\h60, \h61, \h65, \h66, \h68, \h69, \h6A, \h6C, \h6D, \h6E}
  BY <1>1 DEF Byte
<1> USE DEF Row6, Emux!Code6, SameRow, Plain, Other, Applies, NoOperand
<1>3. CASE c = \h60 BY <1>3
<1>4. CASE c = \h61 BY <1>4
<1>5. CASE c = \h65 BY <1>5
<1>6. CASE c = \h66 BY <1>6
<1>7. CASE c = \h68 BY <1>7
<1>8. CASE c = \h69 BY <1>8
<1>9. CASE c = \h6A BY <1>9
<1>10. CASE c = \h6C BY <1>10
<1>11. CASE c = \h6D BY <1>11
<1>12. CASE c = \h6E BY <1>12
<1> HIDE DEF Row6, Emux!Code6, SameRow, Plain, Other, Applies, NoOperand
<1> QED BY <1>2, <1>3, <1>4, <1>5, <1>6, <1>7, <1>8, <1>9, <1>10, <1>11, <1>12

LEMMA Code7Rows == ASSUME NEW c \in Byte \ Illegal, c \div 16 = 7 PROVE SameRow(Row7(c), Emux!Code7(c))
<1>1. \A i \in {\h72, \h73, \h74, \h77, \h7A, \h7B, \h7C, \h7F} : i \in Illegal
  BY IllegalSets DEF Nops1, Jams
<1>2. c \in {\h70, \h71, \h75, \h76, \h78, \h79, \h7D, \h7E}
  BY <1>1 DEF Byte
<1> USE DEF Row7, Emux!Code7, SameRow, Plain, Other, Applies, NoOperand
<1>3. CASE c = \h70 BY <1>3
<1>4. CASE c = \h71 BY <1>4
<1>5. CASE c = \h75 BY <1>5
<1>6. CASE c = \h76 BY <1>6
<1>7. CASE c = \h78 BY <1>7
<1>8. CASE c = \h79 BY <1>8
<1>9. CASE c = \h7D BY <1>9
<1>10. CASE c = \h7E BY <1>10
<1> HIDE DEF Row7, Emux!Code7, SameRow, Plain, Other, Applies, NoOperand
<1> QED BY <1>2, <1>3, <1>4, <1>5, <1>6, <1>7, <1>8, <1>9, <1>10

LEMMA Code8Rows == ASSUME NEW c \in Byte \ Illegal, c \div 16 = 8 PROVE SameRow(Row8(c), Emux!Code8(c))
<1>1. \A i \in {\h80, \h82, \h83, \h87, \h89, \h8B, \h8F} : i \in Illegal
  BY IllegalSets DEF Nops1, Jams
<1>2. c \in {\h81, \h84, \h85, \h86, \h88, \h8A, \h8C, \h8D, \h8E}
  BY <1>1 DEF Byte
<1> USE DEF Row8, Emux!Code8, SameRow, Plain, Other, Applies, NoOperand
<1>3. CASE c = \h81 BY <1>3
<1>4. CASE c = \h84 BY <1>4
<1>5. CASE c = \h85 BY <1>5
<1>6. CASE c = \h86 BY <1>6
<1>7. CASE c = \h88 BY <1>7
<1>8. CASE c = \h8A BY <1>8
<1>9. CASE c = \h8C BY <1>9
<1>10. CASE c = \h8D BY <1>10
<1>11. CASE c = \h8E BY <1>11
<1> HIDE DEF Row8, Emux!Code8, SameRow, Plain, Other, Applies, NoOperand
<1> QED BY <1>2, <1>3, <1>4, <1>5, <1>6, <1>7, <1>8, <1>9, <1>10, <1>11

LEMMA Code9Rows == ASSUME NEW c \in Byte \ Illegal, c \div 16 = 9 PROVE SameRow(Row9(c), Emux!Code9(c))
<1>1. \A i \in {\h92, \h93, \h97, \h9B, \h9C, \h9E, \h9F} : i \in Illegal
  BY IllegalSets DEF Nops1, Jams
<1>2. c \in {\h90, \h91, \h94, \h95, \h96, \h98, \h99, \h9A, \h9D}
  BY <1>1 DEF Byte
<1> USE DEF Row9, Emux!Code9, SameRow, Plain, Other, Applies, NoOperand
<1>3. CASE c = \h90 BY <1>3
<1>4. CASE c = \h91 BY <1>4
<1>5. CASE c = \h94 BY <1>5
<1>6. CASE c = \h95 BY <1>6
<1>7. CASE c = \h96 BY <1>7
<1>8. CASE c = \h98 BY <1>8
<1>9. CASE c = \h99 BY <1>9
<1>10. CASE c = \h9A BY <1>10
<1>11. CASE c = \h9D BY <1>11
<1> HIDE DEF Row9, Emux!Code9, SameRow, Plain, Other, Applies, NoOperand
<1> QED BY <1>2, <1>3, <1>4, <1>5, <1>6, <1>7, <1>8, <1>9, <1>10, <1>11

LEMMA CodeARows == ASSUME NEW c \in Byte \ Illegal, c \div 16 = 10 PROVE SameRow(RowA(c), Emux!CodeA(c))
<1>1. \A i \in {\hA3, \hA7, \hAB, \hAF} : i \in Illegal
  BY IllegalSets DEF Nops1, Jams
<1>2. c \in {\hA0, \hA1, \hA2, \hA4, \hA5, \hA6, \hA8, \hA9, \hAA, \hAC, \hAD, \hAE}
  BY <1>1 DEF Byte
<1> USE DEF RowA, Emux!CodeA, SameRow, Plain, Other, Applies, NoOperand
<1>3. CASE c = \hA0 BY <1>3
<1>4. CASE c = \hA1 BY <1>4
<1>5. CASE c = \hA2 BY <1>5
<1>6. CASE c = \hA4 BY <1>6
<1>7. CASE c = \hA5 BY <1>7
<1>8. CASE c = \hA6 BY <1>8
<1>9. CASE c = \hA8 BY <1>9
<1>10. CASE c = \hA9 BY <1>10
<1>11. CASE c = \hAA BY <1>11
<1>12. CASE c = \hAC BY <1>12
<1>13. CASE c = \hAD BY <1>13
<1>14. CASE c = \hAE BY <1>14
<1> HIDE DEF RowA, Emux!CodeA, SameRow, Plain, Other, Applies, NoOperand
<1> QED BY <1>2, <1>3, <1>4, <1>5, <1>6, <1>7, <1>8, <1>9, <1>10, <1>11, <1>12, <1>13, <1>14

LEMMA CodeBRows == ASSUME NEW c \in Byte \ Illegal, c \div 16 = 11 PROVE SameRow(RowB(c), Emux!CodeB(c))
<1>1. \A i \in {\hB2, \hB3, \hB7, \hBB, \hBF} : i \in Illegal
  BY IllegalSets DEF Nops1, Jams
<1>2. c \in {\hB0, \hB1, \hB4, \hB5, \hB6, \hB8, \hB9, \hBA, \hBC, \hBD, \hBE}
  BY <1>1 DEF Byte
<1> USE DEF RowB, Emux!CodeB, SameRow, Plain, Other, Applies, NoOperand
<1>3. CASE c = \hB0 BY <1>3
<1>4. CASE c = \hB1 BY <1>4
<1>5. CASE c = \hB4 BY <1>5
<1>6. CASE c = \hB5 BY <1>6
<1>7. CASE c = \hB6 BY <1>7
<1>8. CASE c = \hB8 BY <1>8
<1>9. CASE c = \hB9 BY <1>9
<1>10. CASE c = \hBA BY <1>10
<1>11. CASE c = \hBC BY <1>11
<1>12. CASE c = \hBD BY <1>12
<1>13. CASE c = \hBE BY <1>13
<1> HIDE DEF RowB, Emux!CodeB, SameRow, Plain, Other, Applies, NoOperand
<1> QED BY <1>2, <1>3, <1>4, <1>5, <1>6, <1>7, <1>8, <1>9, <1>10, <1>11, <1>12, <1>13

LEMMA CodeCRows == ASSUME NEW c \in Byte \ Illegal, c \div 16 = 12 PROVE SameRow(RowC(c), Emux!CodeC(c))
<1>1. \A i \in {\hC2, \hC3, \hC7, \hCB, \hCF} : i \in Illegal
  BY IllegalSets DEF Nops1, Jams
<1>2. c \in {\hC0, \hC1, \hC4, \hC5, \hC6, \hC8, \hC9, \hCA, \hCC, \hCD, \hCE}
  BY <1>1 DEF Byte
<1> USE DEF RowC, Emux!CodeC, SameRow, Plain, Other, Applies, NoOperand
<1>3. CASE c = \hC0 BY <1>3
<1>4. CASE c = \hC1 BY <1>4
<1>5. CASE c = \hC4 BY <1>5
<1>6. CASE c = \hC5 BY <1>6
<1>7. CASE c = \hC6 BY <1>7
<1>8. CASE c = \hC8 BY <1>8
<1>9. CASE c = \hC9 BY <1>9
<1>10. CASE c = \hCA BY <1>10
<1>11. CASE c = \hCC BY <1>11
<1>12. CASE c = \hCD BY <1>12
<1>13. CASE c = \hCE BY <1>13
<1> HIDE DEF RowC, Emux!CodeC, SameRow, Plain, Other, Applies, NoOperand
<1> QED BY <1>2, <1>3, <1>4, <1>5, <1>6, <1>7, <1>8, <1>9, <1>10, <1>11, <1>12, <1>13

LEMMA CodeDRows == ASSUME NEW c \in Byte \ Illegal, c \div 16 = 13 PROVE SameRow(RowD(c), Emux!CodeD(c))
<1>1. \A i \in {\hD2, \hD3, \hD4, \hD7, \hDA, \hDB, \hDC, \hDF} : i \in Illegal
  BY IllegalSets DEF Nops1, Jams
<1>2. c \in {\hD0, \hD1, \hD5, \hD6, \hD8, \hD9, \hDD, \hDE}
  BY <1>1 DEF Byte
<1> USE DEF RowD, Emux!CodeD, SameRow, Plain, Other, Applies, NoOperand
<1>3. CASE c = \hD0 BY <1>3
<1>4. CASE c = \hD1 BY <1>4
<1>5. CASE c = \hD5 BY <1>5
<1>6. CASE c = \hD6 BY <1>6
<1>7. CASE c = \hD8 BY <1>7
<1>8. CASE c = \hD9 BY <1>8
<1>9. CASE c = \hDD BY <1>9
<1>10. CASE c = \hDE BY <1>10
<1> HIDE DEF RowD, Emux!CodeD, SameRow, Plain, Other, Applies, NoOperand
<1> QED BY <1>2, <1>3, <1>4, <1>5, <1>6, <1>7, <1>8, <1>9, <1>10

LEMMA CodeERows == ASSUME NEW c \in Byte \ Illegal, c \div 16 = 14 PROVE SameRow(RowE(c), Emux!CodeE(c))
<1>1. \A i \in {\hE2, \hE3, \hE7, \hEB, \hEF} : i \in Illegal
  BY IllegalSets DEF Nops1, Jams
<1>2. c \in {\hE0, \hE1, \hE4, \hE5, \hE6, \hE8, \hE9, \hEA, \hEC, \hED, \hEE}
  BY <1>1 DEF Byte
<1> USE DEF RowE, Emux!CodeE, SameRow, Plain, Other, Applies, NoOperand
<1>3. CASE c = \hE0 BY <1>3
<1>4. CASE c = \hE1 BY <1>4
<1>5. CASE c = \hE4 BY <1>5
<1>6. CASE c = \hE5 BY <1>6
<1>7. CASE c = \hE6 BY <1>7
<1>8. CASE c = \hE8 BY <1>8
<1>9. CASE c = \hE9 BY <1>9
<1>10. CASE c = \hEA BY <1>10
<1>11. CASE c = \hEC BY <1>11
<1>12. CASE c = \hED BY <1>12
<1>13. CASE c = \hEE BY <1>13
<1> HIDE DEF RowE, Emux!CodeE, SameRow, Plain, Other, Applies, NoOperand
<1> QED BY <1>2, <1>3, <1>4, <1>5, <1>6, <1>7, <1>8, <1>9, <1>10, <1>11, <1>12, <1>13

LEMMA CodeFRows == ASSUME NEW c \in Byte \ Illegal, c \div 16 = 15 PROVE SameRow(RowF(c), Emux!CodeF(c))
<1>1. \A i \in {\hF2, \hF3, \hF4, \hF7, \hFA, \hFB, \hFC, \hFF} : i \in Illegal
  BY IllegalSets DEF Nops1, Jams
<1>2. c \in {\hF0, \hF1, \hF5, \hF6, \hF8, \hF9, \hFD, \hFE}
  BY <1>1 DEF Byte
<1> USE DEF RowF, Emux!CodeF, SameRow, Plain, Other, Applies, NoOperand
<1>3. CASE c = \hF0 BY <1>3
<1>4. CASE c = \hF1 BY <1>4
<1>5. CASE c = \hF5 BY <1>5
<1>6. CASE c = \hF6 BY <1>6
<1>7. CASE c = \hF8 BY <1>7
<1>8. CASE c = \hF9 BY <1>8
<1>9. CASE c = \hFD BY <1>9
<1>10. CASE c = \hFE BY <1>10
<1> HIDE DEF RowF, Emux!CodeF, SameRow, Plain, Other, Applies, NoOperand
<1> QED BY <1>2, <1>3, <1>4, <1>5, <1>6, <1>7, <1>8, <1>9, <1>10

LEMMA SameOpcode ==
  ASSUME NEW code \in Byte \ Illegal
  PROVE  SameRow(Opcode[code], Emux!Codes[code]) /\ code \in DOMAIN Emux!Codes
<1>1. code \div 16 \in 0..15
  BY DEF Byte
<1>2. code \in Emux!Byte \ Emux!Illegal /\ DOMAIN Emux!Codes = Emux!Byte \ Emux!Illegal
  BY SameOpcodes DEF Emux!Codes
<1>3. CASE code \div 16 = 0 BY <1>2, <1>3, Code0Rows DEF Opcode, Emux!Codes
<1>4. CASE code \div 16 = 1 BY <1>2, <1>4, Code1Rows DEF Opcode, Emux!Codes
<1>5. CASE code \div 16 = 2 BY <1>2, <1>5, Code2Rows DEF Opcode, Emux!Codes
<1>6. CASE code \div 16 = 3 BY <1>2, <1>6, Code3Rows DEF Opcode, Emux!Codes
<1>7. CASE code \div 16 = 4 BY <1>2, <1>7, Code4Rows DEF Opcode, Emux!Codes
<1>8. CASE code \div 16 = 5 BY <1>2, <1>8, Code5Rows DEF Opcode, Emux!Codes
<1>9. CASE code \div 16 = 6 BY <1>2, <1>9, Code6Rows DEF Opcode, Emux!Codes
<1>10. CASE code \div 16 = 7 BY <1>2, <1>10, Code7Rows DEF Opcode, Emux!Codes
<1>11. CASE code \div 16 = 8 BY <1>2, <1>11, Code8Rows DEF Opcode, Emux!Codes
<1>12. CASE code \div 16 = 9 BY <1>2, <1>12, Code9Rows DEF Opcode, Emux!Codes
<1>13. CASE code \div 16 = 10 BY <1>2, <1>13, CodeARows DEF Opcode, Emux!Codes
<1>14. CASE code \div 16 = 11 BY <1>2, <1>14, CodeBRows DEF Opcode, Emux!Codes
<1>15. CASE code \div 16 = 12 BY <1>2, <1>15, CodeCRows DEF Opcode, Emux!Codes
<1>16. CASE code \div 16 = 13 BY <1>2, <1>16, CodeDRows DEF Opcode, Emux!Codes
<1>17. CASE code \div 16 = 14 BY <1>2, <1>17, CodeERows DEF Opcode, Emux!Codes
<1>18. CASE code \div 16 = 15 BY <1>2, <1>18, CodeFRows DEF Opcode, Emux!Codes
<1> QED BY <1>1, <1>2, <1>3, <1>4, <1>5, <1>6, <1>7, <1>8, <1>9, <1>10, <1>11, <1>12, <1>13, <1>14, <1>15, <1>16, <1>17, <1>18

(* A pointer that the two cores take from the same two bytes. *)
Straight(mode, c) ==
  /\ mode \in {"indy", "indy2", "ind"} => ZeroPage(c) # 255
  /\ mode = "indx" => (ZeroPage(c) + c.x) % 256 # 255

LEMMA TwinOperand ==
  ASSUME NEW n, NEW c, Sound(c, Byte, n), NEW k, NEW mode \in Modes, Straight(mode, c)
  PROVE  Operand(mode, c) = Emux!Address(Other(mode), Twin(c, k))
<1>1. mode # "indy2" => Other(mode) = mode
  BY DEF Other
<1>2. CASE mode \in {"imm", "zp", "zpx", "zpy", "abs", "absx", "absy"}
  BY <1>1, <1>2, TwinPlain
<1>3. CASE mode = ""
  <2>1. Operand("", c) = 0 /\ Emux!Address("", Twin(c, k)) = 0
    BY DEF Operand, Emux!Address
  <2> QED BY <1>1, <1>3, <2>1
<1>4. CASE mode = "indy"
  <2>1. ZeroPage(c) # 255
    BY <1>4 DEF Straight
  <2> QED BY <1>1, <1>4, <2>1, TwinIndirect
<1>5. CASE mode = "indy2"
  <2>1. ZeroPage(c) # 255
    BY <1>5 DEF Straight
  <2>2. Other(mode) = "indy"
    BY <1>5 DEF Other
  <2> QED BY <1>5, <2>1, <2>2, TwinIndirect
<1>6. CASE mode = "indx"
  <2>1. (ZeroPage(c) + c.x) % 256 # 255
    BY <1>6 DEF Straight
  <2> QED BY <1>1, <1>6, <2>1, TwinIndirect
<1>7. CASE mode = "ind"
  <2>1. ZeroPage(c) # 255
    BY <1>7 DEF Straight
  <2> QED BY <1>1, <1>7, <2>1, TwinIndirect
<1> QED BY <1>2, <1>3, <1>4, <1>5, <1>6, <1>7 DEF Modes

LEMMA TwinSize == ASSUME NEW mode \in Modes PROVE Size(mode) = Emux!Length(Other(mode))
  BY DEF Size, Emux!Length, Other, Modes

LEMMA TwinIndexed ==
  ASSUME NEW n, NEW c, Sound(c, Byte, n), NEW k
  PROVE  /\ PageCrossed(Base("absx", c), c.x) = 1 <=> Emux!LeavesPage("absx", Twin(c, k))
         /\ PageCrossed(Base("absy", c), c.y) = 1 <=> Emux!LeavesPage("absy", Twin(c, k))
         /\ ZeroPage(c) # 255
              => (PageCrossed(Base("indy2", c), c.y) = 1 <=> Emux!LeavesPage("indy", Twin(c, k)))
<1> SUFFICES ASSUME NEW e, e = Twin(c, k)
             PROVE  /\ PageCrossed(Base("absx", c), c.x) = 1 <=> Emux!LeavesPage("absx", e)
                    /\ PageCrossed(Base("absy", c), c.y) = 1 <=> Emux!LeavesPage("absy", e)
                    /\ ZeroPage(c) # 255
                         => (PageCrossed(Base("indy2", c), c.y) = 1 <=> Emux!LeavesPage("indy", e))
  OBVIOUS
<1>1. c.x \in Byte /\ c.y \in Byte /\ c.x \in Int /\ c.y \in Int
  BY Registers, BothRanges
<1>2. \A b \in {Base("absx", c), Base("absy", c), Base("indy2", c)} : b \in Int
  BY PeekType, Integral DEF Base, Absolute, ZeroPage
<1>3. ASSUME NEW f \in Int, NEW b \in Byte, NEW g, g = (f + b) % 65536
      PROVE  PageCrossed(f, b) = 1 <=> Emux!Bit(g, 8) # Emux!Bit(f, 8)
  <2>1. f + b \in Int
    BY Integral
  <2> DEFINE i == f + b
  <2>2. i \in Int /\ g = i % 65536
    BY <1>3, <2>1
  <2> HIDE DEF i
  <2>3. Bit(g, 8) = Bit(i, 8)
    BY <2>2, BitOfWord
  <2> QED BY <2>3, TwinPages DEF i
<1>4. \A mode \in {"absx", "absy", "indy"} :
        Emux!LeavesPage(mode, e) <=> Emux!Bit(Emux!Address(mode, e), 8) # Emux!Bit(Emux!Et(mode, e), 8)
  BY DEF Emux!LeavesPage
<1>5. PageCrossed(Base("absx", c), c.x) = 1 <=> Emux!LeavesPage("absx", e)
  <2> DEFINE g == Emux!Address("absx", e)  f == Base("absx", c)
  <2>1. Emux!Et("absx", e) = f /\ Operand("absx", c) = g
    BY TwinPlain
  <2>2. Operand("absx", c) = (f + c.x) % 65536
    BY DEF Operand
  <2>3. f \in Int
    BY <1>2
  <2> HIDE DEF f, g
  <2>4. PageCrossed(f, c.x) = 1 <=> Emux!Bit(g, 8) # Emux!Bit(f, 8)
    BY <1>1, <1>3, <2>1, <2>2, <2>3
  <2> QED BY <1>4, <2>1, <2>4 DEF f, g
<1>6. PageCrossed(Base("absy", c), c.y) = 1 <=> Emux!LeavesPage("absy", e)
  <2> DEFINE g == Emux!Address("absy", e)  f == Base("absy", c)
  <2>1. Emux!Et("absy", e) = f /\ Operand("absy", c) = g
    BY TwinPlain
  <2>2. Operand("absy", c) = (f + c.y) % 65536
    BY DEF Operand
  <2>3. f \in Int
    BY <1>2
  <2> HIDE DEF f, g
  <2>4. PageCrossed(f, c.y) = 1 <=> Emux!Bit(g, 8) # Emux!Bit(f, 8)
    BY <1>1, <1>3, <2>1, <2>2, <2>3
  <2> QED BY <1>4, <2>1, <2>4 DEF f, g
<1>7. ASSUME ZeroPage(c) # 255
      PROVE  PageCrossed(Base("indy2", c), c.y) = 1 <=> Emux!LeavesPage("indy", e)
  <2> DEFINE g == Emux!Address("indy", e)  f == Base("indy2", c)
  <2>1. Emux!Et("indy", e) = f /\ Operand("indy2", c) = g
    BY <1>7, TwinIndirect
  <2>2. Operand("indy2", c) = (f + c.y) % 65536
    BY DEF Operand
  <2>3. f \in Int
    BY <1>2
  <2> HIDE DEF f, g
  <2>4. PageCrossed(f, c.y) = 1 <=> Emux!Bit(g, 8) # Emux!Bit(f, 8)
    BY <1>1, <1>3, <2>1, <2>2, <2>3
  <2> QED BY <1>4, <2>1, <2>4 DEF f, g
<1> QED BY <1>5, <1>6, <1>7

LEMMA TwinCycles ==
  ASSUME NEW n, NEW c, Sound(c, Byte, n), NEW k, NEW mode \in Modes, Straight(mode, c),
         mode = "indy" => PageCrossed(Base("indy2", c), c.y) # 1
  PROVE  Extra(mode, c) = IF Emux!LeavesPage(Other(mode), Twin(c, k)) THEN 1 ELSE 0
<1> DEFINE e == Twin(c, k)
<1>1. mode # "indy2" => Other(mode) = mode
  BY DEF Other
<1>2. CASE mode \in {"imm", "zp", "zpx", "zpy", "abs", "indx", "ind"}
  <2>1. Extra(mode, c) = 0
    BY <1>2 DEF Extra
  <2>2. ~Emux!LeavesPage(mode, e)
    BY <1>2 DEF Emux!LeavesPage
  <2> QED BY <1>1, <1>2, <2>1, <2>2
<1>3. CASE mode = ""
  <2>1. Extra("", c) = 0 /\ ~Emux!LeavesPage("", e)
    BY DEF Extra, Emux!LeavesPage
  <2> QED BY <1>1, <1>3, <2>1
<1>4. \A f, b : PageCrossed(f, b) \in {0, 1}
  BY DEF PageCrossed
<1>5. CASE mode = "absx"
  <2>1. Extra("absx", c) = PageCrossed(Base("absx", c), c.x)
    BY DEF Extra
  <2> QED BY <1>1, <1>4, <1>5, <2>1, TwinIndexed
<1>6. CASE mode = "absy"
  <2>1. Extra("absy", c) = PageCrossed(Base("absy", c), c.y)
    BY DEF Extra
  <2> QED BY <1>1, <1>4, <1>6, <2>1, TwinIndexed
<1>7. CASE mode = "indy"
  <2>1. Extra("indy", c) = 0
    BY DEF Extra
  <2>2. ZeroPage(c) # 255
    BY <1>7 DEF Straight
  <2> QED BY <1>1, <1>4, <1>7, <2>1, <2>2, TwinIndexed
<1>8. CASE mode = "indy2"
  <2>1. Extra("indy2", c) = PageCrossed(Base("indy2", c), c.y)
    BY DEF Extra
  <2>2. ZeroPage(c) # 255
    BY <1>8 DEF Straight
  <2>3. Other(mode) = "indy"
    BY <1>8 DEF Other
  <2> QED BY <1>4, <1>8, <2>1, <2>2, <2>3, TwinIndexed
<1> QED BY <1>2, <1>3, <1>5, <1>6, <1>7, <1>8 DEF Modes

(* An instruction: the operand, its cycles and what it does. *)
LEMMA TwinTakes ==
  ASSUME NEW w, DOMAIN w = Fields, NEW k \in Int, w.cyc = 0,
         NEW base \in Int, NEW more \in Int, NEW x, x = 12 * base + 12 * more
  PROVE  Twin(WithCyc(w, base + more), k) = Emux!Takes(Twin(w, k), x)
<1> DEFINE y == base + more
           z == 12 * (w.cyc + k) + x
<1>1. z = 12 * (y + k)
  <2>1. w.cyc + k = k
    OBVIOUS
  <2> QED BY <2>1
<1>2. Emux!Takes(Twin(w, k), x) = PuttingClk(Twin(w, k), z)
  BY DEF Emux!Takes, PuttingClk, Twin
<1> HIDE DEF y, z
<1>3. Twin(WithCyc(w, y), k) = PuttingClk(Twin(w, k), 12 * (y + k))
  BY TwinUpdates
<1> QED BY <1>1, <1>2, <1>3 DEF y

LEMMA AfterJump ==
  ASSUME NEW c, DOMAIN c = Fields, NEW addr
  PROVE  /\ Jump(c, addr).mem = c.mem /\ Jump(c, addr).x = c.x /\ Jump(c, addr).y = c.y
         /\ Jump(c, addr).ps = c.ps /\ Jump(c, addr).cyc = c.cyc /\ Jump(c, addr).pc = addr % 65536
         /\ DOMAIN Jump(c, addr) = Fields
<1> DEFINE p == addr % 65536
<1>1. Jump(c, addr) = [c EXCEPT !.pc = p]
  BY DEF Jump
<1> HIDE DEF p
<1> QED BY <1>1 DEF Fields, p

LEMMA TwinInstruction ==
  ASSUME NEW n, NEW c, Sound(c, Byte, n), c.cyc = 0, NEW k \in Int, ~DiffersAt(c)
  PROVE  Twin(CpuExecuteOP(c), k)
           = Emux!doCode(Emux!Goto(Twin(c, k), c.pc + 1), CPU_PEEK(c, c.pc))
<1> DEFINE code    == CPU_PEEK(c, c.pc)
           pointer == CPU_PEEK(c, c.pc + 1)
           op      == Opcode[code][1]
           mode    == Opcode[code][2]
           base    == Opcode[code][3]
           t       == Jump(c, c.pc + 1)
           more    == Extra(mode, t)
           w       == Jump(t, t.pc + Size(mode))
           u       == WithCyc(w, base + more)
           o       == Operand(mode, t)
           e       == Emux!Goto(Twin(c, k), c.pc + 1)
           d       == Emux!Codes[code]
<1>1. /\ code \notin Illegal /\ op # "BVS"
      /\ op \in {"ADC", "SBC", "BRK"} => "D" \notin c.ps
      /\ op \in {"CLI", "RTI"} => ~TakesIRQ(CpuExecuteOP(c))
      /\ mode \in {"indy", "indy2", "ind"} => pointer # 255
      /\ mode = "indx" => (pointer + c.x) % 256 # 255
      /\ op = "STA" /\ mode = "indy" => PageCrossed(CPU_PEEKW(c, pointer), c.y) # 1
  BY DEF DiffersAt
<1>2. CpuExecuteOP(c) = Run(op, u, o)
  <2>1. CpuExecuteOP(c) = Run(op, [w EXCEPT !.cyc = base + more], o)
    BY <1>1 DEF CpuExecuteOP
  <2> HIDE DEF w
  <2> QED BY <2>1 DEF WithCyc
<1>3. code \in Byte /\ c.pc \in Int /\ c.pc + 1 \in Int
  <2>1. c.pc \in Int
    BY Registers, BothRanges
  <2> QED BY <2>1, PeekType
<1>4. SameRow(Opcode[code], d) /\ code \in DOMAIN Emux!Codes /\ IsOpcode(Opcode[code])
  BY <1>1, <1>3, SameOpcode, OpcodeType
<1>5. /\ d[1] = Plain(op) /\ d[2] = Other(mode) /\ d[3] = 12 * base
      /\ Applies(op, Other(mode)) /\ (mode = "indy" => op = "STA")
  BY <1>1, <1>4 DEF SameRow
<1>6. op \in Instructions /\ mode \in Modes /\ base \in 2..7
  BY <1>4 DEF IsOpcode
<1>7. /\ t.mem = c.mem /\ t.x = c.x /\ t.y = c.y /\ t.ps = c.ps /\ t.cyc = 0
      /\ t.pc = (c.pc + 1) % 65536
  BY CoreFields, AfterJump
<1>8. Sound(t, Byte, n) /\ Twin(t, k) = e
  BY <1>3, JumpSound, TwinGoes
<1>9. ZeroPage(t) = pointer /\ CPU_PEEKW(t, pointer) = CPU_PEEKW(c, pointer)
  <2>1. t.pc = (c.pc + 1) % 65536 /\ t.mem = c.mem /\ c.pc + 1 \in Int
    BY <1>3, <1>7
  <2> HIDE DEF t
  <2>2. At(c.mem, (c.pc + 1) % 65536) = At(c.mem, c.pc + 1)
    BY <1>3, SameAddress
  <2> QED BY <2>1, <2>2 DEF ZeroPage, CPU_PEEK, CPU_PEEKW
<1>10. Straight(mode, t)
  <2> HIDE DEF t, mode, pointer
  <2> QED BY <1>1, <1>7, <1>9 DEF Straight
<1>11. mode = "indy" => PageCrossed(Base("indy2", t), t.y) # 1
  <2>1. Base("indy2", t) = CPU_PEEKW(t, ZeroPage(t))
    BY DEF Base
  <2> HIDE DEF t, mode, op, pointer
  <2> QED BY <1>1, <1>5, <1>7, <1>9, <2>1
<1>12. Emux!doCode(e, code)
         = LET m == d[2]
               f == Emux!Takes(Emux!Goto(e, e.PC + Emux!Length(m)),
                               d[3] + (IF Emux!LeavesPage(m, e) THEN 12 ELSE 0))
           IN  Emux!Do(d[1], m, f, Emux!Address(m, e))
  <2> HIDE DEF e, code
  <2> QED BY <1>4 DEF Emux!doCode
<1> HIDE DEF code, pointer, op, mode, base, t, e, d
<1>13. /\ o = Emux!Address(Other(mode), e) /\ Size(mode) = Emux!Length(Other(mode))
       /\ more = IF Emux!LeavesPage(Other(mode), e) THEN 1 ELSE 0
  BY <1>6, <1>8, <1>10, <1>11, TwinOperand, TwinSize, TwinCycles
<1>14. o \in Int /\ more \in 0..1 /\ Size(mode) \in 0..2 /\ t.pc \in Int /\ t.pc + Size(mode) \in Int
  <2>1. o \in Int /\ more \in 0..1 /\ Size(mode) \in 0..2 /\ t.pc \in Int
    BY <1>6, <1>8, OperandType, Registers, BothRanges
  <2> QED BY <2>1
<1>15. e.PC = t.pc
  BY <1>8, TwinRegisters
<1>16. Sound(w, Byte, n) /\ Twin(w, k) = Emux!Goto(e, t.pc + Size(mode)) /\ w.ps = c.ps /\ w.cyc = 0
  <2>1. w.ps = t.ps /\ w.cyc = t.cyc
    BY <1>8, CoreFields, AfterJump
  <2> QED BY <1>7, <1>8, <1>14, <2>1, JumpSound, TwinGoes
<1> DEFINE x == d[3] + (IF Emux!LeavesPage(Other(mode), e) THEN 12 ELSE 0)
<1>17. x = 12 * base + 12 * more
  <2> HIDE DEF more
  <2> QED BY <1>5, <1>6, <1>13
<1> HIDE DEF more, w, o, x
<1>18. Twin(u, k) = Emux!Takes(Twin(w, k), x) /\ base + more \in 0..8
  <2>1. base \in Int /\ more \in Int /\ DOMAIN w = Fields
    BY <1>6, <1>14, <1>16, CoreFields
  <2>2. base + more \in 0..8
    BY <1>6, <1>14
  <2> QED BY <1>16, <1>17, <2>1, <2>2, TwinTakes
<1>19. Sound(u, Byte, 8) /\ u.ps = c.ps
  <2>1. Sound([w EXCEPT !.cyc = base + more], Byte, 8)
    BY <1>16, <1>18, CyclesSound
  <2>2. u.ps = w.ps
    BY <1>16, CoreFields, Updates
  <2> QED BY <1>16, <2>1, <2>2 DEF WithCyc
<1> HIDE DEF u
<1>20. Alike(op, u, o)
  BY <1>1, <1>2, <1>19 DEF Alike
<1>21. Twin(Run(op, u, o), k) = Emux!Do(Plain(op), Other(mode), Twin(u, k), o)
  BY <1>5, <1>6, <1>14, <1>19, <1>20, TwinRuns
<1>22. Emux!doCode(e, code) = Emux!Do(Plain(op), Other(mode), Emux!Takes(Emux!Goto(e, t.pc + Size(mode)), x), o)
  BY <1>5, <1>12, <1>13, <1>15 DEF x
<1> QED BY <1>2, <1>16, <1>18, <1>21, <1>22 DEF e, code

(* The cycles that went before do not matter to an instruction. *)
LEMMA JumpForgets ==
  ASSUME NEW c, DOMAIN c = Fields, NEW i, NEW addr
  PROVE  Jump(WithCyc(c, i), addr) = WithCyc(Jump(c, addr), i)
<1> DEFINE p == addr % 65536
<1>1. \A d : Jump(d, addr) = WithPC(d, p)
  BY DEF Jump, WithPC
<1> HIDE DEF p
<1>2. WithPC(WithCyc(c, i), p) = WithCyc(WithPC(c, p), i)
  BY DEF WithPC, WithCyc, Fields
<1> QED BY <1>1, <1>2

LEMMA OperandForgets ==
  ASSUME NEW c, DOMAIN c = Fields, NEW i, NEW mode
  PROVE  /\ Operand(mode, WithCyc(c, i)) = Operand(mode, c)
         /\ Extra(mode, WithCyc(c, i)) = Extra(mode, c)
<1> DEFINE d == WithCyc(c, i)
<1>1. d.mem = c.mem /\ d.pc = c.pc /\ d.x = c.x /\ d.y = c.y
  BY DEF WithCyc, Fields
<1> HIDE DEF d
<1>2. ZeroPage(d) = ZeroPage(c) /\ Absolute(d) = Absolute(c)
  BY <1>1 DEF ZeroPage, Absolute, CPU_PEEK, CPU_PEEKW
<1>3. \A addr : CPU_PEEKW(d, addr) = CPU_PEEKW(c, addr)
  BY <1>1 DEF CPU_PEEKW
<1>4. \A m : Base(m, d) = Base(m, c)
  BY <1>2, <1>3 DEF Base
<1>5. Operand(mode, d) = Operand(mode, c)
  BY <1>1, <1>2, <1>3, <1>4 DEF Operand
<1>6. Extra(mode, d) = Extra(mode, c)
  BY <1>1, <1>4 DEF Extra
<1> QED BY <1>5, <1>6 DEF d

LEMMA InstructionForgets ==
  ASSUME NEW c, DOMAIN c = Fields, NEW i, CPU_PEEK(c, c.pc) \notin Illegal
  PROVE  CpuExecuteOP(WithCyc(c, i)) = CpuExecuteOP(c)
<1> DEFINE code == CPU_PEEK(c, c.pc)
           op   == Opcode[code][1]
           mode == Opcode[code][2]
           t    == Jump(c, c.pc + 1)
           d    == WithCyc(c, i)
           r    == Jump(d, d.pc + 1)
<1>1. CPU_PEEK(d, d.pc) = code /\ d.pc = c.pc
  BY Updates DEF CPU_PEEK
<1>2. CpuExecuteOP(d) = Run(op, WithCyc(Jump(r, r.pc + Size(mode)), Opcode[code][3] + Extra(mode, r)), Operand(mode, r))
  <2> HIDE DEF d
  <2> QED BY <1>1 DEF CpuExecuteOP, WithCyc
<1>3. CpuExecuteOP(c) = Run(op, WithCyc(Jump(t, t.pc + Size(mode)), Opcode[code][3] + Extra(mode, t)), Operand(mode, t))
  BY DEF CpuExecuteOP, WithCyc
<1>4. r = WithCyc(t, i)
  BY <1>1, JumpForgets
<1> HIDE DEF code, op, mode, d, r
<1>5. DOMAIN t = Fields
  BY AfterJump
<1> HIDE DEF t
<1>6. r.pc = t.pc /\ Operand(mode, r) = Operand(mode, t) /\ Extra(mode, r) = Extra(mode, t)
  BY <1>4, <1>5, Updates, OperandForgets
<1> DEFINE w == Jump(t, t.pc + Size(mode))
<1>7. Jump(r, r.pc + Size(mode)) = WithCyc(w, i) /\ DOMAIN w = Fields
  BY <1>4, <1>5, <1>6, JumpForgets, AfterJump
<1> HIDE DEF w
<1>8. ASSUME NEW y PROVE WithCyc(WithCyc(w, i), y) = WithCyc(w, y)
  BY <1>7 DEF WithCyc, Fields
<1> QED BY <1>2, <1>3, <1>6, <1>7, <1>8 DEF w, d

LEMMA DifferenceForgets ==
  ASSUME NEW c, DOMAIN c = Fields, NEW i, ~DiffersAt(c)
  PROVE  ~DiffersAt(WithCyc(c, i))
<1> DEFINE d == WithCyc(c, i)
<1>1. d.mem = c.mem /\ d.pc = c.pc /\ d.x = c.x /\ d.y = c.y /\ d.ps = c.ps
  BY DEF WithCyc, Fields
<1>2. CPU_PEEK(c, c.pc) \notin Illegal
  BY DEF DiffersAt
<1>3. CpuExecuteOP(d) = CpuExecuteOP(c)
  BY <1>2, InstructionForgets
<1> HIDE DEF d
<1>4. (\A addr : CPU_PEEK(d, addr) = CPU_PEEK(c, addr)) /\ (\A addr : CPU_PEEKW(d, addr) = CPU_PEEKW(c, addr))
  BY <1>1 DEF CPU_PEEK, CPU_PEEKW
<1>5. DiffersAt(d) => DiffersAt(c)
  BY <1>1, <1>3, <1>4 DEF DiffersAt
<1> QED BY <1>5 DEF d

------------------------------------------------------------------------------
(* The two cores: interrupts and the loop *)

(* What the other core shows of c when its clock is at clk. *)
Seen(c, clk) ==
  [A |-> c.a, X |-> c.x, Y |-> c.y, SP |-> c.sp, PC |-> c.pc, P |-> c.ps \ {"B"}, mem |-> c.mem,
   irqPending |-> c.irq, nmiPending |-> c.nmi, clk |-> clk]

LEMMA SeenPut == ASSUME NEW c, NEW p, NEW z PROVE PuttingClk(Seen(c, p), z) = Seen(c, z)
  BY DEF PuttingClk, Seen

LEMMA TwinSeen == ASSUME NEW c, NEW k PROVE Twin(c, k) = Seen(c, 12 * (c.cyc + k))
  BY DEF Twin, Seen

LEMMA SeenForgets ==
  ASSUME NEW c, DOMAIN c = Fields, NEW i, NEW p
  PROVE  Seen(WithCyc(c, i), p) = Seen(c, p)
  BY DEF Seen, WithCyc, Fields

(* Interrupts. *)
LEMMA TwinCosts ==
  ASSUME NEW w, DOMAIN w = Fields, NEW k \in Int, w.cyc \in Int, NEW y \in Int, NEW x, x = 12 * y
  PROVE  Twin(WithCyc(w, y), k + w.cyc) = Emux!Takes(Twin(w, k), x)
<1> DEFINE j == k + w.cyc
           z == 12 * (w.cyc + k) + x
<1>1. z = 12 * (y + j) /\ j \in Int
  OBVIOUS
<1>2. Emux!Takes(Twin(w, k), x) = PuttingClk(Twin(w, k), z)
  BY DEF Emux!Takes, PuttingClk, Twin
<1> HIDE DEF j, z
<1>3. Twin(WithCyc(w, y), j) = PuttingClk(Twin(w, j), 12 * (y + j))
  BY TwinUpdates
<1>4. PuttingClk(Twin(w, j), z) = PuttingClk(Twin(w, k), z)
  BY TwinSeen, SeenPut
<1> QED BY <1>1, <1>2, <1>3, <1>4 DEF j

LEMMA MaskKeeps ==
  ASSUME NEW t, DOMAIN t = Fields, NEW place
  PROVE  /\ DOMAIN Masked(t, place) = Fields
         /\ Masked(t, place).cyc = t.cyc /\ Masked(t, place).irq = t.irq
<1>1. ASSUME NEW d, DOMAIN d = Fields, NEW f, NEW on
      PROVE  DOMAIN Flag(d, f, on) = Fields /\ Flag(d, f, on).cyc = d.cyc /\ Flag(d, f, on).irq = d.irq
  BY <1>1 DEF Flag, Fields
<1>2. ASSUME NEW d, DOMAIN d = Fields
      PROVE  /\ DOMAIN Jump(d, place) = Fields
             /\ Jump(d, place).cyc = d.cyc /\ Jump(d, place).irq = d.irq
  <2> DEFINE p == place % 65536
  <2>1. Jump(d, place) = [d EXCEPT !.pc = p]
    BY DEF Jump
  <2> HIDE DEF p
  <2> QED BY <1>2, <2>1 DEF Fields
<1> DEFINE yes == TRUE
           no == FALSE
<1>3. Masked(t, place) = Jump(Flag(Flag(t, "I", yes), "D", no), place)
  BY DEF Masked
<1> HIDE DEF yes, no
<1> QED BY <1>1, <1>2, <1>3

LEMMA TwinIRQ ==
  ASSUME NEW n \in Nat, NEW c, Sound(c, Byte, n), NEW k \in Int, "D" \notin c.ps
  PROVE  /\ Twin(CpuExecuteIRQ(c), k + c.cyc) = Emux!doIRQ(Twin(c, k))
         /\ CpuExecuteIRQ(c).irq = c.irq
<1> DEFINE b == StatusOf(c.ps \ {"B"})
           d == PUSHW(c, c.pc)
           t == PUSH(d, b)
           place == CPU_PEEKW(t, \hFFFE)
           m == Masked(t, place)
           e == Twin(c, k)
           f == Emux!push(Emux!pushW(e, e.PC), Emux!StatusOf(e.P))
           target == Emux!readAddress(f, \hFFFE)
<1>1. CpuExecuteIRQ(c) = WithCyc(m, 7)
  BY DEF CpuExecuteIRQ, Masked, WithCyc
<1>2. Emux!doIRQ(e) = Emux!Takes(Reentered(f, target), 84)
  <2> HIDE DEF e
  <2> QED BY DEF Emux!doIRQ, Reentered
<1>3. e.PC = c.pc /\ Emux!StatusOf(e.P) = b
  BY TwinRegisters, SameStatus
<1>4. Twin(d, k) = Emux!pushW(e, c.pc) /\ Sound(d, Byte, n)
  <2>1. c.pc \in Int
    BY Registers, BothRanges
  <2> QED BY <2>1, TwinPushesWord, PushWordSound, BothRanges
<1>5. d.ps = c.ps /\ d.cyc = c.cyc /\ d.irq = c.irq /\ DOMAIN d = Fields
  BY CoreFields, PushKeeps DEF PUSHW
<1>6. b \in Int
  BY StatusType
<1> HIDE DEF b, d
<1>7. Twin(t, k) = f /\ Sound(t, Byte, n)
  <2> HIDE DEF e
  <2> QED BY <1>3, <1>4, <1>6, TwinPushes, StackSound, BothRanges
<1>8. "D" \notin t.ps /\ t.cyc = c.cyc /\ t.irq = c.irq /\ DOMAIN t = Fields
  BY <1>5, PushKeeps
<1> HIDE DEF t, f
<1>9. target = place
  BY <1>7, TwinReads
<1> HIDE DEF place, target
<1>10. Twin(m, k) = Reentered(f, place) /\ m.cyc = c.cyc /\ m.irq = c.irq /\ DOMAIN m = Fields
  BY <1>7, <1>8, TwinMasks, MaskKeeps
<1>11. c.cyc \in Int
  BY Registers, BothRanges
<1> HIDE DEF m, e
<1>12. Twin(WithCyc(m, 7), k + c.cyc) = Emux!Takes(Twin(m, k), 84)
  <2>1. 84 = 12 * 7
    OBVIOUS
  <2> QED BY <1>10, <1>11, <2>1, TwinCosts
<1>13. WithCyc(m, 7).irq = c.irq
  BY <1>10, Updates
<1> QED BY <1>1, <1>2, <1>9, <1>10, <1>12, <1>13 DEF e

LEMMA Images ==
  ASSUME NEW c, DOMAIN c = Fields, c.cyc \in Int
  PROVE  /\ Image(c) = Twin(c, 0)
         /\ Still(Image(c)) = Twin(c, -c.cyc)
         /\ Still(Image(c)) = Twin(WithCyc(c, 0), 0)
         /\ \A j \in Int : Image(WithCyc(c, c.cyc + j)) = Twin(c, j)
         /\ Twin(c, 0) = Twin(WithCyc(c, 0), c.cyc)
<1>1. \A d : Image(d) = Seen(d, 12 * d.cyc)
  BY DEF Image, Seen
<1>2. \A e : Still(e) = PuttingClk(e, 0)
  BY DEF Still, PuttingClk
<1>3. Still(Image(c)) = Seen(c, 0)
  <2> DEFINE p == 12 * c.cyc
  <2>1. Image(c) = Seen(c, p)
    BY <1>1
  <2> HIDE DEF p
  <2> QED BY <1>2, <2>1, SeenPut
<1>4. c.cyc + 0 = c.cyc /\ 12 * (c.cyc + (-c.cyc)) = 0
  OBVIOUS
<1>5. Image(c) = Twin(c, 0)
  BY <1>1, <1>4, TwinSeen
<1>6. Still(Image(c)) = Twin(c, -c.cyc)
  BY <1>3, <1>4, TwinSeen
<1>7. ASSUME NEW i PROVE WithCyc(c, i).cyc = i
  BY Updates
<1>8. Still(Image(c)) = Twin(WithCyc(c, 0), 0)
  <2>1. 12 * (0 + 0) = 0
    OBVIOUS
  <2>2. Twin(WithCyc(c, 0), 0) = Seen(WithCyc(c, 0), 12 * (0 + 0))
    BY <1>7, TwinSeen
  <2> QED BY <1>3, <2>1, <2>2, SeenForgets
<1>9. ASSUME NEW j \in Int PROVE Image(WithCyc(c, c.cyc + j)) = Twin(c, j)
  BY <1>1, <1>7, TwinSeen, SeenForgets
<1>10. Twin(c, 0) = Twin(WithCyc(c, 0), c.cyc)
  <2>1. 12 * (c.cyc + 0) = 12 * (0 + c.cyc)
    OBVIOUS
  <2>2. Twin(WithCyc(c, 0), c.cyc) = Seen(WithCyc(c, 0), 12 * (0 + c.cyc))
    BY <1>7, TwinSeen
  <2> QED BY <2>1, <2>2, SeenForgets, TwinSeen
<1> QED BY <1>5, <1>6, <1>8, <1>9, <1>10

(* An IRQ that is due before the instruction. *)
LEMMA TwinServes ==
  ASSUME NEW n \in Nat, NEW c, Sound(c, Byte, n), TakesIRQ(c), "D" \notin c.ps
  PROVE  Emux!Serve(Twin(c, -c.cyc)) = Twin(Interrupted(c), 0)
<1> DEFINE no == FALSE
           k  == -c.cyc
           d  == WithIRQ(c, no)
           e  == Twin(c, k)
<1>1. DOMAIN c = Fields /\ c.cyc \in Int
  BY CoreFields, Registers, BothRanges
<1>2. k \in Int /\ k + c.cyc = 0
  BY <1>1
<1>3. Interrupted(c) = CpuExecuteIRQ(d)
  BY DEF Interrupted, WithIRQ
<1>4. Emux!Due(e)
  BY TwinRegisters DEF Emux!Due, TakesIRQ
<1>5. Emux!Serve(e) = Emux!doIRQ(PuttingIRQ(e, no))
  <2> HIDE DEF e
  <2> QED BY <1>4 DEF Emux!Serve, PuttingIRQ
<1>6. Sound(d, Byte, n)
  BY PendingSound DEF WithIRQ
<1> HIDE DEF no, k
<1>7. Twin(d, k) = PuttingIRQ(e, no)
  BY <1>1, TwinUpdates
<1>8. "D" \notin d.ps /\ d.cyc = c.cyc
  BY <1>1 DEF WithIRQ, Fields
<1> HIDE DEF d, e
<1>9. Twin(CpuExecuteIRQ(d), k + d.cyc) = Emux!doIRQ(Twin(d, k))
  BY <1>2, <1>6, <1>8, TwinIRQ
<1> QED BY <1>2, <1>3, <1>5, <1>7, <1>8, <1>9 DEF e, k

(* One round of the loop. *)
LEMMA TwinRound ==
  ASSUME NEW c, Sound(c, Byte, 15), TakesIRQ(c) => "D" \notin c.ps, ~DiffersAt(Interrupted(c))
  PROVE  Image(Round(c)) = Emux!Round(Still(Image(c)))
<1> DEFINE v == Interrupted(c)
           w == WithCyc(v, 0)
           j == IF TakesIRQ(c) THEN v.cyc ELSE 0
           u == CpuExecuteOP(w)
           e == Twin(w, j)
<1>1. DOMAIN c = Fields /\ c.cyc \in Int
  BY CoreFields, Registers, BothRanges
<1>2. Sound(v, Byte, 15)
  <2>1. Sound([c EXCEPT !.irq = FALSE], Byte, 15)
    BY PendingSound
  <2>2. Sound(CpuExecuteIRQ([c EXCEPT !.irq = FALSE]), Byte, 7)
    BY <2>1, IRQSound, BothRanges
  <2>3. \A d : Sound(d, Byte, 7) => Sound(d, Byte, 15)
    BY DEF Sound
  <2> QED BY <2>2, <2>3 DEF Interrupted
<1>3. DOMAIN v = Fields /\ v.cyc \in Int /\ j \in Int
  BY <1>2, CoreFields, Registers, BothRanges
<1>4. Sound(w, Byte, 0) /\ w.cyc = 0 /\ DOMAIN w = Fields
  <2>1. Sound([v EXCEPT !.cyc = 0], Byte, 0)
    BY <1>2, CyclesSound
  <2> QED BY <1>3, <2>1, Updates DEF WithCyc
<1>5. ~DiffersAt(w)
  BY <1>3, DifferenceForgets
<1>6. Round(c) = WithCyc(u, u.cyc + j)
  BY DEF Round, WithCyc
<1>7. Emux!Serve(Still(Image(c))) = e
  <2>1. CASE TakesIRQ(c)
    <3>1. Emux!Serve(Still(Image(c))) = Twin(v, 0)
      BY <1>1, <2>1, Images, TwinServes
    <3>2. Twin(v, 0) = Twin(w, v.cyc)
      BY <1>3, Images
    <3> QED BY <2>1, <3>1, <3>2
  <2>2. CASE ~TakesIRQ(c)
    <3>1. Still(Image(c)) = Twin(WithCyc(c, 0), 0) /\ Still(Image(c)) = Twin(c, -c.cyc)
      BY <1>1, Images
    <3>2. Emux!Serve(Twin(c, -c.cyc)) = Twin(c, -c.cyc)
      BY <2>2, NothingDue
    <3>3. v = c /\ j = 0
      BY <2>2 DEF Interrupted
    <3> QED BY <3>1, <3>2, <3>3
  <2> QED BY <2>1, <2>2
<1> DEFINE f == Still(Image(c))
<1> HIDE DEF f, v, w, j, u
<1>8. e.PC = w.pc /\ Emux!read(e, w.pc) = CPU_PEEK(w, w.pc)
  BY TwinRegisters, TwinReads
<1>9. Emux!Round(f) = Emux!doCode(Emux!Goto(e, e.PC + 1), Emux!read(e, e.PC))
  <2> HIDE DEF e
  <2> QED BY <1>7 DEF Emux!Round, f
<1>10. Twin(u, j) = Emux!doCode(Emux!Goto(e, w.pc + 1), CPU_PEEK(w, w.pc))
  BY <1>3, <1>4, <1>5, TwinInstruction DEF u
<1>11. DOMAIN u = Fields /\ u.cyc \in Int
  <2>1. Sound(u, Byte, 8)
    BY <1>4, InstructionSound, BothRanges DEF u
  <2> QED BY <2>1, CoreFields, Registers, BothRanges
<1>12. Image(WithCyc(u, u.cyc + j)) = Twin(u, j)
  BY <1>3, <1>11, Images
<1> QED BY <1>6, <1>8, <1>9, <1>10, <1>12 DEF f

(* An NMI, while its pushes do not leave the stack. *)
LEMMA PushesAgree ==
  ASSUME NEW n, NEW d, Sound(d, Byte, n), d.sp >= 1, NEW b
  PROVE  PushNMI(d, b) = PUSH(d, b) /\ PUSH(d, b).sp = d.sp - 1
<1> DEFINE e == CPU_POKE(d, 256 + d.sp, b)
           p == d.sp - 1
<1>1. d.sp \in Byte
  BY BothRanges, Registers
<1>2. p = (d.sp - 1) % 256
  BY <1>1 DEF Byte
<1>3. e.sp = d.sp /\ DOMAIN e = Fields
  BY CoreFields DEF CPU_POKE, Fields
<1>4. PushNMI(d, b) = [e EXCEPT !.sp = p] /\ PUSH(d, b) = [e EXCEPT !.sp = p]
  BY <1>2, <1>3 DEF PushNMI, PUSH
<1> HIDE DEF e, p
<1>5. [e EXCEPT !.sp = p].sp = p
  BY <1>3 DEF Fields
<1> QED BY <1>4, <1>5 DEF p

(* An NMI with the I that Enter sets after it. *)
Masking(c) == Flag(CpuExecuteNMI(c), "I", TRUE)
LEMMA TwinNMI ==
  ASSUME NEW n \in Nat, NEW c, Sound(c, Byte, n), c.cyc = 0, c.sp >= 3, "B" \notin c.ps
  PROVE  Twin(Masking(c), 0) = Emux!doNMI(Twin(c, 0))
<1> DEFINE b == StatusOf(c.ps)
           c1 == PUSH(c, HiByte(c.pc))
           d == PUSHW(c, c.pc)
           t == PUSH(d, b)
           place == CPU_PEEKW(t, \hFFFA)
           p == place % 65536
           w == WithPC(t, p)
           P == t.ps \cup {"I"}
           yes == TRUE
           e == Twin(c, 0)
           f == Emux!push(Emux!pushW(e, e.PC), Emux!StatusOf(e.P))
           target == Emux!readAddress(f, \hFFFA)
<1>1. c.pc \in Int /\ HiByte(c.pc) \in Int /\ c.sp \in Int /\ b \in Int
  BY Registers, BothRanges, StatusType DEF HiByte
<1>2. d = PUSH(c1, c.pc)
  BY DEF PUSHW
<1>3. Sound(c1, Byte, n) /\ c1.sp = c.sp - 1 /\ c1 = PushNMI(c, HiByte(c.pc))
  <2>1. c.sp >= 1
    BY <1>1
  <2> QED BY <1>1, <2>1, StackSound, BothRanges, PushesAgree
<1> HIDE DEF c1
<1>4. d = PushNMI(c1, c.pc) /\ d.sp = c.sp - 2
  <2>1. c1.sp >= 1 /\ c1.sp - 1 = c.sp - 2
    BY <1>1, <1>3
  <2> QED BY <1>2, <1>3, <2>1, PushesAgree
<1>5. Twin(d, 0) = Emux!pushW(e, c.pc) /\ Sound(d, Byte, n)
  BY <1>1, TwinPushesWord, PushWordSound, BothRanges
<1>6. d.ps = c.ps /\ d.cyc = c.cyc
  BY CoreFields, PushKeeps DEF PUSHW
<1> HIDE DEF d, b
<1>7. t = PushNMI(d, b)
  <2>1. d.sp >= 1
    BY <1>1, <1>4
  <2> QED BY <1>5, <2>1, PushesAgree
<1>8. CpuExecuteNMI(c) = WithCyc(Jump(t, place), 7)
  <2>1. t = PushNMI(PushNMI(PushNMI(c, HiByte(c.pc)), c.pc), PS(c))
    BY <1>3, <1>4, <1>7 DEF PS, b
  <2> HIDE DEF t
  <2> QED BY <2>1 DEF CpuExecuteNMI, WithCyc
<1>9. Emux!doNMI(e) = Emux!Takes(Reentered(f, target), 84)
  <2> HIDE DEF e
  <2> QED BY DEF Emux!doNMI, Reentered
<1>10. e.PC = c.pc /\ Emux!StatusOf(e.P) = b
  <2>1. e.PC = c.pc /\ e.P = c.ps \ {"B"} /\ c.ps \ {"B"} = c.ps
    BY TwinRegisters
  <2> QED BY <2>1, SameStatus DEF b
<1>11. Twin(t, 0) = f /\ Sound(t, Byte, n)
  <2> HIDE DEF e
  <2>1. Twin(t, 0) = Emux!push(Twin(d, 0), b)
    BY <1>5, TwinPushes
  <2>2. Sound(t, Byte, n)
    BY <1>1, <1>5, StackSound, BothRanges
  <2> QED BY <1>5, <1>10, <2>1, <2>2
<1>12. t.ps = c.ps /\ t.cyc = 0 /\ DOMAIN t = Fields
  BY <1>5, <1>6, CoreFields, PushKeeps
<1> HIDE DEF t, f
<1>13. target = place
  BY <1>11, TwinReads
<1>14. Jump(t, place) = w /\ Emux!Goto(f, place) = PuttingPC(f, p)
  BY DEF Jump, WithPC, Emux!Goto, PuttingPC
<1> HIDE DEF place, target, p
<1>15. w.ps = t.ps /\ w.cyc = 0 /\ DOMAIN w = Fields /\ Twin(w, 0) = PuttingPC(f, p)
  BY <1>11, <1>12, Updates, TwinUpdates
<1> HIDE DEF w
<1>16. Flag(WithCyc(w, 7), "I", yes) = Flagged(WithCyc(w, 7), P)
  <2>1. WithCyc(w, 7).ps = t.ps /\ DOMAIN WithCyc(w, 7) = Fields
    BY <1>15, Updates
  <2>2. Changed(t.ps, "I", yes) = P
    BY DEF Changed
  <2> HIDE DEF yes, P
  <2> QED BY <2>1, <2>2, FlagsChange
<1>17. Flagged(WithCyc(w, 7), P) = WithCyc(Flagged(w, P), 7)
  <2> HIDE DEF P
  <2> QED BY <1>15 DEF Flagged, WithCyc, Fields
<1> DEFINE m == Flagged(w, P)
           Q == Shown(t.ps) \cup {"I"}
<1>18. Twin(m, 0) = Reflagged(PuttingPC(f, p), Q) /\ DOMAIN m = Fields /\ m.cyc = 0
  <2>1. Shown(P) = Q
    BY DEF Shown
  <2> HIDE DEF P, Q
  <2>2. Twin(m, 0) = Reflagged(Twin(w, 0), Q)
    BY <1>15, <2>1, TwinFlagged
  <2>3. m.cyc = w.cyc
    BY <1>15 DEF Flagged, Fields
  <2> QED BY <1>15, <2>2, <2>3, Updates
<1>19. Reentered(f, place) = Reflagged(PuttingPC(f, p), Q)
  <2>1. f.P = Shown(t.ps)
    BY <1>11, TwinRegisters DEF Shown
  <2>2. Reentered(f, place) = [PuttingPC(f, p) EXCEPT !.P = @ \cup {"I"}]
    BY <1>14 DEF Reentered
  <2>3. f = Twin(t, 0)
    BY <1>11
  <2>4. [PuttingPC(f, p) EXCEPT !.P = @ \cup {"I"}] = Reflagged(PuttingPC(f, p), Q)
    BY <2>1, <2>3 DEF PuttingPC, Reflagged, Twin
  <2> QED BY <2>2, <2>4
<1> HIDE DEF m, Q
<1>20. Twin(WithCyc(m, 7), 0) = Emux!Takes(Twin(m, 0), 84)
  <2>1. 84 = 12 * 7 /\ 0 + m.cyc = 0
    BY <1>18
  <2>2. Twin(WithCyc(m, 7), 0 + m.cyc) = Emux!Takes(Twin(m, 0), 84)
    BY <1>18, <2>1, TwinCosts
  <2> QED BY <2>1, <2>2
<1>21. Masking(c) = WithCyc(m, 7)
  BY <1>8, <1>14, <1>16, <1>17 DEF m, yes, Masking
<1> QED BY <1>9, <1>13, <1>18, <1>19, <1>20, <1>21 DEF e

LEMMA TwinEnter ==
  ASSUME NEW c, Sound(c, Byte, 15), c.nmi => c.sp >= 3 /\ "B" \notin c.ps
  PROVE  Image(Enter([c EXCEPT !.cyc = 0])) = Emux!Enter(Still(Image(c)))
<1> DEFINE d == WithCyc(c, 0)
           no == FALSE
           t == WithNMI(d, no)
           e == Twin(d, 0)
<1>1. DOMAIN c = Fields /\ c.cyc \in Int
  BY CoreFields, Registers, BothRanges
<1>2. Sound(d, Byte, 0) /\ d.cyc = 0 /\ DOMAIN d = Fields
  <2>1. Sound([c EXCEPT !.cyc = 0], Byte, 0)
    BY CyclesSound
  <2> QED BY <1>1, <2>1, Updates DEF WithCyc
<1>3. d.nmi = c.nmi /\ d.sp = c.sp /\ d.ps = c.ps
  BY <1>1 DEF WithCyc, Fields
<1>4. Still(Image(c)) = e
  BY <1>1, Images
<1>5. e.nmiPending = d.nmi
  BY TwinRegisters
<1>6. Image(d) = e
  BY <1>2, Images
<1>7. [c EXCEPT !.cyc = 0] = d
  BY DEF WithCyc
<1> HIDE DEF d
<1>8. CASE ~c.nmi
  <2>1. Enter(d) = d
    BY <1>3, <1>8 DEF Enter, TakesNMI
  <2>2. Emux!Enter(e) = e
    <3> HIDE DEF e
    <3> QED BY <1>3, <1>5, <1>8 DEF Emux!Enter
  <2> QED BY <1>4, <1>6, <1>7, <2>1, <2>2
<1>9. CASE c.nmi
  <2>1. Enter(d) = Masking(t)
    BY <1>3, <1>9 DEF Enter, TakesNMI, WithNMI, Masking
  <2>2. Emux!Enter(e) = Emux!doNMI(PuttingNMI(e, no))
    <3> HIDE DEF e
    <3> QED BY <1>3, <1>5, <1>9 DEF Emux!Enter, PuttingNMI
  <2>3. Sound(t, Byte, 0)
    BY <1>2, PendingSound DEF WithNMI
  <2>4. t.cyc = 0 /\ t.sp = c.sp /\ t.ps = c.ps
    BY <1>2, <1>3 DEF WithNMI, Fields
  <2> HIDE DEF no
  <2>5. Twin(t, 0) = PuttingNMI(e, no)
    BY <1>2, TwinUpdates
  <2> HIDE DEF t, e
  <2>6. Twin(Masking(t), 0) = Emux!doNMI(Twin(t, 0))
    BY <1>9, <2>3, <2>4, TwinNMI
  <2> DEFINE r == Masking(t)
  <2>7. Sound(r, Byte, 7)
    <3>1. Sound(CpuExecuteNMI(t), Byte, 7)
      BY <1>9, <2>3, <2>4, NMISound, BothRanges
    <3> QED BY <3>1, FlagSound, FlagNames DEF Masking
  <2> HIDE DEF r
  <2>8. DOMAIN r = Fields /\ r.cyc \in Int
    BY <2>7, CoreFields, Registers, BothRanges
  <2>9. Image(r) = Twin(r, 0)
    BY <2>8, Images
  <2> QED BY <1>4, <1>7, <2>1, <2>2, <2>5, <2>6, <2>9 DEF r
<1> QED BY <1>8, <1>9

(* An IRQ that is asked for at once. *)
LEMMA TwinNow ==
  ASSUME NEW c, Sound(c, Byte, 15), "I" \notin c.ps => ~c.irq /\ "D" \notin c.ps
  PROVE  Image(irq_now([c EXCEPT !.cyc = 0])) = Emux!IRQ(Still(Image(c)))
<1> DEFINE d == WithCyc(c, 0)
           e == Twin(d, 0)
           yes == TRUE
           no == FALSE
<1>1. DOMAIN c = Fields /\ c.cyc \in Int
  BY CoreFields, Registers, BothRanges
<1>2. Sound(d, Byte, 0) /\ d.cyc = 0 /\ DOMAIN d = Fields
  <2>1. Sound([c EXCEPT !.cyc = 0], Byte, 0)
    BY CyclesSound
  <2> QED BY <1>1, <2>1, Updates DEF WithCyc
<1>3. d.irq = c.irq /\ d.ps = c.ps
  BY <1>1, Updates
<1>4. Still(Image(c)) = e
  BY <1>1, Images
<1>5. e.P = d.ps \ {"B"}
  BY TwinRegisters
<1>6. [c EXCEPT !.cyc = 0] = d
  BY DEF WithCyc
<1> HIDE DEF d
<1>7. CASE "I" \in c.ps
  <2> DEFINE t == WithIRQ(d, yes)
  <2>1. irq_now(d) = t
    BY <1>3, <1>7 DEF irq_now, set_irq_pending, WithIRQ
  <2>2. Emux!IRQ(e) = PuttingIRQ(e, yes)
    <3> HIDE DEF e
    <3> QED BY <1>3, <1>5, <1>7 DEF Emux!IRQ, Emux!Pend, PuttingIRQ
  <2> HIDE DEF yes
  <2>3. Twin(t, 0) = PuttingIRQ(e, yes)
    BY <1>2, TwinUpdates
  <2>4. DOMAIN t = Fields /\ t.cyc \in Int
    <3>1. t.cyc = d.cyc
      BY <1>2 DEF WithIRQ, Fields
    <3> QED BY <1>2, <3>1, Updates
  <2> HIDE DEF t
  <2>5. Image(t) = Twin(t, 0)
    BY <2>4, Images
  <2> QED BY <1>4, <1>6, <2>1, <2>2, <2>3, <2>5
<1>8. CASE "I" \notin c.ps
  <2> DEFINE m == CpuExecuteIRQ(d)
  <2>1. irq_now(d) = WithIRQ(m, no)
    BY <1>3, <1>8 DEF irq_now, WithIRQ
  <2>2. Emux!IRQ(e) = Emux!doIRQ(e)
    <3> HIDE DEF e
    <3> QED BY <1>3, <1>5, <1>8 DEF Emux!IRQ
  <2>3. Twin(m, 0) = Emux!doIRQ(e) /\ m.irq = d.irq
    <3>1. Twin(m, 0 + d.cyc) = Emux!doIRQ(Twin(d, 0)) /\ m.irq = d.irq
      BY <1>2, <1>3, <1>8, TwinIRQ
    <3>2. 0 + d.cyc = 0
      BY <1>2
    <3> QED BY <3>1, <3>2
  <2>4. Sound(m, Byte, 7)
    BY <1>2, IRQSound, BothRanges
  <2> HIDE DEF m
  <2>5. WithIRQ(m, no) = m
    <3>1. m.irq = FALSE
      <4>1. m.irq \in BOOLEAN
        BY <2>4 DEF Sound
      <4> QED BY <1>3, <1>8, <2>3, <4>1
    <3>2. DOMAIN m = Fields
      BY <2>4, CoreFields
    <3>3. [m EXCEPT !.irq = FALSE] = m
      BY <2>4, <3>1 DEF Sound
    <3> QED BY <3>3 DEF WithIRQ
  <2>6. Image(m) = Twin(m, 0)
    <3>1. DOMAIN m = Fields /\ m.cyc \in Int
      BY <2>4, CoreFields, Registers, BothRanges
    <3> QED BY <3>1, Images
  <2> QED BY <1>4, <1>6, <2>1, <2>2, <2>3, <2>5, <2>6
<1> QED BY <1>7, <1>8

(* Asking for an interrupt. *)
LEMMA TwinAsks ==
  ASSUME NEW c, DOMAIN c = Fields, c.cyc \in Int
  PROVE  /\ Image(set_nmi_pending(c)) = Emux!NMI(Image(c))
         /\ Image(set_irq_pending(c)) = Emux!Pend(Image(c))
<1> DEFINE yes == TRUE
           d == WithNMI(c, yes)
           t == WithIRQ(c, yes)
           e == Image(c)
<1>1. set_nmi_pending(c) = d /\ set_irq_pending(c) = t
  BY DEF set_nmi_pending, set_irq_pending, WithNMI, WithIRQ
<1>2. Emux!NMI(e) = PuttingNMI(e, yes) /\ Emux!Pend(e) = PuttingIRQ(e, yes)
  <2> HIDE DEF e
  <2> QED BY DEF Emux!NMI, Emux!Pend, PuttingNMI, PuttingIRQ
<1> HIDE DEF yes
<1>3. Twin(d, 0) = PuttingNMI(Twin(c, 0), yes) /\ Twin(t, 0) = PuttingIRQ(Twin(c, 0), yes)
  BY TwinUpdates
<1>4. DOMAIN d = Fields /\ d.cyc = c.cyc /\ DOMAIN t = Fields /\ t.cyc = c.cyc
  BY DEF WithNMI, WithIRQ, Fields
<1> HIDE DEF d, t
<1>5. Image(c) = Twin(c, 0) /\ Image(d) = Twin(d, 0) /\ Image(t) = Twin(t, 0)
  BY <1>4, Images
<1> QED BY <1>1, <1>2, <1>3, <1>5 DEF e

LEMMA StepAgrees == ASSUME CoreInv, ~Differs, ~deep' PROVE SameStep
<1>1. ASSUME ~deep
      PROVE  Sound(s, Byte, 15) /\ DOMAIN s = Fields /\ s.cyc \in Int
  <2>1. Sound(s, Byte, 15)
    BY <1>1 DEF CoreInv
  <2> QED BY <2>1, CoreFields, Registers, BothRanges
<1>2. ASSUME Begin PROVE Image(s') = Emux!Enter(Still(Image(s)))
  <2>1. s' = Enter([s EXCEPT !.cyc = 0])
    BY <1>2 DEF Begin
  <2>2. ~deep /\ (s.nmi => ~(s.sp < 3))
    BY <1>2 DEF Begin
  <2>3. Sound(s, Byte, 15) /\ s.sp \in Int
    BY <1>1, <2>2, Registers, BothRanges
  <2>4. s.nmi => s.sp >= 3
    BY <2>2, <2>3
  <2>5. s.nmi => "B" \notin s.ps
    BY <1>2 DEF Differs
  <2> QED BY <2>1, <2>3, <2>4, <2>5, TwinEnter
<1>3. ASSUME Execute PROVE Image(s') = Emux!Round(Still(Image(s)))
  <2>1. s' = Round(s) /\ ~deep
    BY <1>3 DEF Execute
  <2>2. (TakesIRQ(s) => "D" \notin s.ps) /\ ~DiffersAt(Interrupted(s))
    BY <1>3 DEF Differs
  <2> QED BY <1>1, <2>1, <2>2, TwinRound
<1>4. ASSUME AskNMI PROVE Image(s') = Emux!NMI(Image(s))
  <2>1. s' = set_nmi_pending(s) /\ ~deep
    BY <1>4 DEF AskNMI, Ask
  <2> QED BY <1>1, <2>1, TwinAsks
<1>5. ASSUME AskIRQ PROVE Image(s') = Emux!Pend(Image(s))
  <2>1. s' = set_irq_pending(s) /\ ~deep
    BY <1>5 DEF AskIRQ, Ask
  <2> QED BY <1>1, <2>1, TwinAsks
<1>6. ASSUME IRQNow PROVE Image(s') = Emux!IRQ(Still(Image(s)))
  <2>1. s' = irq_now([s EXCEPT !.cyc = 0]) /\ ~deep
    BY <1>6 DEF IRQNow, Ask
  <2>2. "I" \notin s.ps => ~s.irq /\ "D" \notin s.ps
    BY <1>6 DEF Differs
  <2> QED BY <1>1, <2>1, <2>2, TwinNow
<1> QED BY <1>2, <1>3, <1>4, <1>5, <1>6 DEF SameStep

(* The two cores agree, whatever the firmware, its handlers and the         *)
(* interrupts: but for the listed differences, every instruction and every *)
(* interrupt leaves c6502's core as w65c02's, registers, flags, memory,     *)
(* pending interrupts and cycles.  (compare/c6502.cpp:2, cpu.cpp:25-83)     *)
THEOREM CoresMatch == Spec => CoresAgree
<1>1. CoreInv => [Differs \/ deep' \/ SameStep]_vars
  BY StepAgrees
<1> QED BY <1>1, AlwaysCore, PTL DEF Spec, CoresAgree
=============================================================================
