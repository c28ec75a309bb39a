------------------------------- MODULE C6502 --------------------------------
(* The other core (compare/c6502.cpp), "mainly used for comparing with     *)
(* handpsp's cpu", and the loop that runs it (emux_exec_helper), over plain *)
(* memory.  A core is a record                                             *)
(*   A, X, Y, SP, PC         the registers                                 *)
(*   P                       the set of flags of P                         *)
(*   mem                     what the bus reads and writes                 *)
(*   irqPending, nmiPending                                                *)
(*   clk                     twelfths of a cycle                           *)
EXTENDS IllegalOps

read(e, addr)        == At(e.mem, addr)
write(e, addr, b)    == [e EXCEPT !.mem = Written(@, addr, b)]
readAddress(e, addr) == WordAt(e.mem, addr)
Goto(e, addr)        == [e EXCEPT !.PC = addr % 65536]
Takes(e, n)          == [e EXCEPT !.clk = @ + n]

znTbl(b)     == (IF b = 0 THEN {"Z"} ELSE {}) \cup (IF b > 127 THEN {"N"} ELSE {})
If(f, on)    == IF on THEN {f} ELSE {}
Put(e, r, b) == [e EXCEPT ![r] = b, !.P = (@ \ {"N", "Z"}) \cup znTbl(b)]

push(e, b)  == [write(e, e.SP + 256, b) EXCEPT !.SP = (@ - 1) % 256]
pushW(e, w) == push(push(e, HiByte(w)), w)
Top(e)      == (e.SP + 1) % 256
pop(e)      == read(e, 256 + Top(e))
Less(e, n)  == [e EXCEPT !.SP = (@ + n) % 256]
popW(e)     == pop(e) + 256 * pop(Less(e, 1))

Reset(mem) ==
  [A |-> 0, X |-> 0, Y |-> 0, SP |-> 255, PC |-> WordAt(mem, \hFFFC), P |-> {"I"},
   mem |-> mem, irqPending |-> FALSE, nmiPending |-> FALSE, clk |-> 0]

-----------------------------------------------------------------------------
(* Interrupts, and the loop's part in them. *)
doNMI(e) == LET t == push(pushW(e, e.PC), StatusOf(e.P))
            IN  Takes([Goto(t, readAddress(t, \hFFFA)) EXCEPT !.P = @ \cup {"I"}], 84)
doIRQ(e) == LET t == push(pushW(e, e.PC), StatusOf(e.P))
            IN  Takes([Goto(t, readAddress(t, \hFFFE)) EXCEPT !.P = @ \cup {"I"}], 84)
NMI(e)   == [e EXCEPT !.nmiPending = TRUE]
Pend(e)  == [e EXCEPT !.irqPending = TRUE]
IRQ(e)   == IF "I" \in e.P THEN Pend(e) ELSE doIRQ(e)
Due(e)   == e.irqPending /\ "I" \notin e.P
Serve(e) == IF Due(e) THEN doIRQ([e EXCEPT !.irqPending = FALSE]) ELSE e
Enter(e) == IF e.nmiPending THEN doNMI([e EXCEPT !.nmiPending = FALSE]) ELSE e

-----------------------------------------------------------------------------
(* Addresses: the operand's length, where the operand is, and whether      *)
(* indexing left the page.                                                 *)
Length(mode) == CASE mode = "" -> 0
                  [] mode \in {"abs", "absx", "absy", "ind"} -> 2
                  [] OTHER -> 1

ZeroPageWord(e, z) == read(e, z) + 256 * read(e, (z + 1) % 256)
Et(mode, e) == IF mode = "indy" THEN ZeroPageWord(e, read(e, e.PC))
               ELSE readAddress(e, e.PC)
EA_AX(e) == (Et("absx", e) + e.X) % 65536
EA_AY(e) == (Et("absy", e) + e.Y) % 65536
EA_IX(e) == ZeroPageWord(e, (read(e, e.PC) + e.X) % 256)
EA_IY(e) == (Et("indy", e) + e.Y) % 65536
Target(e) ==
  LET t == readAddress(e, e.PC)
  IN  IF t % 256 # 255 THEN readAddress(e, t) ELSE read(e, t) + 256 * read(e, t - 255)

Address(mode, e) ==
  CASE mode = ""     -> 0
    [] mode = "imm"  -> e.PC
    [] mode = "zp"   -> read(e, e.PC)
    [] mode = "zpx"  -> (read(e, e.PC) + e.X) % 256
    [] mode = "zpy"  -> (read(e, e.PC) + e.Y) % 256
    [] mode = "abs"  -> readAddress(e, e.PC)
    [] mode = "absx" -> EA_AX(e)
    [] mode = "absy" -> EA_AY(e)
    [] mode = "indx" -> EA_IX(e)
    [] mode = "indy" -> EA_IY(e)
    [] mode = "ind"  -> Target(e)
LeavesPage(mode, e) ==
  /\ mode \in {"absx", "absy", "indy"}
  /\ Bit(Address(mode, e), 8) # Bit(Et(mode, e), 8)

-----------------------------------------------------------------------------
(* Instructions. *)
Carry(e) == IF "C" \in e.P THEN 1 ELSE 0
Arith(e, dt, j, v, c) ==
  [e EXCEPT !.A = j % 256,
            !.P = (@ \ {"N", "V", "Z", "C"}) \cup If("V", v) \cup If("C", c) \cup znTbl(j % 256)]
add(e, dt) == LET j == e.A + dt + Carry(e)
              IN  Arith(e, dt, j, Bit(e.A, 7) = Bit(dt, 7) /\ Bit(e.A, 7) # Bit(j, 7), j > 255)
sub(e, dt) == LET j == e.A - dt - (1 - Carry(e))
              IN  Arith(e, dt, j, Bit(e.A, 7) # Bit(dt, 7) /\ Bit(e.A, 7) # Bit(j, 7), j >= 0)
cmp(e, i, j) ==
  [e EXCEPT !.P = (@ \ {"N", "Z", "C"}) \cup If("C", i - j >= 0) \cup znTbl((i - j) % 256)]
BIT(e, dt) ==
  [e EXCEPT !.P = (@ \ {"N", "V", "Z"}) \cup (FlagsOf(dt) \cap {"N", "V"})
                    \cup If("Z", And(e.A, dt) = 0)]
AND(e, dt) == Put(e, "A", And(e.A, dt))
EOR(e, dt) == Put(e, "A", Xor(e.A, dt))
ORA(e, dt) == Put(e, "A", Or(e.A, dt))

(* The shifted byte with the carry in front of it. *)
asl(e, dt) == 2 * dt
rol(e, dt) == 2 * dt + Carry(e)
lsr(e, dt) == 256 * (dt % 2) + (dt \div 2)
ror(e, dt) == 256 * (dt % 2) + (dt \div 2) + 128 * Carry(e)
Shifts(op, e, dt) == CASE op = "ASL" -> asl(e, dt)
                       [] op = "ROL" -> rol(e, dt)
                       [] op = "LSR" -> lsr(e, dt)
                       [] op = "ROR" -> ror(e, dt)
Shift(op, mode, e, address) ==
  LET j == Shifts(op, e, IF mode = "" THEN e.A ELSE read(e, address))
      t == [e EXCEPT !.P = (@ \ {"N", "Z", "C"}) \cup If("C", j > 255) \cup znTbl(j % 256)]
  IN  IF mode = "" THEN [t EXCEPT !.A = j % 256] ELSE write(t, address, j % 256)
Bump(e, address, n) ==
  LET b == (read(e, address) + n) % 256
  IN  write([e EXCEPT !.P = (@ \ {"N", "Z"}) \cup znTbl(b)], address, b)

Loads     == [LDA |-> "A", LDX |-> "X", LDY |-> "Y"]
Stores    == [STA |-> "A", STX |-> "X", STY |-> "Y"]
Compares  == [CMP |-> "A", CPX |-> "X", CPY |-> "Y"]
Transfers == [TAX |-> <<"A", "X">>, TAY |-> <<"A", "Y">>, TSX |-> <<"SP", "X">>,
              TXA |-> <<"X", "A">>, TYA |-> <<"Y", "A">>]
Bumps     == [INX |-> <<"X", 1>>, INY |-> <<"Y", 1>>, DEX |-> <<"X", -1>>, DEY |-> <<"Y", -1>>]
FlagOps   == [CLC |-> <<"C", FALSE>>, CLD |-> <<"D", FALSE>>, CLI |-> <<"I", FALSE>>,
              CLV |-> <<"V", FALSE>>, SEC |-> <<"C", TRUE>>, SED |-> <<"D", TRUE>>,
              SEI |-> <<"I", TRUE>>]
SetFlag(e, f, on) == [e EXCEPT !.P = (@ \ {f}) \cup If(f, on)]

Jumps == [BPL |-> <<"N", FALSE>>, BMI |-> <<"N", TRUE>>, BCC |-> <<"C", FALSE>>,
          BCS |-> <<"C", TRUE>>, BNE |-> <<"Z", FALSE>>, BEQ |-> <<"Z", TRUE>>,
          BVC |-> <<"V", FALSE>>, BVS |-> <<"V", TRUE>>]
rel_jmp(e, flagNum, flagVal) ==
  LET t      == Goto(e, e.PC + 1)
      offset == Signed(read(e, e.PC))
  IN  IF (flagNum \in e.P) # flagVal THEN t
      ELSE Takes(Goto(t, t.PC + offset), IF Bit(t.PC, 8) # Bit(t.PC + offset, 8) THEN 24 ELSE 12)

PHP(e) == push(e, StatusOf(e.P \cup {"B"}))
PLP(e) == [Less(e, 1) EXCEPT !.P = FlagsOf(pop(e)) \ {"B"}]
PLA(e) == Put(Less(e, 1), "A", pop(e))
(* The return address is pushed before the operand is read, which only     *)
(* shows where the stack holds code: not modelled.                         *)
JSR(e, address) == Goto(pushW(e, (e.PC - 1) % 65536), address)
RTS(e) == Goto(Less(e, 2), popW(e) + 1)
RTI(e) == Serve(LET t == PLP(e) IN Goto(Less(t, 2), popW(t)))
BRK(e) == LET t == PHP(pushW(e, (e.PC + 1) % 65536))
          IN  [Goto(t, readAddress(t, \hFFFE)) EXCEPT !.P = @ \cup {"I"}]

Do(op, mode, e, address) ==
  CASE op = "ADC" -> add(e, read(e, address))
    [] op = "SBC" -> sub(e, read(e, address))
    [] op = "AND" -> AND(e, read(e, address))
    [] op = "EOR" -> EOR(e, read(e, address))
    [] op = "ORA" -> ORA(e, read(e, address))
    [] op = "BIT" -> BIT(e, read(e, address))
    [] op \in DOMAIN Compares -> cmp(e, e[Compares[op]], read(e, address))
    [] op \in DOMAIN Loads    -> Put(e, Loads[op], read(e, address))
    [] op \in DOMAIN Stores   -> write(e, address, e[Stores[op]])
    [] op \in {"ASL", "ROL", "LSR", "ROR"} -> Shift(op, mode, e, address)
    [] op = "INC" -> Bump(e, address, 1)
    [] op = "DEC" -> Bump(e, address, -1)
    [] op \in DOMAIN Bumps     -> Put(e, Bumps[op][1], (e[Bumps[op][1]] + Bumps[op][2]) % 256)
    [] op \in DOMAIN Transfers -> Put(e, Transfers[op][2], e[Transfers[op][1]])
    [] op = "TXS" -> [e EXCEPT !.SP = e.X]
    [] op = "CLI" -> Serve(SetFlag(e, "I", FALSE))
    [] op \in DOMAIN FlagOps \ {"CLI"} -> SetFlag(e, FlagOps[op][1], FlagOps[op][2])
    [] op \in DOMAIN Jumps     -> rel_jmp(e, Jumps[op][1], Jumps[op][2])
    [] op = "PHA" -> push(e, e.A)
    [] op = "PHP" -> PHP(e)
    [] op = "PLA" -> PLA(e)
    [] op = "PLP" -> PLP(e)
    [] op = "JMP" -> Goto(e, address)
    [] op = "JSR" -> JSR(e, address)
    [] op = "RTS" -> RTS(e)
    [] op = "RTI" -> RTI(e)
    [] op = "BRK" -> BRK(e)
    [] op = "NOP" -> e

-----------------------------------------------------------------------------
(* The opcodes: instruction, addressing, twelfths of a cycle. *)
Code0(c) == CASE c = \h00 -> <<"BRK", "", 84>> [] c = \h01 -> <<"ORA", "indx", 72>>
              [] c = \h05 -> <<"ORA", "zp", 36>> [] c = \h06 -> <<"ASL", "zp", 60>>
              [] c = \h08 -> <<"PHP", "", 36>> [] c = \h09 -> <<"ORA", "imm", 24>>
              [] c = \h0A -> <<"ASL", "", 24>> [] c = \h0D -> <<"ORA", "abs", 48>>
              [] c = \h0E -> <<"ASL", "abs", 72>>
Code1(c) == CASE c = \h10 -> <<"BPL", "", 24>> [] c = \h11 -> <<"ORA", "indy", 60>>
              [] c = \h15 -> <<"ORA", "zpx", 48>> [] c = \h16 -> <<"ASL", "zpx", 72>>
              [] c = \h18 -> <<"CLC", "", 24>> [] c = \h19 -> <<"ORA", "absy", 48>>
              [] c = \h1D -> <<"ORA", "absx", 48>> [] c = \h1E -> <<"ASL", "absx", 84>>
Code2(c) == CASE c = \h20 -> <<"JSR", "abs", 72>> [] c = \h21 -> <<"AND", "indx", 72>>
              [] c = \h24 -> <<"BIT", "zp", 36>> [] c = \h25 -> <<"AND", "zp", 36>>
              [] c = \h26 -> <<"ROL", "zp", 60>> [] c = \h28 -> <<"PLP", "", 48>>
              [] c = \h29 -> <<"AND", "imm", 24>> [] c = \h2A -> <<"ROL", "", 24>>
              [] c = \h2C -> <<"BIT", "abs", 48>> [] c = \h2D -> <<"AND", "abs", 48>>
              [] c = \h2E -> <<"ROL", "abs", 72>>
Code3(c) == CASE c = \h30 -> <<"BMI", "", 24>> [] c = \h31 -> <<"AND", "indy", 60>>
              [] c = \h35 -> <<"AND", "zpx", 48>> [] c = \h36 -> <<"ROL", "zpx", 72>>
              [] c = \h38 -> <<"SEC", "", 24>> [] c = \h39 -> <<"AND", "absy", 48>>
              [] c = \h3D -> <<"AND", "absx", 48>> [] c = \h3E -> <<"ROL", "absx", 84>>
Code4(c) == CASE c = \h40 -> <<"RTI", "", 72>> [] c = \h41 -> <<"EOR", "indx", 72>>
              [] c = \h45 -> <<"EOR", "zp", 36>> [] c = \h46 -> <<"LSR", "zp", 60>>
              [] c = \h48 -> <<"PHA", "", 36>> [] c = \h49 -> <<"EOR", "imm", 24>>
              [] c = \h4A -> <<"LSR", "", 24>> [] c = \h4C -> <<"JMP", "abs", 36>>
              [] c = \h4D -> <<"EOR", "abs", 48>> [] c = \h4E -> <<"LSR", "abs", 72>>
Code5(c) == CASE c = \h50 -> <<"BVC", "", 24>> [] c = \h51 -> <<"EOR", "indy", 60>>
              [] c = \h55 -> <<"EOR", "zpx", 48>> [] c = \h56 -> <<"LSR", "zpx", 72>>
              [] c = \h58 -> <<"CLI", "", 24>> [] c = \h59 -> <<"EOR", "absy", 48>>
              [] c = \h5D -> <<"EOR", "absx", 48>> [] c = \h5E -> <<"LSR", "absx", 84>>
Code6(c) == CASE c = \h60 -> <<"RTS", "", 72>> [] c = \h61 -> <<"ADC", "indx", 72>>
              [] c = \h65 -> <<"ADC", "zp", 36>> [] c = \h66 -> <<"ROR", "zp", 60>>
              [] c = \h68 -> <<"PLA", "", 48>> [] c = \h69 -> <<"ADC", "imm", 24>>
              [] c = \h6A -> <<"ROR", "", 24>> [] c = \h6C -> <<"JMP", "ind", 60>>
              [] c = \h6D -> <<"ADC", "abs", 48>> [] c = \h6E -> <<"ROR", "abs", 72>>
Code7(c) == CASE c = \h70 -> <<"BVS", "", 48>> [] c = \h71 -> <<"ADC", "indy", 60>>
              [] c = \h75 -> <<"ADC", "zpx", 48>> [] c = \h76 -> <<"ROR", "zpx", 72>>
              [] c = \h78 -> <<"SEI", "", 24>> [] c = \h79 -> <<"ADC", "absy", 48>>
              [] c = \h7D -> <<"ADC", "absx", 48>> [] c = \h7E -> <<"ROR", "absx", 84>>
Code8(c) == CASE c = \h81 -> <<"STA", "indx", 72>> [] c = \h84 -> <<"STY", "zp", 36>>
              [] c = \h85 -> <<"STA", "zp", 36>> [] c = \h86 -> <<"STX", "zp", 36>>
              [] c = \h88 -> <<"DEY", "", 24>> [] c = \h8A -> <<"TXA", "", 24>>
              [] c = \h8C -> <<"STY", "abs", 48>> [] c = \h8D -> <<"STA", "abs", 48>>
              [] c = \h8E -> <<"STX", "abs", 48>>
Code9(c) == CASE c = \h90 -> <<"BCC", "", 24>> [] c = \h91 -> <<"STA", "indy", 72>>
              [] c = \h94 -> <<"STY", "zpx", 48>> [] c = \h95 -> <<"STA", "zpx", 48>>
              [] c = \h96 -> <<"STX", "zpy", 48>> [] c = \h98 -> <<"TYA", "", 24>>
              [] c = \h99 -> <<"STA", "absy", 60>> [] c = \h9A -> <<"TXS", "", 24>>
              [] c = \h9D -> <<"STA", "absx", 60>>
CodeA(c) == CASE c = \hA0 -> <<"LDY", "imm", 24>> [] c = \hA1 -> <<"LDA", "indx", 72>>
              [] c = \hA2 -> <<"LDX", "imm", 24>> [] c = \hA4 -> <<"LDY", "zp", 36>>
              [] c = \hA5 -> <<"LDA", "zp", 36>> [] c = \hA6 -> <<"LDX", "zp", 36>>
              [] c = \hA8 -> <<"TAY", "", 24>> [] c = \hA9 -> <<"LDA", "imm", 24>>
              [] c = \hAA -> <<"TAX", "", 24>> [] c = \hAC -> <<"LDY", "abs", 48>>
              [] c = \hAD -> <<"LDA", "abs", 48>> [] c = \hAE -> <<"LDX", "abs", 48>>
CodeB(c) == CASE c = \hB0 -> <<"BCS", "", 24>> [] c = \hB1 -> <<"LDA", "indy", 60>>
              [] c = \hB4 -> <<"LDY", "zpx", 48>> [] c = \hB5 -> <<"LDA", "zpx", 48>>
              [] c = \hB6 -> <<"LDX", "zpy", 48>> [] c = \hB8 -> <<"CLV", "", 24>>
              [] c = \hB9 -> <<"LDA", "absy", 48>> [] c = \hBA -> <<"TSX", "", 24>>
              [] c = \hBC -> <<"LDY", "absx", 48>> [] c = \hBD -> <<"LDA", "absx", 48>>
              [] c = \hBE -> <<"LDX", "absy", 48>>
CodeC(c) == CASE c = \hC0 -> <<"CPY", "imm", 24>> [] c = \hC1 -> <<"CMP", "indx", 72>>
              [] c = \hC4 -> <<"CPY", "zp", 36>> [] c = \hC5 -> <<"CMP", "zp", 36>>
              [] c = \hC6 -> <<"DEC", "zp", 60>> [] c = \hC8 -> <<"INY", "", 24>>
              [] c = \hC9 -> <<"CMP", "imm", 24>> [] c = \hCA -> <<"DEX", "", 24>>
              [] c = \hCC -> <<"CPY", "abs", 48>> [] c = \hCD -> <<"CMP", "abs", 48>>
              [] c = \hCE -> <<"DEC", "abs", 72>>
CodeD(c) == CASE c = \hD0 -> <<"BNE", "", 24>> [] c = \hD1 -> <<"CMP", "indy", 60>>
              [] c = \hD5 -> <<"CMP", "zpx", 48>> [] c = \hD6 -> <<"DEC", "zpx", 72>>
              [] c = \hD8 -> <<"CLD", "", 24>> [] c = \hD9 -> <<"CMP", "absy", 48>>
              [] c = \hDD -> <<"CMP", "absx", 48>> [] c = \hDE -> <<"DEC", "absx", 84>>
CodeE(c) == CASE c = \hE0 -> <<"CPX", "imm", 24>> [] c = \hE1 -> <<"SBC", "indx", 72>>
              [] c = \hE4 -> <<"CPX", "zp", 36>> [] c = \hE5 -> <<"SBC", "zp", 36>>
              [] c = \hE6 -> <<"INC", "zp", 60>> [] c = \hE8 -> <<"INX", "", 24>>
              [] c = \hE9 -> <<"SBC", "imm", 24>> [] c = \hEA -> <<"NOP", "", 24>>
              [] c = \hEC -> <<"CPX", "abs", 48>> [] c = \hED -> <<"SBC", "abs", 48>>
              [] c = \hEE -> <<"INC", "abs", 72>>
CodeF(c) == CASE c = \hF0 -> <<"BEQ", "", 24>> [] c = \hF1 -> <<"SBC", "indy", 60>>
              [] c = \hF5 -> <<"SBC", "zpx", 48>> [] c = \hF6 -> <<"INC", "zpx", 72>>
              [] c = \hF8 -> <<"SED", "", 24>> [] c = \hF9 -> <<"SBC", "absy", 48>>
              [] c = \hFD -> <<"SBC", "absx", 48>> [] c = \hFE -> <<"INC", "absx", 84>>
Codes ==
  [c \in Byte \ Illegal |->
     CASE c \div 16 = 0 -> Code0(c) [] c \div 16 = 1 -> Code1(c)
       [] c \div 16 = 2 -> Code2(c) [] c \div 16 = 3 -> Code3(c)
       [] c \div 16 = 4 -> Code4(c) [] c \div 16 = 5 -> Code5(c)
       [] c \div 16 = 6 -> Code6(c) [] c \div 16 = 7 -> Code7(c)
       [] c \div 16 = 8 -> Code8(c) [] c \div 16 = 9 -> Code9(c)
       [] c \div 16 = 10 -> CodeA(c) [] c \div 16 = 11 -> CodeB(c)
       [] c \div 16 = 12 -> CodeC(c) [] c \div 16 = 13 -> CodeD(c)
       [] c \div 16 = 14 -> CodeE(c) [] c \div 16 = 15 -> CodeF(c)]

(* An opcode it does not have is skipped; its cycles are not in twelfths. *)
XXX_xx(e, code) == Takes(Goto(e, e.PC + illegal_op_byte[code] - 1), illegal_op_cycle[code])

doCode(e, code) ==
  IF code \notin DOMAIN Codes THEN XXX_xx(e, code)
  ELSE LET mode == Codes[code][2]
           t    == Takes(Goto(e, e.PC + Length(mode)),
                         Codes[code][3] + (IF LeavesPage(mode, e) THEN 12 ELSE 0))
       IN  Do(Codes[code][1], mode, t, Address(mode, e))

Round(e) == LET t == Serve(e) IN doCode(Goto(t, t.PC + 1), read(t, t.PC))
=============================================================================
