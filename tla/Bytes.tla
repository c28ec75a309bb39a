------------------------------- MODULE Bytes -------------------------------
(* Bytes, their bits and the memory they lie in: what both cores of the    *)
(* 6502 take from C.  A masked word of C is its two's complement, which    *)
(* \div and % give for negative numbers too.                               *)
EXTENDS Integers

Byte == 0..255
Word == 0..65535

Bit(n, k)  == (n \div 2^k) % 2 = 1
Value(bits, k) == IF k \in bits THEN 2^k ELSE 0
ByteOf(bits) ==
  Value(bits, 0) + Value(bits, 1) + Value(bits, 2) + Value(bits, 3)
    + Value(bits, 4) + Value(bits, 5) + Value(bits, 6) + Value(bits, 7)
And(b, c)  == ByteOf({k \in 0..7 : Bit(b, k) /\ Bit(c, k)})
Or(b, c)   == ByteOf({k \in 0..7 : Bit(b, k) \/ Bit(c, k)})
Xor(b, c)  == ByteOf({k \in 0..7 : Bit(b, k) # Bit(c, k)})
Signed(b)  == IF b > 127 THEN b - 256 ELSE b
HiByte(n)  == n \div 256

(* The flags of the status register, at their bits. *)
FlagBit == [C |-> 0, Z |-> 1, I |-> 2, D |-> 3, B |-> 4, V |-> 6, N |-> 7]
FlagsOf(b)     == {f \in DOMAIN FlagBit : Bit(b, FlagBit[f])}
StatusOf(flags) == ByteOf({5} \cup {FlagBit[f] : f \in flags})

(* Memory is a function on the addresses that were written; every other    *)
(* address reads as 0.  Addresses are 16 bits wide.                        *)
At(mem, addr)        == LET a == addr % 65536 IN IF a \in DOMAIN mem THEN mem[a] ELSE 0
WordAt(mem, addr)    == At(mem, addr) + 256 * At(mem, addr + 1)
Written(mem, addr, b) ==
  [a \in DOMAIN mem \cup {addr % 65536} |-> IF a = addr % 65536 THEN b % 256 ELSE mem[a]]
=============================================================================
