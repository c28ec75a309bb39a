-------------------------- MODULE NandDriverProofs --------------------------
(***************************************************************************)
(* Theorems about NandDriver, for every size of pages, blocks and array:   *)
(* types, and that the driver meets the assertions of nand_write; then     *)
(* that its operations do what they are for: the queues hold what the      *)
(* operation sent, and the cells its address names are those of its page.  *)
(***************************************************************************)
EXTENDS NandDriver, SequenceTheorems, TLAPS

------------------------------------------------------------------------------
(* The driver's sequences *)

Programs == {"program", "partial", "spare"}
First(o) == IF o.kind = "spare" THEN "50" ELSE "00"

CommandAccess == [port : {"command"}, byte : Commands]
AddressAccess == [port : {"address"}, byte : Byte]
DataAccess    == [port : {"data"}, byte : Values]
ReadAccess    == [port : {"read"}]
Access == CommandAccess \cup AddressAccess \cup DataAccess \cup ReadAccess

LEMMA OperationType ==
  ASSUME NEW o \in Operations
  PROVE  /\ o.kind \in {"read", "erase", "status", "poll", "id", "reset"} \cup Programs
         /\ o.kind = "read" => o.area \in Reads /\ o.page \in Pages /\ o.column \in Columns
         /\ o.kind \in Programs \cup {"erase"} => o.page \in Pages
         /\ o.kind = "program" => o.data \in [1..PageBytes -> Values]
         /\ o.kind \in {"partial", "spare"} => o.data \in [1..SpareBytes -> Values]
BY DEF Operations, AllOperations, Programs

Size == Base * Base
LEMMA Sizes ==
  /\ Base \in Nat /\ Base >= 2 /\ Size \in Nat /\ Size >= Base
  /\ SpareBytes \in Nat /\ PageBytes \in Nat
<1>1. Base \in Nat /\ Base >= 2 /\ SpareBytes \in Nat
  BY ChipAssumption
<1>2. Base * Base \in Nat /\ Base * Base >= Base
  BY <1>1
<1> QED BY <1>1, <1>2 DEF Size, PageBytes, MainBytes

LEMMA PageAddressType ==
  ASSUME NEW p \in Pages
  PROVE  /\ p % Base \in Byte /\ (p \div Base) % Base \in Byte /\ p \div Size \in Byte
<1>1. p \in Nat /\ p < 2 * Size
  <2>1. NumPages = 2 * Size
    BY Sizes DEF NumPages, Size
  <2> QED BY <2>1, DriverAssumption, Sizes
<1>2. p % Base \in Byte
  BY <1>1, Sizes DEF Byte
<1>3. p \div Base \in Nat
  BY <1>1, Sizes
<1>4. (p \div Base) % Base \in Byte
  BY <1>3, Sizes DEF Byte
<1>5. p \div Size \in Nat /\ p \div Size < 2
  <2> HIDE DEF Size
  <2> DEFINE q == p \div Size
  <2>1. q \in Nat /\ p = q * Size + (p % Size) /\ p % Size \in Nat
    BY <1>1, Sizes
  <2>2. q * Size < 2 * Size
    BY <2>1, <1>1, Sizes
  <2> HIDE DEF q
  <2>3. q < 2
    BY <2>1, <2>2, Sizes
  <2> QED BY <2>1, <2>3 DEF q
<1> QED BY <1>2, <1>4, <1>5, Sizes DEF Byte

LEMMA Single ==
  /\ \A c \in Commands : C(c) \in Seq(Access) /\ Len(C(c)) = 1
       /\ C(c)[1] = [port |-> "command", byte |-> c] /\ C(c)[1] \in CommandAccess
  /\ \A v \in Byte : A(v) \in Seq(Access) /\ Len(A(v)) = 1
       /\ A(v)[1] = [port |-> "address", byte |-> v] /\ A(v)[1] \in AddressAccess
  /\ \A n \in Nat : R(n) \in Seq(Access) /\ Len(R(n)) = n
       /\ \A i \in 1..n : R(n)[i] \in ReadAccess
<1> USE DEF Access, CommandAccess, AddressAccess, ReadAccess
<1>1. ASSUME NEW c \in Commands
      PROVE  C(c) \in Seq(Access) /\ Len(C(c)) = 1
             /\ C(c)[1] = [port |-> "command", byte |-> c] /\ C(c)[1] \in CommandAccess
  BY DEF C
<1>2. ASSUME NEW v \in Byte
      PROVE  A(v) \in Seq(Access) /\ Len(A(v)) = 1
             /\ A(v)[1] = [port |-> "address", byte |-> v] /\ A(v)[1] \in AddressAccess
  BY DEF A
<1>3. ASSUME NEW n \in Nat
      PROVE  R(n) \in Seq(Access) /\ Len(R(n)) = n
             /\ \A i \in 1..n : R(n)[i] \in ReadAccess
  BY DEF R
<1> QED BY <1>1, <1>2, <1>3

LEMMA DataBytesType ==
  ASSUME NEW n \in Nat, NEW d \in [1..n -> Values]
  PROVE  /\ DataBytes(d) \in Seq(Access) /\ Len(DataBytes(d)) = n
         /\ \A i \in 1..n : DataBytes(d)[i] \in DataAccess
<1>1. \A i \in 1..n : DataBytes(d)[i] = [port |-> "data", byte |-> d[i]]
  BY DEF DataBytes, D
<1> QED BY <1>1 DEF DataBytes, D, Access, DataAccess

LEMMA PageBytesSent ==
  ASSUME NEW p \in Pages
  PROVE  /\ PageAddress(p) \in Seq(Access) /\ Len(PageAddress(p)) = 3
         /\ \A i \in 1..3 : PageAddress(p)[i] \in AddressAccess
<1> DEFINE a == A(p % Base)  b == A((p \div Base) % Base)  c == A(p \div (Base * Base))
<1>1. /\ a \in Seq(Access) /\ b \in Seq(Access) /\ c \in Seq(Access)
      /\ Len(a) = 1 /\ Len(b) = 1 /\ Len(c) = 1
      /\ a[1] \in AddressAccess /\ b[1] \in AddressAccess /\ c[1] \in AddressAccess
  BY PageAddressType, Single DEF Size
<1>2. PageAddress(p) = (a \o b) \o c
  BY DEF PageAddress
<1> HIDE DEF a, b, c
<1>3. /\ a \o b \in Seq(Access) /\ Len(a \o b) = 2
      /\ (a \o b)[1] = a[1] /\ (a \o b)[2] = b[1]
  BY <1>1, ConcatProperties
<1>4. /\ (a \o b) \o c \in Seq(Access) /\ Len((a \o b) \o c) = 3
      /\ ((a \o b) \o c)[1] = a[1] /\ ((a \o b) \o c)[2] = b[1] /\ ((a \o b) \o c)[3] = c[1]
  BY <1>1, <1>3, ConcatProperties
<1> QED BY <1>1, <1>2, <1>4

CommandIs(s, i, c) == s[i] = [port |-> "command", byte |-> c]

(* What a concatenation holds where. *)
Joined(s, t) ==
  /\ s \o t \in Seq(Access) /\ Len(s \o t) = Len(s) + Len(t)
  /\ \A i \in 1..Len(s) : (s \o t)[i] = s[i]
  /\ \A i \in Len(s)+1..Len(s)+Len(t) : (s \o t)[i] = t[i - Len(s)]

LEMMA Joining == \A s, t \in Seq(Access) : Joined(s, t)
<1> SUFFICES ASSUME NEW s \in Seq(Access), NEW t \in Seq(Access) PROVE Joined(s, t)
  OBVIOUS
<1>1. Len(s) \in Nat /\ Len(t) \in Nat
  OBVIOUS
<1> QED BY <1>1, ConcatProperties DEF Joined

LEMMA ReadScript ==
  ASSUME NEW o \in Operations, o.kind = "read"
  PROVE  /\ Script(o) \in Seq(Access) /\ Len(Script(o)) = 5 + ReadLen
         /\ CommandIs(Script(o), 1, o.area)
         /\ Script(o)[2] = [port |-> "address", byte |-> o.column]
         /\ \A i \in 2..5 : Script(o)[i] \in AddressAccess
         /\ \A i \in 6..5+ReadLen : Script(o)[i] \in ReadAccess
<1> DEFINE a == C(o.area)  b == A(o.column)  p == PageAddress(o.page)  r == R(ReadLen)
<1>1. o.area \in Commands /\ o.column \in Byte /\ o.page \in Pages /\ ReadLen \in Nat
  BY OperationType, DriverAssumption DEF Commands, Begins, Reads
<1>2. /\ a \in Seq(Access) /\ Len(a) = 1 /\ CommandIs(a, 1, o.area)
      /\ b \in Seq(Access) /\ Len(b) = 1 /\ b[1] = [port |-> "address", byte |-> o.column]
      /\ b[1] \in AddressAccess
      /\ p \in Seq(Access) /\ Len(p) = 3 /\ \A i \in 1..3 : p[i] \in AddressAccess
      /\ r \in Seq(Access) /\ Len(r) = ReadLen /\ \A i \in 1..ReadLen : r[i] \in ReadAccess
  BY <1>1, Single, PageBytesSent DEF CommandIs
<1>3. Script(o) = ((a \o b) \o p) \o r
  BY DEF Script
<1> HIDE DEF a, b, p, r
<1>4. a \o b \in Seq(Access) /\ Len(a \o b) = 2 /\ (a \o b)[1] = a[1] /\ (a \o b)[2] = b[1]
  <2>1. Joined(a, b)
    BY <1>2, Joining
  <2> QED BY <1>2, <2>1 DEF Joined
<1> DEFINE h == (a \o b) \o p
<1>5. /\ h \in Seq(Access) /\ Len(h) = 5 /\ h[1] = a[1] /\ h[2] = b[1]
      /\ \A i \in 3..5 : h[i] = p[i - 2]
  <2>1. Joined(a \o b, p)
    BY <1>2, <1>4, Joining
  <2> QED BY <1>2, <1>4, <2>1 DEF Joined
<1> HIDE DEF h
<1>6. /\ h \o r \in Seq(Access) /\ Len(h \o r) = 5 + ReadLen
      /\ \A i \in 1..5 : (h \o r)[i] = h[i]
      /\ \A i \in 6..5+ReadLen : (h \o r)[i] = r[i - 5]
  <2>1. Joined(h, r)
    BY <1>2, <1>5, Joining
  <2> QED BY <1>1, <1>2, <1>5, <2>1 DEF Joined
<1>7. \A i \in 3..5 : i - 2 \in 1..3
  OBVIOUS
<1>8. \A i \in 6..5+ReadLen : i - 5 \in 1..ReadLen
  BY <1>1
<1>9. \A i \in 2..5 : h[i] \in AddressAccess
  BY <1>2, <1>5, <1>7
<1>10. Script(o) = h \o r
  BY <1>3 DEF h
<1> QED BY <1>2, <1>5, <1>6, <1>8, <1>9, <1>10 DEF CommandIs

DataLength(o) == IF o.kind = "program" THEN PageBytes ELSE SpareBytes

LEMMA ProgramScript ==
  ASSUME NEW o \in Operations, o.kind \in Programs
  PROVE  /\ Script(o) \in Seq(Access) /\ Len(Script(o)) = 7 + DataLength(o)
         /\ CommandIs(Script(o), 1, First(o)) /\ CommandIs(Script(o), 2, "80") /\ CommandIs(Script(o), 7 + DataLength(o), "10")
         /\ \A i \in 3..6 : Script(o)[i] \in AddressAccess
         /\ \A i \in 7..6+DataLength(o) : Script(o)[i] \in DataAccess
<1> DEFINE a == C(First(o))  b == C("80")  z == A(0)  p == PageAddress(o.page)
           d == DataBytes(o.data)  e == C("10")  n == DataLength(o)
<1>1. First(o) \in Commands /\ "80" \in Commands /\ "10" \in Commands /\ 0 \in Byte
  BY Sizes DEF First, Commands, Begins, Byte
<1>2. n \in Nat /\ o.data \in [1..n -> Values] /\ o.page \in Pages
  BY OperationType, Sizes DEF DataLength, Programs
<1>3. /\ a \in Seq(Access) /\ Len(a) = 1 /\ CommandIs(a, 1, First(o))
      /\ b \in Seq(Access) /\ Len(b) = 1 /\ CommandIs(b, 1, "80")
      /\ e \in Seq(Access) /\ Len(e) = 1 /\ CommandIs(e, 1, "10")
      /\ z \in Seq(Access) /\ Len(z) = 1 /\ z[1] \in AddressAccess
  BY <1>1, Single DEF CommandIs
<1>4. /\ p \in Seq(Access) /\ Len(p) = 3 /\ \A i \in 1..3 : p[i] \in AddressAccess
      /\ d \in Seq(Access) /\ Len(d) = n /\ \A i \in 1..n : d[i] \in DataAccess
  BY <1>2, PageBytesSent, DataBytesType
<1>5. Script(o) = ((((a \o b) \o z) \o p) \o d) \o e
  BY DEF Script, Programs, First
<1> HIDE DEF a, b, z, p, d, e, n
<1>6. a \o b \in Seq(Access) /\ Len(a \o b) = 2 /\ (a \o b)[1] = a[1] /\ (a \o b)[2] = b[1]
  <2>1. Joined(a, b)
    BY <1>3, Joining
  <2> QED BY <1>3, <2>1 DEF Joined
<1> DEFINE g == (a \o b) \o z
<1>7. g \in Seq(Access) /\ Len(g) = 3 /\ g[1] = a[1] /\ g[2] = b[1] /\ g[3] = z[1]
  <2>1. Joined(a \o b, z)
    BY <1>3, <1>6, Joining
  <2> QED BY <1>3, <1>6, <2>1 DEF Joined
<1> HIDE DEF g
<1> DEFINE h == g \o p
<1>8. /\ h \in Seq(Access) /\ Len(h) = 6 /\ h[1] = a[1] /\ h[2] = b[1] /\ h[3] = z[1]
      /\ \A i \in 4..6 : h[i] = p[i - 3]
  <2>1. Joined(g, p)
    BY <1>4, <1>7, Joining
  <2> QED BY <1>4, <1>7, <2>1 DEF Joined
<1> HIDE DEF h
<1> DEFINE k == h \o d
<1>9. /\ k \in Seq(Access) /\ Len(k) = 6 + n /\ \A i \in 1..6 : k[i] = h[i]
      /\ \A i \in 7..6+n : k[i] = d[i - 6]
  <2>1. Joined(h, d)
    BY <1>4, <1>8, Joining
  <2> QED BY <1>2, <1>4, <1>8, <2>1 DEF Joined
<1> HIDE DEF k
<1> DEFINE w == k \o e
<1>10. /\ w \in Seq(Access) /\ Len(w) = 7 + n /\ \A i \in 1..6+n : w[i] = k[i]
       /\ w[7 + n] = e[1]
  <2>1. Joined(k, e)
    BY <1>3, <1>9, Joining
  <2>2. w \in Seq(Access) /\ Len(w) = Len(k) + Len(e)
    BY <2>1 DEF Joined
  <2>3. \A i \in 1..6+n : w[i] = k[i]
    BY <1>9, <2>1 DEF Joined
  <2>4. w[7 + n] = e[1]
    <3>1. 7 + n \in Len(k)+1..Len(k)+Len(e) /\ (7 + n) - Len(k) = 1
      BY <1>2, <1>3, <1>9
    <3> QED BY <2>1, <3>1 DEF Joined
  <2> QED BY <1>2, <1>3, <1>9, <2>2, <2>3, <2>4
<1> HIDE DEF w
<1>11. /\ \A i \in 4..6 : i - 3 \in 1..3
       /\ \A i \in 7..6+n : i - 6 \in 1..n /\ i \in 1..6+n
       /\ \A i \in 1..6 : i \in 1..6+n
  BY <1>2
<1>12. \A i \in 3..6 : h[i] \in AddressAccess
  BY <1>3, <1>4, <1>8, <1>11
<1>13. Script(o) = w
  BY <1>5 DEF w, k, h, g
<1>14. \A i \in 7..6+n : w[i] \in DataAccess
  <2> TAKE i \in 7..6+n
  <2>1. w[i] = k[i] /\ k[i] = d[i - 6] /\ i - 6 \in 1..n
    BY <1>9, <1>10, <1>11
  <2> QED BY <1>4, <2>1
<1>15. \A i \in 1..6 : w[i] = h[i]
  BY <1>9, <1>10, <1>11
<1>16. \A i \in 3..6 : w[i] \in AddressAccess
  BY <1>12, <1>15
<1>17. /\ CommandIs(w, 1, First(o)) /\ CommandIs(w, 2, "80")
       /\ CommandIs(w, 7 + n, "10")
  BY <1>3, <1>8, <1>10, <1>15 DEF CommandIs
<1> QED BY <1>10, <1>13, <1>14, <1>16, <1>17 DEF n

LEMMA EraseScript ==
  ASSUME NEW o \in Operations, o.kind = "erase"
  PROVE  /\ Script(o) \in Seq(Access) /\ Len(Script(o)) = 5
         /\ CommandIs(Script(o), 1, "60") /\ CommandIs(Script(o), 5, "d0")
         /\ \A i \in 2..4 : Script(o)[i] \in AddressAccess
<1> DEFINE a == C("60")  p == PageAddress(o.page)  e == C("d0")
<1>1. /\ a \in Seq(Access) /\ Len(a) = 1 /\ CommandIs(a, 1, "60")
      /\ e \in Seq(Access) /\ Len(e) = 1 /\ CommandIs(e, 1, "d0")
      /\ p \in Seq(Access) /\ Len(p) = 3 /\ \A i \in 1..3 : p[i] \in AddressAccess
  BY OperationType, Single, PageBytesSent DEF CommandIs, Commands, Begins
<1>2. Script(o) = (a \o p) \o e
  BY DEF Script
<1> HIDE DEF a, p, e
<1>3. /\ a \o p \in Seq(Access) /\ Len(a \o p) = 4 /\ (a \o p)[1] = a[1]
      /\ \A i \in 2..4 : (a \o p)[i] = p[i - 1]
  <2>1. Joined(a, p)
    BY <1>1, Joining
  <2> QED BY <1>1, <2>1 DEF Joined
<1>4. /\ (a \o p) \o e \in Seq(Access) /\ Len((a \o p) \o e) = 5 /\ ((a \o p) \o e)[5] = e[1]
      /\ \A i \in 1..4 : ((a \o p) \o e)[i] = (a \o p)[i]
  <2>1. Joined(a \o p, e)
    BY <1>1, <1>3, Joining
  <2> QED BY <1>1, <1>3, <2>1 DEF Joined
<1>5. \A i \in 2..4 : i - 1 \in 1..3 /\ i \in 1..4
  OBVIOUS
<1>6. \A i \in 2..4 : ((a \o p) \o e)[i] \in AddressAccess
  BY <1>1, <1>3, <1>4, <1>5
<1> QED BY <1>1, <1>2, <1>3, <1>4, <1>6 DEF CommandIs

LEMMA ShortScripts ==
  ASSUME NEW o \in Operations
  PROVE  /\ o.kind \in {"status", "poll", "id", "reset"} => Script(o) \in Seq(Access)
         /\ o.kind = "status" =>
              Len(Script(o)) = 2 /\ CommandIs(Script(o), 1, "70") /\ Script(o)[2] \in ReadAccess
         /\ o.kind = "poll" =>
              /\ Len(Script(o)) = 3 /\ CommandIs(Script(o), 1, "70")
              /\ \A i \in 2..3 : Script(o)[i] \in ReadAccess
         /\ o.kind = "id" =>
              /\ Len(Script(o)) = 4 /\ CommandIs(Script(o), 1, "90")
              /\ Script(o)[2] \in AddressAccess /\ Script(o)[2].byte = 0
              /\ \A i \in 3..4 : Script(o)[i] \in ReadAccess
         /\ o.kind = "reset" => Len(Script(o)) = 1 /\ CommandIs(Script(o), 1, "ff")
<1>1. "70" \in Commands /\ "90" \in Commands /\ "ff" \in Commands /\ 0 \in Byte
  BY Sizes DEF Commands, Begins, Byte
<1>2. CASE o.kind = "status"
  <2> DEFINE a == C("70")  r == R(1)
  <2>1. Script(o) = a \o r
    BY <1>2 DEF Script
  <2>2. /\ a \in Seq(Access) /\ Len(a) = 1 /\ CommandIs(a, 1, "70")
        /\ r \in Seq(Access) /\ Len(r) = 1 /\ \A i \in 1..1 : r[i] \in ReadAccess
    BY <1>1, Single DEF CommandIs
  <2> HIDE DEF a, r
  <2>3. Joined(a, r)
    BY <2>2, Joining
  <2>4. a \o r \in Seq(Access) /\ Len(a \o r) = 2 /\ (a \o r)[1] = a[1] /\ (a \o r)[2] = r[1]
    BY <2>2, <2>3 DEF Joined
  <2> QED BY <1>2, <2>1, <2>2, <2>4 DEF CommandIs
<1>3. CASE o.kind = "poll"
  <2> DEFINE a == C("70")  r == R(2)
  <2>1. Script(o) = a \o r
    BY <1>3 DEF Script
  <2>2. /\ a \in Seq(Access) /\ Len(a) = 1 /\ CommandIs(a, 1, "70")
        /\ r \in Seq(Access) /\ Len(r) = 2 /\ \A i \in 1..2 : r[i] \in ReadAccess
    BY <1>1, Single DEF CommandIs
  <2> HIDE DEF a, r
  <2>3. Joined(a, r)
    BY <2>2, Joining
  <2>4. a \o r \in Seq(Access) /\ Len(a \o r) = 3 /\ (a \o r)[1] = a[1]
        /\ (a \o r)[2] = r[1] /\ (a \o r)[3] = r[2]
    BY <2>2, <2>3 DEF Joined
  <2> QED BY <1>3, <2>1, <2>2, <2>4 DEF CommandIs
<1>4. CASE o.kind = "id"
  <2> DEFINE a == C("90")  z == A(0)  r == R(2)
  <2>1. Script(o) = (a \o z) \o r
    BY <1>4 DEF Script
  <2>2. /\ a \in Seq(Access) /\ Len(a) = 1 /\ CommandIs(a, 1, "90")
        /\ z \in Seq(Access) /\ Len(z) = 1 /\ z[1] \in AddressAccess /\ z[1].byte = 0
        /\ r \in Seq(Access) /\ Len(r) = 2 /\ \A i \in 1..2 : r[i] \in ReadAccess
    <3>1. z[1] = [port |-> "address", byte |-> 0]
      BY DEF A
    <3>2. z[1].byte = 0
      BY <3>1
    <3>3. /\ a \in Seq(Access) /\ Len(a) = 1 /\ CommandIs(a, 1, "90")
          /\ z \in Seq(Access) /\ Len(z) = 1 /\ z[1] \in AddressAccess
          /\ r \in Seq(Access) /\ Len(r) = 2 /\ \A i \in 1..2 : r[i] \in ReadAccess
      BY <1>1, Single DEF CommandIs
    <3> QED BY <3>2, <3>3
  <2> HIDE DEF a, z, r
  <2>3. a \o z \in Seq(Access) /\ Len(a \o z) = 2 /\ (a \o z)[1] = a[1] /\ (a \o z)[2] = z[1]
    <3>1. Joined(a, z)
      BY <2>2, Joining
    <3> QED BY <2>2, <3>1 DEF Joined
  <2>4. /\ (a \o z) \o r \in Seq(Access) /\ Len((a \o z) \o r) = 4
        /\ ((a \o z) \o r)[1] = a[1] /\ ((a \o z) \o r)[2] = z[1]
        /\ ((a \o z) \o r)[3] = r[1] /\ ((a \o z) \o r)[4] = r[2]
    <3>1. Joined(a \o z, r)
      BY <2>2, <2>3, Joining
    <3> QED BY <2>2, <2>3, <3>1 DEF Joined
  <2> QED BY <1>4, <2>1, <2>2, <2>4 DEF CommandIs
<1>5. CASE o.kind = "reset"
  BY <1>1, <1>5, Single DEF Script, CommandIs
<1> QED BY <1>2, <1>3, <1>4, <1>5

(* The command an operation starts with. *)
Opening(o) ==
  CASE o.kind = "read" -> o.area
    [] o.kind \in Programs -> First(o)
    [] o.kind = "erase" -> "60"
    [] o.kind \in {"status", "poll"} -> "70"
    [] o.kind = "id" -> "90"
    [] o.kind = "reset" -> "ff"

(* Which access an operation makes when k are behind it. *)
Makes(o, k, x) ==
  /\ x \in Access
  /\ x.port = "command" =>
       \/ k = 0 /\ x.byte = Opening(o)
       \/ o.kind \in Programs /\ k = 1 /\ x.byte = "80"
       \/ o.kind \in Programs /\ k = 6 + DataLength(o) /\ x.byte = "10"
       \/ o.kind = "erase" /\ k = 4 /\ x.byte = "d0"
  /\ x.port = "address" =>
       \/ o.kind = "read" /\ k \in 1..4 /\ (k = 1 => x.byte = o.column)
       \/ o.kind \in Programs /\ k \in 2..5
       \/ o.kind = "erase" /\ k \in 1..3
       \/ o.kind = "id" /\ k = 1 /\ x.byte = 0
  /\ x.port = "data" => o.kind \in Programs /\ k \in 6..5+DataLength(o)
  /\ x.port = "read" =>
       \/ o.kind = "read" /\ k \in 5..4+ReadLen
       \/ o.kind = "status" /\ k = 1
       \/ o.kind = "poll" /\ k \in 1..2
       \/ o.kind = "id" /\ k \in 2..3

LEMMA Ports ==
  ASSUME NEW s, NEW i
  PROVE  /\ \A c \in Commands : CommandIs(s, i, c) =>
              s[i] \in Access /\ s[i].port = "command" /\ s[i].byte = c
         /\ s[i] \in AddressAccess => s[i] \in Access /\ s[i].port = "address"
         /\ s[i] \in DataAccess => s[i] \in Access /\ s[i].port = "data"
         /\ s[i] \in ReadAccess => s[i] \in Access /\ s[i].port = "read"
BY DEF CommandIs, Access, CommandAccess, AddressAccess, DataAccess, ReadAccess

LEMMA Accesses ==
  ASSUME NEW o \in Operations, NEW k \in 0..Len(Script(o))-1
  PROVE  Makes(o, k, Script(o)[k + 1])
<1> DEFINE s == Script(o)  x == s[k + 1]
<1>1. Opening(o) \in Commands /\ {"80", "10", "d0"} \subseteq Commands
  BY OperationType DEF Opening, First, Commands, Begins, Reads, Programs
<1>2. /\ \A c \in Commands : CommandIs(s, k + 1, c) =>
           x \in Access /\ x.port = "command" /\ x.byte = c
      /\ x \in AddressAccess => x \in Access /\ x.port = "address"
      /\ x \in DataAccess => x \in Access /\ x.port = "data"
      /\ x \in ReadAccess => x \in Access /\ x.port = "read"
  BY Ports
<1>3. CASE o.kind = "read"
  <2>1. /\ Len(s) = 5 + ReadLen /\ CommandIs(s, 1, Opening(o))
        /\ s[2] = [port |-> "address", byte |-> o.column]
        /\ \A i \in 2..5 : s[i] \in AddressAccess
        /\ \A i \in 6..5+ReadLen : s[i] \in ReadAccess
    BY <1>3, ReadScript DEF Opening, Programs
  <2>2. ReadLen \in Nat
    BY DriverAssumption
  <2> SUFFICES Makes(o, k, x)
    OBVIOUS
  <2>3. k \in 0..Len(s)-1
    OBVIOUS
  <2> HIDE DEF s
  <2>4. k \in Nat /\ (k = 0 \/ k \in 1..4 \/ k \in 5..4+ReadLen)
    BY <2>1, <2>2, <2>3
  <2>5. CASE k = 0
    <3>1. k + 1 = 1
      BY <2>4, <2>2, <2>5
    <3>2. CommandIs(s, k + 1, Opening(o))
      BY <2>1, <2>5, <3>1
    <3> HIDE DEF x
    <3> QED BY <1>1, <1>2, <1>3, <2>5, <3>2 DEF Makes, Programs
  <2>6. CASE k \in 1..4
    <3>1. k + 1 \in 2..5 /\ (k = 1 => k + 1 = 2)
      BY <2>4, <2>2, <2>6
    <3>2. x \in AddressAccess /\ (k = 1 => x.byte = o.column)
      BY <2>1, <2>6, <3>1
    <3> HIDE DEF x
    <3> QED BY <1>1, <1>2, <1>3, <2>6, <3>2 DEF Makes, Programs
  <2>7. CASE k \in 5..4+ReadLen
    <3>1. k + 1 \in 6..5+ReadLen
      BY <2>4, <2>2, <2>7
    <3>2. x \in ReadAccess
      BY <2>1, <2>7, <3>1
    <3> HIDE DEF x
    <3> QED BY <1>1, <1>2, <1>3, <2>7, <3>2 DEF Makes, Programs
  <2> QED BY <2>4, <2>5, <2>6, <2>7
<1>4. CASE o.kind \in Programs
  <2>1. /\ Len(s) = 7 + DataLength(o) /\ CommandIs(s, 1, Opening(o))
        /\ CommandIs(s, 2, "80") /\ CommandIs(s, 7 + DataLength(o), "10")
        /\ \A i \in 3..6 : s[i] \in AddressAccess
        /\ \A i \in 7..6+DataLength(o) : s[i] \in DataAccess
    BY <1>4, ProgramScript DEF Opening, Programs
  <2>2. DataLength(o) \in Nat
    BY Sizes DEF DataLength
  <2> SUFFICES Makes(o, k, x)
    OBVIOUS
  <2>3. k \in 0..Len(s)-1
    OBVIOUS
  <2> HIDE DEF s
  <2>4. k \in Nat /\ (k = 0 \/ k = 1 \/ k \in 2..5 \/ k \in 6..5+DataLength(o) \/ k = 6 + DataLength(o))
    BY <2>1, <2>2, <2>3
  <2>5. CASE k = 0
    <3>1. k + 1 = 1
      BY <2>4, <2>2, <2>5
    <3>2. CommandIs(s, k + 1, Opening(o))
      BY <2>1, <2>5, <3>1
    <3> HIDE DEF x
    <3> QED BY <1>1, <1>2, <1>4, <2>5, <3>2 DEF Makes, Programs
  <2>6. CASE k = 1
    <3>1. k + 1 = 2
      BY <2>4, <2>2, <2>6
    <3>2. CommandIs(s, k + 1, "80")
      BY <2>1, <2>6, <3>1
    <3> HIDE DEF x
    <3> QED BY <1>1, <1>2, <1>4, <2>6, <3>2 DEF Makes, Programs
  <2>7. CASE k \in 2..5
    <3>1. k + 1 \in 3..6
      BY <2>4, <2>2, <2>7
    <3>2. x \in AddressAccess
      BY <2>1, <2>7, <3>1
    <3> HIDE DEF x
    <3> QED BY <1>1, <1>2, <1>4, <2>7, <3>2 DEF Makes, Programs
  <2>8. CASE k \in 6..5+DataLength(o)
    <3>1. k + 1 \in 7..6+DataLength(o)
      BY <2>4, <2>2, <2>8
    <3>2. x \in DataAccess
      BY <2>1, <2>8, <3>1
    <3> HIDE DEF x
    <3> QED BY <1>1, <1>2, <1>4, <2>8, <3>2 DEF Makes, Programs
  <2>9. CASE k = 6 + DataLength(o)
    <3>1. k + 1 = 7 + DataLength(o)
      BY <2>4, <2>2, <2>9
    <3>2. CommandIs(s, k + 1, "10")
      BY <2>1, <2>9, <3>1
    <3> HIDE DEF x
    <3> QED BY <1>1, <1>2, <1>4, <2>9, <3>2 DEF Makes, Programs
  <2> QED BY <2>4, <2>5, <2>6, <2>7, <2>8, <2>9
<1>5. CASE o.kind = "erase"
  <2>1. /\ Len(s) = 5 /\ CommandIs(s, 1, Opening(o)) /\ CommandIs(s, 5, "d0")
        /\ \A i \in 2..4 : s[i] \in AddressAccess
    BY <1>5, EraseScript DEF Opening, Programs
  <2> SUFFICES Makes(o, k, x)
    OBVIOUS
  <2>3. k \in 0..Len(s)-1
    OBVIOUS
  <2> HIDE DEF s
  <2>4. k \in Nat /\ (k = 0 \/ k \in 1..3 \/ k = 4)
    BY <2>1, <2>3
  <2>5. CASE k = 0
    <3>1. k + 1 = 1
      BY <2>4, <2>5
    <3>2. CommandIs(s, k + 1, Opening(o))
      BY <2>1, <2>5, <3>1
    <3> HIDE DEF x
    <3> QED BY <1>1, <1>2, <1>5, <2>5, <3>2 DEF Makes, Programs
  <2>6. CASE k \in 1..3
    <3>1. k + 1 \in 2..4
      BY <2>4, <2>6
    <3>2. x \in AddressAccess
      BY <2>1, <2>6, <3>1
    <3> HIDE DEF x
    <3> QED BY <1>1, <1>2, <1>5, <2>6, <3>2 DEF Makes, Programs
  <2>7. CASE k = 4
    <3>1. k + 1 = 5
      BY <2>4, <2>7
    <3>2. CommandIs(s, k + 1, "d0")
      BY <2>1, <2>7, <3>1
    <3> HIDE DEF x
    <3> QED BY <1>1, <1>2, <1>5, <2>7, <3>2 DEF Makes, Programs
  <2> QED BY <2>4, <2>5, <2>6, <2>7
<1>6. CASE o.kind = "status"
  <2>1. Len(s) = 2 /\ CommandIs(s, 1, Opening(o)) /\ s[2] \in ReadAccess
    BY <1>6, ShortScripts DEF Opening, Programs
  <2> SUFFICES Makes(o, k, x)
    OBVIOUS
  <2>3. k \in 0..Len(s)-1
    OBVIOUS
  <2> HIDE DEF s
  <2>4. k \in Nat /\ (k = 0 \/ k = 1)
    BY <2>1, <2>3
  <2>5. CASE k = 0
    <3>1. k + 1 = 1
      BY <2>4, <2>5
    <3>2. CommandIs(s, k + 1, Opening(o))
      BY <2>1, <2>5, <3>1
    <3> HIDE DEF x
    <3> QED BY <1>1, <1>2, <1>6, <2>5, <3>2 DEF Makes, Programs
  <2>6. CASE k = 1
    <3>1. k + 1 = 2
      BY <2>4, <2>6
    <3>2. x \in ReadAccess
      BY <2>1, <2>6, <3>1
    <3> HIDE DEF x
    <3> QED BY <1>1, <1>2, <1>6, <2>6, <3>2 DEF Makes, Programs
  <2> QED BY <2>4, <2>5, <2>6
<1>7. CASE o.kind = "poll"
  <2>1. /\ Len(s) = 3 /\ CommandIs(s, 1, Opening(o))
        /\ \A i \in 2..3 : s[i] \in ReadAccess
    BY <1>7, ShortScripts DEF Opening, Programs
  <2> SUFFICES Makes(o, k, x)
    OBVIOUS
  <2>3. k \in 0..Len(s)-1
    OBVIOUS
  <2> HIDE DEF s
  <2>4. k \in Nat /\ (k = 0 \/ k \in 1..2)
    BY <2>1, <2>3
  <2>5. CASE k = 0
    <3>1. k + 1 = 1
      BY <2>4, <2>5
    <3>2. CommandIs(s, k + 1, Opening(o))
      BY <2>1, <2>5, <3>1
    <3> HIDE DEF x
    <3> QED BY <1>1, <1>2, <1>7, <2>5, <3>2 DEF Makes, Programs
  <2>6. CASE k \in 1..2
    <3>1. k + 1 \in 2..3
      BY <2>4, <2>6
    <3>2. x \in ReadAccess
      BY <2>1, <2>6, <3>1
    <3> HIDE DEF x
    <3> QED BY <1>1, <1>2, <1>7, <2>6, <3>2 DEF Makes, Programs
  <2> QED BY <2>4, <2>5, <2>6
<1>8. CASE o.kind = "id"
  <2>1. /\ Len(s) = 4 /\ CommandIs(s, 1, Opening(o))
        /\ s[2] \in AddressAccess /\ s[2].byte = 0
        /\ \A i \in 3..4 : s[i] \in ReadAccess
    BY <1>8, ShortScripts DEF Opening, Programs
  <2> SUFFICES Makes(o, k, x)
    OBVIOUS
  <2>3. k \in 0..Len(s)-1
    OBVIOUS
  <2> HIDE DEF s
  <2>4. k \in Nat /\ (k = 0 \/ k = 1 \/ k \in 2..3)
    BY <2>1, <2>3
  <2>5. CASE k = 0
    <3>1. k + 1 = 1
      BY <2>4, <2>5
    <3>2. CommandIs(s, k + 1, Opening(o))
      BY <2>1, <2>5, <3>1
    <3> HIDE DEF x
    <3> QED BY <1>1, <1>2, <1>8, <2>5, <3>2 DEF Makes, Programs
  <2>6. CASE k = 1
    <3>1. k + 1 = 2
      BY <2>4, <2>6
    <3>2. x \in AddressAccess /\ x.byte = 0
      BY <2>1, <2>6, <3>1
    <3> HIDE DEF x
    <3> QED BY <1>1, <1>2, <1>8, <2>6, <3>2 DEF Makes, Programs
  <2>7. CASE k \in 2..3
    <3>1. k + 1 \in 3..4
      BY <2>4, <2>7
    <3>2. x \in ReadAccess
      BY <2>1, <2>7, <3>1
    <3> HIDE DEF x
    <3> QED BY <1>1, <1>2, <1>8, <2>7, <3>2 DEF Makes, Programs
  <2> QED BY <2>4, <2>5, <2>6, <2>7
<1>9. CASE o.kind = "reset"
  <2>1. Len(s) = 1 /\ CommandIs(s, 1, Opening(o))
    BY <1>9, ShortScripts DEF Opening, Programs
  <2> SUFFICES Makes(o, k, x)
    OBVIOUS
  <2>3. k \in 0..Len(s)-1
    OBVIOUS
  <2> HIDE DEF s
  <2>4. k \in Nat /\ (k = 0)
    BY <2>1, <2>3
  <2>5. CASE k = 0
    <3>1. k + 1 = 1
      BY <2>4, <2>5
    <3>2. CommandIs(s, k + 1, Opening(o))
      BY <2>1, <2>5, <3>1
    <3> HIDE DEF x
    <3> QED BY <1>1, <1>2, <1>9, <2>5, <3>2 DEF Makes, Programs
  <2> QED BY <2>4, <2>5
<1> QED BY <1>3, <1>4, <1>5, <1>6, <1>7, <1>8, <1>9, OperationType DEF Programs

------------------------------------------------------------------------------
(* The invariant *)

(* What is left to do is the end of the operation's sequence. *)
ToDo ==
  IF todo = <<>> THEN op \in {None, Cut}
  ELSE /\ op \in Operations
       /\ Len(todo) \in 1..Len(Script(op))
       /\ todo \in Seq(Access)
       /\ \A i \in 1..Len(todo) : todo[i] = Script(op)[ReadCount + i]

(* What the registers hold when k accesses of o are behind them. *)
Hold(o, k) ==
  /\ o.kind = "read" =>
       /\ cmd = <<o.area>> /\ dat = <<>>
       /\ Len(addr) = (IF k < 5 THEN k - 1 ELSE 4) /\ (k > 1 => addr[1] = o.column)
       /\ cnt = IF k < 5 THEN 0 ELSE k - 5
  /\ o.kind \in Programs =>
       /\ cmd = IF k = 1 THEN <<First(o)>> ELSE <<First(o), "80">>
       /\ Len(addr) = IF k < 3 THEN 0 ELSE IF k < 6 THEN k - 2 ELSE 4
       /\ Len(dat) = IF k < 7 THEN 0 ELSE k - 6
  /\ o.kind = "erase" => cmd = <<"60">> /\ Len(addr) = k - 1 /\ dat = <<>>
  /\ o.kind \in {"status", "poll"} =>
       IF k = 1 THEN cmd = <<"70">> /\ addr = <<>> /\ dat = <<>> ELSE cmd = <<>>
  /\ o.kind = "id" =>
       /\ cmd = <<"90">> /\ dat = <<>>
       /\ addr = IF k = 1 THEN <<>> ELSE <<0>>
       /\ cnt = IF k < 3 THEN 0 ELSE 1

(* Between operations the next may begin, if all were carried through.     *)
Ready ==
  IF todo = <<>> \/ ReadCount = 0 THEN whole => BeginExpected
  ELSE Hold(op, ReadCount)

PartialSeen == todo # <<>> /\ op.kind = "partial" => ~whole

Inv ==
  /\ ChipTypeOK /\ ops \in 0..MaxOps /\ whole \in BOOLEAN
  /\ ToDo /\ Ready /\ PartialSeen

LEMMA Lengths ==
  ASSUME NEW o \in Operations
  PROVE  /\ o.kind = "read" => Len(Script(o)) = 5 + ReadLen
         /\ o.kind \in Programs => Len(Script(o)) = 7 + DataLength(o)
         /\ o.kind = "erase" => Len(Script(o)) = 5
         /\ o.kind = "status" => Len(Script(o)) = 2
         /\ o.kind = "poll" => Len(Script(o)) = 3
         /\ o.kind = "id" => Len(Script(o)) = 4
         /\ o.kind = "reset" => Len(Script(o)) = 1
BY ReadScript, ProgramScript, EraseScript, ShortScripts

LEMMA ScriptType ==
  ASSUME NEW o \in Operations
  PROVE  Script(o) \in Seq(Access) /\ Len(Script(o)) > 0
<1>1. Script(o) \in Seq(Access)
  BY ReadScript, ProgramScript, EraseScript, ShortScripts, OperationType, Zenon
<1> DEFINE n == Len(Script(o))
<1>2. n = 5 + ReadLen \/ n = 7 + DataLength(o) \/ n \in {1, 2, 3, 4, 5}
  BY Lengths, OperationType, Zenon
<1>3. ReadLen \in Nat /\ DataLength(o) \in Nat
  BY DriverAssumption, Sizes DEF DataLength
<1> HIDE DEF n
<1>4. n > 0
  BY <1>2, <1>3
<1> QED BY <1>1, <1>4 DEF n

(* The next access. *)
LEMMA AtWork ==
  ASSUME ToDo, todo # <<>>
  PROVE  /\ op \in Operations /\ ReadCount \in 0..Len(Script(op))-1 /\ ReadCount \in Nat
         /\ Makes(op, ReadCount, Head(todo))
<1>1. /\ op \in Operations /\ Len(todo) \in 1..Len(Script(op))
      /\ Head(todo) = todo[1] /\ todo[1] = Script(op)[ReadCount + 1]
  BY DEF ToDo
<1>2. Len(Script(op)) \in Nat
  BY <1>1
<1>3. ReadCount \in 0..Len(Script(op))-1 /\ ReadCount \in Nat
  BY <1>1, <1>2 DEF ReadCount
<1>4. Makes(op, ReadCount, Script(op)[ReadCount + 1])
  BY <1>1, <1>3, Accesses
<1> QED BY <1>1, <1>3, <1>4

LEMMA Asserted ==
  ASSUME NEW o \in Operations, NEW k \in Nat, NEW x, Makes(o, k, x), ChipTypeOK,
         o.kind # "partial", IF k = 0 THEN BeginExpected ELSE Hold(o, k)
  PROVE  /\ x.port = "command" => CommandExpected(x.byte)
         /\ x.port = "address" => AddressExpected
         /\ x.port = "data" => DataExpected
<1> USE DEF Makes, ChipTypeOK
<1>1. Opening(o) \in Begins /\ {"80", "10", "d0"} \cap Begins = {}
  BY OperationType DEF Opening, First, Begins, Reads, Programs
<1>2. CASE x.port = "command" /\ k = 0 /\ x.byte = Opening(o)
  BY <1>1, <1>2 DEF CommandExpected
<1>3. CASE x.port = "command" /\ o.kind \in Programs /\ k = 1 /\ x.byte = "80"
  <2>1. SetupExpected
    BY <1>3 DEF Hold, SetupExpected, First
  <2> QED BY <1>1, <1>3, <2>1 DEF CommandExpected
<1>4. CASE x.port = "command" /\ o.kind \in Programs /\ k = 6 + DataLength(o) /\ x.byte = "10"
  <2>1. DataLength(o) \in Nat /\ DataLength(o) >= 1
    BY ChipAssumption, Sizes DEF DataLength, PageBytes, MainBytes
  <2>2. cmd = <<First(o), "80">> /\ Len(addr) = 4 /\ Len(dat) = DataLength(o)
    BY <1>4, <2>1 DEF Hold
  <2>3. ConfirmExpected
    BY <1>4, <2>2 DEF ConfirmExpected, CanProgram, Programs, First, DataLength
  <2> QED BY <1>1, <1>4, <2>3 DEF CommandExpected
<1>5. CASE x.port = "command" /\ o.kind = "erase" /\ k = 4 /\ x.byte = "d0"
  <2>1. EraseExpected
    BY <1>5 DEF Hold, EraseExpected
  <2> QED BY <1>1, <1>5, <2>1 DEF CommandExpected
<1>6. CASE x.port = "address"
  <2>1. \/ o.kind = "read" /\ k \in 1..4
        \/ o.kind \in Programs /\ k \in 2..5
        \/ o.kind = "erase" /\ k \in 1..3
        \/ o.kind = "id" /\ k = 1
    BY <1>6, Zenon
  <2> HIDE DEF Makes, ChipTypeOK
  <2>2. k # 0 /\ (o.kind \in Programs => k # 1)
    BY <2>1 DEF Programs
  <2>3. Hold(o, k)
    BY <2>2
  <2>4. \/ o.kind = "read" /\ cmd = <<o.area>>
        \/ o.kind \in Programs /\ cmd = <<First(o), "80">>
        \/ o.kind = "erase" /\ cmd = <<"60">>
        \/ o.kind = "id" /\ cmd = <<"90">>
    BY <2>1, <2>2, <2>3, Zenon DEF Hold
  <2>5. cmd # <<>>
    BY <2>4
  <2> QED BY <1>6, <2>5 DEF AddressExpected
<1>7. CASE x.port = "data"
  <2>1. o.kind \in Programs /\ k \in 6..5+DataLength(o)
    BY <1>7
  <2>2. cmd = <<First(o), "80">>
    BY <2>1, Sizes DEF Hold, DataLength
  <2> QED BY <1>7, <2>2 DEF DataExpected, First
<1> QED BY <1>2, <1>3, <1>4, <1>5, <1>6, <1>7

LEMMA InvIsEnough == Inv => TypeOK /\ AssertionsHold
<1> SUFFICES ASSUME Inv PROVE TypeOK /\ AssertionsHold
  OBVIOUS
<1>1. TypeOK
  <2>1. None \notin Operations /\ Cut \notin Operations
    BY OperationType DEF None, Cut, Programs
  <2> QED BY <2>1 DEF Inv, ToDo, TypeOK
<1>2. ASSUME whole, todo # <<>>
      PROVE  /\ Head(todo).port = "command" => CommandExpected(Head(todo).byte)
             /\ Head(todo).port = "address" => AddressExpected
             /\ Head(todo).port = "data" => DataExpected
  <2>1. /\ op \in Operations /\ ReadCount \in Nat
        /\ Makes(op, ReadCount, Head(todo))
    BY <1>2, AtWork DEF Inv
  <2>2. op.kind # "partial" /\ IF ReadCount = 0 THEN BeginExpected ELSE Hold(op, ReadCount)
    BY <1>2 DEF Inv, PartialSeen, Ready
  <2>3. ChipTypeOK
    BY DEF Inv
  <2> QED BY <2>1, <2>2, <2>3, Asserted
<1>3. ASSUME todo # <<>> PROVE Head(todo).port \in {"command", "address", "data", "read"}
  BY <1>3, AtWork DEF Inv, Makes, Access, CommandAccess, AddressAccess, DataAccess, ReadAccess
<1> QED BY <1>1, <1>2, <1>3 DEF AssertionsHold
------------------------------------------------------------------------------
(* What an access does to the registers *)

LEMMA PageType ==
  ASSUME NEW a \in Seq(Byte), Len(a) = 4
  PROVE  PageOf(a) \in 0..NumPages-1 /\ a[1] \in Nat
<1>1. a[1] \in Byte /\ a[2] \in Byte /\ a[3] \in Byte /\ a[4] \in Byte
  OBVIOUS
<1>2. Base \in Nat /\ NumPages = 2 * Size
  BY Sizes DEF NumPages, Size
<1>3. /\ a[2] \in 0..Base-1 /\ a[3] \in 0..Base-1 /\ a[4] \in Nat /\ a[1] \in Nat
      /\ a[4] % 2 \in {0, 1}
  <2>1. a[2] \in 0..Base-1 /\ a[3] \in 0..Base-1 /\ a[4] \in Nat /\ a[1] \in Nat
    BY <1>1, <1>2 DEF Byte
  <2> QED BY <2>1
<1> DEFINE x == a[3]  y == a[2]  z == a[4] % 2
<1>4. x * Base \in 0..Size-Base
  <2> HIDE DEF x
  <2>1. x \in Nat /\ x + 1 <= Base
    BY <1>2, <1>3 DEF x
  <2>2. (x + 1) * Base <= Base * Base
    BY <2>1, <1>2
  <2>3. (x + 1) * Base = x * Base + Base /\ x * Base \in Nat
    BY <2>1, <1>2
  <2> QED BY <2>2, <2>3, Sizes DEF Size
<1>5. z * Base * Base \in {0, Size}
  BY <1>3, Sizes DEF Size
<1> DEFINE u == x * Base  v == z * Base * Base
<1>6. u \in 0..Size-Base /\ v \in {0, Size} /\ PageOf(a) = v + u + y
  BY <1>4, <1>5 DEF PageOf
<1>7. y \in 0..Base-1
  BY <1>3
<1> HIDE DEF u, v, y
<1>8. PageOf(a) \in 0..2*Size-1
  BY <1>6, <1>7, Sizes
<1> QED BY <1>2, <1>3, <1>8

LEMMA OriginType ==
  ASSUME NEW a \in Seq(Byte), Len(a) = 4, NEW f \in Reads
  PROVE  Origin(f, a) \in Nat
<1>1. PageOf(a) \in Nat /\ a[1] \in Nat /\ PageBytes \in Nat
  BY PageType, Sizes
<1>2. PageOf(a) * PageBytes \in Nat
  BY <1>1
<1>3. Offset(f) \in Nat
  BY Sizes DEF Offset, Reads, MainBytes
<1> QED BY <1>1, <1>2, <1>3 DEF Origin

LEMMA WrittenType ==
  ASSUME NEW n \in Nat, dat \in Seq(Values), mem \in [Cells -> Values]
  PROVE  Written(n) \in [Cells -> Values]
<1>1. SUFFICES ASSUME NEW c \in Cells
              PROVE  (IF n <= c /\ c < n + Len(dat) THEN dat[c - n + 1] ELSE mem[c]) \in Values
  BY DEF Written
<1>2. c \in Nat
  BY DEF Cells
<1>3. CASE n <= c /\ c < n + Len(dat)
  <2>1. c - n + 1 \in 1..Len(dat)
    BY <1>2, <1>3
  <2> QED BY <1>3, <2>1
<1> QED BY <1>3

LEMMA CommandType ==
  ASSUME ChipTypeOK, NEW c \in Commands, Command(c)
  PROVE  ChipTypeOK'
<1>1. CASE Begin(c)
  <2>1. cmd' \in Seq(Commands)
    BY <1>1 DEF Begin
  <2> QED BY <1>1, <2>1 DEF ChipTypeOK, Begin, Flush
<1>2. CASE c = "10" /\ Confirm
  <2>1. CASE UNCHANGED chip
    BY <2>1 DEF ChipTypeOK, chip
  <2>2. ASSUME NEW f \in Reads, NEW n, CanProgram(f, n),
               mem' = Written(Origin(f, addr)), Clear, UNCHANGED out
        PROVE  ChipTypeOK'
    <3> DEFINE w == Origin(f, addr)
    <3>1. w \in Nat
      BY <2>2, OriginType DEF CanProgram, ChipTypeOK
    <3> HIDE DEF w
    <3>2. Written(w) \in [Cells -> Values]
      BY <3>1, WrittenType DEF ChipTypeOK
    <3>3. mem' = Written(w)
      BY <2>2 DEF w
    <3> QED BY <2>2, <3>2, <3>3 DEF ChipTypeOK, Clear, Flush
  <2> QED BY <1>2, <2>1, <2>2 DEF Confirm, Reads
<1>3. CASE c = "d0" /\ EraseConfirm
  <2>1. mem' \in [Cells -> Values]
    BY <1>3, ChipAssumption DEF ChipTypeOK, EraseConfirm, BlankByte
  <2>2. cmd' \in Seq(Commands)
    BY <1>3 DEF ChipTypeOK, EraseConfirm, Commands
  <2> QED BY <1>3, <2>1, <2>2 DEF ChipTypeOK, EraseConfirm
<1>4. CASE c = "80" /\ Setup
  BY <1>4 DEF ChipTypeOK, Setup, Commands
<1> QED BY <1>1, <1>2, <1>3, <1>4 DEF Command

LEMMA AddressType ==
  ASSUME ChipTypeOK, NEW v \in Byte, Address(v)
  PROVE  ChipTypeOK'
BY DEF ChipTypeOK, Address

LEMMA DataType ==
  ASSUME ChipTypeOK, NEW v \in Values, Data(v)
  PROVE  ChipTypeOK'
BY DEF ChipTypeOK, Data

(* A read never leaves the array. *)
Within == DataAsked => Origin(cmd[1], addr) + cnt \in Cells

LEMMA ReadType ==
  ASSUME ChipTypeOK, Within, Read
  PROVE  ChipTypeOK'
<1>1. CASE ReadStatus
  BY <1>1 DEF ChipTypeOK, Read, ReadStatus, Clear, Flush
<1>2. CASE ReadId
  <2>1. out' \in {"ec", "75"} /\ UNCHANGED mem
    BY <1>2 DEF Read, ReadId
  <2>2. cmd' \in Seq(Commands) /\ addr' \in Seq(Byte) /\ dat' \in Seq(Values) /\ cnt' \in Nat
    <3>1. CASE cnt = 0
      BY <1>2, <3>1 DEF ChipTypeOK, ReadId
    <3>2. CASE cnt # 0
      BY <1>2, <3>2 DEF ReadId, Clear, Flush
    <3> QED BY <3>1, <3>2
  <2> QED BY <2>1, <2>2 DEF ChipTypeOK
<1>3. CASE ReadData
  BY <1>3 DEF ChipTypeOK, Read, ReadData, Within
<1>4. CASE ReadNothing
  BY <1>4, ChipAssumption DEF ChipTypeOK, Read, ReadNothing, regs
<1> QED BY <1>1, <1>2, <1>3, <1>4 DEF Read

------------------------------------------------------------------------------
(* The registers follow the operation: after the next access they hold     *)
(* what Hold says, and after the last one the next operation may begin.    *)

LEMMA AppendIs ==
  ASSUME NEW S, NEW s \in Seq(S), NEW v \in S
  PROVE  /\ Append(s, v) \in Seq(S) /\ Len(Append(s, v)) = Len(s) + 1
         /\ \A i \in 1..Len(s) : Append(s, v)[i] = s[i]
         /\ Append(s, v)[Len(s) + 1] = v
BY AppendProperties

LEMMA AppendedTo ==
  ASSUME NEW S, NEW a \in S, NEW b \in S, NEW s \in Seq(S), Len(s) = 1, s[1] = a
  PROVE  Append(s, b) = <<a, b>>
<1> DEFINE t == Append(s, b)
<1>1. /\ t \in Seq(S) /\ Len(t) = Len(s) + 1
      /\ \A i \in 1..Len(s) : t[i] = s[i]
      /\ t[Len(s) + 1] = b
  BY AppendIs
<1> HIDE DEF t
<1>2. Len(t) = 2 /\ t[1] = s[1] /\ t[2] = b
  BY <1>1
<1>3. t = <<a, b>>
  BY <1>1, <1>2
<1> QED BY <1>3 DEF t

LEMMA Appended == ASSUME NEW a, NEW b PROVE Append(<<a>>, b) = <<a, b>>
<1> DEFINE s == <<a>>
<1>1. s \in Seq({a, b}) /\ Len(s) = 1 /\ s[1] = a
  OBVIOUS
<1> HIDE DEF s
<1>2. a \in {a, b} /\ b \in {a, b}
  OBVIOUS
<1>3. Append(s, b) = <<a, b>>
  BY <1>1, <1>2, AppendedTo, Zenon
<1> QED BY <1>3 DEF s

Follows(o, k) ==
  /\ k + 1 < Len(Script(o)) => Hold(o, k + 1)'
  /\ k + 1 = Len(Script(o)) /\ o.kind # "partial" => BeginExpected'

LEMMA CommandFollows ==
  ASSUME NEW o \in Operations, NEW k \in Nat, NEW x, Makes(o, k, x), ChipTypeOK,
         k > 0 => Hold(o, k), x.port = "command", Command(x.byte)
  PROVE  Follows(o, k)
<1> USE ChipAssumption
<1>1. /\ Opening(o) \in Begins /\ {"80", "10", "d0"} \cap Begins = {}
      /\ Opening(o) = "ff" <=> o.kind = "reset"
  BY OperationType DEF Opening, First, Begins, Reads, Programs
<1>2. DataLength(o) \in Nat /\ DataLength(o) >= 1 /\ ReadLen \in Nat
  BY Sizes, DriverAssumption DEF DataLength, PageBytes, MainBytes
<1>3. CASE k = 0 /\ x.byte = Opening(o)
  <2>1. Begin(Opening(o))
    BY <1>1, <1>3 DEF Command
  <2>2. addr' = <<>> /\ dat' = <<>> /\ cnt' = 0
    BY <2>1 DEF Begin, Flush
  <2>3. CASE o.kind = "reset"
    <3>1. cmd' = <<>>
      BY <1>1, <2>1, <2>3 DEF Begin
    <3>2. Len(Script(o)) = 1
      BY <2>3, Lengths
    <3> QED BY <1>3, <3>1, <3>2 DEF Follows, BeginExpected, Idle
  <2>4. CASE o.kind # "reset"
    <3>1. cmd' = <<Opening(o)>>
      BY <1>1, <2>1, <2>4 DEF Begin
    <3>2. Hold(o, 1)'
      <4>1. Len(addr') = 0 /\ Len(dat') = 0
        BY <2>2
      <4>2. CASE o.kind \in Programs
        BY <4>1, <4>2, <3>1 DEF Hold, Opening, Programs
      <4>3. CASE o.kind \notin Programs
        BY <4>1, <4>3, <2>2, <3>1 DEF Hold, Opening
      <4> QED BY <4>2, <4>3
    <3>3. Len(Script(o)) # 1
      <4>1. CASE o.kind = "read"
        <5>1. Len(Script(o)) = 5 + ReadLen
          BY <4>1, Lengths
        <5> QED BY <1>2, <5>1
      <4>2. CASE o.kind \in Programs
        <5>1. Len(Script(o)) = 7 + DataLength(o)
          BY <4>2, Lengths
        <5> QED BY <1>2, <5>1
      <4>3. CASE o.kind \in {"erase", "status", "poll", "id"}
        <5>1. Len(Script(o)) \in {2, 3, 4, 5}
          BY <4>3, Lengths
        <5> QED BY <5>1
      <4> QED BY <2>4, <4>1, <4>2, <4>3, OperationType
    <3> QED BY <1>3, <3>2, <3>3 DEF Follows
  <2> QED BY <2>3, <2>4
<1>4. CASE o.kind \in Programs /\ k = 1 /\ x.byte = "80"
  <2>1. Setup
    BY <1>1, <1>4 DEF Command, Begin
  <2>2. cmd = <<First(o)>> /\ Len(addr) = 0 /\ Len(dat) = 0
    BY <1>4 DEF Hold
  <2>3. cmd' = <<First(o), "80">> /\ Len(addr') = 0 /\ Len(dat') = 0
    <3>1. cmd' = Append(<<First(o)>>, "80") /\ addr' = addr /\ dat' = dat
      BY <2>1, <2>2 DEF Setup
    <3> QED BY <2>2, <3>1, Appended
  <2>4. Hold(o, 2)'
    BY <1>4, <2>3 DEF Hold, Programs
  <2>5. Len(Script(o)) = 7 + DataLength(o)
    BY <1>4, Lengths
  <2> QED BY <1>2, <1>4, <2>4, <2>5 DEF Follows
<1>5. CASE o.kind \in Programs /\ k = 6 + DataLength(o) /\ x.byte = "10"
  <2>1. Confirm
    BY <1>1, <1>5 DEF Command, Begin
  <2>2. cmd = <<First(o), "80">> /\ Len(addr) = 4 /\ Len(dat) = DataLength(o)
    BY <1>2, <1>5 DEF Hold
  <2>3. Len(Script(o)) = 7 + DataLength(o)
    BY <1>5, Lengths
  <2>4. o.kind # "partial" => CanProgram("50", SpareBytes) \/ CanProgram("00", PageBytes)
    BY <1>5, <2>2 DEF CanProgram, Programs, First, DataLength
  <2>5. o.kind # "partial" => cmd' = <<>>
    BY <2>1, <2>4 DEF Confirm, Clear
  <2> QED BY <1>2, <1>5, <2>3, <2>5 DEF Follows, BeginExpected, Idle
<1>6. CASE o.kind = "erase" /\ k = 4 /\ x.byte = "d0"
  <2>1. EraseConfirm
    BY <1>1, <1>6 DEF Command, Begin
  <2>2. cmd = <<"60">> /\ Len(addr) = 3 /\ dat = <<>>
    BY <1>6 DEF Hold
  <2>3. cmd' = <<"60", "d0">> /\ Len(addr') = 3 /\ dat' = <<>>
    <3>1. cmd' = Append(<<"60">>, "d0") /\ addr' = addr /\ dat' = dat
      BY <2>1, <2>2 DEF EraseConfirm
    <3> QED BY <2>2, <3>1, Appended
  <2>4. BeginExpected'
    BY <2>3 DEF BeginExpected, EraseDone
  <2>5. Len(Script(o)) = 5
    BY <1>6, Lengths
  <2> QED BY <1>6, <2>4, <2>5 DEF Follows
<1> QED BY <1>3, <1>4, <1>5, <1>6 DEF Makes

LEMMA Grown ==
  ASSUME NEW S, NEW s \in Seq(S), NEW v \in S
  PROVE  /\ Len(Append(s, v)) = Len(s) + 1
         /\ Len(s) = 0 => Append(s, v)[1] = v
         /\ Len(s) > 0 => Append(s, v)[1] = s[1]
<1>1. /\ Len(Append(s, v)) = Len(s) + 1 /\ Append(s, v)[Len(s) + 1] = v
      /\ \A i \in 1..Len(s) : Append(s, v)[i] = s[i]
  BY AppendProperties
<1>2. Len(s) \in Nat
  OBVIOUS
<1>3. CASE Len(s) = 0
  <2>1. Len(s) + 1 = 1
    BY <1>3
  <2> QED BY <1>1, <1>3, <2>1
<1>4. CASE Len(s) > 0
  <2>1. 1 \in 1..Len(s) /\ Len(s) # 0
    BY <1>2, <1>4
  <2> QED BY <1>1, <2>1
<1> QED BY <1>1, <1>2, <1>3, <1>4

LEMMA AddressFollows ==
  ASSUME NEW o \in Operations, NEW k \in Nat, NEW x, Makes(o, k, x), ChipTypeOK,
         k > 0 => Hold(o, k), x.port = "address", Address(x.byte)
  PROVE  Follows(o, k)
<1>1. /\ addr' = Append(addr, x.byte) /\ UNCHANGED <<cmd, dat, cnt>>
      /\ addr \in Seq(Byte) /\ x.byte \in Byte
  BY DEF Address, ChipTypeOK, Makes, Access, CommandAccess, AddressAccess, DataAccess, ReadAccess
<1>2. /\ Len(addr') = Len(addr) + 1
      /\ Len(addr) = 0 => addr'[1] = x.byte
      /\ Len(addr) > 0 => addr'[1] = addr[1]
  BY <1>1, Grown
<1>3. CASE o.kind = "read" /\ k \in 1..4 /\ (k = 1 => x.byte = o.column)
  <2>1. /\ cmd = <<o.area>> /\ dat = <<>> /\ Len(addr) = k - 1
        /\ (k > 1 => addr[1] = o.column) /\ cnt = 0
    BY <1>3 DEF Hold
  <2>2. cmd' = <<o.area>> /\ dat' = <<>> /\ Len(addr') = k /\ addr'[1] = o.column /\ cnt' = 0
    BY <1>1, <1>2, <1>3, <2>1
  <2>3. Hold(o, k + 1)'
    BY <1>3, <2>2 DEF Hold, Programs
  <2>4. o.area \in Reads
    BY <1>3, OperationType
  <2>5. k = 4 => BeginExpected'
    BY <2>2, <2>4 DEF BeginExpected, DataAsked
  <2>6. Len(Script(o)) = 5 + ReadLen
    BY <1>3, Lengths
  <2> QED BY <1>3, <2>3, <2>5, <2>6, DriverAssumption DEF Follows
<1>4. CASE o.kind \in Programs /\ k \in 2..5
  <2>1. cmd = <<First(o), "80">> /\ Len(addr) = k - 2 /\ Len(dat) = 0
    BY <1>4 DEF Hold
  <2>2. cmd' = <<First(o), "80">> /\ Len(addr') = k - 1 /\ Len(dat') = 0
    BY <1>1, <1>2, <1>4, <2>1
  <2>3. Hold(o, k + 1)'
    BY <1>4, <2>2 DEF Hold, Programs
  <2>4. Len(Script(o)) = 7 + DataLength(o) /\ DataLength(o) \in Nat
    BY <1>4, Lengths, Sizes DEF DataLength
  <2> QED BY <1>4, <2>3, <2>4 DEF Follows
<1>5. CASE o.kind = "erase" /\ k \in 1..3
  <2>1. cmd = <<"60">> /\ Len(addr) = k - 1 /\ dat = <<>>
    BY <1>5 DEF Hold
  <2>2. cmd' = <<"60">> /\ Len(addr') = k /\ dat' = <<>>
    BY <1>1, <1>2, <1>5, <2>1
  <2>3. Hold(o, k + 1)'
    BY <1>5, <2>2 DEF Hold, Programs
  <2>4. Len(Script(o)) = 5
    BY <1>5, Lengths
  <2> QED BY <1>5, <2>3, <2>4 DEF Follows
<1>6. CASE o.kind = "id" /\ k = 1 /\ x.byte = 0
  <2>1. cmd = <<"90">> /\ addr = <<>> /\ dat = <<>> /\ cnt = 0
    BY <1>6 DEF Hold
  <2>2. cmd' = <<"90">> /\ addr' = <<0>> /\ dat' = <<>> /\ cnt' = 0
    BY <1>1, <1>6, <2>1
  <2>3. Hold(o, k + 1)'
    BY <1>6, <2>2 DEF Hold, Programs
  <2>4. Len(Script(o)) = 4
    BY <1>6, Lengths
  <2> QED BY <1>6, <2>3, <2>4 DEF Follows
<1> QED BY <1>3, <1>4, <1>5, <1>6 DEF Makes

LEMMA DataFollows ==
  ASSUME NEW o \in Operations, NEW k \in Nat, NEW x, Makes(o, k, x), ChipTypeOK,
         k > 0 => Hold(o, k), x.port = "data", Data(x.byte)
  PROVE  Follows(o, k)
<1>1. o.kind \in Programs /\ k \in 6..5+DataLength(o)
  BY DEF Makes
<1>2. DataLength(o) \in Nat
  BY Sizes DEF DataLength
<1>3. cmd = <<First(o), "80">> /\ Len(addr) = 4 /\ Len(dat) = k - 6
  BY <1>1, <1>2 DEF Hold
<1>4. /\ dat' = Append(dat, x.byte) /\ UNCHANGED <<cmd, addr>>
      /\ dat \in Seq(Values) /\ x.byte \in Values
  BY <1>3 DEF Data, ChipTypeOK, Makes, Access, CommandAccess, AddressAccess, DataAccess, ReadAccess
<1>5. Len(dat') = Len(dat) + 1
  BY <1>4, Grown
<1>6. cmd' = <<First(o), "80">> /\ Len(addr') = 4 /\ Len(dat') = k - 5
  BY <1>1, <1>2, <1>3, <1>4, <1>5
<1>7. Hold(o, k + 1)'
  BY <1>1, <1>2, <1>6 DEF Hold, Programs
<1>8. Len(Script(o)) = 7 + DataLength(o)
  BY <1>1, Lengths
<1> QED BY <1>1, <1>2, <1>7, <1>8 DEF Follows

LEMMA ReadFollows ==
  ASSUME NEW o \in Operations, NEW k \in Nat, NEW x, Makes(o, k, x), ChipTypeOK,
         k > 0 => Hold(o, k), x.port = "read", Read
  PROVE  Follows(o, k) /\ Within
<1>1. CASE o.kind = "read" /\ k \in 5..4+ReadLen
  <2>1. o.area \in Reads /\ o.column \in Columns /\ ReadLen \in Nat
    BY <1>1, OperationType, DriverAssumption
  <2>2. /\ cmd = <<o.area>> /\ dat = <<>> /\ Len(addr) = 4 /\ addr[1] = o.column
        /\ cnt = k - 5
    BY <1>1, <2>1 DEF Hold
  <2>3. DataAsked /\ ~StatusAsked /\ ~IdAsked
    BY <2>1, <2>2 DEF DataAsked, StatusAsked, IdAsked, Reads
  <2>4. cnt' = cnt + 1 /\ UNCHANGED <<cmd, addr, dat>>
    BY <2>3 DEF Read, ReadStatus, ReadId, ReadData, ReadNothing
  <2>5. cmd' = <<o.area>> /\ dat' = <<>> /\ Len(addr') = 4 /\ addr'[1] = o.column /\ cnt' = k - 4
    BY <1>1, <2>1, <2>2, <2>4
  <2>6. Hold(o, k + 1)'
    BY <1>1, <2>1, <2>5 DEF Hold, Programs
  <2>7. BeginExpected'
    BY <2>1, <2>5 DEF BeginExpected, DataAsked
  <2>8. Within
    <3>1. PageOf(addr) \in 0..NumPages-1 /\ NumPages \in Nat
      <4>1. NumPages \in Nat
        BY Sizes DEF NumPages
      <4> QED BY <2>2, <4>1, PageType DEF ChipTypeOK
    <3>2. o.column + MainBytes + ReadLen <= 2 * PageBytes /\ o.column \in Nat
      <4>1. o.column \in Byte
        BY <2>1, DriverAssumption
      <4>2. o.column \in Nat
        BY <4>1, Sizes DEF Byte
      <4> QED BY <2>1, <4>2, DriverAssumption
    <3>3. Offset(o.area) \in 0..MainBytes /\ MainBytes \in Nat
      BY <2>1, Sizes DEF Offset, Reads, MainBytes
    <3>4. Origin(cmd[1], addr) = PageOf(addr) * PageBytes + o.column + Offset(o.area)
      BY <2>2 DEF Origin
    <3> DEFINE p == PageOf(addr)  b == PageBytes  u == p * b  w == NumPages * b
                 e == (NumPages + 1) * PageBytes
    <3>5. u + b <= w /\ u \in Nat /\ w \in Nat
      <4> DEFINE n == NumPages
      <4> HIDE DEF p, b, n
      <4>1. p \in Nat /\ n \in Nat /\ b \in Nat /\ p + 1 <= n
        BY <3>1, Sizes DEF p, b, n
      <4>2. (p + 1) * b <= n * b
        BY <4>1
      <4>3. (p + 1) * b = p * b + b /\ p * b \in Nat /\ n * b \in Nat
        BY <4>1
      <4> QED BY <4>1, <4>2, <4>3 DEF n
    <3>6. e = w + b
      BY <3>1, Sizes
    <3>7. b \in Nat
      BY Sizes
    <3>8. Origin(cmd[1], addr) + cnt = u + o.column + Offset(o.area) + k - 5
      BY <1>1, <2>2, <3>2, <3>3, <3>4, <3>5
    <3>9. k - 5 \in 0..ReadLen-1
      BY <1>1, <2>1
    <3>10. Cells = 0..e-1
      BY Zenon DEF Cells
    <3> HIDE DEF u, w, b, e
    <3>11. u + o.column + Offset(o.area) + k - 5 \in 0..e-1
      BY <2>1, <3>2, <3>3, <3>5, <3>6, <3>7, <3>9 DEF b
    <3> QED BY <3>8, <3>11, <3>10 DEF Within
  <2> QED BY <1>1, <2>6, <2>7, <2>8 DEF Follows
<1>2. CASE o.kind \in {"status", "poll"} /\ k = 1
  <2>1. cmd = <<"70">> /\ addr = <<>> /\ dat = <<>>
    BY <1>2 DEF Hold, Programs
  <2>2. StatusAsked /\ ~IdAsked /\ ~DataAsked
    BY <2>1 DEF DataAsked, StatusAsked, IdAsked, Reads
  <2>3. cmd' = <<>>
    BY <2>2 DEF Read, ReadStatus, ReadId, ReadData, ReadNothing, Clear
  <2>4. Hold(o, k + 1)' /\ BeginExpected'
    BY <1>2, <2>3 DEF Hold, Programs, BeginExpected, Idle
  <2> QED BY <2>2, <2>4 DEF Follows, Within
<1>3. CASE o.kind = "poll" /\ k = 2
  <2>1. cmd = <<>>
    BY <1>3 DEF Hold, Programs
  <2>2. ~StatusAsked /\ ~IdAsked /\ ~DataAsked
    BY <2>1 DEF DataAsked, StatusAsked, IdAsked
  <2>3. cmd' = <<>>
    BY <2>1, <2>2 DEF Read, ReadStatus, ReadId, ReadData, ReadNothing, regs
  <2>4. Hold(o, k + 1)' /\ BeginExpected'
    BY <1>3, <2>3 DEF Hold, Programs, BeginExpected, Idle
  <2> QED BY <2>2, <2>4 DEF Follows, Within
<1>4. CASE o.kind = "id" /\ k \in 2..3
  <2>1. cmd = <<"90">> /\ addr = <<0>> /\ dat = <<>> /\ cnt = k - 2
    BY <1>4 DEF Hold, Programs
  <2>2. ~StatusAsked /\ IdAsked /\ ~DataAsked
    BY <2>1 DEF DataAsked, StatusAsked, IdAsked, Reads
  <2>3. Len(Script(o)) = 4
    BY <1>4, Lengths
  <2>4. CASE k = 2
    <3>1. cnt' = 1 /\ UNCHANGED <<cmd, addr, dat>>
      BY <2>1, <2>2, <2>4 DEF Read, ReadStatus, ReadId, ReadData, ReadNothing
    <3>2. Hold(o, k + 1)'
      BY <1>4, <2>1, <2>4, <3>1 DEF Hold, Programs
    <3> QED BY <2>2, <2>3, <2>4, <3>2 DEF Follows, Within
  <2>5. CASE k = 3
    <3>1. cmd' = <<>>
      BY <2>1, <2>2, <2>5 DEF Read, ReadStatus, ReadId, ReadData, ReadNothing, Clear
    <3> QED BY <2>2, <2>3, <2>5, <3>1 DEF Follows, Within, BeginExpected, Idle
  <2> QED BY <1>4, <2>4, <2>5
<1> QED BY <1>1, <1>2, <1>3, <1>4 DEF Makes

------------------------------------------------------------------------------
(* The steps *)

LEMMA InitInv == Init => Inv
<1> SUFFICES ASSUME Init PROVE Inv
  OBVIOUS
<1>1. ChipTypeOK
  BY ChipAssumption DEF Init, ChipInit, ChipTypeOK
<1>2. BeginExpected
  BY DEF Init, ChipInit, BeginExpected, Idle
<1> QED BY <1>1, <1>2, DriverAssumption DEF Init, Inv, ToDo, Ready, PartialSeen

(* The operation moves on by one access. *)
LEMMA Progress ==
  ASSUME ToDo, todo # <<>>, Advance
  PROVE  /\ ToDo'
         /\ \/ todo' = <<>> /\ ReadCount + 1 = Len(Script(op))
            \/ /\ todo' # <<>> /\ op' = op /\ ReadCount' = ReadCount + 1
               /\ ReadCount + 1 < Len(Script(op))
<1>1. /\ op \in Operations /\ todo \in Seq(Access) /\ Len(todo) \in 1..Len(Script(op))
      /\ \A i \in 1..Len(todo) : todo[i] = Script(op)[ReadCount + i]
      /\ Len(Script(op)) \in Nat
  <2>1. /\ op \in Operations /\ todo \in Seq(Access) /\ Len(todo) \in 1..Len(Script(op))
        /\ \A i \in 1..Len(todo) : todo[i] = Script(op)[ReadCount + i]
    BY DEF ToDo
  <2> QED BY <2>1
<1>2. /\ todo' \in Seq(Access) /\ Len(todo') = Len(todo) - 1
      /\ \A i \in 1..Len(todo') : todo'[i] = todo[i + 1]
  BY <1>1, HeadTailProperties DEF Advance
<1>3. CASE Len(todo) = 1
  <2>1. todo' = <<>> /\ op' = None
    BY <1>2, <1>3 DEF Advance
  <2>2. ReadCount + 1 = Len(Script(op))
    BY <1>1, <1>3 DEF ReadCount
  <2> QED BY <2>1, <2>2 DEF ToDo
<1>4. CASE Len(todo) # 1
  <2>1. op' = op
    BY <1>4 DEF Advance
  <2>2. Len(todo') \in 1..Len(Script(op)) /\ todo' # <<>>
    BY <1>1, <1>2, <1>4
  <2>3. ReadCount' = ReadCount + 1 /\ ReadCount + 1 < Len(Script(op)) /\ ReadCount \in Nat
    BY <1>1, <1>2, <1>4, <2>1 DEF ReadCount
  <2>4. ASSUME NEW i \in 1..Len(todo') PROVE todo'[i] = Script(op)[ReadCount' + i]
    <3>1. i + 1 \in 1..Len(todo) /\ ReadCount' + i = ReadCount + (i + 1)
      BY <1>1, <1>2, <2>3
    <3>2. todo'[i] = todo[i + 1]
      BY <1>2
    <3> QED BY <1>1, <3>1, <3>2
  <2>5. ToDo'
    BY <1>1, <1>2, <2>1, <2>2, <2>4 DEF ToDo
  <2> QED BY <2>2, <2>3, <2>1, <2>5
<1> QED BY <1>3, <1>4

LEMMA AdvanceInv ==
  ASSUME Inv, todo # <<>>, Advance, ChipTypeOK',
         NEW o, NEW k, o = op, k = ReadCount, Follows(o, k)
  PROVE  Inv'
<1>1. ToDo /\ o \in Operations /\ k \in Nat
  BY AtWork DEF Inv
<1>2. ops' \in 0..MaxOps /\ whole' \in BOOLEAN
  BY DEF Inv, Advance
<1>3. ToDo'
  BY <1>1, Progress
<1>4. CASE todo' = <<>> /\ k + 1 = Len(Script(o))
  <2>1. ASSUME whole' PROVE BeginExpected'
    <3>1. CASE o.kind = "partial"
      <4>1. ~whole
        BY <3>1 DEF Inv, PartialSeen
      <4>2. ~whole'
        BY <3>1, <4>1, Zenon DEF Advance
      <4> QED BY <2>1, <4>1, <4>2
    <3>2. CASE o.kind # "partial"
      BY <1>4, <3>2 DEF Follows
    <3> QED BY <3>1, <3>2
  <2>2. Ready' /\ PartialSeen'
    BY <1>4, <2>1 DEF Ready, PartialSeen
  <2> QED BY <1>2, <1>3, <2>2 DEF Inv
<1>5. CASE /\ todo' # <<>> /\ op' = o /\ ReadCount' = k + 1
           /\ k + 1 < Len(Script(o))
  <2>1. Hold(o, k + 1)'
    BY <1>5 DEF Follows
  <2>2. ReadCount' # 0
    BY <1>1, <1>5
  <2>3. Ready'
    <3>1. Hold(op, ReadCount)'
      BY <1>5, <2>1 DEF Hold
    <3> QED BY <1>5, <2>2, <3>1 DEF Ready
  <2>4. PartialSeen'
    <3>1. o.kind = "partial" => ~whole /\ whole' = whole
      BY DEF Inv, PartialSeen, Advance
    <3> QED BY <1>5, <3>1 DEF PartialSeen
  <2> QED BY <1>2, <1>3, <2>3, <2>4 DEF Inv
<1> QED BY <1>1, <1>4, <1>5, Progress

LEMMA NextInv == Inv /\ [Next]_vars => Inv'
<1> SUFFICES ASSUME Inv, [Next]_vars PROVE Inv'
  OBVIOUS
<1>1. CASE Start
  <2> DEFINE n == Len(Script(op'))
  <2>1. /\ op' \in Operations /\ todo' = Script(op') /\ ops' = ops + 1 /\ ops < MaxOps
        /\ UNCHANGED chip /\ todo = <<>>
    BY <1>1 DEF Start
  <2>2. Script(op') \in Seq(Access) /\ n \in Nat /\ n > 0
    BY <2>1, ScriptType
  <2>3. todo' # <<>> /\ ReadCount' = 0
    BY <2>1, <2>2 DEF ReadCount
  <2>4. ToDo'
    <3>1. Len(todo') \in 1..n /\ \A i \in 1..Len(todo') : todo'[i] = Script(op')[ReadCount' + i]
      BY <2>1, <2>2, <2>3
    <3> QED BY <2>1, <2>2, <2>3, <3>1 DEF ToDo
  <2>5. ChipTypeOK' /\ (whole => BeginExpected')
    BY <2>1 DEF Inv, ChipTypeOK, chip, Ready, BeginExpected, Idle, DataAsked, EraseDone
  <2>6. whole' \in BOOLEAN /\ (whole' => whole) /\ (op'.kind = "partial" => ~whole')
    BY <1>1 DEF Start, Inv
  <2>7. Ready' /\ PartialSeen'
    BY <2>3, <2>5, <2>6 DEF Ready, PartialSeen
  <2>8. ops' \in 0..MaxOps
    BY <2>1, DriverAssumption DEF Inv
  <2> QED BY <2>4, <2>5, <2>6, <2>7, <2>8 DEF Inv
<1>2. ASSUME todo # <<>>
      PROVE  /\ op \in Operations /\ ReadCount \in Nat /\ ChipTypeOK
             /\ Makes(op, ReadCount, Head(todo))
             /\ ReadCount > 0 => Hold(op, ReadCount)
  BY <1>2, AtWork DEF Inv, Ready
<1> DEFINE x == Head(todo)
<1>3. ASSUME NEW o, NEW k, o = op, k = ReadCount, WriteCommand PROVE Inv'
  <2>1. todo # <<>> /\ Advance /\ x.port = "command" /\ Command(x.byte)
    BY <1>3 DEF WriteCommand, Advance
  <2>2. /\ o \in Operations /\ k \in Nat /\ ChipTypeOK /\ Makes(o, k, x)
        /\ k > 0 => Hold(o, k)
    BY <1>2, <1>3, <2>1
  <2>3. x.byte \in Commands
    BY <2>1, <2>2 DEF Makes, Access, CommandAccess, AddressAccess, DataAccess, ReadAccess
  <2> HIDE DEF x
  <2>4. Follows(o, k) /\ ChipTypeOK'
    BY <2>1, <2>2, <2>3, CommandFollows, CommandType
  <2> QED BY <1>3, <2>1, <2>4, AdvanceInv
<1>4. ASSUME NEW o, NEW k, o = op, k = ReadCount, WriteAddress PROVE Inv'
  <2>1. todo # <<>> /\ Advance /\ x.port = "address" /\ Address(x.byte)
    BY <1>4 DEF WriteAddress, Advance
  <2>2. /\ o \in Operations /\ k \in Nat /\ ChipTypeOK /\ Makes(o, k, x)
        /\ k > 0 => Hold(o, k)
    BY <1>2, <1>4, <2>1
  <2>3. x.byte \in Byte
    BY <2>1, <2>2 DEF Makes, Access, CommandAccess, AddressAccess, DataAccess, ReadAccess
  <2> HIDE DEF x
  <2>4. Follows(o, k) /\ ChipTypeOK'
    BY <2>1, <2>2, <2>3, AddressFollows, AddressType
  <2> QED BY <1>4, <2>1, <2>4, AdvanceInv
<1>5. ASSUME NEW o, NEW k, o = op, k = ReadCount, WriteData PROVE Inv'
  <2>1. todo # <<>> /\ Advance /\ x.port = "data" /\ Data(x.byte)
    BY <1>5 DEF WriteData, Advance
  <2>2. /\ o \in Operations /\ k \in Nat /\ ChipTypeOK /\ Makes(o, k, x)
        /\ k > 0 => Hold(o, k)
    BY <1>2, <1>5, <2>1
  <2>3. x.byte \in Values
    BY <2>1, <2>2 DEF Makes, Access, CommandAccess, AddressAccess, DataAccess, ReadAccess
  <2> HIDE DEF x
  <2>4. Follows(o, k) /\ ChipTypeOK'
    BY <2>1, <2>2, <2>3, DataFollows, DataType
  <2> QED BY <1>5, <2>1, <2>4, AdvanceInv
<1>6. ASSUME NEW o, NEW k, o = op, k = ReadCount, ReadPort PROVE Inv'
  <2>1. todo # <<>> /\ Advance /\ x.port = "read" /\ Read
    BY <1>6 DEF ReadPort, Advance
  <2>2. /\ o \in Operations /\ k \in Nat /\ ChipTypeOK /\ Makes(o, k, x)
        /\ k > 0 => Hold(o, k)
    BY <1>2, <1>6, <2>1
  <2> HIDE DEF x
  <2>3. Follows(o, k) /\ ChipTypeOK'
    BY <2>1, <2>2, ReadFollows, ReadType
  <2> QED BY <1>6, <2>1, <2>3, AdvanceInv
<1>7. CASE Abandon
  BY <1>7 DEF Inv, Abandon, ToDo, Ready, PartialSeen, ChipTypeOK, chip
<1>8. CASE UNCHANGED vars
  BY <1>8 DEF Inv, vars, chip, ChipTypeOK, ToDo, Ready, PartialSeen, Hold, ReadCount,
              BeginExpected, Idle, DataAsked, EraseDone
<1> QED BY <1>1, <1>3, <1>4, <1>5, <1>6, <1>7, <1>8 DEF Next

(* TypeOK holds always: a read never leaves the array (read_nand,          *)
(* nand.cpp:240-384), and what is left to do is the end of an operation.   *)
THEOREM TypeCorrect == Spec => []TypeOK
BY InitInv, NextInv, InvIsEnough, PTL DEF Spec

(* The machine's routines never meet an assertion of nand_write unless     *)
(* something was cut short or a program was partial since the chip's last  *)
(* reset, for every size of chip and any number of operations.             *)
(* (nand.cpp:425-428, 438, 471, 511-514, 530-533, 538-572)                *)
THEOREM DriverMeetsAssertions == Spec => []AssertionsHold
BY InitInv, NextInv, InvIsEnough, PTL DEF Spec


------------------------------------------------------------------------------
(* Pages and cells *)

LEMMA Monotone ==
  ASSUME NEW p \in Nat, NEW q \in Nat, NEW b \in Nat, p < q
  PROVE  p * b + b <= q * b /\ p * b \in Nat /\ q * b \in Nat
<1>1. p + 1 <= q
  OBVIOUS
<1>2. (p + 1) * b <= q * b
  BY <1>1
<1>3. (p + 1) * b = p * b + b
  OBVIOUS
<1> QED BY <1>2, <1>3

(* The cells of page p are the b from p * b on. *)
LEMMA Division ==
  ASSUME NEW c \in Nat, NEW b \in Nat, b > 0, NEW p \in Nat
  PROVE  /\ c \div b \in Nat
         /\ c \div b = p <=> p * b <= c /\ c < p * b + b
         /\ c \div b = p => c % b = c - p * b
<1> DEFINE q == c \div b  r == c % b
<1>1. q \in Nat /\ r \in Nat /\ r < b /\ c = q * b + r
  OBVIOUS
<1> HIDE DEF q, r
<1>2. p * b \in Nat /\ q * b \in Nat
  BY <1>1
<1>3. q < p => ~(p * b <= c)
  <2>1. q < p => q * b + b <= p * b
    BY <1>1, Monotone
  <2> QED BY <1>1, <1>2, <2>1
<1>4. p < q => ~(c < p * b + b)
  <2>1. p < q => p * b + b <= q * b
    BY <1>1, Monotone
  <2> QED BY <1>1, <1>2, <2>1
<1>5. q = p => p * b <= c /\ c < p * b + b /\ r = c - p * b
  BY <1>1, <1>2
<1>6. q < p \/ q = p \/ p < q
  BY <1>1
<1> QED BY <1>1, <1>3, <1>4, <1>5, <1>6 DEF q, r

(* The bytes of a page's address. *)
PageByte(p, i) ==
  CASE i = 1 -> p % Base [] i = 2 -> (p \div Base) % Base [] i = 3 -> p \div (Base * Base)

LEMMA PageFound ==
  ASSUME NEW p \in Pages
  PROVE  ((PageByte(p, 3) % 2) * Base * Base) + PageByte(p, 2) * Base + PageByte(p, 1) = p
<1> DEFINE q == p \div Base  y == p % Base  r == q \div Base  x == q % Base  z == p \div Size
<1>1. p \in Nat /\ p < 2 * Size /\ Base \in Nat /\ Base > 0 /\ Size = Base * Base /\ Size \in Nat
  <2>1. NumPages = 2 * Size
    BY Sizes DEF NumPages, Size
  <2> QED BY <2>1, DriverAssumption, Sizes DEF Size
<1>2. q \in Nat /\ y \in Nat /\ y < Base /\ p = q * Base + y
  BY <1>1
<1> HIDE DEF q, y
<1>3. r \in Nat /\ x \in Nat /\ x < Base /\ q = r * Base + x
  BY <1>1, <1>2
<1> HIDE DEF r, x
<1>4. /\ q * Base = (r * Base) * Base + x * Base /\ (r * Base) * Base = r * Size
      /\ x * Base \in Nat /\ r * Size \in Nat
  BY <1>1, <1>3
<1>5. x * Base + y < Size
  <2>1. x * Base + Base <= Base * Base
    BY <1>1, <1>3, Monotone
  <2> QED BY <1>1, <1>2, <1>4, <2>1
<1>6. r * Size <= p /\ p < r * Size + Size
  BY <1>1, <1>2, <1>4, <1>5
<1>7. z = r
  <2>1. Size > 0
    BY Sizes
  <2> QED BY <1>1, <1>3, <1>6, <2>1, Division
<1> HIDE DEF z
<1>8. r \in {0, 1}
  <2>1. ~(1 < r)
    <3>1. 1 < r => 1 * Size + Size <= r * Size
      BY <1>1, <1>3, Monotone
    <3> QED BY <1>1, <1>3, <1>4, <1>6, <3>1
  <2> QED BY <1>3, <2>1
<1>9. z % 2 = r
  BY <1>7, <1>8
<1>10. PageByte(p, 1) = y /\ PageByte(p, 2) = x /\ PageByte(p, 3) = z
  BY DEF PageByte, y, x, z, q, Size
<1>11. (z % 2) * Base * Base = r * Size
  BY <1>1, <1>3, <1>4, <1>9
<1> QED BY <1>1, <1>2, <1>4, <1>10, <1>11

------------------------------------------------------------------------------
(* What the sequences send *)

AddressByte(o, i) ==
  IF o.kind = "erase" THEN PageByte(o.page, i)
  ELSE IF i = 1 THEN (IF o.kind = "read" THEN o.column ELSE 0)
  ELSE PageByte(o.page, i - 1)

LEMMA Before ==
  ASSUME NEW s \in Seq(Access), NEW t \in Seq(Access)
  PROVE  s \o t \in Seq(Access) /\ \A i \in 1..Len(s) : (s \o t)[i] = s[i]
BY Joining DEF Joined

(* Where t is in (s \o t) \o u. *)
Placed(s, t, u, m, n) ==
  /\ (s \o t) \o u \in Seq(Access)
  /\ Len((s \o t) \o u) = m + n + Len(u)
  /\ \A i \in 1..n : ((s \o t) \o u)[m + i] = t[i]

LEMMA Middle ==
  ASSUME NEW s \in Seq(Access), NEW t \in Seq(Access), NEW u \in Seq(Access),
         NEW m \in Nat, NEW n \in Nat, Len(s) = m, Len(t) = n
  PROVE  Placed(s, t, u, m, n)
<1>1. Joined(s, t) /\ s \o t \in Seq(Access) /\ Len(s \o t) = m + n
  BY Joining DEF Joined
<1> DEFINE h == s \o t
<1>2. Joined(h, u)
  BY <1>1, Joining
<1> HIDE DEF h
<1>3. /\ h \o u \in Seq(Access) /\ Len(h \o u) = m + n + Len(u)
      /\ \A i \in 1..m+n : (h \o u)[i] = h[i]
  BY <1>1, <1>2 DEF Joined, h
<1>4. ASSUME NEW i \in 1..n PROVE (h \o u)[m + i] = t[i]
  <2>1. m + i \in 1..m+n /\ m + i \in m+1..m+n /\ (m + i) - m = i
    OBVIOUS
  <2>2. h[m + i] = t[i]
    BY <1>1, <2>1 DEF Joined, h
  <2> QED BY <1>3, <2>1, <2>2
<1> QED BY <1>3, <1>4 DEF h, Placed

LEMMA PageBytesAre ==
  ASSUME NEW p \in Pages
  PROVE  \A i \in 1..3 : PageAddress(p)[i].byte = PageByte(p, i)
<1> DEFINE a == A(p % Base)  b == A((p \div Base) % Base)  c == A(p \div (Base * Base))
<1>1. /\ a \in Seq(Access) /\ b \in Seq(Access) /\ c \in Seq(Access)
      /\ Len(a) = 1 /\ Len(b) = 1 /\ Len(c) = 1
  BY PageAddressType, Single DEF Size
<1>2. /\ a[1].byte = PageByte(p, 1) /\ b[1].byte = PageByte(p, 2) /\ c[1].byte = PageByte(p, 3)
  BY DEF A, PageByte
<1>3. PageAddress(p) = (a \o b) \o c
  BY DEF PageAddress
<1> HIDE DEF a, b, c
<1>4. a \o b \in Seq(Access) /\ Len(a \o b) = 2 /\ (a \o b)[1] = a[1] /\ (a \o b)[2] = b[1]
  <2>1. Joined(a, b)
    BY <1>1, Joining
  <2> QED BY <1>1, <2>1 DEF Joined
<1>5. ((a \o b) \o c)[1] = a[1] /\ ((a \o b) \o c)[2] = b[1] /\ ((a \o b) \o c)[3] = c[1]
  <2>1. Joined(a \o b, c)
    BY <1>1, <1>4, Joining
  <2> QED BY <1>1, <1>4, <2>1 DEF Joined
<1>6. \A i \in 1..3 : i = 1 \/ i = 2 \/ i = 3
  OBVIOUS
<1> QED BY <1>2, <1>3, <1>5, <1>6

LEMMA ReadSends ==
  ASSUME NEW o \in Operations, o.kind = "read"
  PROVE  \A k \in 1..4 : Script(o)[k + 1].byte = AddressByte(o, k)
<1> DEFINE a == C(o.area)  b == A(o.column)  p == PageAddress(o.page)  r == R(ReadLen)
<1>1. o.area \in Commands /\ o.column \in Byte /\ o.page \in Pages /\ ReadLen \in Nat
  BY OperationType, DriverAssumption DEF Commands, Begins, Reads
<1>2. /\ a \in Seq(Access) /\ Len(a) = 1 /\ b \in Seq(Access) /\ Len(b) = 1
      /\ p \in Seq(Access) /\ Len(p) = 3 /\ r \in Seq(Access)
  BY <1>1, Single, PageBytesSent
<1>3. b[1].byte = o.column /\ \A i \in 1..3 : p[i].byte = PageByte(o.page, i)
  BY <1>1, PageBytesAre DEF A
<1>4. Script(o) = ((a \o b) \o p) \o r
  BY DEF Script
<1> HIDE DEF a, b, p, r
<1>5. a \o b \in Seq(Access) /\ Len(a \o b) = 2
  <2>1. Joined(a, b)
    BY <1>2, Joining
  <2> QED BY <1>2, <2>1 DEF Joined
<1>6. ((a \o b) \o p)[2] = b[1] /\ (a \o b) \o p \in Seq(Access) /\ Len((a \o b) \o p) = 5
  <2>1. /\ (a \o b) \o p \in Seq(Access) /\ Len((a \o b) \o p) = 1 + 1 + Len(p)
        /\ \A i \in 1..1 : ((a \o b) \o p)[1 + i] = b[i]
    <3>1. Placed(a, b, p, 1, 1)
      BY <1>2, Middle
    <3> QED BY <3>1 DEF Placed
  <2> QED BY <1>2, <2>1
<1>7. Script(o)[2] = b[1]
  <2>1. 2 \in 1..5
    OBVIOUS
  <2> QED BY <1>2, <1>4, <1>6, <2>1, Before
<1>8. \A i \in 1..3 : Script(o)[2 + i] = p[i]
  <2>1. Placed(a \o b, p, r, 2, 3)
    BY <1>2, <1>5, Middle
  <2> QED BY <1>4, <2>1 DEF Placed
<1>9. ASSUME NEW k \in 1..4 PROVE Script(o)[k + 1].byte = AddressByte(o, k)
  <2>1. CASE k = 1
    BY <1>3, <1>7, <2>1 DEF AddressByte
  <2>2. CASE k # 1
    <3>1. k - 1 \in 1..3 /\ 2 + (k - 1) = k + 1
      BY <2>2
    <3>2. Script(o)[k + 1] = p[k - 1]
      BY <1>8, <3>1
    <3> QED BY <1>3, <2>2, <3>1, <3>2 DEF AddressByte
  <2> QED BY <2>1, <2>2
<1> QED BY <1>9

LEMMA ProgramSends ==
  ASSUME NEW o \in Operations, o.kind \in Programs
  PROVE  /\ \A k \in 2..5 : Script(o)[k + 1].byte = AddressByte(o, k - 1)
         /\ \A k \in 6..5+DataLength(o) : Script(o)[k + 1].byte = o.data[k - 5]
<1> DEFINE a == C(First(o))  b == C("80")  z == A(0)  p == PageAddress(o.page)
           d == DataBytes(o.data)  e == C("10")  n == DataLength(o)
<1>1. First(o) \in Commands /\ "80" \in Commands /\ "10" \in Commands /\ 0 \in Byte
  BY Sizes DEF First, Commands, Begins, Byte
<1>2. n \in Nat /\ o.data \in [1..n -> Values] /\ o.page \in Pages
  BY OperationType, Sizes DEF DataLength, Programs
<1>3. /\ a \in Seq(Access) /\ Len(a) = 1 /\ b \in Seq(Access) /\ Len(b) = 1
      /\ e \in Seq(Access) /\ z \in Seq(Access) /\ Len(z) = 1
      /\ p \in Seq(Access) /\ Len(p) = 3 /\ d \in Seq(Access) /\ Len(d) = n
  BY <1>1, <1>2, Single, PageBytesSent, DataBytesType
<1>4. z[1].byte = 0 /\ \A i \in 1..3 : p[i].byte = PageByte(o.page, i)
  BY <1>2, PageBytesAre DEF A
<1>5. \A i \in 1..n : d[i].byte = o.data[i]
  BY <1>2 DEF DataBytes, D
<1>6. Script(o) = ((((a \o b) \o z) \o p) \o d) \o e
  BY DEF Script, Programs, First
<1> HIDE DEF a, b, z, p, d, e, n
<1>7. a \o b \in Seq(Access) /\ Len(a \o b) = 2
  <2>1. Joined(a, b)
    BY <1>3, Joining
  <2> QED BY <1>3, <2>1 DEF Joined
<1> DEFINE g == (a \o b) \o z
<1>8. g \in Seq(Access) /\ Len(g) = 3
  <2>1. Joined(a \o b, z)
    BY <1>3, <1>7, Joining
  <2> QED BY <1>3, <1>7, <2>1 DEF Joined
<1>9. /\ g \o p \in Seq(Access) /\ Len(g \o p) = 6 /\ (g \o p)[3] = z[1]
  <2>1. /\ ((a \o b) \o z) \o p \in Seq(Access) /\ Len(((a \o b) \o z) \o p) = 2 + 1 + Len(p)
        /\ \A i \in 1..1 : (((a \o b) \o z) \o p)[2 + i] = z[i]
    <3>1. Placed(a \o b, z, p, 2, 1)
      BY <1>3, <1>7, Middle
    <3> QED BY <3>1 DEF Placed
  <2> QED BY <1>3, <2>1
<1> HIDE DEF g
<1> DEFINE h == g \o p
<1>10. /\ h \o d \in Seq(Access) /\ Len(h \o d) = 6 + n
       /\ \A i \in 1..3 : (h \o d)[3 + i] = p[i]
  <2>1. /\ (g \o p) \o d \in Seq(Access) /\ Len((g \o p) \o d) = 3 + 3 + Len(d)
        /\ \A i \in 1..3 : ((g \o p) \o d)[3 + i] = p[i]
    <3>1. Placed(g, p, d, 3, 3)
      BY <1>3, <1>8, Middle
    <3> QED BY <3>1 DEF Placed
  <2> QED BY <1>2, <1>3, <2>1
<1>11. (h \o d)[3] = z[1]
  <2>1. 3 \in 1..6
    OBVIOUS
  <2>2. (h \o d)[3] = h[3]
    BY <1>3, <1>9, <2>1, Before
  <2> QED BY <1>9, <2>2
<1>12. h \in Seq(Access) /\ Len(h) = 6 /\ Script(o) = (h \o d) \o e
  BY <1>6, <1>9 DEF g
<1> HIDE DEF h
<1>13. \A i \in 1..6+n : Script(o)[i] = (h \o d)[i]
  <2> DEFINE w == h \o d
  <2>1. w \in Seq(Access) /\ Len(w) = 6 + n
    BY <1>10
  <2> HIDE DEF w
  <2>2. \A i \in 1..Len(w) : (w \o e)[i] = w[i]
    BY <1>3, <2>1, Before
  <2>3. Script(o) = w \o e
    BY <1>12 DEF w
  <2> QED BY <2>1, <2>2, <2>3 DEF w
<1>14. \A i \in 1..n : Script(o)[6 + i] = d[i]
  <2>1. Placed(h, d, e, 6, n)
    BY <1>2, <1>3, <1>12, Middle
  <2> QED BY <1>12, <2>1 DEF Placed
<1>15. ASSUME NEW k \in 2..5 PROVE Script(o)[k + 1].byte = AddressByte(o, k - 1)
  <2>1. k + 1 \in 1..6+n
    BY <1>2
  <2>2. CASE k = 2
    <3>1. k + 1 = 3 /\ k - 1 = 1
      BY <2>2
    <3>2. Script(o)[k + 1] = z[1]
      BY <1>11, <1>13, <2>1, <3>1
    <3> QED BY <1>4, <3>1, <3>2 DEF AddressByte, Programs
  <2>3. CASE k # 2
    <3>1. k - 2 \in 1..3 /\ 3 + (k - 2) = k + 1 /\ (k - 1) - 1 = k - 2 /\ k - 1 # 1
      BY <2>3
    <3>2. Script(o)[k + 1] = p[k - 2]
      BY <1>10, <1>13, <2>1, <3>1
    <3> QED BY <1>4, <3>1, <3>2 DEF AddressByte, Programs
  <2> QED BY <2>2, <2>3
<1>16. ASSUME NEW k \in 6..5+n PROVE Script(o)[k + 1].byte = o.data[k - 5]
  <2>1. k - 5 \in 1..n /\ 6 + (k - 5) = k + 1
    BY <1>2
  <2>2. Script(o)[k + 1] = d[k - 5]
    BY <1>14, <2>1
  <2> QED BY <1>5, <2>1, <2>2
<1> QED BY <1>15, <1>16 DEF n

LEMMA EraseSends ==
  ASSUME NEW o \in Operations, o.kind = "erase"
  PROVE  \A k \in 1..3 : Script(o)[k + 1].byte = AddressByte(o, k)
<1> DEFINE a == C("60")  p == PageAddress(o.page)  e == C("d0")
<1>1. /\ a \in Seq(Access) /\ Len(a) = 1 /\ e \in Seq(Access)
      /\ p \in Seq(Access) /\ Len(p) = 3
      /\ \A i \in 1..3 : p[i].byte = PageByte(o.page, i)
  BY OperationType, Single, PageBytesSent, PageBytesAre DEF Commands, Begins
<1>2. Script(o) = (a \o p) \o e
  BY DEF Script
<1> HIDE DEF a, p, e
<1>3. \A i \in 1..3 : Script(o)[1 + i] = p[i]
  <2>1. Placed(a, p, e, 1, 3)
    BY <1>1, Middle
  <2> QED BY <1>2, <2>1 DEF Placed
<1>4. \A i \in 1..3 : 1 + i = i + 1
  OBVIOUS
<1> QED BY <1>1, <1>3, <1>4 DEF AddressByte

(* The byte an operation sends when k accesses are behind it. *)
Sends(o, k, x) ==
  /\ x.port = "address" =>
       /\ o.kind \in {"read", "erase"} => x.byte = AddressByte(o, k)
       /\ o.kind \in Programs => x.byte = AddressByte(o, k - 1)
  /\ x.port = "data" => x.byte = o.data[k - 5]

LEMMA BytesSent ==
  ASSUME NEW o \in Operations, NEW k \in 0..Len(Script(o))-1
  PROVE  Sends(o, k, Script(o)[k + 1])
<1> DEFINE x == Script(o)[k + 1]
<1>1. Makes(o, k, x)
  BY Accesses
<1> HIDE DEF x
<1>2. CASE x.port = "address"
  <2>1. CASE o.kind = "read"
    <3>1. k \in 1..4
      BY <1>1, <1>2, <2>1 DEF Makes, Programs
    <3> QED BY <1>2, <2>1, <3>1, ReadSends DEF Sends, Programs, x
  <2>2. CASE o.kind = "erase"
    <3>1. k \in 1..3
      BY <1>1, <1>2, <2>2 DEF Makes, Programs
    <3> QED BY <1>2, <2>2, <3>1, EraseSends DEF Sends, Programs, x
  <2>3. CASE o.kind \in Programs
    <3>1. k \in 2..5
      BY <1>1, <1>2, <2>3 DEF Makes, Programs
    <3> QED BY <1>2, <2>3, <3>1, ProgramSends DEF Sends, Programs, x
  <2> QED BY <1>2, <2>1, <2>2, <2>3 DEF Sends, x
<1>3. CASE x.port = "data"
  <2>1. o.kind \in Programs /\ k \in 6..5+DataLength(o)
    BY <1>1, <1>3 DEF Makes
  <2> QED BY <1>3, <2>1, ProgramSends DEF Sends, x
<1> QED BY <1>2, <1>3 DEF Sends, x

------------------------------------------------------------------------------
(* What the queues hold: the bytes that were sent, in order. *)

Exact(o) ==
  /\ o.kind \in {"read", "erase"} \cup Programs =>
       \A i \in 1..Len(addr) : addr[i] = AddressByte(o, i)
  /\ o.kind \in Programs => \A i \in 1..Len(dat) : dat[i] = o.data[i]

Underway == todo # <<>> /\ ReadCount > 0 => Exact(op)

LEMMA ExactBegins ==
  ASSUME NEW o, addr' = <<>>, dat' = <<>>
  PROVE  Exact(o)'
<1>1. Len(addr') = 0 /\ Len(dat') = 0
  OBVIOUS
<1> QED BY <1>1 DEF Exact

LEMMA ExactGrows ==
  ASSUME NEW o, NEW b, NEW n \in Nat, ChipTypeOK, Exact(o), Address(b), b \in Byte,
         Len(addr) = n, b = AddressByte(o, n + 1)
  PROVE  Exact(o)'
<1>1. /\ Len(addr') = n + 1 /\ \A i \in 1..n : addr'[i] = addr[i]
      /\ addr'[n + 1] = b /\ dat' = dat
  BY AppendIs DEF Address, ChipTypeOK
<1>2. \A i \in 1..n+1 : i \in 1..n \/ i = n + 1
  OBVIOUS
<1> QED BY <1>1, <1>2 DEF Exact

LEMMA ExactFills ==
  ASSUME NEW o, NEW b, NEW n \in Nat, ChipTypeOK, Exact(o), Data(b), b \in Values,
         cmd # <<>>, Len(dat) = n, b = o.data[n + 1]
  PROVE  Exact(o)'
<1>1. /\ Len(dat') = n + 1 /\ \A i \in 1..n : dat'[i] = dat[i]
      /\ dat'[n + 1] = b /\ addr' = addr
  BY AppendIs DEF Data, ChipTypeOK
<1>2. \A i \in 1..n+1 : i \in 1..n \/ i = n + 1
  OBVIOUS
<1> QED BY <1>1, <1>2 DEF Exact

(* An access that is not an operation's last leaves the queues exact. *)
LEMMA ExactStep ==
  ASSUME NEW o \in Operations, NEW k \in Nat, NEW x, Makes(o, k, x), Sends(o, k, x), ChipTypeOK,
         k > 0 => Hold(o, k) /\ Exact(o), k + 1 < Len(Script(o)),
         \/ x.port = "command" /\ Command(x.byte)
         \/ x.port = "address" /\ Address(x.byte)
         \/ x.port = "data" /\ Data(x.byte)
         \/ x.port = "read" /\ Read
  PROVE  Exact(o)'
<1>1. /\ Opening(o) \in Begins /\ {"80", "10", "d0"} \cap Begins = {}
  BY OperationType DEF Opening, First, Begins, Reads, Programs
<1>2. DataLength(o) \in Nat
  BY Sizes DEF DataLength
<1>3. CASE x.port = "command"
  <2>1. CASE k = 0 /\ x.byte = Opening(o)
    <3>1. addr' = <<>> /\ dat' = <<>>
      BY <1>1, <1>3, <2>1 DEF Command, Begin, Flush
    <3> QED BY <3>1, ExactBegins
  <2>2. CASE o.kind \in Programs /\ k = 1 /\ x.byte = "80"
    <3>1. UNCHANGED <<addr, dat>>
      BY <1>1, <1>3, <2>2 DEF Command, Begin, Setup
    <3> QED BY <2>2, <3>1 DEF Exact
  <2>3. CASE o.kind \in Programs /\ k = 6 + DataLength(o)
    <3>1. Len(Script(o)) = 7 + DataLength(o)
      BY <2>3, Lengths
    <3> QED BY <1>2, <2>3, <3>1
  <2>4. CASE o.kind = "erase" /\ k = 4
    <3>1. Len(Script(o)) = 5
      BY <2>4, Lengths
    <3> QED BY <2>4, <3>1
  <2> QED BY <1>3, <2>1, <2>2, <2>3, <2>4 DEF Makes
<1>4. CASE x.port = "address"
  <2>1. x.byte \in Byte /\ Address(x.byte)
    BY <1>4 DEF Makes, Access, CommandAccess, AddressAccess, DataAccess, ReadAccess
  <2>2. CASE o.kind = "read"
    <3>1. k \in 1..4 /\ Len(addr) = k - 1 /\ x.byte = AddressByte(o, k)
      BY <1>4, <2>2 DEF Makes, Sends, Hold, Programs
    <3>2. k - 1 \in Nat /\ (k - 1) + 1 = k /\ Exact(o)
      BY <3>1
    <3> QED BY <2>1, <3>1, <3>2, ExactGrows
  <2>3. CASE o.kind = "erase"
    <3>1. k \in 1..3 /\ Len(addr) = k - 1 /\ x.byte = AddressByte(o, k)
      BY <1>4, <2>3 DEF Makes, Sends, Hold, Programs
    <3>2. k - 1 \in Nat /\ (k - 1) + 1 = k /\ Exact(o)
      BY <3>1
    <3> QED BY <2>1, <3>1, <3>2, ExactGrows
  <2>4. CASE o.kind \in Programs
    <3>1. k \in 2..5 /\ Len(addr) = k - 2 /\ x.byte = AddressByte(o, k - 1)
      BY <1>4, <2>4 DEF Makes, Sends, Hold, Programs
    <3>2. k - 2 \in Nat /\ (k - 2) + 1 = k - 1 /\ Exact(o)
      BY <3>1
    <3> QED BY <2>1, <3>1, <3>2, ExactGrows
  <2>5. CASE o.kind \notin {"read", "erase"} \cup Programs
    BY <2>5 DEF Exact
  <2> QED BY <2>2, <2>3, <2>4, <2>5
<1>5. CASE x.port = "data"
  <2>1. o.kind \in Programs /\ k \in 6..5+DataLength(o)
    BY <1>5 DEF Makes
  <2>2. Hold(o, k) /\ Exact(o)
    BY <2>1, <1>2
  <2>3. cmd = <<First(o), "80">> /\ Len(dat) = k - 6
    BY <1>2, <2>1, <2>2 DEF Hold
  <2>4. x.byte \in Values /\ x.byte = o.data[k - 5] /\ Data(x.byte)
    BY <1>5 DEF Makes, Sends, Access, CommandAccess, AddressAccess, DataAccess, ReadAccess
  <2>5. k - 6 \in Nat /\ (k - 6) + 1 = k - 5
    BY <1>2, <2>1
  <2>6. cmd # <<>>
    BY <2>3
  <2> QED BY <2>2, <2>3, <2>4, <2>5, <2>6, ExactFills
<1>6. CASE x.port = "read"
  <2>1. CASE o.kind = "read"
    <3>1. k \in 5..4+ReadLen /\ ReadLen \in Nat
      BY <1>6, <2>1, DriverAssumption DEF Makes, Programs
    <3>2. Hold(o, k) /\ Exact(o)
      BY <3>1
    <3>3. cmd = <<o.area>> /\ dat = <<>> /\ Len(addr) = 4 /\ o.area \in Reads
      BY <2>1, <3>1, <3>2, OperationType DEF Hold
    <3>4. DataAsked /\ ~StatusAsked /\ ~IdAsked
      BY <3>3 DEF DataAsked, StatusAsked, IdAsked, Reads
    <3>5. UNCHANGED <<addr, dat>>
      BY <1>6, <3>4 DEF Read, ReadStatus, ReadId, ReadData, ReadNothing
    <3> QED BY <3>2, <3>5 DEF Exact
  <2>2. CASE o.kind # "read"
    <3>1. o.kind \in {"status", "poll", "id"}
      BY <1>6, <2>2 DEF Makes
    <3> QED BY <3>1 DEF Exact, Programs
  <2> QED BY <2>1, <2>2
<1> QED BY <1>3, <1>4, <1>5, <1>6

------------------------------------------------------------------------------
(* What an operation does to the array *)

LEMMA PageOfQueue ==
  ASSUME NEW o \in Operations, o.kind \in {"read"} \cup Programs, Exact(o), Len(addr) = 4
  PROVE  PageOf(addr) = o.page /\ addr[1] = IF o.kind = "read" THEN o.column ELSE 0
<1>1. \A i \in 1..4 : addr[i] = AddressByte(o, i)
  BY DEF Exact
<1>2. o.kind # "erase" /\ o.page \in Pages
  BY OperationType DEF Programs
<1>3. addr[1] = AddressByte(o, 1) /\ addr[2] = AddressByte(o, 2) /\ addr[3] = AddressByte(o, 3)
      /\ addr[4] = AddressByte(o, 4)
  BY <1>1
<1>4. /\ addr[2] = PageByte(o.page, 1) /\ addr[3] = PageByte(o.page, 2)
      /\ addr[4] = PageByte(o.page, 3) /\ addr[1] = IF o.kind = "read" THEN o.column ELSE 0
  <2>1. 2 - 1 = 1 /\ 3 - 1 = 2 /\ 4 - 1 = 3
    OBVIOUS
  <2> QED BY <1>2, <1>3, <2>1 DEF AddressByte
<1>5. PageOf(addr) = o.page
  BY <1>2, <1>4, PageFound DEF PageOf
<1> QED BY <1>4, <1>5

LEMMA PageIsNat == ASSUME NEW p \in Pages PROVE p \in Nat
<1>1. NumPages \in Nat
  BY Sizes DEF NumPages
<1> QED BY <1>1, DriverAssumption

LEMMA CellFacts ==
  ASSUME NEW c \in Cells, NEW p \in Pages
  PROVE  /\ c \in Nat /\ p \in Nat /\ PageBytes \in Nat /\ PageBytes > 0
         /\ p * PageBytes \in Nat
         /\ c \div PageBytes = p <=> p * PageBytes <= c /\ c < p * PageBytes + PageBytes
         /\ c \div PageBytes = p => c % PageBytes = c - p * PageBytes
<1>1. c \in Nat
  BY DEF Cells
<1>2. p \in Nat
  BY PageIsNat
<1>3. PageBytes \in Nat /\ PageBytes > 0
  BY Sizes, ChipAssumption DEF PageBytes, MainBytes
<1>4. p * PageBytes \in Nat
  BY <1>2, <1>3
<1> QED BY <1>1, <1>2, <1>3, <1>4, Division

LEMMA ProgramStores ==
  ASSUME NEW o \in Operations, o.kind = "program", Exact(o), Len(addr) = 4, Len(dat) = PageBytes
  PROVE  Written(Origin("00", addr)) = Stored(o)
<1> DEFINE w == Origin("00", addr)
<1>1. o.page \in Pages /\ PageOf(addr) = o.page /\ addr[1] = 0
  BY OperationType, PageOfQueue DEF Programs
<1>2. w = o.page * PageBytes
  <2>1. o.page * PageBytes \in Nat
    <3>1. o.page \in Nat /\ PageBytes \in Nat
      BY <1>1, PageIsNat, Sizes
    <3> QED BY <3>1
  <2> QED BY <1>1, <2>1 DEF Origin, Offset
<1>3. \A i \in 1..PageBytes : dat[i] = o.data[i]
  BY DEF Exact, Programs
<1> HIDE DEF w
<1>4. ASSUME NEW c \in Cells
      PROVE  (IF w <= c /\ c < w + Len(dat) THEN dat[c - w + 1] ELSE mem[c])
               = IF c \div PageBytes = o.page THEN o.data[c - PageStart(o.page) + 1] ELSE mem[c]
  <2>1. /\ c \in Nat /\ w \in Nat /\ PageBytes \in Nat
        /\ c \div PageBytes = o.page <=> w <= c /\ c < w + PageBytes
    BY <1>1, <1>2, CellFacts
  <2>2. PageStart(o.page) = w
    BY <1>2 DEF PageStart
  <2>3. w <= c /\ c < w + PageBytes => c - w + 1 \in 1..PageBytes
    BY <2>1
  <2> QED BY <1>3, <2>1, <2>2, <2>3
<1>5. Written(w) = [c \in Cells |-> IF c \div PageBytes = o.page
                                    THEN o.data[c - PageStart(o.page) + 1] ELSE mem[c]]
  BY <1>4 DEF Written
<1> QED BY <1>5 DEF Stored, w

LEMMA SpareStores ==
  ASSUME NEW o \in Operations, o.kind = "spare", Exact(o), Len(addr) = 4, Len(dat) = SpareBytes
  PROVE  Written(Origin("50", addr)) = Stored(o)
<1> DEFINE w == Origin("50", addr)  u == o.page * PageBytes
<1>1. o.page \in Pages /\ PageOf(addr) = o.page /\ addr[1] = 0
  BY OperationType, PageOfQueue DEF Programs
<1>2. /\ MainBytes \in Nat /\ SpareBytes \in Nat /\ PageBytes = MainBytes + SpareBytes
  BY Sizes DEF MainBytes, PageBytes
<1>3. u \in Nat
  <2>1. o.page \in Nat /\ PageBytes \in Nat
    BY <1>1, PageIsNat, Sizes
  <2> QED BY <2>1
<1>4. w = u + MainBytes
  <2>1. Offset("50") = MainBytes
    BY DEF Offset
  <2>2. w = u + 0 + MainBytes
    BY <1>1, <2>1 DEF Origin
  <2> HIDE DEF u, w
  <2> QED BY <1>2, <1>3, <2>2
<1>5. \A i \in 1..SpareBytes : dat[i] = o.data[i]
  BY DEF Exact, Programs
<1>6. PageStart(o.page) = u
  BY DEF PageStart
<1>7. \A c \in Cells :
        /\ c \in Nat
        /\ c \div PageBytes = o.page <=> u <= c /\ c < u + PageBytes
        /\ c \div PageBytes = o.page => c % PageBytes = c - u
  BY <1>1, CellFacts
<1> HIDE DEF w, u
<1>8. ASSUME NEW c \in Cells
      PROVE  (IF w <= c /\ c < w + Len(dat) THEN dat[c - w + 1] ELSE mem[c])
               = IF c \div PageBytes = o.page /\ c % PageBytes >= MainBytes
                 THEN o.data[c - PageStart(o.page) - MainBytes + 1] ELSE mem[c]
  <2> DEFINE q == c \div PageBytes  r == c % PageBytes
  <2>1. /\ c \in Nat /\ (q = o.page <=> u <= c /\ c < u + PageBytes)
        /\ (q = o.page => r = c - u)
    BY <1>7
  <2> HIDE DEF q, r
  <2>2. q = o.page /\ r >= MainBytes <=> w <= c /\ c < w + SpareBytes
    BY <1>2, <1>3, <1>4, <2>1
  <2>3. w <= c /\ c < w + SpareBytes =>
          c - w + 1 \in 1..SpareBytes /\ c - w + 1 = c - u - MainBytes + 1
    BY <1>2, <1>3, <1>4, <2>1
  <2>4. w <= c /\ c < w + SpareBytes => dat[c - w + 1] = o.data[c - u - MainBytes + 1]
    BY <1>5, <2>3
  <2> QED BY <1>6, <2>2, <2>4 DEF q, r
<1>9. Written(w) = [c \in Cells |-> IF c \div PageBytes = o.page /\ c % PageBytes >= MainBytes
                                    THEN o.data[c - PageStart(o.page) - MainBytes + 1]
                                    ELSE mem[c]]
  BY <1>8 DEF Written
<1> QED BY <1>9 DEF Stored, w

(* A block that starts where blocks start is erased whole. *)
LEMMA ErasesItsBlock ==
  ASSUME NEW p \in Nat, p % BlockPages = 0, BootPages % BlockPages = 0
  PROVE  ErasedPages(p) = p..p+BlockPages-1
<1> DEFINE n == BlockPages  t == BootPages
<1>1. n \in Nat /\ n > 0 /\ t \in Nat
  BY ChipAssumption
<1> DEFINE i == p \div n  j == t \div n
<1>2. i \in Nat /\ p = i * n + (p % n)
  BY <1>1
<1>3. j \in Nat /\ t = j * n + (t % n)
  BY <1>1
<1> HIDE DEF i, j
<1>4. p = i * n /\ t = j * n
  BY <1>1, <1>2, <1>3
<1>5. CASE i < j
  <2>1. p + n <= t
    BY <1>1, <1>2, <1>3, <1>4, <1>5, Monotone
  <2> QED BY <2>1 DEF ErasedPages
<1>6. CASE ~(i < j)
  <2>1. j * n <= i * n /\ i - j \in Nat /\ i * n = j * n + (i - j) * n /\ (i - j) * n \in Nat
        /\ j * n \in Nat
    <3> DEFINE m == i - j
    <3>1. m \in Nat /\ i = j + m
      BY <1>2, <1>3, <1>6
    <3> HIDE DEF m
    <3>2. (j + m) * n = j * n + m * n /\ m * n \in Nat /\ j * n \in Nat
      BY <1>1, <1>3, <3>1
    <3> QED BY <1>1, <3>1, <3>2 DEF m
  <2> DEFINE b == (p - t) \div n  m == i - j
  <2>2. p - t = m * n /\ p - t \in Nat /\ p >= t
    BY <1>4, <2>1
  <2> HIDE DEF m
  <2>3. b = m
    <3>1. m \in Nat /\ m * n <= p - t /\ p - t < m * n + n
      BY <1>1, <2>1, <2>2 DEF m
    <3> QED BY <1>1, <2>2, <3>1, Division
  <2> HIDE DEF b
  <2>4. t + b * n = p /\ t + (b + 1) * n - 1 = p + n - 1
    <3>1. m \in Nat /\ m * n \in Nat /\ (m + 1) * n = m * n + n
      BY <1>1, <2>1 DEF m
    <3> QED BY <1>1, <2>2, <2>3, <3>1
  <2>5. ~(p + n <= t) /\ ~(p < t)
    BY <1>1, <2>2
  <2> QED BY <2>4, <2>5 DEF ErasedPages, b
<1> QED BY <1>5, <1>6

LEMMA EraseStores ==
  ASSUME NEW o \in Operations, o.kind = "erase", Exact(o), Len(addr) = 3, ChipTypeOK,
         EraseConfirm, BootPages % BlockPages = 0
  PROVE  mem' = Stored(o)
<1>1. PICK a \in PaddedAddress :
        LET p == (a[3] % 2) * Base * Base + a[2] * Base + a[1]
        IN  mem' = [c \in Cells |->
                      IF c \div PageBytes \in ErasedPages(p) THEN BlankByte ELSE mem[c]]
  BY DEF EraseConfirm
<1>2. \A i \in 1..3 : a[i] = addr[i] /\ addr[i] = PageByte(o.page, i)
  BY DEF PaddedAddress, Exact, AddressByte
<1>3. a[1] = PageByte(o.page, 1) /\ a[2] = PageByte(o.page, 2) /\ a[3] = PageByte(o.page, 3)
  BY <1>2
<1>4. o.page \in Pages /\ o.page % BlockPages = 0
  BY DEF Operations, AllOperations
<1>5. (a[3] % 2) * Base * Base + a[2] * Base + a[1] = o.page
  BY <1>3, <1>4, PageFound
<1>6. o.page \in Nat
  BY <1>4, PageIsNat
<1>7. ErasedPages(o.page) = o.page..o.page+BlockPages-1
  BY <1>4, <1>6, ErasesItsBlock
<1> QED BY <1>1, <1>5, <1>7 DEF Stored, BlankByte

Stores == {"program", "spare", "erase"}

LEMMA StoresNothing == ASSUME NEW o, o.kind \notin Stores PROVE Stored(o) = mem
BY DEF Stored, Stores

Accessed(x) ==
  \/ x.port = "command" /\ Command(x.byte)
  \/ x.port = "address" /\ Address(x.byte)
  \/ x.port = "data" /\ Data(x.byte)
  \/ x.port = "read" /\ Read

(* An access changes the array if it is the last of an operation that      *)
(* stores, and then as asked.                                              *)
LEMMA Effect ==
  ASSUME NEW o \in Operations, NEW k \in Nat, NEW x, Makes(o, k, x), ChipTypeOK,
         k > 0 => Hold(o, k) /\ Exact(o), Accessed(x), BootPages % BlockPages = 0
  PROVE  mem' = IF k + 1 = Len(Script(o)) THEN Stored(o) ELSE mem
<1>1. /\ Opening(o) \in Begins /\ {"80", "10", "d0"} \cap Begins = {}
  BY OperationType DEF Opening, First, Begins, Reads, Programs
<1>2. DataLength(o) \in Nat
  BY Sizes DEF DataLength
<1>3. /\ o.kind \in Programs => Len(Script(o)) = 7 + DataLength(o)
      /\ o.kind = "erase" => Len(Script(o)) = 5
  BY Lengths
<1>4. ASSUME mem' = mem, o.kind \in Stores => k + 1 # Len(Script(o))
      PROVE  mem' = IF k + 1 = Len(Script(o)) THEN Stored(o) ELSE mem
  BY <1>4, StoresNothing
<1>5. CASE x.port = "command"
  <2>1. CASE k = 0 /\ x.byte = Opening(o)
    <3>1. mem' = mem
      BY <1>1, <1>5, <2>1 DEF Accessed, Command, Begin
    <3>2. o.kind \in Stores => k + 1 # Len(Script(o))
      <4>1. o.kind \in Stores => Len(Script(o)) \in {5, 7 + DataLength(o)}
        BY <1>3 DEF Stores, Programs
      <4> QED BY <1>2, <2>1, <4>1
    <3> QED BY <1>4, <3>1, <3>2
  <2>2. CASE o.kind \in Programs /\ k = 1 /\ x.byte = "80"
    <3>1. mem' = mem
      BY <1>1, <1>5, <2>2 DEF Accessed, Command, Begin, Setup
    <3>2. k + 1 # Len(Script(o))
      <4>1. Len(Script(o)) = 7 + DataLength(o)
        BY <1>3, <2>2
      <4> QED BY <1>2, <2>2, <4>1
    <3> QED BY <1>4, <3>1, <3>2
  <2>3. CASE o.kind \in Programs /\ k = 6 + DataLength(o) /\ x.byte = "10"
    <3>1. k + 1 = Len(Script(o)) /\ k > 0
      BY <1>2, <1>3, <2>3
    <3>2. Confirm
      BY <1>1, <1>5, <2>3 DEF Accessed, Command, Begin
    <3>3. Hold(o, k) /\ Exact(o)
      BY <3>1
    <3>4. Len(addr) = 4 /\ Len(dat) = DataLength(o) /\ cmd = <<First(o), "80">>
      <4>1. DataLength(o) >= 1
        BY ChipAssumption, Sizes DEF DataLength, PageBytes, MainBytes
      <4> QED BY <1>2, <2>3, <3>3, <4>1 DEF Hold
    <3>5. CASE o.kind = "program"
      <4>1. CanProgram("00", PageBytes) /\ ~CanProgram("50", SpareBytes)
        BY <3>4, <3>5 DEF CanProgram, First, DataLength
      <4>2. mem' = Written(Origin("00", addr))
        BY <3>2, <4>1 DEF Confirm
      <4> QED BY <3>1, <3>3, <3>4, <3>5, <4>2, ProgramStores DEF DataLength
    <3>6. CASE o.kind = "spare"
      <4>1. ~CanProgram("00", PageBytes) /\ CanProgram("50", SpareBytes)
        BY <3>4, <3>6 DEF CanProgram, First, DataLength
      <4>2. mem' = Written(Origin("50", addr))
        BY <3>2, <4>1 DEF Confirm
      <4> QED BY <3>1, <3>3, <3>4, <3>6, <4>2, SpareStores DEF DataLength
    <3>7. CASE o.kind = "partial"
      <4>1. SpareBytes # PageBytes
        BY Sizes DEF PageBytes, MainBytes
      <4>2. ~CanProgram("00", PageBytes) /\ ~CanProgram("50", SpareBytes)
        BY <3>4, <3>7, <4>1 DEF CanProgram, First, DataLength
      <4>3. mem' = mem
        BY <3>2, <4>2 DEF Confirm, chip
      <4> QED BY <1>4, <3>7, <4>3 DEF Stores
    <3> QED BY <2>3, <3>5, <3>6, <3>7 DEF Programs
  <2>4. CASE o.kind = "erase" /\ k = 4 /\ x.byte = "d0"
    <3>1. EraseConfirm
      BY <1>1, <1>5, <2>4 DEF Accessed, Command, Begin
    <3>2. Hold(o, k) /\ Exact(o)
      BY <2>4
    <3>3. Len(addr) = 3
      BY <2>4, <3>2 DEF Hold
    <3>4. mem' = Stored(o)
      BY <2>4, <3>1, <3>2, <3>3, EraseStores
    <3> QED BY <1>3, <2>4, <3>4
  <2> QED BY <1>5, <2>1, <2>2, <2>3, <2>4 DEF Makes
<1>6. CASE x.port # "command"
  <2>1. mem' = mem
    BY <1>6 DEF Accessed, Address, Data, Read
  <2>2. x.port \in {"address", "data", "read"}
    BY <1>6 DEF Accessed
  <2>3. o.kind \in Programs => k \in 2..5 \/ k \in 6..5+DataLength(o)
    BY <2>2 DEF Makes, Programs
  <2>4. o.kind = "erase" => k \in 1..3
    BY <2>2 DEF Makes, Programs
  <2>5. o.kind \in Stores => k + 1 # Len(Script(o))
    <3>1. ASSUME o.kind \in Programs PROVE k + 1 # Len(Script(o))
      BY <1>2, <1>3, <2>3, <3>1
    <3>2. ASSUME o.kind = "erase" PROVE k + 1 # Len(Script(o))
      BY <1>3, <2>4, <3>2
    <3> QED BY <3>1, <3>2 DEF Stores, Programs
  <2> QED BY <1>4, <2>1, <2>5
<1> QED BY <1>5, <1>6

FirstReadOf(o) == IF o.kind = "read" THEN 5 ELSE IF o.kind = "id" THEN 2 ELSE 1

(* A read answers what the operation asks. *)
LEMMA Answer ==
  ASSUME NEW o \in Operations, NEW k \in Nat, NEW x, Makes(o, k, x), ChipTypeOK,
         k > 0 => Hold(o, k) /\ Exact(o), x.port = "read", Read
  PROVE  out' = Asked(o, k - FirstReadOf(o))
<1>1. CASE o.kind = "read" /\ k \in 5..4+ReadLen
  <2>1. o.area \in Reads /\ o.column \in Columns /\ ReadLen \in Nat /\ o.page \in Pages
    BY <1>1, OperationType, DriverAssumption
  <2>2. Hold(o, k) /\ Exact(o)
    BY <1>1, <2>1
  <2>3. cmd = <<o.area>> /\ dat = <<>> /\ Len(addr) = 4 /\ cnt = k - 5
    BY <1>1, <2>1, <2>2 DEF Hold
  <2>4. DataAsked /\ ~StatusAsked /\ ~IdAsked
    BY <2>1, <2>3 DEF DataAsked, StatusAsked, IdAsked, Reads
  <2>5. out' = mem[Origin(o.area, addr) + cnt]
    BY <2>3, <2>4 DEF Read, ReadStatus, ReadId, ReadData, ReadNothing
  <2>6. PageOf(addr) = o.page /\ addr[1] = o.column
    BY <1>1, <2>2, <2>3, PageOfQueue
  <2>7. Offset(o.area) = CASE o.area = "00" -> 0 [] o.area = "01" -> Base
                           [] o.area = "50" -> MainBytes
    BY DEF Offset
  <2>8. Origin(o.area, addr) = PageStart(o.page) + o.column + Offset(o.area)
    BY <2>6 DEF Origin, PageStart
  <2>9. k - FirstReadOf(o) = cnt
    BY <1>1, <2>3 DEF FirstReadOf
  <2> QED BY <1>1, <2>5, <2>7, <2>8, <2>9 DEF Asked
<1>2. CASE o.kind \in {"status", "poll"} /\ k = 1
  <2>1. cmd = <<"70">> /\ addr = <<>> /\ dat = <<>>
    BY <1>2 DEF Hold, Programs
  <2>2. StatusAsked /\ ~IdAsked /\ ~DataAsked
    BY <2>1 DEF DataAsked, StatusAsked, IdAsked, Reads
  <2>3. out' = "40"
    BY <2>2 DEF Read, ReadStatus, ReadId, ReadData, ReadNothing
  <2>4. k - FirstReadOf(o) = 0
    BY <1>2 DEF FirstReadOf
  <2> QED BY <1>2, <2>3, <2>4 DEF Asked
<1>3. CASE o.kind = "poll" /\ k = 2
  <2>1. cmd = <<>>
    BY <1>3 DEF Hold, Programs
  <2>2. ~StatusAsked /\ ~IdAsked /\ ~DataAsked
    BY <2>1 DEF DataAsked, StatusAsked, IdAsked
  <2>3. out' = Erased
    BY <2>1, <2>2 DEF Read, ReadStatus, ReadId, ReadData, ReadNothing
  <2>4. k - FirstReadOf(o) = 1
    BY <1>3 DEF FirstReadOf
  <2> QED BY <1>3, <2>3, <2>4 DEF Asked
<1>4. CASE o.kind = "id" /\ k \in 2..3
  <2>1. cmd = <<"90">> /\ addr = <<0>> /\ dat = <<>> /\ cnt = k - 2
    BY <1>4 DEF Hold, Programs
  <2>2. ~StatusAsked /\ IdAsked /\ ~DataAsked
    BY <2>1 DEF DataAsked, StatusAsked, IdAsked, Reads
  <2>3. k - FirstReadOf(o) = cnt
    BY <1>4, <2>1 DEF FirstReadOf
  <2>4. out' = IF cnt = 0 THEN "ec" ELSE "75"
    BY <2>2 DEF Read, ReadStatus, ReadId, ReadData, ReadNothing
  <2> QED BY <1>4, <2>3, <2>4 DEF Asked
<1> QED BY <1>1, <1>2, <1>3, <1>4 DEF Makes

------------------------------------------------------------------------------
(* The steps *)

Kept == Inv /\ Underway

(* Every step at a port is an access of the operation. *)
LEMMA PortStep ==
  ASSUME Kept, NEW o, NEW k, o = op, k = ReadCount,
         WriteCommand \/ WriteAddress \/ WriteData \/ ReadPort
  PROVE  /\ todo # <<>> /\ Advance /\ o \in Operations /\ k \in Nat /\ ChipTypeOK
         /\ Makes(o, k, Head(todo)) /\ Sends(o, k, Head(todo)) /\ Accessed(Head(todo))
         /\ k > 0 => Hold(o, k) /\ Exact(o)
<1>1. todo # <<>> /\ Advance /\ Accessed(Head(todo))
  BY DEF WriteCommand, WriteAddress, WriteData, ReadPort, Advance, Accessed
<1>2. ToDo /\ Ready /\ ChipTypeOK /\ Underway
  BY DEF Kept, Inv
<1>3. op \in Operations /\ ReadCount \in 0..Len(Script(op))-1 /\ ReadCount \in Nat
      /\ Makes(op, ReadCount, Head(todo))
  BY <1>1, <1>2, AtWork
<1>4. Head(todo) = Script(op)[ReadCount + 1]
  BY <1>1, <1>2 DEF ToDo
<1>5. Sends(o, k, Head(todo))
  BY <1>3, <1>4, BytesSent
<1>6. k > 0 => Hold(o, k) /\ Exact(o)
  <2>1. k > 0 => k # 0
    BY <1>3
  <2> QED BY <1>1, <1>2, <2>1 DEF Ready, Underway
<1> QED BY <1>1, <1>2, <1>3, <1>5, <1>6

LEMMA KeptStep == Kept /\ [Next]_vars => Kept'
<1> SUFFICES ASSUME Kept, [Next]_vars PROVE Kept'
  OBVIOUS
<1>1. Inv'
  BY NextInv DEF Kept
<1>2. CASE Start
  <2>1. op' \in Operations /\ todo' = Script(op')
    BY <1>2 DEF Start
  <2>2. ReadCount' = 0
    <3>1. Len(Script(op')) \in Nat
      BY <2>1, ScriptType
    <3> QED BY <2>1, <3>1 DEF ReadCount
  <2> QED BY <1>1, <2>2 DEF Kept, Underway
<1>3. ASSUME NEW o, NEW k, o = op, k = ReadCount,
             WriteCommand \/ WriteAddress \/ WriteData \/ ReadPort
      PROVE  Underway'
  <2> DEFINE x == Head(todo)
  <2>1. /\ todo # <<>> /\ Advance /\ o \in Operations /\ k \in Nat /\ ChipTypeOK
        /\ Makes(o, k, x) /\ Sends(o, k, x) /\ Accessed(x)
        /\ k > 0 => Hold(o, k) /\ Exact(o)
    BY <1>3, PortStep
  <2> HIDE DEF x
  <2>2. CASE todo' = <<>>
    BY <2>2 DEF Underway
  <2>3. CASE op' = op /\ k + 1 < Len(Script(o))
    <3>1. Exact(o)'
      BY <2>1, <2>3, ExactStep DEF Accessed
    <3> QED BY <1>3, <2>3, <3>1 DEF Underway, Exact
  <2> QED BY <1>3, <2>1, <2>2, <2>3, Progress DEF Kept, Inv
<1>4. CASE Abandon
  BY <1>1, <1>4 DEF Kept, Underway, Abandon
<1>5. CASE UNCHANGED vars
  BY <1>1, <1>5 DEF Kept, Underway, vars, chip, Exact, ReadCount
<1> QED BY <1>1, <1>2, <1>3, <1>4, <1>5 DEF Next, Kept

LEMMA StepAsAsked ==
  ASSUME BootPages % BlockPages = 0, Kept, Next
  PROVE  EffectAtLastAccess /\ ReadsWhatItAsked
<1>1. CASE Start
  <2>1. todo = <<>> /\ mem' = mem
    BY <1>1 DEF Start, chip
  <2> QED BY <2>1 DEF EffectAtLastAccess, ReadsWhatItAsked, Completes, Reading
<1>2. CASE Abandon
  <2>1. op' = Cut /\ mem' = mem /\ Cut # None
    BY <1>2 DEF Abandon, chip, Cut, None
  <2> QED BY <2>1 DEF EffectAtLastAccess, ReadsWhatItAsked, Completes, Reading
<1>3. ASSUME NEW o, NEW k, o = op, k = ReadCount,
             WriteCommand \/ WriteAddress \/ WriteData \/ ReadPort
      PROVE  EffectAtLastAccess /\ ReadsWhatItAsked
  <2> DEFINE x == Head(todo)
  <2>1. /\ todo # <<>> /\ Advance /\ o \in Operations /\ k \in Nat /\ ChipTypeOK
        /\ Makes(o, k, x) /\ Accessed(x)
        /\ k > 0 => Hold(o, k) /\ Exact(o)
    BY <1>3, PortStep
  <2> HIDE DEF x
  <2>2. mem' = IF k + 1 = Len(Script(o)) THEN Stored(o) ELSE mem
    BY <2>1, Effect
  <2>3. Completes <=> k + 1 = Len(Script(o))
    <3>1. None \notin Operations
      BY OperationType DEF None, Programs
    <3>2. /\ op \in Operations /\ Len(todo) \in 1..Len(Script(op)) /\ Len(Script(op)) \in Nat
      <4>1. /\ op \in Operations /\ Len(todo) \in 1..Len(Script(op))
        BY <2>1 DEF Kept, Inv, ToDo
      <4> QED BY <4>1, ScriptType
    <3>3. op' = None <=> Len(todo) = 1
      BY <2>1, <3>1, <3>2 DEF Advance
    <3> DEFINE n == Len(Script(op))  m == Len(todo)
    <3>4. n + 1 - m = n <=> m = 1
      <4>1. n \in Nat /\ m \in 1..n
        BY <3>2
      <4> HIDE DEF n, m
      <4> QED BY <4>1
    <3>5. k = n - m /\ n \in Nat /\ m \in Nat
      BY <1>3, <3>2 DEF ReadCount
    <3>6. k + 1 = Len(Script(o)) <=> Len(todo) = 1
      <4> HIDE DEF n, m
      <4>1. k + 1 = n <=> m = 1
        BY <3>4, <3>5
      <4> QED BY <1>3, <4>1 DEF n, m
    <3> QED BY <2>1, <3>3, <3>6 DEF Completes
  <2>4. EffectAtLastAccess
    BY <1>3, <2>2, <2>3 DEF EffectAtLastAccess
  <2>5. ASSUME x.port = "read" PROVE out' = Asked(o, k - FirstReadOf(o))
    <3>1. Read
      BY <2>1, <2>5 DEF Accessed
    <3> QED BY <2>1, <2>5, <3>1, Answer
  <2>6. ReadsWhatItAsked
    <3>1. FirstRead = FirstReadOf(o)
      BY <1>3 DEF FirstRead, FirstReadOf
    <3> QED BY <1>3, <2>5, <3>1 DEF ReadsWhatItAsked, Reading, x
  <2> QED BY <2>4, <2>6
<1> QED BY <1>1, <1>2, <1>3 DEF Next

(* An operation changes the array once, with its last access, and exactly  *)
(* as asked; one cut short changes nothing, then or later, and a partial   *)
(* program nothing at all; reads answer what was asked: for every size of  *)
(* chip whose boot pages are whole blocks, and any number of operations.   *)
(* (read_nand and nand_write, nand.cpp:240-583)                            *)
THEOREM OperationsDoAsAsked ==
  ASSUME BootPages % BlockPages = 0
  PROVE  Spec => OperationsAsAsked
<1>1. Init => Kept
  BY InitInv DEF Kept, Underway, Init
<1>2. Kept /\ [Next]_vars => [EffectAtLastAccess /\ ReadsWhatItAsked]_vars
  BY StepAsAsked
<1>3. Spec => []Kept /\ [][Next]_vars
  BY <1>1, KeptStep, PTL DEF Spec
<1>4. Spec => [][EffectAtLastAccess /\ ReadsWhatItAsked]_vars
  BY <1>2, <1>3, PTL
<1> QED BY <1>4 DEF OperationsAsAsked
==============================================================================
