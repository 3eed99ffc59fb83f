-------------------------- MODULE SafeFetchProofs ---------------------------
(***************************************************************************)
(* The fetch of a document, for any hosts, addresses, answers and limits.  *)
(* First, what isUnsafeIp and isPrivateOrLoopbackIp compute byte by byte is*)
(* membership in the special address blocks, for every IPv4 and IPv6       *)
(* address; then, a fetch connects only to addresses that were checked for *)
(* the host of that hop.                                                   *)
(***************************************************************************)
EXTENDS SafeFetch, SequenceTheorems, TLAPS

-----------------------------------------------------------------------------
(* Addresses.                                                                *)

Byte == 0 .. 255

LEMMA ByteAt == ASSUME NEW a \in Seq(Byte), NEW i \in 1 .. Len(a) PROVE a[i] \in Byte
<1> HIDE DEF Byte
<1> QED  OBVIOUS

(* What dividing off the trailing bits of a byte leaves.                     *)
LEMMA LeadingBits ==
  ASSUME NEW x \in Byte
  PROVE  /\ Leading(x, 0) = x \div 256 /\ Leading(x, 2) = x \div 64 /\ Leading(x, 4) = x \div 16
         /\ Leading(x, 7) = x \div 2 /\ Leading(x, 8) = x
<1>1. 2 ^ 8 = 256 /\ 2 ^ 6 = 64 /\ 2 ^ 4 = 16 /\ 2 ^ 1 = 2 /\ 2 ^ 0 = 1
  OBVIOUS
<1>2. 8 - 0 = 8 /\ 8 - 2 = 6 /\ 8 - 4 = 4 /\ 8 - 7 = 1 /\ 8 - 8 = 0
  OBVIOUS
<1>3. x \div 1 = x
  BY DEF Byte
<1> QED  BY <1>1, <1>2, <1>3 DEF Leading

(* A prefix fixes the bytes it covers, and the leading bits of the next.     *)
Fits(a, base, bits, i) ==
  /\ 8 * i <= bits => a[i] = base[i]
  /\ 8 * (i - 1) < bits /\ bits < 8 * i =>
       Leading(a[i], bits - 8 * (i - 1)) = Leading(base[i], bits - 8 * (i - 1))

LEMMA WithinBytes ==
  ASSUME NEW a \in Seq(Byte), NEW base \in Seq(Byte), Len(a) = Len(base), NEW bits \in Nat
  PROVE  Within(a, Block(base, bits)) <=> \A i \in 1 .. Len(a) : Fits(a, base, bits, i)
<1>1. Within(a, Block(base, bits)) <=>
        \A i \in 1 .. Len(a) : Leading(a[i], Covered(bits, i)) = Leading(base[i], Covered(bits, i))
  BY DEF Within, Block
<1>2. ASSUME NEW i \in 1 .. Len(a)
      PROVE  Leading(a[i], Covered(bits, i)) = Leading(base[i], Covered(bits, i)) <=>
               Fits(a, base, bits, i)
  <2>1. PICK x \in Byte, y \in Byte : x = a[i] /\ y = base[i]
    <3> HIDE DEF Byte
    <3> QED  OBVIOUS
  <2>2. CASE 8 * i <= bits
    <3>1. Covered(bits, i) = 8 /\ ~(bits < 8 * i)
      BY <2>2 DEF Covered
    <3> QED  BY <2>1, <2>2, <3>1, LeadingBits DEF Fits
  <2>3. CASE bits <= 8 * (i - 1)
    <3>1. Covered(bits, i) = 0 /\ ~(8 * i <= bits) /\ ~(8 * (i - 1) < bits)
      BY <2>3 DEF Covered
    <3>2. x \div 256 = 0 /\ y \div 256 = 0
      <4>1. \A z \in 0 .. 255 : z \div 256 = 0
        OBVIOUS
      <4> QED  BY <4>1 DEF Byte
    <3> QED  BY <2>1, <3>1, <3>2, LeadingBits DEF Fits
  <2>4. CASE 8 * (i - 1) < bits /\ bits < 8 * i
    <3>1. Covered(bits, i) = bits - 8 * (i - 1) /\ ~(8 * i <= bits)
      BY <2>4 DEF Covered
    <3> QED  BY <2>4, <3>1 DEF Fits
  <2> QED  BY <2>2, <2>3, <2>4
<1> QED  BY <1>1, <1>2

LEMMA Bytes4 ==
  ASSUME NEW a \in Seq(Byte), NEW base \in Seq(Byte), Len(a) = 4, Len(base) = 4, NEW bits \in 0 .. 24
  PROVE  Within(a, Block(base, bits)) <=>
           /\ 8 <= bits => a[1] = base[1]
           /\ 16 <= bits => a[2] = base[2]
           /\ 24 <= bits => a[3] = base[3]
           /\ 0 < bits /\ bits < 8 => Leading(a[1], bits) = Leading(base[1], bits)
           /\ 8 < bits /\ bits < 16 => Leading(a[2], bits - 8) = Leading(base[2], bits - 8)
           /\ 16 < bits /\ bits < 24 => Leading(a[3], bits - 16) = Leading(base[3], bits - 16)
<1>1. bits \in Nat /\ 1 .. Len(a) = 1 .. 4 /\ Len(a) = Len(base)
  OBVIOUS
<1>2. Within(a, Block(base, bits)) <=> \A i \in 1 .. Len(a) : Fits(a, base, bits, i)
  BY <1>1, WithinBytes, Zenon
<1>3. \A i \in 1 .. 4 : i = 1 \/ i = 2 \/ i = 3 \/ i = 4
  OBVIOUS
<1>4. bits - 8 * (1 - 1) = bits /\ 8 * 4 > bits /\ 8 * (4 - 1) >= bits
  OBVIOUS
<1>5. Within(a, Block(base, bits)) =>
        /\ 8 <= bits => a[1] = base[1]
        /\ 16 <= bits => a[2] = base[2]
        /\ 24 <= bits => a[3] = base[3]
        /\ 0 < bits /\ bits < 8 => Leading(a[1], bits) = Leading(base[1], bits)
        /\ 8 < bits /\ bits < 16 => Leading(a[2], bits - 8) = Leading(base[2], bits - 8)
        /\ 16 < bits /\ bits < 24 => Leading(a[3], bits - 16) = Leading(base[3], bits - 16)
  BY <1>1, <1>2, <1>4 DEF Fits
<1> QED  BY <1>1, <1>2, <1>3, <1>4, <1>5 DEF Fits

(* What each length of an IPv4 prefix asks of an address.                   *)
Prefix4(a, base) ==
  /\ Within(a, Block(base, 4)) <=> a[1] \div 16 = base[1] \div 16
  /\ Within(a, Block(base, 8)) <=> a[1] = base[1]
  /\ Within(a, Block(base, 10)) <=> a[1] = base[1] /\ a[2] \div 64 = base[2] \div 64
  /\ Within(a, Block(base, 12)) <=> a[1] = base[1] /\ a[2] \div 16 = base[2] \div 16
  /\ Within(a, Block(base, 15)) <=> a[1] = base[1] /\ a[2] \div 2 = base[2] \div 2
  /\ Within(a, Block(base, 16)) <=> a[1] = base[1] /\ a[2] = base[2]
  /\ Within(a, Block(base, 24)) <=> a[1] = base[1] /\ a[2] = base[2] /\ a[3] = base[3]

LEMMA Prefixes4 ==
  ASSUME NEW a \in Seq(Byte), NEW base \in Seq(Byte), Len(a) = 4, Len(base) = 4
  PROVE  Prefix4(a, base)
<1>0. a[1] \in Byte /\ a[2] \in Byte /\ base[1] \in Byte /\ base[2] \in Byte
  <2>1. (\A i \in 1 .. Len(a) : a[i] \in Byte) /\ (\A i \in 1 .. Len(base) : base[i] \in Byte)
    BY ByteAt
  <2> QED  BY <2>1
<1>8. ASSUME NEW bits \in 0 .. 24
      PROVE  Within(a, Block(base, bits)) <=>
               /\ 8 <= bits => a[1] = base[1]
               /\ 16 <= bits => a[2] = base[2]
               /\ 24 <= bits => a[3] = base[3]
               /\ 0 < bits /\ bits < 8 => Leading(a[1], bits) = Leading(base[1], bits)
               /\ 8 < bits /\ bits < 16 => Leading(a[2], bits - 8) = Leading(base[2], bits - 8)
               /\ 16 < bits /\ bits < 24 => Leading(a[3], bits - 16) = Leading(base[3], bits - 16)
  BY Bytes4, Zenon
<1>1. Within(a, Block(base, 4)) <=> a[1] \div 16 = base[1] \div 16
  <2>1. Within(a, Block(base, 4)) <=> Leading(a[1], 4) = Leading(base[1], 4)
    BY <1>8
  <2>3. Leading(a[1], 4) = a[1] \div 16 /\ Leading(base[1], 4) = base[1] \div 16
    BY <1>0, LeadingBits
  <2> QED  BY <2>1, <2>3
<1>2. Within(a, Block(base, 8)) <=> a[1] = base[1]
  BY <1>8
<1>3. Within(a, Block(base, 10)) <=> a[1] = base[1] /\ a[2] \div 64 = base[2] \div 64
  <2>1. Within(a, Block(base, 10)) <=> a[1] = base[1] /\ Leading(a[2], 10 - 8) = Leading(base[2], 10 - 8)
    BY <1>8
  <2>2. 10 - 8 = 2
    OBVIOUS
  <2>3. Leading(a[2], 2) = a[2] \div 64 /\ Leading(base[2], 2) = base[2] \div 64
    BY <1>0, LeadingBits
  <2> QED  BY <2>1, <2>2, <2>3
<1>4. Within(a, Block(base, 12)) <=> a[1] = base[1] /\ a[2] \div 16 = base[2] \div 16
  <2>1. Within(a, Block(base, 12)) <=> a[1] = base[1] /\ Leading(a[2], 12 - 8) = Leading(base[2], 12 - 8)
    BY <1>8
  <2>2. 12 - 8 = 4
    OBVIOUS
  <2>3. Leading(a[2], 4) = a[2] \div 16 /\ Leading(base[2], 4) = base[2] \div 16
    BY <1>0, LeadingBits
  <2> QED  BY <2>1, <2>2, <2>3
<1>5. Within(a, Block(base, 15)) <=> a[1] = base[1] /\ a[2] \div 2 = base[2] \div 2
  <2>1. Within(a, Block(base, 15)) <=> a[1] = base[1] /\ Leading(a[2], 15 - 8) = Leading(base[2], 15 - 8)
    BY <1>8
  <2>2. 15 - 8 = 7
    OBVIOUS
  <2>3. Leading(a[2], 7) = a[2] \div 2 /\ Leading(base[2], 7) = base[2] \div 2
    BY <1>0, LeadingBits
  <2> QED  BY <2>1, <2>2, <2>3
<1>6. Within(a, Block(base, 16)) <=> a[1] = base[1] /\ a[2] = base[2]
  BY <1>8
<1>7. Within(a, Block(base, 24)) <=> a[1] = base[1] /\ a[2] = base[2] /\ a[3] = base[3]
  BY <1>8
<1> QED  BY <1>1, <1>2, <1>3, <1>4, <1>5, <1>6, <1>7 DEF Prefix4

LEMMA Tuple4 ==
  ASSUME NEW a \in Seq(Byte), Len(a) = 4, NEW p \in Byte, NEW q \in Byte, NEW r \in Byte, NEW t \in Byte
  PROVE  \E base : /\ base = <<p, q, r, t>> /\ base[1] = p /\ base[2] = q /\ base[3] = r
                   /\ Prefix4(a, base)
<1>1. <<p, q, r, t>> \in Seq(Byte)
  BY DEF Byte
<1>2. PICK base \in Seq(Byte) : base = <<p, q, r, t>>
  BY <1>1, Zenon
<1>3. Len(base) = 4 /\ base[1] = p /\ base[2] = q /\ base[3] = r
  BY <1>2
<1>4. Prefix4(a, base)
  BY <1>3, Prefixes4, Zenon
<1> QED  BY <1>2, <1>3, <1>4

LEMMA Quotients ==
  ASSUME NEW x \in Byte
  PROVE  /\ x \div 16 = 16 \div 16 <=> x >= 16 /\ x <= 31
         /\ x \div 64 = 64 \div 64 <=> x >= 64 /\ x <= 127
         /\ x \div 2 = 18 \div 2 <=> x \in {18, 19}
         /\ x \div 16 = 224 \div 16 <=> x >= 224 /\ x <= 239
         /\ x \div 16 = 240 \div 16 <=> x >= 240
         /\ x \div 2 = 252 \div 2 <=> x \in {252, 253}
         /\ x \div 64 = 128 \div 64 <=> x >= 128 /\ x <= 191
<1>1. 16 \div 16 = 1 /\ 64 \div 64 = 1 /\ 18 \div 2 = 9 /\ 224 \div 16 = 14 /\ 240 \div 16 = 15
      /\ 252 \div 2 = 126 /\ 128 \div 64 = 2
  OBVIOUS
<1> QED  BY <1>1 DEF Byte

(* The IPv4 address tests, block by block.                                   *)
LEMMA PrivateIpv4 ==
  ASSUME NEW a \in Seq(Byte), Len(a) = 4
  PROVE  IsPrivateOrLoopbackIpv4(a) <=> In(a, Private4)
<1>0. a[1] \in Byte /\ a[2] \in Byte /\ a[3] \in Byte
  <2>1. \A i \in 1 .. Len(a) : a[i] \in Byte
    BY ByteAt, Zenon
  <2> QED  BY <2>1
<1>1. Within(a, Block(<<10, 0, 0, 0>>, 8)) <=> a[1] = 10
  <2>0. 0 \in Byte /\ 10 \in Byte
    BY DEF Byte
  <2>1. PICK base :
          base = <<10, 0, 0, 0>> /\ base[1] = 10 /\ base[2] = 0 /\ base[3] = 0 /\ Prefix4(a, base)
    BY <2>0, Tuple4
  <2>2. Within(a, Block(base, 8)) <=> a[1] = base[1]
    BY <2>1 DEF Prefix4
  <2> QED  BY <1>0, <2>1, <2>2, Quotients
<1>2. Within(a, Block(<<127, 0, 0, 0>>, 8)) <=> a[1] = 127
  <2>0. 0 \in Byte /\ 127 \in Byte
    BY DEF Byte
  <2>1. PICK base :
          base = <<127, 0, 0, 0>> /\ base[1] = 127 /\ base[2] = 0 /\ base[3] = 0 /\ Prefix4(a, base)
    BY <2>0, Tuple4
  <2>2. Within(a, Block(base, 8)) <=> a[1] = base[1]
    BY <2>1 DEF Prefix4
  <2> QED  BY <1>0, <2>1, <2>2, Quotients
<1>3. Within(a, Block(<<172, 16, 0, 0>>, 12)) <=> a[1] = 172 /\ a[2] >= 16 /\ a[2] <= 31
  <2>0. 0 \in Byte /\ 16 \in Byte /\ 172 \in Byte
    BY DEF Byte
  <2>1. PICK base :
          base = <<172, 16, 0, 0>> /\ base[1] = 172 /\ base[2] = 16 /\ base[3] = 0 /\ Prefix4(a, base)
    BY <2>0, Tuple4
  <2>2. Within(a, Block(base, 12)) <=> a[1] = base[1] /\ a[2] \div 16 = base[2] \div 16
    BY <2>1 DEF Prefix4
  <2> QED  BY <1>0, <2>1, <2>2, Quotients
<1>4. Within(a, Block(<<192, 168, 0, 0>>, 16)) <=> a[1] = 192 /\ a[2] = 168
  <2>0. 0 \in Byte /\ 168 \in Byte /\ 192 \in Byte
    BY DEF Byte
  <2>1. PICK base :
          base = <<192, 168, 0, 0>> /\ base[1] = 192 /\ base[2] = 168 /\ base[3] = 0 /\ Prefix4(a, base)
    BY <2>0, Tuple4
  <2>2. Within(a, Block(base, 16)) <=> a[1] = base[1] /\ a[2] = base[2]
    BY <2>1 DEF Prefix4
  <2> QED  BY <1>0, <2>1, <2>2, Quotients
<1> QED  BY <1>1, <1>2, <1>3, <1>4 DEF IsPrivateOrLoopbackIpv4, In, Private4

LEMMA UnsafeIpv4 ==
  ASSUME NEW a \in Seq(Byte), Len(a) = 4
  PROVE  IsUnsafeIpv4(a) <=> In(a, Special4)
<1>0. a[1] \in Byte /\ a[2] \in Byte /\ a[3] \in Byte
  <2>1. \A i \in 1 .. Len(a) : a[i] \in Byte
    BY ByteAt, Zenon
  <2> QED  BY <2>1
<1>1. Within(a, Block(<<0, 0, 0, 0>>, 8)) <=> a[1] = 0
  <2>0. 0 \in Byte
    BY DEF Byte
  <2>1. PICK base :
          base = <<0, 0, 0, 0>> /\ base[1] = 0 /\ base[2] = 0 /\ base[3] = 0 /\ Prefix4(a, base)
    BY <2>0, Tuple4
  <2>2. Within(a, Block(base, 8)) <=> a[1] = base[1]
    BY <2>1 DEF Prefix4
  <2> QED  BY <1>0, <2>1, <2>2, Quotients
<1>2. Within(a, Block(<<100, 64, 0, 0>>, 10)) <=> a[1] = 100 /\ a[2] >= 64 /\ a[2] <= 127
  <2>0. 0 \in Byte /\ 64 \in Byte /\ 100 \in Byte
    BY DEF Byte
  <2>1. PICK base :
          base = <<100, 64, 0, 0>> /\ base[1] = 100 /\ base[2] = 64 /\ base[3] = 0 /\ Prefix4(a, base)
    BY <2>0, Tuple4
  <2>2. Within(a, Block(base, 10)) <=> a[1] = base[1] /\ a[2] \div 64 = base[2] \div 64
    BY <2>1 DEF Prefix4
  <2> QED  BY <1>0, <2>1, <2>2, Quotients
<1>3. Within(a, Block(<<169, 254, 0, 0>>, 16)) <=> a[1] = 169 /\ a[2] = 254
  <2>0. 0 \in Byte /\ 169 \in Byte /\ 254 \in Byte
    BY DEF Byte
  <2>1. PICK base :
          base = <<169, 254, 0, 0>> /\ base[1] = 169 /\ base[2] = 254 /\ base[3] = 0 /\ Prefix4(a, base)
    BY <2>0, Tuple4
  <2>2. Within(a, Block(base, 16)) <=> a[1] = base[1] /\ a[2] = base[2]
    BY <2>1 DEF Prefix4
  <2> QED  BY <1>0, <2>1, <2>2, Quotients
<1>4. Within(a, Block(<<192, 0, 0, 0>>, 24)) <=> a[1] = 192 /\ a[2] = 0 /\ a[3] = 0
  <2>0. 0 \in Byte /\ 192 \in Byte
    BY DEF Byte
  <2>1. PICK base :
          base = <<192, 0, 0, 0>> /\ base[1] = 192 /\ base[2] = 0 /\ base[3] = 0 /\ Prefix4(a, base)
    BY <2>0, Tuple4
  <2>2. Within(a, Block(base, 24)) <=> a[1] = base[1] /\ a[2] = base[2] /\ a[3] = base[3]
    BY <2>1 DEF Prefix4
  <2> QED  BY <1>0, <2>1, <2>2, Quotients
<1>5. Within(a, Block(<<192, 0, 2, 0>>, 24)) <=> a[1] = 192 /\ a[2] = 0 /\ a[3] = 2
  <2>0. 0 \in Byte /\ 2 \in Byte /\ 192 \in Byte
    BY DEF Byte
  <2>1. PICK base :
          base = <<192, 0, 2, 0>> /\ base[1] = 192 /\ base[2] = 0 /\ base[3] = 2 /\ Prefix4(a, base)
    BY <2>0, Tuple4
  <2>2. Within(a, Block(base, 24)) <=> a[1] = base[1] /\ a[2] = base[2] /\ a[3] = base[3]
    BY <2>1 DEF Prefix4
  <2> QED  BY <1>0, <2>1, <2>2, Quotients
<1>6. Within(a, Block(<<198, 18, 0, 0>>, 15)) <=> a[1] = 198 /\ a[2] \in {18, 19}
  <2>0. 0 \in Byte /\ 18 \in Byte /\ 198 \in Byte
    BY DEF Byte
  <2>1. PICK base :
          base = <<198, 18, 0, 0>> /\ base[1] = 198 /\ base[2] = 18 /\ base[3] = 0 /\ Prefix4(a, base)
    BY <2>0, Tuple4
  <2>2. Within(a, Block(base, 15)) <=> a[1] = base[1] /\ a[2] \div 2 = base[2] \div 2
    BY <2>1 DEF Prefix4
  <2> QED  BY <1>0, <2>1, <2>2, Quotients
<1>7. Within(a, Block(<<198, 51, 100, 0>>, 24)) <=> a[1] = 198 /\ a[2] = 51 /\ a[3] = 100
  <2>0. 0 \in Byte /\ 51 \in Byte /\ 100 \in Byte /\ 198 \in Byte
    BY DEF Byte
  <2>1. PICK base :
          base = <<198, 51, 100, 0>> /\ base[1] = 198 /\ base[2] = 51 /\ base[3] = 100 /\ Prefix4(a, base)
    BY <2>0, Tuple4
  <2>2. Within(a, Block(base, 24)) <=> a[1] = base[1] /\ a[2] = base[2] /\ a[3] = base[3]
    BY <2>1 DEF Prefix4
  <2> QED  BY <1>0, <2>1, <2>2, Quotients
<1>8. Within(a, Block(<<203, 0, 113, 0>>, 24)) <=> a[1] = 203 /\ a[2] = 0 /\ a[3] = 113
  <2>0. 0 \in Byte /\ 113 \in Byte /\ 203 \in Byte
    BY DEF Byte
  <2>1. PICK base :
          base = <<203, 0, 113, 0>> /\ base[1] = 203 /\ base[2] = 0 /\ base[3] = 113 /\ Prefix4(a, base)
    BY <2>0, Tuple4
  <2>2. Within(a, Block(base, 24)) <=> a[1] = base[1] /\ a[2] = base[2] /\ a[3] = base[3]
    BY <2>1 DEF Prefix4
  <2> QED  BY <1>0, <2>1, <2>2, Quotients
<1>9. Within(a, Block(<<224, 0, 0, 0>>, 4)) <=> a[1] >= 224 /\ a[1] <= 239
  <2>0. 0 \in Byte /\ 224 \in Byte
    BY DEF Byte
  <2>1. PICK base :
          base = <<224, 0, 0, 0>> /\ base[1] = 224 /\ base[2] = 0 /\ base[3] = 0 /\ Prefix4(a, base)
    BY <2>0, Tuple4
  <2>2. Within(a, Block(base, 4)) <=> a[1] \div 16 = base[1] \div 16
    BY <2>1 DEF Prefix4
  <2> QED  BY <1>0, <2>1, <2>2, Quotients
<1>10. Within(a, Block(<<240, 0, 0, 0>>, 4)) <=> a[1] >= 240
  <2>0. 0 \in Byte /\ 240 \in Byte
    BY DEF Byte
  <2>1. PICK base :
          base = <<240, 0, 0, 0>> /\ base[1] = 240 /\ base[2] = 0 /\ base[3] = 0 /\ Prefix4(a, base)
    BY <2>0, Tuple4
  <2>2. Within(a, Block(base, 4)) <=> a[1] \div 16 = base[1] \div 16
    BY <2>1 DEF Prefix4
  <2> QED  BY <1>0, <2>1, <2>2, Quotients
<1>11. In(a, Special4) <=>
         \/ In(a, Private4) \/ Within(a, Block(<<0, 0, 0, 0>>, 8))
         \/ Within(a, Block(<<100, 64, 0, 0>>, 10)) \/ Within(a, Block(<<169, 254, 0, 0>>, 16))
         \/ Within(a, Block(<<192, 0, 0, 0>>, 24)) \/ Within(a, Block(<<192, 0, 2, 0>>, 24))
         \/ Within(a, Block(<<198, 18, 0, 0>>, 15)) \/ Within(a, Block(<<198, 51, 100, 0>>, 24))
         \/ Within(a, Block(<<203, 0, 113, 0>>, 24)) \/ Within(a, Block(<<224, 0, 0, 0>>, 4))
         \/ Within(a, Block(<<240, 0, 0, 0>>, 4))
  BY SMTT(20) DEF In, Special4
<1>12. In(a, Private4) <=>
         a[1] \in {10, 127} \/ (a[1] = 172 /\ a[2] >= 16 /\ a[2] <= 31) \/ (a[1] = 192 /\ a[2] = 168)
  BY PrivateIpv4 DEF IsPrivateOrLoopbackIpv4
<1> QED  BY <1>1, <1>2, <1>3, <1>4, <1>5, <1>6, <1>7, <1>8, <1>9, <1>10, <1>11, <1>12, SMTT(20)
         DEF IsUnsafeIpv4

(* m = x \o y, to be expanded only where a form is built.                     *)
Joined(m, x, y) == m = x \o y

LEMMA Concat ==
  ASSUME NEW x \in Seq(Byte), NEW y \in Seq(Byte)
  PROVE  \E m \in Seq(Byte) :
           /\ Joined(m, x, y) /\ Len(m) = Len(x) + Len(y)
           /\ \A i \in 1 .. Len(x) : m[i] = x[i]
           /\ \A j \in 1 .. Len(y) : m[Len(x) + j] = y[j]
<1> HIDE DEF Byte
<1>0. PICK n \in Nat, k \in Nat : n = Len(x) /\ k = Len(y)
  OBVIOUS
<1>1. PICK m \in Seq(Byte) : m = x \o y
  BY ConcatProperties, Zenon
<1>2. Len(m) = n + k /\ \A i \in 1 .. n + k : m[i] = IF i <= n THEN x[i] ELSE y[i - n]
  BY <1>0, <1>1, ConcatProperties
<1>3. \A i \in 1 .. n : i \in 1 .. n + k /\ i <= n
  OBVIOUS
<1>4. \A j \in 1 .. k : n + j \in 1 .. n + k /\ ~(n + j <= n) /\ (n + j) - n = j
  OBVIOUS
<1>5. (\A i \in 1 .. n : m[i] = x[i]) /\ \A j \in 1 .. k : m[n + j] = y[j]
  BY <1>2, <1>3, <1>4
<1>6. Joined(m, x, y)
  BY <1>1 DEF Joined
<1> QED  BY <1>0, <1>2, <1>5, <1>6, Zenon

LEMMA Zeros ==
  ASSUME NEW n \in Nat
  PROVE  \E z \in Seq(Byte) : z = [i \in 1 .. n |-> 0] /\ Len(z) = n /\ \A i \in 1 .. n : z[i] = 0
<1> DEFINE z == [i \in 1 .. n |-> 0]
<1>1. z \in Seq(Byte)
  BY DEF Byte
<1>2. DOMAIN z = 1 .. n /\ \A i \in 1 .. n : z[i] = 0
  OBVIOUS
<1>3. z = [i \in 1 .. n |-> 0]
  OBVIOUS
<1> HIDE DEF z
<1>4. Len(z) = n
  BY <1>1, <1>2
<1> QED  BY <1>1, <1>2, <1>3, <1>4

(* An IPv6 form of an IPv4 prefix holds the IPv6 forms of its addresses.     *)
LEMMA EmbeddedBytes ==
  ASSUME NEW a \in Seq(Byte), Len(a) = 16
  PROVE  /\ Embedded(a) \in Seq(Byte) /\ Len(Embedded(a)) = 4
         /\ \A j \in 1 .. 4 : Embedded(a)[j] = a[12 + j]
<1>1. 13 \in Int /\ 16 \in Int /\ \A i \in 13 .. 16 : a[i] \in Byte
  <2>1. \A i \in 13 .. 16 : i \in 1 .. Len(a)
    OBVIOUS
  <2>2. \A i \in 1 .. Len(a) : a[i] \in Byte
    BY ByteAt, Zenon
  <2> QED  BY <2>1, <2>2
<1>2. /\ SubSeq(a, 13, 16) \in Seq(Byte)
      /\ Len(SubSeq(a, 13, 16)) = IF 13 <= 16 THEN 16 - 13 + 1 ELSE 0
      /\ \A i \in 1 .. 16 - 13 + 1 : SubSeq(a, 13, 16)[i] = a[13 + i - 1]
  <2> HIDE DEF Byte
  <2> QED  BY <1>1, SubSeqProperties
<1>3. \A j \in 1 .. 4 : 13 + j - 1 = 12 + j /\ j \in 1 .. 16 - 13 + 1
  OBVIOUS
<1> QED  BY <1>2, <1>3 DEF Embedded

LEMMA FormIff ==
  ASSUME NEW a \in Seq(Byte), Len(a) = 16, NEW base \in Seq(Byte), Len(base) = 4, NEW bits \in 0 .. 24,
         NEW m \in Seq(Byte), Len(m) = 16, \A j \in 1 .. 4 : m[12 + j] = base[j]
  PROVE  Within(a, Block(m, 96 + bits)) <=>
           (\A i \in 1 .. 12 : a[i] = m[i]) /\ Within(Embedded(a), Block(base, bits))
<1> DEFINE e == Embedded(a)
<1>1. e \in Seq(Byte) /\ Len(e) = 4 /\ \A j \in 1 .. 4 : e[j] = a[12 + j]
  BY EmbeddedBytes
<1> HIDE DEF e
<1>2. Within(a, Block(m, 96 + bits)) <=> \A i \in 1 .. 16 : Fits(a, m, 96 + bits, i)
  <2>1. 96 + bits \in Nat /\ 1 .. Len(a) = 1 .. 16 /\ Len(a) = Len(m)
    OBVIOUS
  <2>2. Within(a, Block(m, 96 + bits)) <=> \A i \in 1 .. Len(a) : Fits(a, m, 96 + bits, i)
    BY <2>1, WithinBytes, Zenon
  <2> QED  BY <2>1, <2>2
<1>3. Within(e, Block(base, bits)) <=> \A i \in 1 .. 4 : Fits(e, base, bits, i)
  <2>1. bits \in Nat /\ 1 .. Len(e) = 1 .. 4 /\ Len(e) = Len(base)
    BY <1>1
  <2>2. Within(e, Block(base, bits)) <=> \A i \in 1 .. Len(e) : Fits(e, base, bits, i)
    BY <1>1, <2>1, WithinBytes, Zenon
  <2> QED  BY <2>1, <2>2
<1>4. ASSUME NEW i \in 1 .. 12 PROVE Fits(a, m, 96 + bits, i) <=> a[i] = m[i]
  <2>1. 8 * i <= 96 + bits /\ ~(96 + bits < 8 * i)
    OBVIOUS
  <2> QED  BY <2>1 DEF Fits
<1>5. ASSUME NEW j \in 1 .. 4 PROVE Fits(a, m, 96 + bits, 12 + j) <=> Fits(e, base, bits, j)
  <2>1. /\ 8 * (12 + j) <= 96 + bits <=> 8 * j <= bits
        /\ 8 * ((12 + j) - 1) < 96 + bits <=> 8 * (j - 1) < bits
        /\ 96 + bits < 8 * (12 + j) <=> bits < 8 * j
        /\ (96 + bits) - 8 * ((12 + j) - 1) = bits - 8 * (j - 1)
    OBVIOUS
  <2>2. e[j] = a[12 + j] /\ base[j] = m[12 + j]
    BY <1>1
  <2> QED  BY <2>1, <2>2 DEF Fits
<1>6. (\A i \in 1 .. 16 : Fits(a, m, 96 + bits, i)) <=>
        (\A i \in 1 .. 12 : Fits(a, m, 96 + bits, i)) /\ (\A j \in 1 .. 4 : Fits(a, m, 96 + bits, 12 + j))
  <2>1. \A i \in 1 .. 16 : i \in 1 .. 12 \/ \E j \in 1 .. 4 : i = 12 + j
    <3>1. ASSUME NEW i \in 1 .. 16, i \notin 1 .. 12 PROVE i - 12 \in 1 .. 4 /\ i = 12 + (i - 12)
      BY <3>1
    <3> QED  BY <3>1
  <2>2. (\A i \in 1 .. 12 : i \in 1 .. 16) /\ (\A j \in 1 .. 4 : 12 + j \in 1 .. 16)
    OBVIOUS
  <2> QED  BY <2>1, <2>2
<1> QED  BY <1>2, <1>3, <1>4, <1>5, <1>6 DEF e

(* The blocks that the forms are made of.                                    *)
Ipv4Block(b) == \E base \in Seq(Byte), bits \in 0 .. 24 : Len(base) = 4 /\ b = Block(base, bits)

LEMMA Special4Blocks == \A b \in Special4 : Ipv4Block(b)
<1>1. ASSUME NEW p \in Byte, NEW q \in Byte, NEW r \in Byte, NEW bits \in 0 .. 24
      PROVE  Ipv4Block(Block(<<p, q, r, 0>>, bits))
  <2>1. <<p, q, r, 0>> \in Seq(Byte) /\ Len(<<p, q, r, 0>>) = 4
    BY DEF Byte
  <2> QED  BY <2>1, Zenon DEF Ipv4Block
<1>2. {0, 2, 10, 16, 18, 51, 64, 100, 113, 127, 168, 169, 172, 192, 198, 203, 224, 240, 254} \subseteq Byte
  BY DEF Byte
<1>3. {4, 8, 10, 12, 15, 16, 24} \subseteq 0 .. 24
  OBVIOUS
<1> QED  BY <1>1, <1>2, <1>3 DEF Special4, Private4

MappedBytes(m, base) ==
  /\ (\A i \in 1 .. 10 : m[i] = 0) /\ m[11] = 255 /\ m[12] = 255
  /\ \A j \in 1 .. 4 : m[12 + j] = base[j]

LEMMA MappedBase ==
  ASSUME NEW base \in Seq(Byte), Len(base) = 4, NEW bits \in 0 .. 24
  PROVE  \E m \in Seq(Byte) :
           MappedForm(Block(base, bits)) = Block(m, 96 + bits) /\ Len(m) = 16 /\ MappedBytes(m, base)
<1>1. PICK z \in Seq(Byte) : z = [i \in 1 .. 10 |-> 0] /\ Len(z) = 10 /\ \A i \in 1 .. 10 : z[i] = 0
  BY Zeros, Zenon
<1>2. PICK f \in Seq(Byte) : f = <<255, 255>>
  <2>1. <<255, 255>> \in Seq(Byte)
    BY DEF Byte
  <2> QED  BY <2>1, Zenon
<1>3. Len(z) = 10 /\ (\A i \in 1 .. 10 : z[i] = 0) /\ Len(f) = 2 /\ f[1] = 255 /\ f[2] = 255
  BY <1>1, <1>2
<1>4. PICK h \in Seq(Byte) : /\ Joined(h, z, f) /\ Len(h) = Len(z) + Len(f)
                             /\ \A i \in 1 .. Len(z) : h[i] = z[i]
                             /\ \A j \in 1 .. Len(f) : h[Len(z) + j] = f[j]
  BY Concat, Zenon
<1>5. Len(h) = 12 /\ (\A i \in 1 .. 10 : h[i] = 0) /\ h[11] = 255 /\ h[12] = 255
  <2>1. (\A i \in 1 .. 10 : h[i] = z[i]) /\ \A j \in 1 .. 2 : h[10 + j] = f[j]
    BY <1>3, <1>4
  <2>2. h[10 + 1] = f[1] /\ h[10 + 2] = f[2]
    BY <2>1
  <2> QED  BY <1>3, <1>4, <2>1, <2>2
<1>6. PICK m \in Seq(Byte) : /\ Joined(m, h, base) /\ Len(m) = Len(h) + Len(base)
                             /\ \A i \in 1 .. Len(h) : m[i] = h[i]
                             /\ \A j \in 1 .. Len(base) : m[Len(h) + j] = base[j]
  BY Concat, Zenon
<1>7. Len(m) = 16 /\ (\A i \in 1 .. 12 : m[i] = h[i]) /\ \A j \in 1 .. 4 : m[12 + j] = base[j]
  BY <1>5, <1>6
<1>8. MappedForm(Block(base, bits)) = Block(m, 96 + bits)
  BY <1>1, <1>2, <1>4, <1>6 DEF MappedForm, Block, Joined
<1>9. MappedBytes(m, base)
  BY <1>5, <1>7 DEF MappedBytes
<1> QED  BY <1>7, <1>8, <1>9

LEMMA MappedIff ==
  ASSUME NEW a \in Seq(Byte), Len(a) = 16, NEW b, Ipv4Block(b)
  PROVE  Within(a, MappedForm(b)) <=> Ipv4FromMapped(a) /\ Within(Embedded(a), b)
<1>1. PICK base \in Seq(Byte), bits \in 0 .. 24 : Len(base) = 4 /\ b = Block(base, bits)
  BY Zenon DEF Ipv4Block
<1>0. Len(base) = 4
  BY <1>1
<1>2. PICK m \in Seq(Byte) :
        MappedForm(Block(base, bits)) = Block(m, 96 + bits) /\ Len(m) = 16 /\ MappedBytes(m, base)
  BY <1>0, MappedBase, Zenon
<1>3. Within(a, Block(m, 96 + bits)) <=>
        (\A i \in 1 .. 12 : a[i] = m[i]) /\ Within(Embedded(a), Block(base, bits))
  BY <1>1, <1>2, FormIff, Zenon DEF MappedBytes
<1>4. (\A i \in 1 .. 12 : a[i] = m[i]) <=> Ipv4FromMapped(a)
  <2>1. \A i \in 1 .. 12 : i \in 1 .. 10 \/ i = 11 \/ i = 12
    OBVIOUS
  <2> QED  BY <1>2, <2>1 DEF MappedBytes, Ipv4FromMapped, Zero
<1> QED  BY <1>1, <1>2, <1>3, <1>4

LEMMA CompatibleBase ==
  ASSUME NEW base \in Seq(Byte), Len(base) = 4, NEW bits \in 0 .. 24
  PROVE  \E m \in Seq(Byte) :
           /\ CompatibleForm(Block(base, bits)) = Block(m, 96 + bits) /\ Len(m) = 16
           /\ (\A i \in 1 .. 12 : m[i] = 0) /\ \A j \in 1 .. 4 : m[12 + j] = base[j]
<1>1. PICK z \in Seq(Byte) : z = [i \in 1 .. 12 |-> 0] /\ Len(z) = 12 /\ \A i \in 1 .. 12 : z[i] = 0
  BY Zeros, Zenon
<1>2. Len(z) = 12 /\ \A i \in 1 .. 12 : z[i] = 0
  BY <1>1
<1>3. PICK m \in Seq(Byte) : /\ Joined(m, z, base) /\ Len(m) = Len(z) + Len(base)
                             /\ \A i \in 1 .. Len(z) : m[i] = z[i]
                             /\ \A j \in 1 .. Len(base) : m[Len(z) + j] = base[j]
  BY Concat, Zenon
<1>4. Len(m) = 16 /\ (\A i \in 1 .. 12 : m[i] = 0) /\ \A j \in 1 .. 4 : m[12 + j] = base[j]
  BY <1>2, <1>3
<1>5. CompatibleForm(Block(base, bits)) = Block(m, 96 + bits)
  BY <1>1, <1>3 DEF CompatibleForm, Block, Joined
<1> QED  BY <1>4, <1>5, Zenon

LEMMA CompatibleIff ==
  ASSUME NEW a \in Seq(Byte), Len(a) = 16, NEW b, Ipv4Block(b)
  PROVE  Within(a, CompatibleForm(b)) <=> Ipv4FromCompatible(a) /\ Within(Embedded(a), b)
<1>1. PICK base \in Seq(Byte), bits \in 0 .. 24 : Len(base) = 4 /\ b = Block(base, bits)
  BY Zenon DEF Ipv4Block
<1>0. Len(base) = 4
  BY <1>1
<1>2. PICK m \in Seq(Byte) :
        /\ CompatibleForm(Block(base, bits)) = Block(m, 96 + bits) /\ Len(m) = 16
        /\ (\A i \in 1 .. 12 : m[i] = 0) /\ \A j \in 1 .. 4 : m[12 + j] = base[j]
  BY <1>0, CompatibleBase, Zenon
<1>3. Within(a, Block(m, 96 + bits)) <=>
        (\A i \in 1 .. 12 : a[i] = m[i]) /\ Within(Embedded(a), Block(base, bits))
  BY <1>1, <1>2, FormIff, Zenon
<1>4. (\A i \in 1 .. 12 : a[i] = m[i]) <=> Ipv4FromCompatible(a)
  BY <1>2 DEF Ipv4FromCompatible, Zero
<1> QED  BY <1>1, <1>2, <1>3, <1>4, Zenon

(* An IPv6 prefix given by its first bytes.                                  *)
LEMMA V6Bytes ==
  ASSUME NEW head \in Seq(Byte), Len(head) <= 16
  PROVE  \E m \in Seq(Byte) : /\ m = V6(head) /\ Len(m) = 16
                              /\ \A i \in 1 .. Len(head) : m[i] = head[i]
                              /\ \A i \in 1 .. 16 : i > Len(head) => m[i] = 0
<1>0. Len(head) \in Nat
  OBVIOUS
<1>1. PICK n \in Nat : n = Len(head) /\ n <= 16
  BY <1>0
<1>2. PICK k \in Nat : k = 16 - n
  BY <1>1
<1>3. PICK z \in Seq(Byte) : z = [i \in 1 .. k |-> 0] /\ Len(z) = k /\ \A i \in 1 .. k : z[i] = 0
  BY Zeros, Zenon
<1>4. PICK m \in Seq(Byte) : /\ Joined(m, head, z) /\ Len(m) = Len(head) + Len(z)
                             /\ \A i \in 1 .. Len(head) : m[i] = head[i]
                             /\ \A j \in 1 .. Len(z) : m[Len(head) + j] = z[j]
  BY Concat, Zenon
<1>5. m = V6(head)
  BY <1>1, <1>2, <1>3, <1>4 DEF V6, Joined
<1>6. Len(m) = 16 /\ (\A i \in 1 .. Len(head) : m[i] = head[i]) /\ \A j \in 1 .. k : m[n + j] = 0
  BY <1>1, <1>2, <1>3, <1>4
<1>7. \A i \in 1 .. 16 : i > n => m[i] = 0
  <2>1. \A i \in 1 .. 16 : i > n => i - n \in 1 .. k /\ n + (i - n) = i
    BY <1>2
  <2> QED  BY <1>6, <2>1, Zenon
<1> QED  BY <1>1, <1>5, <1>6, <1>7, Zenon

LEMMA Bytes16 ==
  ASSUME NEW a \in Seq(Byte), NEW m \in Seq(Byte), Len(a) = 16, Len(m) = 16, NEW bits \in Nat
  PROVE  Within(a, Block(m, bits)) <=> \A i \in 1 .. 16 : Fits(a, m, bits, i)
<1>1. 1 .. Len(a) = 1 .. 16 /\ Len(a) = Len(m)
  OBVIOUS
<1>2. Within(a, Block(m, bits)) <=> \A i \in 1 .. Len(a) : Fits(a, m, bits, i)
  BY <1>1, WithinBytes, Zenon
<1> QED  BY <1>1, <1>2

Prefix16(a, m) ==
  /\ Within(a, Block(m, 7)) <=> Leading(a[1], 7) = Leading(m[1], 7)
  /\ Within(a, Block(m, 8)) <=> a[1] = m[1]
  /\ Within(a, Block(m, 10)) <=> a[1] = m[1] /\ Leading(a[2], 2) = Leading(m[2], 2)
  /\ Within(a, Block(m, 16)) <=> a[1] = m[1] /\ a[2] = m[2]
  /\ Within(a, Block(m, 32)) <=> a[1] = m[1] /\ a[2] = m[2] /\ a[3] = m[3] /\ a[4] = m[4]
  /\ Within(a, Block(m, 128)) <=> \A i \in 1 .. 16 : a[i] = m[i]

LEMMA Prefixes16 ==
  ASSUME NEW a \in Seq(Byte), NEW m \in Seq(Byte), Len(a) = 16, Len(m) = 16
  PROVE  Prefix16(a, m)
<1>0. ASSUME NEW bits \in Nat PROVE Within(a, Block(m, bits)) <=> \A i \in 1 .. 16 : Fits(a, m, bits, i)
  BY Bytes16
<1>1. ASSUME NEW i \in 1 .. 16
      PROVE  /\ Fits(a, m, 7, i) <=> (i = 1 => Leading(a[i], 7) = Leading(m[i], 7))
             /\ Fits(a, m, 8, i) <=> (i = 1 => a[i] = m[i])
             /\ Fits(a, m, 16, i) <=> (i \in {1, 2} => a[i] = m[i])
             /\ Fits(a, m, 32, i) <=> (i \in {1, 2, 3, 4} => a[i] = m[i])
             /\ Fits(a, m, 128, i) <=> a[i] = m[i]
  <2>1. 7 - 8 * (1 - 1) = 7
    OBVIOUS
  <2> QED  BY <2>1 DEF Fits
<1>2. ASSUME NEW i \in 1 .. 16
      PROVE  Fits(a, m, 10, i) <=>
               (i = 1 => a[i] = m[i]) /\ (i = 2 => Leading(a[i], 2) = Leading(m[i], 2))
  <2>1. 10 - 8 * (2 - 1) = 2
    OBVIOUS
  <2> QED  BY <2>1, SMTT(20) DEF Fits
<1>3. 1 \in 1 .. 16 /\ 2 \in 1 .. 16 /\ 3 \in 1 .. 16 /\ 4 \in 1 .. 16
  OBVIOUS
<1>4. Within(a, Block(m, 7)) <=> Leading(a[1], 7) = Leading(m[1], 7)
  BY <1>0, <1>1, <1>3
<1>5. Within(a, Block(m, 8)) <=> a[1] = m[1]
  BY <1>0, <1>1, <1>3
<1>6. Within(a, Block(m, 10)) <=> a[1] = m[1] /\ Leading(a[2], 2) = Leading(m[2], 2)
  BY <1>0, <1>2, <1>3
<1>7. Within(a, Block(m, 16)) <=> a[1] = m[1] /\ a[2] = m[2]
  BY <1>0, <1>1, <1>3
<1>8. Within(a, Block(m, 32)) <=> a[1] = m[1] /\ a[2] = m[2] /\ a[3] = m[3] /\ a[4] = m[4]
  BY <1>0, <1>1, <1>3
<1>9. Within(a, Block(m, 128)) <=> \A i \in 1 .. 16 : a[i] = m[i]
  BY <1>0, <1>1
<1> QED  BY <1>4, <1>5, <1>6, <1>7, <1>8, <1>9 DEF Prefix16

LEMMA V6Prefix ==
  ASSUME NEW a \in Seq(Byte), Len(a) = 16, NEW head \in Seq(Byte), Len(head) <= 16
  PROVE  \E x : /\ x = V6(head) /\ Prefix16(a, x)
                /\ \A i \in 1 .. Len(head) : x[i] = head[i]
<1>1. PICK x \in Seq(Byte) : /\ x = V6(head) /\ Len(x) = 16
                             /\ \A i \in 1 .. Len(head) : x[i] = head[i]
                             /\ \A i \in 1 .. 16 : i > Len(head) => x[i] = 0
  BY V6Bytes
<1>2. Len(x) = 16
  BY <1>1
<1>3. Prefix16(a, x)
  BY <1>2, Prefixes16
<1> QED  BY <1>1, <1>3, Zenon

(* The other IPv6 blocks.                                                    *)
LEMMA V6Blocks ==
  ASSUME NEW a \in Seq(Byte), Len(a) = 16
  PROVE  /\ Within(a, Block(V6(<<>>), 128)) <=> Zero(a, 16)
         /\ Within(a, Block([V6(<<>>) EXCEPT ![16] = 1], 128)) <=> Loopback(a)
         /\ Within(a, Block(V6(<<252>>), 7)) <=> Leading(a[1], 7) = Leading(252, 7)
         /\ Within(a, Block(V6(<<254, 128>>), 10)) <=> a[1] = 254 /\ Leading(a[2], 2) = Leading(128, 2)
         /\ Within(a, Block(V6(<<255>>), 8)) <=> a[1] = 255
         /\ Within(a, Block(V6(<<32, 1, 13, 184>>), 32)) <=> a[1] = 32 /\ a[2] = 1 /\ a[3] = 13 /\ a[4] = 184
         /\ Within(a, Block(V6(<<32, 2>>), 16)) <=> a[1] = 32 /\ a[2] = 2
         /\ Within(a, Block(V6(<<32, 1, 0, 0>>), 32)) <=> a[1] = 32 /\ a[2] = 1 /\ a[3] = 0 /\ a[4] = 0
<1>0. PICK m \in Seq(Byte) : m = V6(<<>>) /\ Len(m) = 16 /\ \A i \in 1 .. 16 : m[i] = 0
  <2>0. <<>> \in Seq(Byte) /\ Len(<<>>) = 0
    OBVIOUS
  <2>1. PICK head \in Seq(Byte) : head = <<>> /\ Len(head) = 0
    BY <2>0, Zenon
  <2>2. Len(head) = 0 /\ Len(head) <= 16
    BY <2>1
  <2>3. PICK m \in Seq(Byte) : /\ m = V6(head) /\ Len(m) = 16
                               /\ \A i \in 1 .. Len(head) : m[i] = head[i]
                               /\ \A i \in 1 .. 16 : i > Len(head) => m[i] = 0
    BY <2>2, V6Bytes, Zenon
  <2> QED  BY <2>1, <2>2, <2>3
<1>1. Within(a, Block(V6(<<>>), 128)) <=> Zero(a, 16)
  <2>1. Len(m) = 16 /\ \A i \in 1 .. 16 : m[i] = 0
    BY <1>0
  <2>2. Within(a, Block(m, 128)) <=> \A i \in 1 .. 16 : a[i] = m[i]
    BY <2>1, Prefixes16, Zenon DEF Prefix16
  <2>3. Within(a, Block(m, 128)) <=> Zero(a, 16)
    BY <2>1, <2>2 DEF Zero
  <2> QED  BY <1>0, <2>3
<1>2. Within(a, Block([V6(<<>>) EXCEPT ![16] = 1], 128)) <=> Loopback(a)
  <2>0. 1 \in Byte /\ DOMAIN m = 1 .. 16 /\ 16 \in 1 .. Len(m)
    BY <1>0 DEF Byte
  <2>1. PICK x \in Seq(Byte) : x = [m EXCEPT ![16] = 1] /\ Len(x) = Len(m)
    <3>1. [m EXCEPT ![16] = 1] \in Seq(Byte) /\ Len([m EXCEPT ![16] = 1]) = Len(m)
      BY <2>0, ExceptSeq
    <3> QED  BY <3>1, Zenon
  <2>2. Len(x) = 16 /\ x[16] = 1 /\ \A i \in 1 .. 15 : x[i] = 0
    BY <1>0, <2>0, <2>1
  <2>3. Within(a, Block(x, 128)) <=> \A i \in 1 .. 16 : a[i] = x[i]
    BY <2>2, Prefixes16, Zenon DEF Prefix16
  <2>4. \A i \in 1 .. 16 : i \in 1 .. 15 \/ i = 16
    OBVIOUS
  <2>5. Within(a, Block(x, 128)) <=> Loopback(a)
    BY <2>2, <2>3, <2>4 DEF Loopback, Zero
  <2> QED  BY <1>0, <2>1, <2>5
<1>3. Within(a, Block(V6(<<252>>), 7)) <=> Leading(a[1], 7) = Leading(252, 7)
  <2>1. <<252>> \in Seq(Byte)
    BY DEF Byte
  <2>2. PICK head \in Seq(Byte) : head = <<252>>
    BY <2>1, Zenon
  <2>3. Len(head) = 1 /\ head[1] = 252
    BY <2>2
  <2>4. Len(head) <= 16
    BY <2>3
  <2>5. PICK x : /\ x = V6(head) /\ Prefix16(a, x)
                 /\ \A i \in 1 .. Len(head) : x[i] = head[i]
    BY <2>4, V6Prefix
  <2>6. x[1] = 252
    BY <2>3, <2>5
  <2>7. Within(a, Block(x, 7)) <=> Leading(a[1], 7) = Leading(x[1], 7)
    BY <2>5 DEF Prefix16
  <2> QED  BY <2>2, <2>5, <2>6, <2>7
<1>4. Within(a, Block(V6(<<254, 128>>), 10)) <=> a[1] = 254 /\ Leading(a[2], 2) = Leading(128, 2)
  <2>1. <<254, 128>> \in Seq(Byte)
    BY DEF Byte
  <2>2. PICK head \in Seq(Byte) : head = <<254, 128>>
    BY <2>1, Zenon
  <2>3. Len(head) = 2 /\ head[1] = 254 /\ head[2] = 128
    BY <2>2
  <2>4. Len(head) <= 16
    BY <2>3
  <2>5. PICK x : /\ x = V6(head) /\ Prefix16(a, x)
                 /\ \A i \in 1 .. Len(head) : x[i] = head[i]
    BY <2>4, V6Prefix
  <2>6. x[1] = 254 /\ x[2] = 128
    BY <2>3, <2>5
  <2>7. Within(a, Block(x, 10)) <=> a[1] = x[1] /\ Leading(a[2], 2) = Leading(x[2], 2)
    BY <2>5 DEF Prefix16
  <2> QED  BY <2>2, <2>5, <2>6, <2>7
<1>5. Within(a, Block(V6(<<255>>), 8)) <=> a[1] = 255
  <2>1. <<255>> \in Seq(Byte)
    BY DEF Byte
  <2>2. PICK head \in Seq(Byte) : head = <<255>>
    BY <2>1, Zenon
  <2>3. Len(head) = 1 /\ head[1] = 255
    BY <2>2
  <2>4. Len(head) <= 16
    BY <2>3
  <2>5. PICK x : /\ x = V6(head) /\ Prefix16(a, x)
                 /\ \A i \in 1 .. Len(head) : x[i] = head[i]
    BY <2>4, V6Prefix
  <2>6. x[1] = 255
    BY <2>3, <2>5
  <2>7. Within(a, Block(x, 8)) <=> a[1] = x[1]
    BY <2>5 DEF Prefix16
  <2> QED  BY <2>2, <2>5, <2>6, <2>7
<1>6. Within(a, Block(V6(<<32, 1, 13, 184>>), 32)) <=> a[1] = 32 /\ a[2] = 1 /\ a[3] = 13 /\ a[4] = 184
  <2>1. <<32, 1, 13, 184>> \in Seq(Byte)
    BY DEF Byte
  <2>2. PICK head \in Seq(Byte) : head = <<32, 1, 13, 184>>
    BY <2>1, Zenon
  <2>3. Len(head) = 4 /\ head[1] = 32 /\ head[2] = 1 /\ head[3] = 13 /\ head[4] = 184
    BY <2>2
  <2>4. Len(head) <= 16
    BY <2>3
  <2>5. PICK x : /\ x = V6(head) /\ Prefix16(a, x)
                 /\ \A i \in 1 .. Len(head) : x[i] = head[i]
    BY <2>4, V6Prefix
  <2>6. x[1] = 32 /\ x[2] = 1 /\ x[3] = 13 /\ x[4] = 184
    BY <2>3, <2>5
  <2>7. Within(a, Block(x, 32)) <=> a[1] = x[1] /\ a[2] = x[2] /\ a[3] = x[3] /\ a[4] = x[4]
    BY <2>5 DEF Prefix16
  <2> QED  BY <2>2, <2>5, <2>6, <2>7
<1>7. Within(a, Block(V6(<<32, 2>>), 16)) <=> a[1] = 32 /\ a[2] = 2
  <2>1. <<32, 2>> \in Seq(Byte)
    BY DEF Byte
  <2>2. PICK head \in Seq(Byte) : head = <<32, 2>>
    BY <2>1, Zenon
  <2>3. Len(head) = 2 /\ head[1] = 32 /\ head[2] = 2
    BY <2>2
  <2>4. Len(head) <= 16
    BY <2>3
  <2>5. PICK x : /\ x = V6(head) /\ Prefix16(a, x)
                 /\ \A i \in 1 .. Len(head) : x[i] = head[i]
    BY <2>4, V6Prefix
  <2>6. x[1] = 32 /\ x[2] = 2
    BY <2>3, <2>5
  <2>7. Within(a, Block(x, 16)) <=> a[1] = x[1] /\ a[2] = x[2]
    BY <2>5 DEF Prefix16
  <2> QED  BY <2>2, <2>5, <2>6, <2>7
<1>8. Within(a, Block(V6(<<32, 1, 0, 0>>), 32)) <=> a[1] = 32 /\ a[2] = 1 /\ a[3] = 0 /\ a[4] = 0
  <2>1. <<32, 1, 0, 0>> \in Seq(Byte)
    BY DEF Byte
  <2>2. PICK head \in Seq(Byte) : head = <<32, 1, 0, 0>>
    BY <2>1, Zenon
  <2>3. Len(head) = 4 /\ head[1] = 32 /\ head[2] = 1 /\ head[3] = 0 /\ head[4] = 0
    BY <2>2
  <2>4. Len(head) <= 16
    BY <2>3
  <2>5. PICK x : /\ x = V6(head) /\ Prefix16(a, x)
                 /\ \A i \in 1 .. Len(head) : x[i] = head[i]
    BY <2>4, V6Prefix
  <2>6. x[1] = 32 /\ x[2] = 1 /\ x[3] = 0 /\ x[4] = 0
    BY <2>3, <2>5
  <2>7. Within(a, Block(x, 32)) <=> a[1] = x[1] /\ a[2] = x[2] /\ a[3] = x[3] /\ a[4] = x[4]
    BY <2>5 DEF Prefix16
  <2> QED  BY <2>2, <2>5, <2>6, <2>7
<1> QED  BY <1>1, <1>2, <1>3, <1>4, <1>5, <1>6, <1>7, <1>8

LEMMA OtherLength ==
  ASSUME NEW a \in Seq(Byte), NEW m \in Seq(Byte), NEW bits \in Nat, Len(a) # Len(m)
  PROVE  ~Within(a, Block(m, bits))
<1>1. ASSUME Within(a, Block(m, bits)) PROVE Len(a) = Len(m)
  BY <1>1 DEF Within, Block
<1> QED  BY <1>1

LEMMA FormsIff ==
  ASSUME NEW a \in Seq(Byte), NEW S, \A b \in S : Ipv4Block(b)
  PROVE  /\ Len(a) = 4 => (In(a, Forms(S)) <=> In(a, S))
         /\ Len(a) = 16 => (In(a, Forms(S)) <=>
                              (Ipv4FromMapped(a) \/ Ipv4FromCompatible(a)) /\ In(Embedded(a), S))
<1>1. In(a, Forms(S)) <=>
        \E b \in S : Within(a, b) \/ Within(a, MappedForm(b)) \/ Within(a, CompatibleForm(b))
  BY DEF In, Forms
<1>2. CASE Len(a) = 4
  <2>1. ASSUME NEW b \in S PROVE ~Within(a, MappedForm(b)) /\ ~Within(a, CompatibleForm(b))
    <3>1. PICK base \in Seq(Byte), bits \in 0 .. 24 : Len(base) = 4 /\ b = Block(base, bits)
      BY DEF Ipv4Block
    <3>2. Len(base) = 4
      BY <3>1
    <3>3. PICK m \in Seq(Byte) : MappedForm(Block(base, bits)) = Block(m, 96 + bits) /\ Len(m) = 16
      BY <3>2, MappedBase, Zenon
    <3>4. PICK n \in Seq(Byte) : CompatibleForm(Block(base, bits)) = Block(n, 96 + bits) /\ Len(n) = 16
      BY <3>2, CompatibleBase, Zenon
    <3>5. Len(m) = 16 /\ Len(n) = 16
      BY <3>3, <3>4
    <3>6. ~Within(a, Block(m, 96 + bits)) /\ ~Within(a, Block(n, 96 + bits))
      <4>1. 96 + bits \in Nat /\ Len(a) # Len(m) /\ Len(a) # Len(n)
        BY <1>2, <3>5
      <4> QED  BY <4>1, OtherLength
    <3> QED  BY <3>1, <3>3, <3>4, <3>6
  <2> QED  BY <1>1, <1>2, <2>1 DEF In
<1>3. CASE Len(a) = 16
  <2>1. ASSUME NEW b \in S
        PROVE  /\ ~Within(a, b)
               /\ Within(a, MappedForm(b)) <=> Ipv4FromMapped(a) /\ Within(Embedded(a), b)
               /\ Within(a, CompatibleForm(b)) <=> Ipv4FromCompatible(a) /\ Within(Embedded(a), b)
    <3>1. Len(b.base) = 4
      BY DEF Ipv4Block, Block
    <3>2. ~Within(a, b)
      BY <1>3, <3>1 DEF Within
    <3> QED  BY <1>3, <3>2, MappedIff, CompatibleIff
  <2> QED  BY <1>1, <1>3, <2>1 DEF In
<1> QED  BY <1>2, <1>3

LEMMA PrivateBlocks6 ==
  ASSUME NEW a \in Seq(Byte), Len(a) = 16
  PROVE  In(a, PrivateBlocks) <=>
           \/ (Ipv4FromMapped(a) \/ Ipv4FromCompatible(a)) /\ IsPrivateOrLoopbackIpv4(Embedded(a))
           \/ Loopback(a) \/ Leading(a[1], 7) = Leading(252, 7)
<1>1. In(a, PrivateBlocks) <=>
        \/ In(a, Forms(Private4)) \/ Within(a, Block([V6(<<>>) EXCEPT ![16] = 1], 128))
        \/ Within(a, Block(V6(<<252>>), 7))
  BY DEF In, PrivateBlocks
<1>2. \A b \in Private4 : Ipv4Block(b)
  BY Special4Blocks DEF Special4
<1>3. In(a, Forms(Private4)) <=>
        (Ipv4FromMapped(a) \/ Ipv4FromCompatible(a)) /\ In(Embedded(a), Private4)
  BY <1>2, FormsIff
<1>4. In(Embedded(a), Private4) <=> IsPrivateOrLoopbackIpv4(Embedded(a))
  BY EmbeddedBytes, PrivateIpv4
<1>5. /\ Within(a, Block([V6(<<>>) EXCEPT ![16] = 1], 128)) <=> Loopback(a)
      /\ Within(a, Block(V6(<<252>>), 7)) <=> Leading(a[1], 7) = Leading(252, 7)
  BY V6Blocks, Zenon
<1> QED  BY <1>1, <1>3, <1>4, <1>5

LEMMA SpecialBlocks6 ==
  ASSUME NEW a \in Seq(Byte), Len(a) = 16
  PROVE  In(a, SpecialBlocks) <=>
           \/ (Ipv4FromMapped(a) \/ Ipv4FromCompatible(a)) /\ IsUnsafeIpv4(Embedded(a))
           \/ Loopback(a) \/ Leading(a[1], 7) = Leading(252, 7)
           \/ Zero(a, 16) \/ (a[1] = 254 /\ Leading(a[2], 2) = Leading(128, 2)) \/ a[1] = 255
           \/ (a[1] = 32 /\ a[2] = 1 /\ a[3] = 13 /\ a[4] = 184) \/ (a[1] = 32 /\ a[2] = 2)
           \/ (a[1] = 32 /\ a[2] = 1 /\ a[3] = 0 /\ a[4] = 0)
<1>1. In(a, SpecialBlocks) <=>
        \/ In(a, PrivateBlocks) \/ In(a, Forms(Special4)) \/ Within(a, Block(V6(<<>>), 128))
        \/ Within(a, Block(V6(<<254, 128>>), 10)) \/ Within(a, Block(V6(<<255>>), 8))
        \/ Within(a, Block(V6(<<32, 1, 13, 184>>), 32)) \/ Within(a, Block(V6(<<32, 2>>), 16))
        \/ Within(a, Block(V6(<<32, 1, 0, 0>>), 32))
  BY DEF In, SpecialBlocks
<1>2. In(a, Forms(Special4)) <=>
        (Ipv4FromMapped(a) \/ Ipv4FromCompatible(a)) /\ In(Embedded(a), Special4)
  BY Special4Blocks, FormsIff
<1>3. In(Embedded(a), Special4) <=> IsUnsafeIpv4(Embedded(a))
  BY EmbeddedBytes, UnsafeIpv4
<1>4. IsPrivateOrLoopbackIpv4(Embedded(a)) => IsUnsafeIpv4(Embedded(a))
  BY DEF IsPrivateOrLoopbackIpv4, IsUnsafeIpv4
<1> QED  BY <1>1, <1>2, <1>3, <1>4, V6Blocks, PrivateBlocks6

LEMMA Blocks4 ==
  ASSUME NEW a \in Seq(Byte), Len(a) = 4
  PROVE  (In(a, PrivateBlocks) <=> In(a, Private4)) /\ (In(a, SpecialBlocks) <=> In(a, Special4))
<1>1. ASSUME NEW head \in Seq(Byte), Len(head) <= 16, NEW bits \in Nat
      PROVE  ~Within(a, Block(V6(head), bits))
  <2>1. PICK m \in Seq(Byte) : /\ m = V6(head) /\ Len(m) = 16
                               /\ \A i \in 1 .. Len(head) : m[i] = head[i]
                               /\ \A i \in 1 .. 16 : i > Len(head) => m[i] = 0
    BY <1>1, V6Bytes
  <2>2. Len(a) # Len(m)
    BY <2>1
  <2>3. ~Within(a, Block(m, bits))
    BY <2>2, OtherLength
  <2> QED  BY <2>1, <2>3
<1>2. ~Within(a, Block([V6(<<>>) EXCEPT ![16] = 1], 128))
  <2>1. PICK head \in Seq(Byte) : head = <<>> /\ Len(head) = 0
    <3>1. <<>> \in Seq(Byte) /\ Len(<<>>) = 0
      OBVIOUS
    <3> QED  BY <3>1, Zenon
  <2>2. Len(head) <= 16
    BY <2>1
  <2>3. PICK m \in Seq(Byte) : /\ m = V6(head) /\ Len(m) = 16
                               /\ \A i \in 1 .. Len(head) : m[i] = head[i]
                               /\ \A i \in 1 .. 16 : i > Len(head) => m[i] = 0
    BY <2>2, V6Bytes
  <2>4. 1 \in Byte /\ 16 \in 1 .. Len(m)
    BY <2>3 DEF Byte
  <2>5. PICK x \in Seq(Byte) : x = [m EXCEPT ![16] = 1] /\ Len(x) = Len(m)
    <3>1. [m EXCEPT ![16] = 1] \in Seq(Byte) /\ Len([m EXCEPT ![16] = 1]) = Len(m)
      BY <2>4, ExceptSeq
    <3> QED  BY <3>1, Zenon
  <2>6. Len(a) # Len(x)
    <3>1. Len(m) = 16 /\ Len(x) = Len(m)
      BY <2>3, <2>5
    <3> QED  BY <3>1
  <2>7. ~Within(a, Block(x, 128))
    BY <2>6, OtherLength
  <2> QED  BY <2>1, <2>3, <2>5, <2>7
<1>3. /\ ~Within(a, Block(V6(<<>>), 128)) /\ ~Within(a, Block(V6(<<252>>), 7))
      /\ ~Within(a, Block(V6(<<254, 128>>), 10)) /\ ~Within(a, Block(V6(<<255>>), 8))
      /\ ~Within(a, Block(V6(<<32, 1, 13, 184>>), 32)) /\ ~Within(a, Block(V6(<<32, 2>>), 16))
      /\ ~Within(a, Block(V6(<<32, 1, 0, 0>>), 32))
  <2>1. /\ <<>> \in Seq(Byte) /\ <<252>> \in Seq(Byte) /\ <<254, 128>> \in Seq(Byte)
        /\ <<255>> \in Seq(Byte) /\ <<32, 1, 13, 184>> \in Seq(Byte) /\ <<32, 2>> \in Seq(Byte)
        /\ <<32, 1, 0, 0>> \in Seq(Byte)
    BY DEF Byte
  <2>2. /\ Len(<<>>) <= 16 /\ Len(<<252>>) <= 16 /\ Len(<<254, 128>>) <= 16 /\ Len(<<255>>) <= 16
        /\ Len(<<32, 1, 13, 184>>) <= 16 /\ Len(<<32, 2>>) <= 16 /\ Len(<<32, 1, 0, 0>>) <= 16
    OBVIOUS
  <2>3. ~Within(a, Block(V6(<<>>), 128))
    <3>1. <<>> \in Seq(Byte) /\ Len(<<>>) <= 16
      BY <2>1, <2>2
    <3> QED  BY <1>1, <3>1, Zenon
  <2>4. ~Within(a, Block(V6(<<252>>), 7))
    <3>1. <<252>> \in Seq(Byte) /\ Len(<<252>>) <= 16
      BY <2>1, <2>2
    <3> QED  BY <1>1, <3>1, Zenon
  <2>5. ~Within(a, Block(V6(<<254, 128>>), 10))
    <3>1. <<254, 128>> \in Seq(Byte) /\ Len(<<254, 128>>) <= 16
      BY <2>1, <2>2
    <3> QED  BY <1>1, <3>1, Zenon
  <2>6. ~Within(a, Block(V6(<<255>>), 8))
    <3>1. <<255>> \in Seq(Byte) /\ Len(<<255>>) <= 16
      BY <2>1, <2>2
    <3> QED  BY <1>1, <3>1, Zenon
  <2>7. ~Within(a, Block(V6(<<32, 1, 13, 184>>), 32))
    <3>1. <<32, 1, 13, 184>> \in Seq(Byte) /\ Len(<<32, 1, 13, 184>>) <= 16
      BY <2>1, <2>2
    <3> QED  BY <1>1, <3>1, Zenon
  <2>8. ~Within(a, Block(V6(<<32, 2>>), 16))
    <3>1. <<32, 2>> \in Seq(Byte) /\ Len(<<32, 2>>) <= 16
      BY <2>1, <2>2
    <3> QED  BY <1>1, <3>1, Zenon
  <2>9. ~Within(a, Block(V6(<<32, 1, 0, 0>>), 32))
    <3>1. <<32, 1, 0, 0>> \in Seq(Byte) /\ Len(<<32, 1, 0, 0>>) <= 16
      BY <2>1, <2>2
    <3> QED  BY <1>1, <3>1, Zenon
  <2> QED  BY <2>3, <2>4, <2>5, <2>6, <2>7, <2>8, <2>9, Zenon
<1>4. (\A b \in Special4 : Ipv4Block(b)) /\ (\A b \in Private4 : Ipv4Block(b))
  BY Special4Blocks DEF Special4
<1>5. (In(a, Forms(Private4)) <=> In(a, Private4)) /\ (In(a, Forms(Special4)) <=> In(a, Special4))
  BY <1>4, FormsIff
<1>6. In(a, PrivateBlocks) <=> In(a, Private4)
  BY <1>2, <1>3, <1>5 DEF In, PrivateBlocks
<1>7. In(a, SpecialBlocks) <=> In(a, PrivateBlocks) \/ In(a, Forms(Special4))
  BY <1>3 DEF In, SpecialBlocks
<1>8. In(a, Private4) => In(a, Special4)
  BY DEF In, Special4
<1> QED  BY <1>5, <1>6, <1>7, <1>8

IsAddress(a) == a \in Seq(Byte) /\ Len(a) \in {4, 16}

(* isUnsafeIp accepts every address outside the documented blocks and no     *)
(* address inside them, in any of the three forms.                           *)
THEOREM UnsafeIsSpecial ==
  ASSUME NEW a, IsAddress(a)
  PROVE  IsUnsafeIp(a) <=> In(a, SpecialBlocks)
<1>0. a \in Seq(Byte) /\ (Len(a) = 4 \/ Len(a) = 16)
  BY DEF IsAddress
<1>1. CASE Len(a) = 4
  BY <1>0, <1>1, Blocks4, UnsafeIpv4 DEF IsUnsafeIp
<1>2. CASE Len(a) = 16
  <2>1. IsUnsafeIp(a) <=> IsUnsafeIpv6(a)
    BY <1>2 DEF IsUnsafeIp
  <2>2. CASE Ipv4FromMapped(a) \/ Ipv4FromCompatible(a)
    <3>1. a[1] = 0
      BY <2>2 DEF Ipv4FromMapped, Ipv4FromCompatible, Zero
    <3>2. Leading(a[1], 7) # Leading(252, 7)
      <4>1. 0 \in Byte /\ 252 \in Byte /\ 0 \div 2 = 0 /\ 252 \div 2 = 126
        BY DEF Byte
      <4>2. Leading(0, 7) = 0 /\ Leading(252, 7) = 126
        BY <4>1, LeadingBits
      <4> QED  BY <3>1, <4>2
    <3>3. Loopback(a) \/ Zero(a, 16) => IsUnsafeIpv4(Embedded(a))
      <4>1. Loopback(a) \/ Zero(a, 16) => a[13] = 0
        BY DEF Loopback, Zero
      <4>2. Embedded(a)[1] = a[12 + 1]
        BY <1>0, <1>2, EmbeddedBytes
      <4> QED  BY <4>1, <4>2 DEF IsUnsafeIpv4
    <3>4. In(a, SpecialBlocks) <=> IsUnsafeIpv4(Embedded(a))
      BY <1>0, <1>2, <2>2, <3>1, <3>2, <3>3, SpecialBlocks6
    <3> QED  BY <2>1, <2>2, <3>4 DEF IsUnsafeIpv6
  <2>3. CASE ~(Ipv4FromMapped(a) \/ Ipv4FromCompatible(a))
    BY <1>0, <1>2, <2>1, <2>3, SpecialBlocks6 DEF IsUnsafeIpv6
  <2> QED  BY <2>2, <2>3
<1> QED  BY <1>0, <1>1, <1>2

(* isPrivateOrLoopbackIp accepts the private and loopback blocks, except     *)
(* ::1, which it takes for the IPv4-compatible form of 0.0.0.1.              *)
THEOREM PrivateIsListed ==
  ASSUME NEW a, IsAddress(a)
  PROVE  IsPrivateOrLoopbackIp(a) <=> In(a, PrivateBlocks) /\ ~(Len(a) = 16 /\ Loopback(a))
<1>0. a \in Seq(Byte) /\ (Len(a) = 4 \/ Len(a) = 16)
  BY DEF IsAddress
<1>1. CASE Len(a) = 4
  BY <1>0, <1>1, Blocks4, PrivateIpv4 DEF IsPrivateOrLoopbackIp
<1>2. CASE Len(a) = 16
  <2>1. Loopback(a) => Ipv4FromCompatible(a)
    BY DEF Loopback, Ipv4FromCompatible, Zero
  <2>2. Loopback(a) => ~IsPrivateOrLoopbackIpv4(Embedded(a))
    <3>1. Loopback(a) => a[13] = 0
      BY DEF Loopback, Zero
    <3>2. Embedded(a)[1] = a[12 + 1]
      BY <1>0, <1>2, EmbeddedBytes
    <3> QED  BY <3>1, <3>2 DEF IsPrivateOrLoopbackIpv4
  <2>3. CASE Ipv4FromMapped(a) \/ Ipv4FromCompatible(a)
    <3>1. a[1] = 0
      BY <2>3 DEF Ipv4FromMapped, Ipv4FromCompatible, Zero
    <3>2. Leading(a[1], 7) # Leading(252, 7)
      <4>1. 0 \in Byte /\ 252 \in Byte /\ 0 \div 2 = 0 /\ 252 \div 2 = 126
        BY DEF Byte
      <4>2. Leading(0, 7) = 0 /\ Leading(252, 7) = 126
        BY <4>1, LeadingBits
      <4> QED  BY <3>1, <4>2
    <3>3. IsPrivateOrLoopbackIp(a) <=> IsPrivateOrLoopbackIpv4(Embedded(a))
      BY <1>2, <2>3 DEF IsPrivateOrLoopbackIp
    <3> QED  BY <1>0, <1>2, <2>2, <2>3, <3>2, <3>3, PrivateBlocks6
  <2>4. CASE ~(Ipv4FromMapped(a) \/ Ipv4FromCompatible(a))
    <3>1. IsPrivateOrLoopbackIp(a) <=> Loopback(a) \/ Leading(a[1], 7) = Leading(252, 7)
      BY <1>2, <2>4 DEF IsPrivateOrLoopbackIp
    <3> QED  BY <1>0, <1>2, <2>1, <2>4, <3>1, PrivateBlocks6
  <2> QED  BY <2>3, <2>4
<1> QED  BY <1>0, <1>1, <1>2

-----------------------------------------------------------------------------
(* A request under way has passed the checks of its host and of its hop, and *)
(* one that may connect the check of its addresses.                          *)
FetchType ==
  [at : {"idle", "lookup", "connect", "response", "body", "done", "failed"},
   host : Hosts \cup Addresses, depth : Nat, addresses : SUBSET Addresses, bytes : Nat,
   cause : {"none", "policy", "certificate", "network", "status", "content"}, transient : BOOLEAN]
Permitted(host, a) ==
  IsUnsafeIp(a) => host \in options.privateAddressHosts /\ IsPrivateOrLoopbackIp(a)
Pinned(host) == options.follow /\ options.pinned => HostAllowed(host)
Checked(f) ==
  /\ f \in FetchType
  /\ f.at \in {"lookup", "connect", "response", "body"} => Pinned(f.host) /\ f.depth <= MaxRedirects
  /\ f.at = "connect" => \A a \in f.addresses : Permitted(f.host, a)
Contact(c) ==
  c.address \in Addresses /\ Permitted(c.host, c.address) /\ Pinned(c.host) /\ c.hop <= MaxRedirects
FetchInv == Checked(fetch) /\ \A c \in contacted : Contact(c)

Failed(f, cause, t) == [f EXCEPT !.at = "failed", !.cause = cause, !.transient = t]

LEMMA FailedType ==
  ASSUME NEW s \in FetchType, NEW t \in BOOLEAN,
         NEW cause \in {"policy", "certificate", "network", "status", "content"}
  PROVE  Failed(s, cause, t) \in FetchType /\ Failed(s, cause, t).at = "failed"
BY Zenon DEF FetchType, Failed

LEMMA StartType ==
  ASSUME FetchAssumption
  PROVE  Start \in FetchType
<1>1. {} \in SUBSET Addresses /\ AllowedHost \in Hosts \cup Addresses
  BY DEF FetchAssumption
<1> QED  BY <1>1 DEF Start, FetchType

LEMMA FailsIsChecked ==
  ASSUME FetchAssumption, NEW t \in BOOLEAN,
         NEW cause \in {"policy", "certificate", "network", "status", "content"}
  PROVE  Checked(Fails(cause, t))
<1>1. Start \in FetchType
  BY StartType
<1>2. Failed(Start, cause, t) \in FetchType /\ Failed(Start, cause, t).at = "failed"
  BY <1>1, FailedType, Zenon
<1>3. Fails(cause, t) = Failed(Start, cause, t)
  BY DEF Fails, Failed
<1> QED  BY <1>2, <1>3 DEF Checked

LEMMA ErrorIsChecked ==
  ASSUME FetchAssumption, NEW cause \in {"policy", "certificate", "network"}
  PROVE  Checked(HttpsTransportError(cause))
<1>1. PICK t \in BOOLEAN : t = (options.follow /\ cause # "certificate")
  BY Zenon
<1> QED  BY <1>1, FailsIsChecked, Zenon DEF HttpsTransportError

LEMMA UrlHosts ==
  ASSUME NEW url \in Urls
  PROVE  url.host \in Hosts \cup Addresses
BY DEF Urls, Url

LEMMA RequestIsChecked ==
  ASSUME FetchAssumption, NEW url \in Urls, NEW depth \in Nat
  PROVE  Checked(Request(url, depth))
<1>1. PICK h \in Hosts \cup Addresses : h = url.host
  BY UrlHosts
<1>2. CASE Refused(url, depth)
  BY <1>2, FailsIsChecked, Zenon DEF Request
<1>3. CASE ~Refused(url, depth) /\ Literal(h)
  <2>1. h \in Addresses /\ ~IsUnsafeIp(h) /\ (options.pinned => HostAllowed(h)) /\ ~(depth > MaxRedirects)
    BY <1>1, <1>3 DEF Refused, Literal
  <2>2. PICK as \in SUBSET Addresses : as = {h}
    BY <2>1, Zenon
  <2>3. Request(url, depth) = [Start EXCEPT !.at = "connect", !.host = h, !.depth = depth, !.addresses = as]
    BY <1>1, <1>3, <2>2 DEF Request
  <2> DEFINE x == [Start EXCEPT !.at = "connect", !.host = h, !.depth = depth, !.addresses = as]
  <2>4. x \in FetchType /\ x.at = "connect" /\ x.host = h /\ x.depth = depth /\ x.addresses = as
    BY ZenonT(30) DEF FetchAssumption, Start, FetchType
  <2> HIDE DEF x
  <2>5. depth <= MaxRedirects
    BY <2>1 DEF FetchAssumption
  <2>6. Checked(x)
    BY <2>1, <2>2, <2>4, <2>5 DEF Checked, Permitted, Pinned
  <2> QED  BY <2>3, <2>6 DEF x
<1>4. CASE ~Refused(url, depth) /\ ~Literal(h)
  <2>1. (options.pinned => HostAllowed(h)) /\ ~(depth > MaxRedirects)
    BY <1>1, <1>4 DEF Refused
  <2>2. Request(url, depth) = [Start EXCEPT !.at = "lookup", !.host = h, !.depth = depth]
    BY <1>1, <1>4 DEF Request
  <2> DEFINE x == [Start EXCEPT !.at = "lookup", !.host = h, !.depth = depth]
  <2>3. x \in FetchType /\ x.at = "lookup" /\ x.host = h /\ x.depth = depth
    BY ZenonT(30) DEF FetchAssumption, Start, FetchType
  <2> HIDE DEF x
  <2>4. depth <= MaxRedirects
    BY <2>1 DEF FetchAssumption
  <2>5. Checked(x)
    BY <2>1, <2>3, <2>4 DEF Checked, Pinned
  <2> QED  BY <2>2, <2>5 DEF x
<1> QED  BY <1>2, <1>3, <1>4

(* The call moves on without a new host.                                     *)
LEMMA StillChecked ==
  ASSUME NEW f, Checked(f), f.at \in {"lookup", "connect", "response", "body"},
         NEW at \in {"response", "body", "done"}, NEW as \in SUBSET Addresses, NEW n \in Nat
  PROVE  /\ Checked([f EXCEPT !.at = at]) /\ Checked([f EXCEPT !.at = at, !.addresses = as])
         /\ Checked([f EXCEPT !.bytes = n])
         /\ (\A a \in as : Permitted(f.host, a)) =>
              Checked([f EXCEPT !.at = "connect", !.addresses = as])
<1>1. f \in FetchType /\ Pinned(f.host) /\ f.depth <= MaxRedirects
  BY DEF Checked
<1> DEFINE x == [f EXCEPT !.at = at]
           y == [f EXCEPT !.at = at, !.addresses = as]
           u == [f EXCEPT !.bytes = n]
           v == [f EXCEPT !.at = "connect", !.addresses = as]
<1>2. x \in FetchType /\ x.at = at /\ x.host = f.host /\ x.depth = f.depth
  BY <1>1 DEF FetchType
<1>3. y \in FetchType /\ y.at = at /\ y.host = f.host /\ y.depth = f.depth
  BY <1>1, Zenon DEF FetchType
<1>4. u \in FetchType /\ u.at = f.at /\ u.host = f.host /\ u.depth = f.depth /\ u.addresses = f.addresses
  BY <1>1 DEF FetchType
<1>5. v \in FetchType /\ v.at = "connect" /\ v.host = f.host /\ v.depth = f.depth /\ v.addresses = as
  BY <1>1, Zenon DEF FetchType
<1> HIDE DEF x, y, u, v
<1>6. Checked(x) /\ Checked(y)
  BY <1>1, <1>2, <1>3 DEF Checked
<1>7. Checked(u)
  BY <1>1, <1>4 DEF Checked
<1>8. (\A a \in as : Permitted(f.host, a)) => Checked(v)
  BY <1>1, <1>5, Zenon DEF Checked
<1> QED  BY <1>6, <1>7, <1>8, Zenon DEF x, y, u, v

LEMMA StartsChecked ==
  ASSUME FetchAssumption, FetchInv, NEW url \in Urls, FetchJson(url) \/ SsrfSafeFetch(url) \/ Redirect(url)
  PROVE  \E f : Checked(f) /\ fetch' = f
<1>1. CASE FetchJson(url)
  <2>1. Checked(Request(url, 0))
    BY RequestIsChecked
  <2> QED  BY <1>1, <2>1 DEF FetchJson
<1>2. CASE Redirect(url)
  <2>1. PICK d \in Nat : d = fetch.depth
    BY DEF FetchInv, Checked, FetchType
  <2>2. Checked(Request(url, d + 1))
    BY RequestIsChecked
  <2>3. Checked(Fails("policy", FALSE))
    BY FailsIsChecked, Zenon
  <2>4. fetch' = Fails("policy", FALSE) \/ fetch' = Request(url, d + 1)
    BY <1>2, <2>1, Zenon DEF Redirect
  <2> QED  BY <2>2, <2>3, <2>4, Zenon
<1>3. CASE SsrfSafeFetch(url)
  <2>1. ~options.follow
    BY <1>3 DEF SsrfSafeFetch
  <2>2. PICK h \in Hosts \cup Addresses : h = url.host
    BY UrlHosts
  <2>3. Checked(Fails("policy", FALSE))
    BY FailsIsChecked, Zenon
  <2>4. Checked([Start EXCEPT !.at = "lookup", !.host = h])
    <3> DEFINE x == [Start EXCEPT !.at = "lookup", !.host = h]
    <3>1. x \in FetchType /\ x.at = "lookup" /\ x.depth = 0
      BY Zenon DEF FetchAssumption, Start, FetchType
    <3> HIDE DEF x
    <3>2. 0 <= MaxRedirects
      BY DEF FetchAssumption
    <3>3. Checked(x)
      BY <2>1, <3>1, <3>2 DEF Checked, Pinned
    <3> QED  BY <3>3 DEF x
  <2>5. ASSUME h \in Addresses, ~IsUnsafeIp(h)
        PROVE  Checked([Start EXCEPT !.at = "connect", !.host = h, !.addresses = {h}])
    <3>1. PICK as \in SUBSET Addresses : as = {h}
      BY <2>5, Zenon
    <3> DEFINE x == [Start EXCEPT !.at = "connect", !.host = h, !.addresses = as]
    <3>2. x \in FetchType /\ x.at = "connect" /\ x.depth = 0 /\ x.host = h /\ x.addresses = as
      BY ZenonT(30) DEF FetchAssumption, Start, FetchType
    <3> HIDE DEF x
    <3>3. 0 <= MaxRedirects
      BY DEF FetchAssumption
    <3>4. Checked(x)
      BY <2>1, <2>5, <3>1, <3>2, <3>3 DEF Checked, Pinned, Permitted
    <3> QED  BY <3>1, <3>4 DEF x
  <2>6. \/ fetch' = Fails("policy", FALSE)
        \/ fetch' = [Start EXCEPT !.at = "lookup", !.host = h]
        \/ /\ h \in Addresses /\ ~IsUnsafeIp(h)
           /\ fetch' = [Start EXCEPT !.at = "connect", !.host = h, !.addresses = {h}]
    BY <1>3, <2>2, Zenon DEF SsrfSafeFetch, Literal
  <2> QED  BY <2>3, <2>4, <2>5, <2>6, Zenon
<1> QED  BY <1>1, <1>2, <1>3

LEMMA LookupIsChecked ==
  ASSUME FetchAssumption, FetchInv, NEW as \in Answers, SsrfSafeLookup(as)
  PROVE  \E f : Checked(f) /\ fetch' = f
<1>1. as \in SUBSET Addresses /\ Checked(fetch) /\ fetch.at = "lookup"
  BY Zenon DEF FetchAssumption, FetchInv, SsrfSafeLookup
<1>2. CASE (\E a \in as : IsUnsafeIp(a)) /\ ~Exempt(fetch.host, as)
  <2>1. PICK e : e = HttpsTransportError("policy") /\ Checked(e)
    BY ErrorIsChecked
  <2>2. PICK h \in Hosts \cup Addresses : h = fetch.host
    BY <1>1 DEF Checked, FetchType
  <2> DEFINE x == [e EXCEPT !.host = h, !.addresses = as]
  <2>3. e.at = "failed" /\ e \in FetchType
    BY <2>1 DEF HttpsTransportError, Fails, Start, Checked
  <2>4. x \in FetchType /\ x.at = "failed"
    BY <1>1, <2>3, Zenon DEF FetchType
  <2>5. fetch' = x
    BY <1>2, <2>1, <2>2, Zenon DEF SsrfSafeLookup
  <2> HIDE DEF x
  <2> QED  BY <2>4, <2>5 DEF Checked
<1>3. CASE ~((\E a \in as : IsUnsafeIp(a)) /\ ~Exempt(fetch.host, as))
  <2>1. \A a \in as : Permitted(fetch.host, a)
    BY <1>3, Zenon DEF Permitted, Exempt
  <2>2. fetch' = [fetch EXCEPT !.at = "connect", !.addresses = as]
    BY <1>3, Zenon DEF SsrfSafeLookup
  <2>3. Checked([fetch EXCEPT !.at = "connect", !.addresses = as])
    BY <1>1, <2>1, StillChecked, Zenon
  <2> QED  BY <2>2, <2>3
<1> QED  BY <1>2, <1>3, Zenon

LEMMA FetchStep ==
  ASSUME FetchAssumption, FetchInv, FetchNext
  PROVE  FetchInv'
<1>0. Checked(fetch) /\ \A c \in contacted : Contact(c)
  BY DEF FetchInv
<1>1. UNCHANGED options
  BY Zenon DEF FetchNext, FetchJson, SsrfSafeFetch, Redirect, SsrfSafeLookup, Connect, Reuse, CertificateRefused,
         RedirectToNowhere, RedirectReturned, BadStatus, TooLong, Ok, Data, End, NetworkFails
<1>2. ASSUME NEW f, Checked(f) PROVE Checked(f)'
  BY <1>1, <1>2 DEF Checked, Permitted, Pinned, HostAllowed
<1>3. ASSUME NEW c, Contact(c) PROVE Contact(c)'
  BY <1>1, <1>3 DEF Contact, Permitted, Pinned, HostAllowed
<1>4. ASSUME NEW f, Checked(f), fetch' = f, UNCHANGED contacted PROVE FetchInv'
  <2>1. Checked(f)' /\ \A c \in contacted' : Contact(c)'
    BY <1>0, <1>2, <1>3, <1>4
  <2> QED  BY <1>4, <2>1 DEF FetchInv
<1>5. CASE \E url \in Urls : FetchJson(url) \/ SsrfSafeFetch(url) \/ Redirect(url)
  <2>1. UNCHANGED contacted
    BY <1>5, Zenon DEF FetchJson, SsrfSafeFetch, Redirect
  <2> QED  BY <1>4, <1>5, <2>1, StartsChecked
<1>6. CASE \E as \in Answers : SsrfSafeLookup(as)
  <2>1. UNCHANGED contacted
    BY <1>6 DEF SsrfSafeLookup
  <2> QED  BY <1>4, <1>6, <2>1, LookupIsChecked, Zenon
<1>7. CASE Connect
  <2>1. PICK a \in fetch.addresses :
          contacted' = {[host |-> fetch.host, address |-> a, hop |-> fetch.depth]}
    BY <1>7 DEF Connect
  <2>2. fetch.at = "connect"
    BY <1>7 DEF Connect
  <2>3. a \in Addresses /\ Permitted(fetch.host, a) /\ Pinned(fetch.host) /\ fetch.depth <= MaxRedirects
    BY <1>0, <2>1, <2>2 DEF Checked, FetchType
  <2>4. PICK c : c = [host |-> fetch.host, address |-> a, hop |-> fetch.depth]
    BY Zenon
  <2>5. Contact(c)
    BY <2>3, <2>4 DEF Contact
  <2>6. \A d \in contacted' : Contact(d)'
    BY <1>3, <2>1, <2>4, <2>5
  <2>7. PICK es \in SUBSET Addresses : es = {}
    BY Zenon
  <2>8. Checked([fetch EXCEPT !.at = "response", !.addresses = es])
    BY <1>0, <2>2, StillChecked, Zenon
  <2>9. \E f : Checked(f) /\ f = fetch'
    BY <1>0, <1>7, <2>7, <2>8 DEF Connect
  <2> QED  BY <1>2, <2>6, <2>9 DEF FetchInv
<1>8. CASE CertificateRefused \/ NetworkFails
  <2>1. Checked(HttpsTransportError("certificate")) /\ Checked(HttpsTransportError("network"))
    BY ErrorIsChecked
  <2> QED  BY <1>4, <1>8, <2>1 DEF CertificateRefused, NetworkFails
<1>9. CASE RedirectToNowhere \/ BadStatus \/ TooLong
  <2>1. ASSUME NEW t \in BOOLEAN, NEW cause \in {"policy", "status", "content"} PROVE Checked(Fails(cause, t))
    BY FailsIsChecked
  <2> QED  BY <1>4, <1>9, <2>1, Zenon DEF RedirectToNowhere, BadStatus, TooLong
<1>10. CASE RedirectReturned \/ Ok
  <2>1. /\ fetch.at = "response" /\ UNCHANGED contacted
        /\ \E at \in {"body", "done"} : fetch' = [fetch EXCEPT !.at = at]
    BY <1>10 DEF RedirectReturned, Ok
  <2>2. ASSUME NEW at \in {"body", "done"} PROVE Checked([fetch EXCEPT !.at = at])
    BY <1>0, <2>1, StillChecked, Zenon
  <2> QED  BY <1>4, <2>1, <2>2
<1>11. CASE Data
  <2>1. PICK n \in Nat : n = fetch.bytes + 1
    BY <1>0 DEF Checked, FetchType
  <2>2. fetch.at = "body" /\ UNCHANGED contacted /\ fetch' = [fetch EXCEPT !.bytes = n]
    BY <1>0, <1>11, <2>1 DEF Data, Checked, FetchType
  <2>3. Checked([fetch EXCEPT !.bytes = n])
    BY <1>0, <2>2, StillChecked, Zenon
  <2> QED  BY <1>4, <2>2, <2>3
<1>12. CASE End
  <2>1. fetch.at = "body" /\ UNCHANGED contacted
    BY <1>12 DEF End
  <2>2. Checked([fetch EXCEPT !.at = "done"])
    BY <1>0, <2>1, StillChecked, Zenon
  <2>3. Checked(Fails("content", FALSE))
    BY FailsIsChecked, Zenon
  <2> QED  BY <1>4, <1>12, <2>1, <2>2, <2>3, Zenon DEF End
<1>13. CASE Reuse
  <2>1. PICK b \in contacted :
          contacted' = {[host |-> fetch.host, address |-> b.address, hop |-> fetch.depth]} /\ b.host = fetch.host
    BY <1>13 DEF Reuse
  <2>2. fetch.at \in {"lookup", "connect"} /\ fetch' = [fetch EXCEPT !.at = "response", !.addresses = {}]
    BY <1>13 DEF Reuse
  <2>3. Contact(b) /\ Pinned(fetch.host) /\ fetch.depth <= MaxRedirects
    BY <1>0, <2>1, <2>2 DEF Checked
  <2>4. PICK c : c = [host |-> fetch.host, address |-> b.address, hop |-> fetch.depth]
    BY Zenon
  <2>5. Contact(c)
    BY <2>1, <2>3, <2>4 DEF Contact
  <2>6. \A d \in contacted' : Contact(d)'
    BY <1>3, <2>1, <2>4, <2>5
  <2>7. PICK es \in SUBSET Addresses : es = {}
    BY Zenon
  <2>8. Checked([fetch EXCEPT !.at = "response", !.addresses = es])
    BY <1>0, <2>2, StillChecked, Zenon
  <2>9. \E f : Checked(f) /\ f = fetch'
    BY <2>2, <2>7, <2>8
  <2> QED  BY <1>2, <2>6, <2>9 DEF FetchInv
<1> QED  BY <1>5, <1>6, <1>7, <1>8, <1>9, <1>10, <1>11, <1>12, <1>13 DEF FetchNext

(* A request that connects has been checked, after every step of fetchJson,  *)
(* of createSsrfSafeFetch and of their lookup.                               *)
THEOREM FetchInvariant == FetchSpec => []FetchInv
<1>1. FetchInit => FetchInv
  <2> SUFFICES ASSUME FetchInit PROVE FetchInv
    OBVIOUS
  <2>1. {} \in SUBSET Addresses /\ AllowedHost \in Hosts \cup Addresses
    BY FetchAssumption DEF FetchAssumption
  <2>2. Start \in FetchType /\ Start.at = "idle"
    BY <2>1 DEF Start, FetchType
  <2> QED  BY <2>2 DEF FetchInit, FetchInv, Checked
<1>2. FetchInv /\ [FetchNext]_fetchVars => FetchInv'
  <2> SUFFICES ASSUME FetchInv, [FetchNext]_fetchVars PROVE FetchInv'
    OBVIOUS
  <2>1. CASE FetchNext
    BY <2>1, FetchAssumption, FetchStep
  <2>2. CASE UNCHANGED fetchVars
    BY <2>2 DEF fetchVars, FetchInv, Checked, Contact, Permitted, Pinned, HostAllowed
  <2> QED  BY <2>1, <2>2
<1> QED  BY <1>1, <1>2, PTL DEF FetchSpec

(* Whatever names resolve to and wherever servers redirect, a fetch connects *)
(* only outside the documented blocks, or to a private address of a host     *)
(* that is exempt by name, inside its boundary and within its redirects.     *)
THEOREM ContactsArePermitted == FetchSpec => []ContactedIsPermitted
<1>1. FetchInv => ContactedIsPermitted
  <2> SUFFICES ASSUME FetchInv, NEW c \in contacted
               PROVE  /\ In(c.address, SpecialBlocks) =>
                           c.host \in options.privateAddressHosts /\ In(c.address, PrivateBlocks)
                      /\ options.follow /\ options.pinned =>
                           c.host = AllowedHost \/ (options.domainBoundary /\ c.host \in Subdomains)
                      /\ c.hop <= MaxRedirects
    BY DEF ContactedIsPermitted
  <2>1. Contact(c)
    BY DEF FetchInv
  <2>2. PICK a \in Addresses : a = c.address
    BY <2>1 DEF Contact
  <2>3. IsAddress(a)
    BY FetchAssumption DEF FetchAssumption, IsAddress, Byte
  <2>4. In(a, SpecialBlocks) => IsUnsafeIp(a)
    BY <2>3, UnsafeIsSpecial
  <2>5. IsPrivateOrLoopbackIp(a) => In(a, PrivateBlocks)
    BY <2>3, PrivateIsListed
  <2> QED  BY <2>1, <2>2, <2>4, <2>5 DEF Contact, Permitted, Pinned, HostAllowed
<1> QED  BY <1>1, FetchInvariant, PTL
=============================================================================
