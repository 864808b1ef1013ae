---------------------------- MODULE MachineProofs ----------------------------
(***************************************************************************)
(* The machine: the flat array implements the five memories of RamDisk,    *)
(* for any size of an address space, any bytes and any files; and the      *)
(* processor keeps its types and holds interrupts after an EI, whatever    *)
(* program fills the memory.                                               *)
(***************************************************************************)
EXTENDS KvazAccess, Machine, TLAPS

-----------------------------------------------------------------------------
(* The permutation of addresses                                            *)

(* A number has one quotient and one remainder.                            *)
LEMMA UniqueDigits ==
  ASSUME NEW n \in Nat, n >= 1, NEW h \in Nat, NEW k \in Nat,
         NEW r \in 0..(n - 1), NEW s \in 0..(n - 1), n * h + r = n * k + s
  PROVE  h = k /\ r = s
<1>1. \A i, j \in Nat : i < j => n * j >= n * i + n
  <2> TAKE i, j \in Nat
  <2>1. ASSUME i < j PROVE n * j >= n * i + n
    <3>1. PICK d \in Nat : j = i + 1 + d
      <4>1. j - i - 1 \in Nat /\ j = i + 1 + (j - i - 1)
        BY <2>1
      <4> QED
        BY <4>1
    <3>2. n * j = n * i + n + n * d /\ n * d \in Nat /\ n * i \in Nat
      BY <3>1
    <3> QED
      BY <3>2
  <2> QED
    BY <2>1
<1>2. n * h \in Nat /\ n * k \in Nat
  OBVIOUS
<1>3. ~(h < k)
  BY <1>1, <1>2
<1>4. ~(k < h)
  BY <1>1, <1>2
<1> QED
  BY <1>3, <1>4

LEMMA QuotientAndRemainder ==
  ASSUME NEW a \in Nat, NEW n \in Nat, n >= 1
  PROVE  a \div n \in Nat /\ a % n \in 0..(n - 1) /\ a = n * (a \div n) + (a % n)
OBVIOUS

LEMMA Digits ==
  ASSUME NEW a \in Nat, NEW n \in Nat, n >= 1
  PROVE  \E d \in Nat, r \in 0..(n - 1) : r = a % n /\ a = n * d + r
<1>1. a \div n \in Nat /\ a % n \in 0..(n - 1) /\ a = n * (a \div n) + (a % n)
  BY QuotientAndRemainder
<1> QED
  BY <1>1

(* A number lies below a multiple if its quotient does.                    *)
LEMMA BelowMultiple ==
  ASSUME NEW n \in Nat, n >= 1, NEW h \in Nat, NEW m \in Nat, NEW r \in 0..(n - 1)
  PROVE  n * h + r < n * m <=> h < m
<1>1. \A i, j \in Nat : i <= j => n * i <= n * j
  <2> TAKE i, j \in Nat
  <2>1. ASSUME i <= j PROVE n * i <= n * j
    <3>1. PICK d \in Nat : j = i + d
      <4>1. j - i \in Nat /\ j = i + (j - i)
        BY <2>1
      <4> QED
        BY <4>1
    <3>2. n * j = n * i + n * d /\ n * d \in Nat /\ n * i \in Nat
      BY <3>1
    <3> QED
      BY <3>2
  <2> QED
    BY <2>1
<1>2. n * h \in Nat /\ n * m \in Nat /\ n * (h + 1) = n * h + n
  OBVIOUS
<1>3. h < m => n * (h + 1) <= n * m
  BY <1>1
<1>4. ~(h < m) => n * m <= n * h
  BY <1>1
<1> QED
  BY <1>2, <1>3, <1>4

(* An address has a half, an eighth of the half and an offset; tobank()    *)
(* moves the eighth to the bottom.                                         *)
LEMMA Parts ==
  ASSUME NEW a \in Nat
  PROVE  \E h \in Nat, q \in 0..3, r \in 0..(Block - 1) :
           /\ a = (4 * Block) * h + (Block * q + r)
           /\ tobank(a) = (4 * Block) * (h % 16) + (4 * r + q)
<1>1. Block \in Nat /\ Block >= 1
  BY BlockAssumption DEF BlockAssumption
<1> DEFINE Q == a \div Block
           r == a % Block
           h == Q \div 4
           q == Q % 4
<1>2. Q \in Nat /\ r \in 0..(Block - 1) /\ a = Block * Q + r
  BY <1>1
<1>3. h \in Nat /\ q \in 0..3 /\ Q = 4 * h + q
  BY <1>2
<1>4. tobank(a) = (4 * Block) * ((a \div (4 * Block)) % 16) + 4 * r + q
  BY DEF tobank
<1> HIDE DEF Q, r, h, q
<1>5. a = (4 * Block) * h + (Block * q + r)
  <2>1. Block * Q = Block * (4 * h + q)
    BY <1>3
  <2>2. Block * (4 * h + q) = (4 * Block) * h + Block * q
    BY <1>1, <1>3
  <2> QED
    BY <1>1, <1>2, <1>3, <2>1, <2>2
<1>6. Block * q + r \in 0..(4 * Block - 1)
  <2>1. Block * q \in {0, Block, 2 * Block, 3 * Block}
    BY <1>1, <1>3
  <2> QED
    BY <1>1, <1>2, <2>1
<1>7. a \div (4 * Block) = h
  <2> DEFINE n == 4 * Block
  <2>1. n \in Nat /\ n >= 1
    BY <1>1
  <2> HIDE DEF n
  <2>2. a \div n \in Nat /\ a % n \in 0..(n - 1) /\ a = n * (a \div n) + (a % n)
    BY <2>1, QuotientAndRemainder
  <2>3. PICK d \in Nat, e \in 0..(n - 1) : d = a \div n /\ e = a % n
    BY <2>2
  <2>4. PICK s \in 0..(n - 1) : s = Block * q + r
    BY <1>6 DEF n
  <2>7. a = n * h + s
    BY <1>5, <2>4 DEF n
  <2>6. n * d + e = n * h + s
    BY <2>2, <2>3, <2>7
  <2>5. a \div n = h
    BY <1>3, <2>1, <2>3, <2>6, UniqueDigits
  <2> QED
    BY <2>5 DEF n
<1>8. tobank(a) = (4 * Block) * (h % 16) + (4 * r + q)
  <2>1. PICK e \in 0..15 : e = h % 16
    BY <1>3
  <2>2. tobank(a) = (4 * Block) * e + 4 * r + q
    BY <1>4, <1>7, <2>1
  <2>3. (4 * Block) * e \in Nat
    BY <1>1
  <2>4. tobank(a) = (4 * Block) * e + (4 * r + q)
    BY <1>1, <1>2, <1>3, <2>2, <2>3
  <2> QED
    BY <2>1, <2>4
<1> QED
  BY <1>2, <1>3, <1>5, <1>8

(* The sixteen halves that tobank() tells apart.                           *)
Around == 8 * AddressSpace

LEMMA Halves ==
  ASSUME NEW n \in Nat, n = 4 * Block
  PROVE  n >= 1 /\ Around = n * 16 /\ Around \in Nat /\ Around >= 1
BY BlockAssumption DEF BlockAssumption, Around, AddressSpace

LEMMA Inside ==
  ASSUME NEW q \in 0..3, NEW r \in 0..(Block - 1)
  PROVE  4 * r + q \in 0..(4 * Block - 1) /\ Block * q + r \in 0..(4 * Block - 1)
<1>1. Block \in Nat /\ Block >= 1
  BY BlockAssumption DEF BlockAssumption
<1>2. Block * q \in {0, Block, 2 * Block, 3 * Block}
  BY <1>1
<1> QED
  BY <1>1, <1>2

(* Below eight address spaces the mask drops nothing.                      *)
LEMMA LowParts ==
  ASSUME NEW a \in 0..(Around - 1)
  PROVE  /\ a \in Nat
         /\ \E h \in Nat, q \in 0..3, r \in 0..(Block - 1) :
              /\ a = (4 * Block) * h + (Block * q + r)
              /\ tobank(a) = (4 * Block) * h + (4 * r + q)
<1>1. PICK n \in Nat : n = 4 * Block
  BY BlockAssumption DEF BlockAssumption
<1>2. a \in Nat /\ a < n * 16 /\ n >= 1
  BY <1>1, Halves
<1>3. PICK h \in Nat, q \in 0..3, r \in 0..(Block - 1) :
        a = n * h + (Block * q + r) /\ tobank(a) = n * (h % 16) + (4 * r + q)
  <2>1. PICK h \in Nat, q \in 0..3, r \in 0..(Block - 1) :
          /\ a = (4 * Block) * h + (Block * q + r)
          /\ tobank(a) = (4 * Block) * (h % 16) + (4 * r + q)
    BY <1>2, Parts
  <2> QED
    BY <1>1, <2>1
<1>4. PICK x \in 0..(n - 1) : x = Block * q + r
  BY <1>1, Inside
<1>5. n * h + x < n * 16 <=> h < 16
  BY <1>2, BelowMultiple
<1>6. h % 16 = h
  BY <1>2, <1>3, <1>4, <1>5
<1> QED
  BY <1>1, <1>2, <1>3, <1>6

(* Two addresses have the same byte when they are a multiple of eight      *)
(* address spaces apart.                                                   *)
LEMMA BankRepeats ==
  ASSUME NEW a \in Nat, NEW b \in Nat
  PROVE  tobank(a) = tobank(b) <=> a % Around = b % Around
<1>1. PICK n \in Nat : n = 4 * Block
  BY BlockAssumption DEF BlockAssumption
<1>2. n >= 1 /\ Around = n * 16 /\ Around \in Nat /\ Around >= 1
  BY <1>1, Halves
<1>3. ASSUME NEW c \in Nat
      PROVE  \E u \in 0..15, q \in 0..3, r \in 0..(Block - 1) :
               c % Around = n * u + (Block * q + r) /\ tobank(c) = n * u + (4 * r + q)
  <2>1. PICK h \in Nat, q \in 0..3, r \in 0..(Block - 1) :
          c = n * h + (Block * q + r) /\ tobank(c) = n * (h % 16) + (4 * r + q)
    <3>1. PICK h \in Nat, q \in 0..3, r \in 0..(Block - 1) :
            /\ c = (4 * Block) * h + (Block * q + r)
            /\ tobank(c) = (4 * Block) * (h % 16) + (4 * r + q)
      BY Parts
    <3> QED
      BY <1>1, <3>1
  <2>2. PICK v \in Nat, u \in 0..15 : h = 16 * v + u /\ u = h % 16
    <3>1. h \div 16 \in Nat /\ h % 16 \in 0..15 /\ h = 16 * (h \div 16) + (h % 16)
      OBVIOUS
    <3> QED
      BY <3>1
  <2>3. PICK x \in 0..(n - 1) : x = Block * q + r
    BY <1>1, Inside
  <2>4. PICK y \in 0..(Around - 1) : y = n * u + x
    <3>1. n * u + x < n * 16 /\ n * u + x \in Nat
      <4>1. n * u \in Nat
        BY <2>2
      <4>2. n * u + x < n * 16 <=> u < 16
        BY <1>2, BelowMultiple
      <4> QED
        BY <4>1, <4>2
    <3> QED
      BY <1>2, <3>1
  <2>5. c = Around * v + y
    <3>1. n * (16 * v + u) = (n * 16) * v + n * u
      OBVIOUS
    <3>2. n * h = Around * v + n * u
      BY <1>2, <2>2, <3>1
    <3>3. n * u \in Nat /\ Around * v \in Nat
      BY <1>2
    <3> QED
      BY <2>1, <2>3, <2>4, <3>2, <3>3
  <2>6. c % Around = y
    <3>1. PICK d \in Nat, e \in 0..(Around - 1) :
            e = c % Around /\ c = Around * d + e
      BY <1>2, Digits
    <3> QED
      BY <1>2, <2>5, <3>1, UniqueDigits
  <2> QED
    BY <2>1, <2>2, <2>3, <2>4, <2>6
<1>4. PICK u \in 0..15, q \in 0..3, r \in 0..(Block - 1) :
        a % Around = n * u + (Block * q + r) /\ tobank(a) = n * u + (4 * r + q)
  BY <1>3
<1>5. PICK v \in 0..15, t \in 0..3, s \in 0..(Block - 1) :
        b % Around = n * v + (Block * t + s) /\ tobank(b) = n * v + (4 * s + t)
  BY <1>3
<1>6. PICK x \in 0..(n - 1), y \in 0..(n - 1) : x = Block * q + r /\ y = Block * t + s
  BY <1>1, Inside
<1>7. PICK i \in 0..(n - 1), j \in 0..(n - 1) : i = 4 * r + q /\ j = 4 * s + t
  BY <1>1, Inside
<1>8. Block \in Nat /\ Block >= 1
  BY BlockAssumption DEF BlockAssumption
<1>9. ASSUME tobank(a) = tobank(b) PROVE a % Around = b % Around
  <2>1. n * u + i = n * v + j
    BY <1>4, <1>5, <1>7, <1>9
  <2>2. u = v /\ i = j
    BY <1>2, <2>1, UniqueDigits
  <2>3. q = t /\ r = s
    BY <1>7, <1>8, <2>2
  <2> QED
    BY <1>4, <1>5, <2>2, <2>3
<1>10. ASSUME a % Around = b % Around PROVE tobank(a) = tobank(b)
  <2>1. n * u + x = n * v + y
    BY <1>4, <1>5, <1>6, <1>10
  <2>2. u = v /\ x = y
    BY <1>2, <2>1, UniqueDigits
  <2>3. q = t /\ r = s
    BY <1>6, <1>8, <2>2, UniqueDigits
  <2> QED
    BY <1>4, <1>5, <2>2, <2>3
<1> QED
  BY <1>9, <1>10

(* No two addresses below eight spaces share a byte of the array.          *)
LEMMA BankInjective ==
  ASSUME NEW a \in 0..(Around - 1), NEW b \in 0..(Around - 1), tobank(a) = tobank(b)
  PROVE  a = b
<1>1. Block \in Nat /\ Block >= 1
  BY BlockAssumption DEF BlockAssumption
<1>2. PICK h \in Nat, q \in 0..3, r \in 0..(Block - 1) :
        a = (4 * Block) * h + (Block * q + r) /\ tobank(a) = (4 * Block) * h + (4 * r + q)
  BY LowParts
<1>3. PICK k \in Nat, t \in 0..3, s \in 0..(Block - 1) :
        b = (4 * Block) * k + (Block * t + s) /\ tobank(b) = (4 * Block) * k + (4 * s + t)
  BY LowParts
<1> DEFINE n == 4 * Block
<1>4. n \in Nat /\ n >= 1
  BY <1>1
<1>5. 4 * r + q \in 0..(n - 1) /\ 4 * s + t \in 0..(n - 1)
  BY <1>1
<1>6. PICK x \in 0..(n - 1), y \in 0..(n - 1) : x = 4 * r + q /\ y = 4 * s + t
  BY <1>5
<1>7. n * h + x = n * k + y
  BY <1>2, <1>3, <1>6
<1> HIDE DEF n
<1>8. h = k /\ x = y
  BY <1>4, <1>7, UniqueDigits
<1>9. r = s /\ q = t
  BY <1>1, <1>6, <1>8
<1> QED
  BY <1>2, <1>3, <1>8, <1>9

(* A byte stays in its address space.                                      *)
LEMMA BankInSpace ==
  ASSUME NEW a \in 0..(Around - 1), NEW m \in Nat
  PROVE  tobank(a) \in Nat /\ (tobank(a) < AddressSpace * m <=> a < AddressSpace * m)
<1>1. Block \in Nat /\ Block >= 1
  BY BlockAssumption DEF BlockAssumption
<1>2. PICK h \in Nat, q \in 0..3, r \in 0..(Block - 1) :
        a = (4 * Block) * h + (Block * q + r) /\ tobank(a) = (4 * Block) * h + (4 * r + q)
  BY LowParts
<1> DEFINE n == 4 * Block
<1>3. n \in Nat /\ n >= 1
  BY <1>1
<1>4. 4 * r + q \in 0..(n - 1) /\ Block * q + r \in 0..(n - 1)
  <2>1. Block * q \in {0, Block, 2 * Block, 3 * Block}
    BY <1>1
  <2> QED
    BY <1>1, <2>1
<1>5. PICK x \in 0..(n - 1), y \in 0..(n - 1) : x = 4 * r + q /\ y = Block * q + r
  BY <1>4
<1>6. tobank(a) = n * h + x /\ a = n * h + y
  BY <1>2, <1>5
<1>7. AddressSpace * m = n * (2 * m) /\ 2 * m \in Nat
  BY <1>1 DEF AddressSpace
<1> HIDE DEF n
<1>8. (n * h + x < n * (2 * m) <=> h < 2 * m) /\ (n * h + y < n * (2 * m) <=> h < 2 * m)
  BY <1>3, <1>7, BelowMultiple
<1>9. n * h + x \in Nat
  BY <1>3
<1> QED
  BY <1>6, <1>7, <1>8, <1>9

-----------------------------------------------------------------------------
(* The memory                                                              *)

Mems ==
  [bytes : [0..(TotalMemory - 1) -> Bytes], boot : Boots \union {<<>>},
   mode_stack : BOOLEAN, mode_map : BOOLEAN, page_map : 0..4, page_stack : 0..4]

(* A mode that is on has a page of the RAM disk to go to.                  *)
PagingInv ==
  /\ mem.mode_stack => mem.page_stack # 0
  /\ mem.mode_map => mem.page_map # 0

IInv == mem \in Mems /\ PagingInv

LEMMA Spaces ==
  /\ AddressSpace \in Nat /\ AddressSpace >= 1 /\ TotalMemory = AddressSpace * 5
  /\ Addresses = 0..(AddressSpace - 1)
  /\ RD!Addresses = Addresses
  /\ Around = AddressSpace * 8 /\ Around \in Nat
<1>1. AddressSpace \in Nat /\ AddressSpace >= 1
  BY BlockAssumption DEF BlockAssumption, AddressSpace
<1>2. TotalMemory = AddressSpace * 5
  BY <1>1 DEF TotalMemory
<1>3. Around = AddressSpace * 8 /\ Around \in Nat
  BY <1>1 DEF Around
<1> QED
  BY <1>1, <1>2, <1>3 DEF Addresses, RD!Addresses

(* The byte of an address of the main memory (page 0) or of a page.        *)
Cell(m, p, a) == m.bytes[tobank(p * AddressSpace + a)]

LEMMA BigAddress ==
  ASSUME NEW p \in 0..4, NEW a \in Addresses
  PROVE  /\ p * AddressSpace + a \in 0..(Around - 1)
         /\ tobank(p * AddressSpace + a) \in 0..(TotalMemory - 1)
         /\ p * AddressSpace + a < AddressSpace <=> p = 0
<1>1. a \in 0..(AddressSpace - 1) /\ AddressSpace \in Nat /\ AddressSpace >= 1 /\ p \in Nat
  BY Spaces
<1>2. PICK b \in Nat : b = AddressSpace * p + a /\ b = p * AddressSpace + a
  <2>1. AddressSpace * p \in Nat /\ AddressSpace * p = p * AddressSpace
    BY <1>1
  <2> QED
    BY <1>1, <2>1
<1>3. /\ (b < AddressSpace * 5 <=> p < 5) /\ (b < AddressSpace * 1 <=> p < 1)
      /\ (b < AddressSpace * 8 <=> p < 8)
  BY <1>1, <1>2, BelowMultiple
<1>5. b \in 0..(Around - 1)
  BY <1>1, <1>3, Spaces
<1>4. tobank(b) \in Nat /\ (tobank(b) < AddressSpace * 5 <=> b < AddressSpace * 5)
  BY <1>5, BankInSpace
<1> QED
  BY <1>1, <1>2, <1>3, <1>4, <1>5, Spaces

LEMMA BigInjective ==
  ASSUME NEW p \in 0..4, NEW a \in Addresses, NEW q \in 0..4, NEW b \in Addresses,
         tobank(p * AddressSpace + a) = tobank(q * AddressSpace + b)
  PROVE  p = q /\ a = b
<1>1. /\ a \in 0..(AddressSpace - 1) /\ b \in 0..(AddressSpace - 1)
      /\ AddressSpace \in Nat /\ AddressSpace >= 1 /\ p \in Nat /\ q \in Nat
  BY Spaces
<1>2. p * AddressSpace + a = q * AddressSpace + b
  BY BigAddress, BankInjective
<1>3. AddressSpace * p + a = AddressSpace * q + b
  BY <1>1, <1>2
<1> QED
  BY <1>1, <1>3, UniqueDigits

(* Of the bytes of a file that come to one address, one is the last.       *)
LEMMA LastPlace ==
  ASSUME NEW from \in Seq(Bytes), NEW start \in Nat, NEW b \in Nat,
         NEW places \in SUBSET DOMAIN from, places # {},
         \A i \in DOMAIN from : i \in places <=> tobank(start + i - 1) = b
  PROVE  (CHOOSE i \in places : \A j \in places : j <= i) \in places
<1>1. PICK n \in Nat :
        n = Len(from) /\ DOMAIN from = 1..n
  OBVIOUS
<1>10. \A i \in DOMAIN from : i \in Nat /\ start + i - 1 \in Nat
  BY <1>1
<1>2. PICK k \in 1..n : tobank(start + k - 1) = b
  BY <1>1
<1>3. Around \in Nat /\ Around >= 1
  BY Spaces
<1>4. PICK d \in Nat, r \in 0..(Around - 1) : n - k = Around * d + r
  <2>1. PICK l \in Nat : l = n - k
    BY <1>2
  <2>2. PICK d \in Nat, r \in 0..(Around - 1) : r = l % Around /\ l = Around * d + r
    BY <1>3, Digits
  <2> QED
    BY <2>1, <2>2
<1>11. PICK w \in Nat : w = Around * d
  BY <1>3
<1>12. n - k = w + r
  BY <1>4, <1>11
<1>5. PICK i \in Nat : i = k + w /\ i = n - r
  BY <1>2, <1>3, <1>12
<1>6. i \in 1..n
  BY <1>2, <1>3, <1>5
<1>7. \A x \in Nat, y \in Nat : x % Around = y % Around /\ x < y => y >= x + Around
  <2> TAKE x \in Nat, y \in Nat
  <2> SUFFICES ASSUME x % Around = y % Around, x < y PROVE y >= x + Around
    OBVIOUS
  <2>1. PICK g \in Nat, h \in Nat, e \in 0..(Around - 1) :
          x = Around * g + e /\ y = Around * h + e
    <3>1. PICK g \in Nat, e \in 0..(Around - 1) : e = x % Around /\ x = Around * g + e
      BY <1>3, Digits
    <3>2. PICK h \in Nat, f \in 0..(Around - 1) : f = y % Around /\ y = Around * h + f
      BY <1>3, Digits
    <3> QED
      BY <3>1, <3>2
  <2>2. Around * g + e < Around * h <=> g < h
    BY <1>3, BelowMultiple
  <2>3. Around * g \in Nat /\ Around * h \in Nat
    BY <1>3
  <2>4. g < h
    <3>1. CASE g = h
      BY <2>1, <3>1
    <3>2. CASE h < g
      <4>1. Around * h + e < Around * g <=> h < g
        BY <1>3, BelowMultiple
      <4> QED
        BY <2>1, <2>3, <3>2, <4>1
    <3> QED
      BY <3>1, <3>2
  <2>5. PICK f \in Nat : h = g + 1 + f
    <3>1. h - g - 1 \in Nat /\ h = g + 1 + (h - g - 1)
      BY <2>4
    <3> QED
      BY <3>1
  <2>6. Around * (g + 1 + f) = Around * g + Around + Around * f /\ Around * f \in Nat
    BY <1>3
  <2>8. Around * h = Around * (g + 1 + f)
    BY <2>5
  <2>7. Around * h >= Around * g + Around
    BY <1>3, <2>3, <2>6, <2>8
  <2> QED
    BY <1>3, <2>1, <2>3, <2>7
<1>8. tobank(start + i - 1) = b
  <2>1. PICK x \in Nat, y \in Nat : x = start + k - 1 /\ y = start + i - 1
    BY <1>1, <1>2, <1>6, <1>10
  <2>2. y = x + w
    <3>1. k \in Nat
      OBVIOUS
    <3> QED
      BY <1>5, <2>1, <3>1
  <2>3. x % Around = y % Around
    <3>1. PICK g \in Nat, e \in 0..(Around - 1) : x = Around * g + e /\ e = x % Around
      BY <1>3, Digits
    <3>2. PICK h \in Nat, f \in 0..(Around - 1) : y = Around * h + f /\ f = y % Around
      BY <1>3, Digits
    <3>3. PICK z \in Nat : z = g + d
      OBVIOUS
    <3>4. Around * z = Around * g + w /\ Around * g \in Nat /\ Around * z \in Nat
      BY <1>3, <1>11, <3>3
    <3>7. PICK u \in Nat, v \in Nat : u = Around * g /\ v = Around * z
      BY <3>4
    <3>8. y = u + e + w /\ v = u + w
      BY <2>2, <3>1, <3>4, <3>7
    <3>9. y = v + e
      BY <3>8
    <3>5. Around * h + f = Around * z + e
      BY <3>2, <3>7, <3>9
    <3>6. f = e
      BY <1>3, <3>5, UniqueDigits
    <3> QED
      BY <3>1, <3>2, <3>6
  <2> QED
    BY <1>2, <2>1, <2>3, BankRepeats
<1>9. \A j \in places : j <= i
  <2> TAKE j \in places
  <2> SUFFICES ASSUME i < j PROVE FALSE
    BY <1>1, <1>10
  <2>1. j \in DOMAIN from /\ tobank(start + j - 1) = b
    OBVIOUS
  <2>2. PICK x \in Nat, y \in Nat : x = start + i - 1 /\ y = start + j - 1
    BY <1>1, <1>6, <1>10, <2>1
  <2>3. x % Around = y % Around /\ x < y
    BY <1>8, <2>1, <2>2, BankRepeats
  <2>4. y >= x + Around
    BY <1>7, <2>3
  <2> QED
    <3>1. j \in 1..n
      BY <1>1, <2>1
    <3> QED
      BY <1>3, <1>4, <1>5, <2>2, <2>4, <3>1
<1> QED
  BY <1>1, <1>6, <1>8, <1>9

(* What a file leaves at an address, whether it is loaded into the main    *)
(* memory or into the RAM disk.                                            *)
LEMMA FileBytes ==
  ASSUME NEW m \in Mems, NEW from \in Seq(Bytes), NEW start \in 0..AddressSpace,
         NEW p \in 0..4, NEW a \in Addresses
  PROVE  Cell(init_from_vector(m, from, start), p, a) =
           RD!Filled(from, start, RD!Big(p, a),
                     IF start < AddressSpace <=> p = 0 THEN 0 ELSE Cell(m, p, a))
<1>1. PICK b \in Nat : b = p * AddressSpace + a /\ b \in 0..(Around - 1)
  BY BigAddress, Spaces
<1>2. /\ tobank(b) \in 0..(TotalMemory - 1) /\ (b < AddressSpace <=> p = 0)
      /\ (tobank(b) < AddressSpace <=> p = 0)
  <2>1. tobank(b) \in 0..(TotalMemory - 1) /\ (b < AddressSpace <=> p = 0)
    BY <1>1, BigAddress
  <2>2. tobank(b) < AddressSpace * 1 <=> b < AddressSpace * 1
    BY <1>1, BankInSpace
  <2>3. AddressSpace * 1 = AddressSpace
    BY Spaces
  <2> QED
    BY <2>1, <2>2, <2>3
<1>3. start \in Nat /\ AddressSpace \in Nat /\ DOMAIN from = 1..Len(from) /\ Len(from) \in Nat
      /\ DOMAIN m.bytes = 0..(TotalMemory - 1)
  BY Spaces DEF Mems
<1> DEFINE places == {i \in DOMAIN from : tobank(start + i - 1) = tobank(b)}
           lands == {i \in DOMAIN from : (start + i - 1) % (8 * AddressSpace) = b}
           cleared(phys) == IF start < AddressSpace THEN phys < AddressSpace ELSE phys >= start
<1>4. places = lands
  <2>1. b % Around = b
    <3>2. Around * 0 + b = b /\ Around >= 1
      BY <1>1, Spaces
    <3>1. PICK d \in Nat, e \in 0..(Around - 1) : e = b % Around /\ b = Around * d + e
      BY <1>1, <3>2, Spaces, Digits
    <3> QED
      BY <1>1, <3>1, <3>2, Spaces, UniqueDigits
  <2>2. ASSUME NEW i \in DOMAIN from
        PROVE  tobank(start + i - 1) = tobank(b) <=> (start + i - 1) % (8 * AddressSpace) = b
    <3>1. start + i - 1 \in Nat
      BY <1>3
    <3> QED
      BY <2>1, <3>1, BankRepeats DEF Around
  <2> QED
    BY <2>2
<1>5. Cell(init_from_vector(m, from, start), p, a) =
        IF places # {} THEN from[CHOOSE i \in places : \A j \in places : j <= i]
        ELSE IF cleared(tobank(b)) THEN 0 ELSE m.bytes[tobank(b)]
  <2> DEFINE addr == [i \in DOMAIN from |-> tobank(start + i - 1)]
             at(phys) == {i \in DOMAIN from : addr[i] = phys}
             latest(S) == CHOOSE i \in S : \A j \in S : j <= i
             content(phys) == IF at(phys) # {} THEN from[latest(at(phys))]
                              ELSE IF cleared(phys) THEN 0 ELSE m.bytes[phys]
  <2>1. init_from_vector(m, from, start).bytes = [phys \in DOMAIN m.bytes |-> content(phys)]
    BY DEF init_from_vector, Mems
  <2>2. at(tobank(b)) = places
    OBVIOUS
  <2>3. content(tobank(b)) =
          IF places # {} THEN from[latest(places)]
          ELSE IF cleared(tobank(b)) THEN 0 ELSE m.bytes[tobank(b)]
    <3> HIDE DEF at, latest, places, cleared
    <3> QED
      BY <2>2
  <2>5. latest(places) = CHOOSE i \in places : \A j \in places : j <= i
    OBVIOUS
  <2> HIDE DEF content, latest, places, cleared
  <2>4. init_from_vector(m, from, start).bytes[tobank(b)] = content(tobank(b))
    BY <1>2, <1>3, <2>1
  <2> QED
    BY <1>1, <2>3, <2>4, <2>5 DEF Cell
<1>8. cleared(tobank(b)) <=> (start < AddressSpace <=> p = 0)
  BY <1>2, <1>3
<1>9. RD!Filled(from, start, b, IF start < AddressSpace <=> p = 0 THEN 0 ELSE Cell(m, p, a)) =
        IF lands = {} THEN (IF start < AddressSpace <=> p = 0 THEN 0 ELSE Cell(m, p, a))
        ELSE from[CHOOSE i \in lands : \A j \in lands : j <= i]
  BY DEF RD!Filled
<1>10. RD!Big(p, a) = b /\ Cell(m, p, a) = m.bytes[tobank(b)]
  BY <1>1 DEF RD!Big, Cell
<1> HIDE DEF places, lands, cleared
<1> QED
  BY <1>4, <1>5, <1>8, <1>9, <1>10

(* What the loaders leave of the other fields.                             *)
LEMMA LoadedMem ==
  ASSUME NEW m \in Mems, NEW from \in Seq(Bytes), NEW start \in Nat
  PROVE  LET w == init_from_vector(m, from, start) IN
         /\ w \in Mems /\ w.boot = m.boot /\ w.mode_stack = m.mode_stack
         /\ w.mode_map = m.mode_map /\ w.page_map = m.page_map /\ w.page_stack = m.page_stack
<1> DEFINE addr == [i \in DOMAIN from |-> tobank(start + i - 1)]
           at(phys) == {i \in DOMAIN from : addr[i] = phys}
           last_(phys) == CHOOSE i \in at(phys) : \A j \in at(phys) : j <= i
           cleared(phys) == IF start < AddressSpace THEN phys < AddressSpace ELSE phys >= start
           content(phys) == IF at(phys) # {} THEN from[last_(phys)]
                            ELSE IF cleared(phys) THEN 0 ELSE m.bytes[phys]
           bytes == [phys \in DOMAIN m.bytes |-> content(phys)]
<1>1. \A phys \in Nat : at(phys) # {} => from[last_(phys)] \in Bytes
  <2> TAKE phys \in Nat
  <2> SUFFICES ASSUME at(phys) # {} PROVE from[last_(phys)] \in Bytes
    OBVIOUS
  <2>2. PICK places \in SUBSET DOMAIN from :
          /\ places = at(phys) /\ places # {}
          /\ \A i \in DOMAIN from : i \in places <=> tobank(start + i - 1) = phys
    OBVIOUS
  <2>3. (CHOOSE i \in places : \A j \in places : j <= i) \in places
    <3> HIDE DEF at, content
    <3> QED
      BY <2>2, LastPlace
  <2>4. last_(phys) \in at(phys)
    BY <2>2, <2>3
  <2>5. \A i \in DOMAIN from : from[i] \in Bytes
    OBVIOUS
  <2> QED
    BY <2>4, <2>5
<1> HIDE DEF last_, at, cleared
<1>2. bytes \in [0..(TotalMemory - 1) -> Bytes]
  <2>1. 0 \in Bytes /\ DOMAIN m.bytes = 0..(TotalMemory - 1)
        /\ \A phys \in 0..(TotalMemory - 1) : m.bytes[phys] \in Bytes
    BY AccessAssumption DEF AccessAssumption, Mems
  <2>2. \A phys \in 0..(TotalMemory - 1) : phys \in Nat
    BY Spaces
  <2>3. \A phys \in 0..(TotalMemory - 1) : content(phys) \in Bytes
    BY <1>1, <2>1, <2>2
  <2> HIDE DEF content
  <2> QED
    BY <2>1, <2>3
<1>3. init_from_vector(m, from, start) = [m EXCEPT !.bytes = bytes]
  BY DEF init_from_vector, at, last_, cleared
<1> HIDE DEF bytes
<1> QED
  BY <1>2, <1>3 DEF Mems

-----------------------------------------------------------------------------
(* The invariant                                                           *)

LEMMA PowerOnMem == PowerOn \in Mems
<1>1. 0 \in Bytes
  BY AccessAssumption DEF AccessAssumption
<1> QED
  BY <1>1 DEF PowerOn, Mems

LEMMA ImageBytes == \A image \in Images \union Roms \union Boots : image \in Seq(Bytes)
BY AccessAssumption DEF AccessAssumption

LEMMA InitInv == Init => IInv
<1> SUFFICES ASSUME Init PROVE IInv
  OBVIOUS
<1>1. ~PowerOn.mode_stack /\ ~PowerOn.mode_map
  BY DEF PowerOn
<1>2. CASE mem = PowerOn
  BY <1>1, <1>2, PowerOnMem DEF IInv, PagingInv
<1>3. ASSUME NEW image \in Images, mem = init_from_vector(PowerOn, image, AddressSpace) PROVE IInv
  <2>1. mem \in Mems /\ mem.mode_stack = PowerOn.mode_stack /\ mem.mode_map = PowerOn.mode_map
    BY <1>3, PowerOnMem, ImageBytes, LoadedMem, Spaces
  <2> QED
    BY <1>1, <2>1 DEF IInv, PagingInv
<1> QED
  BY <1>2, <1>3 DEF Init

LEMMA ControlInv == ASSUME IInv, NEW w8 \in Controls, mem' = control_write(mem, w8) PROVE IInv'
<1>1. w8 \in Nat
  BY AccessAssumption DEF AccessAssumption
<1>2. PICK x \in 0..3, y \in 0..3 : x = w8 % 4 /\ y = (w8 \div 4) % 4
  BY <1>1
<1>3. PICK s \in BOOLEAN, d \in BOOLEAN :
        (s <=> (w8 \div 16) % 2 = 1) /\ (d <=> (w8 \div 32) % 2 = 1)
  OBVIOUS
<1>4. mem' = [mem EXCEPT !.mode_stack = s, !.mode_map = d, !.page_map = x + 1, !.page_stack = y + 1]
  BY <1>2, <1>3 DEF control_write
<1>5. x + 1 \in 1..4 /\ y + 1 \in 1..4 /\ x + 1 \in 0..4 /\ y + 1 \in 0..4
  OBVIOUS
<1>6. mem' \in Mems /\ mem'.page_map = x + 1 /\ mem'.page_stack = y + 1
  BY <1>4, <1>5 DEF IInv, Mems
<1> QED
  BY <1>5, <1>6 DEF IInv, PagingInv

LEMMA WriteInv ==
  ASSUME IInv, NEW addr \in Addresses, NEW stackrq \in BOOLEAN, NEW w8 \in Bytes,
         mem' = write(mem, addr, w8, stackrq)
  PROVE  IInv'
<1>1. mem' = [mem EXCEPT !.bytes = [mem.bytes EXCEPT ![physical(mem, addr, stackrq)] = w8]]
  BY DEF write
<1>2. [mem.bytes EXCEPT ![physical(mem, addr, stackrq)] = w8] \in [0..(TotalMemory - 1) -> Bytes]
  BY DEF IInv, Mems
<1> QED
  BY <1>1, <1>2 DEF IInv, PagingInv, Mems

LEMMA BootInv ==
  ASSUME IInv, NEW image \in Boots \union {<<>>}, mem' = [mem EXCEPT !.boot = image]
  PROVE  IInv'
BY DEF IInv, PagingInv, Mems

(* A ROM is loaded into a memory without paging, and the boot ROM is gone. *)
LEMMA LoadedRomMem ==
  ASSUME IInv, NEW image \in Roms, NEW org \in Orgs
  PROVE  LET w == LoadedRom(image, org) IN
         /\ w \in Mems /\ w.boot = <<>> /\ ~w.mode_stack /\ ~w.mode_map
         /\ w.bytes = init_from_vector(reset_paging(mem), image, org).bytes
         /\ reset_paging(mem) \in Mems /\ reset_paging(mem).bytes = mem.bytes
<1>1. image \in Seq(Bytes) /\ org \in Nat
  BY ImageBytes, AccessAssumption, Spaces DEF AccessAssumption
<1>2. PICK m \in Mems : /\ m = reset_paging(mem)
                        /\ ~m.mode_stack /\ ~m.mode_map /\ m.bytes = mem.bytes
  <2>1. reset_paging(mem) \in Mems /\ ~reset_paging(mem).mode_stack /\ ~reset_paging(mem).mode_map
        /\ reset_paging(mem).bytes = mem.bytes
    <3>1. reset_paging(mem) = [mem EXCEPT !.mode_stack = FALSE, !.mode_map = FALSE,
                                          !.page_map = 0, !.page_stack = 0] /\ mem \in Mems
      BY DEF reset_paging, IInv
    <3>2. 0 \in 0..4
      OBVIOUS
    <3> QED
      BY <3>1, <3>2 DEF Mems
  <2> QED
    BY <2>1
<1>3. PICK v \in Mems : /\ v = init_from_vector(m, image, org)
                        /\ ~v.mode_stack /\ ~v.mode_map
  BY <1>1, <1>2, LoadedMem
<1>4. LoadedRom(image, org) = [v EXCEPT !.boot = <<>>]
  BY <1>2, <1>3 DEF LoadedRom, detach_boot
<1>5. /\ [v EXCEPT !.boot = <<>>] \in Mems /\ [v EXCEPT !.boot = <<>>].boot = <<>>
      /\ ~[v EXCEPT !.boot = <<>>].mode_stack /\ ~[v EXCEPT !.boot = <<>>].mode_map
      /\ [v EXCEPT !.boot = <<>>].bytes = v.bytes
  BY <1>3 DEF Mems
<1> QED
  BY <1>2, <1>3, <1>4, <1>5

LEMMA NextInv == IInv /\ [Next]_vars => IInv'
<1> SUFFICES ASSUME IInv, [Next]_vars PROVE IInv'
  OBVIOUS
<1>1. CASE Out10
  BY <1>1, ControlInv DEF Out10
<1>2. CASE Blkvvod
  BY <1>2, BootInv DEF Blkvvod, attach_boot
<1>3. CASE Blksbr
  BY <1>3, BootInv DEF Blksbr, detach_boot
<1>4. CASE LoadRom
  BY <1>4, LoadedRomMem DEF LoadRom, IInv, PagingInv
<1>5. ASSUME NEW addr \in Addresses, NEW stackrq \in BOOLEAN, Read(addr, stackrq) PROVE IInv'
  BY <1>5 DEF Read, IInv, PagingInv
<1>6. ASSUME NEW addr \in Addresses, NEW stackrq \in BOOLEAN, NEW w8 \in Bytes,
             Write(addr, stackrq, w8)
      PROVE  IInv'
  BY <1>6, WriteInv DEF Write
<1>7. CASE UNCHANGED vars
  BY <1>7 DEF vars, IInv, PagingInv
<1> QED
  BY <1>1, <1>2, <1>3, <1>4, <1>5, <1>6, <1>7 DEF Next

(* The array keeps its length and its bytes, and a mode that is on has a   *)
(* page to go to.                                                          *)
THEOREM Invariant == Spec => []IInv
BY InitInv, NextInv, PTL DEF Spec

-----------------------------------------------------------------------------
(* The refinement                                                          *)

Ram(m) == [a \in Addresses |-> Cell(m, 0, a)]
Page(m) == [p \in KvazPages |-> [a \in Addresses |-> Cell(m, p, a)]]

LEMMA RefinedMemory ==
  ASSUME NEW m
  PROVE  /\ [a \in Addresses |-> m.bytes[tobank(a)]] = Ram(m)
         /\ [p \in KvazPages |-> [a \in Addresses |-> m.bytes[tobank(p * AddressSpace + a)]]] = Page(m)
<1>1. \A a \in Addresses : 0 * AddressSpace + a = a
  BY Spaces
<1> QED
  BY <1>1 DEF Ram, Page, Cell

(* An access goes to the page that RamDisk names.                          *)
LEMMA SelectsPage ==
  ASSUME IInv, NEW addr \in Addresses, NEW stackrq \in BOOLEAN
  PROVE  /\ RD!PageOf(addr, stackrq) \in 0..4
         /\ bigram_select(mem, addr % AddressSpace, stackrq)
              = RD!PageOf(addr, stackrq) * AddressSpace + addr
<1>1. addr \in Nat /\ AddressSpace \in Nat /\ addr % AddressSpace = addr
  BY Spaces
<1>2. mem.page_map \in 0..4 /\ mem.page_stack \in 0..4 /\ mem.mode_stack \in BOOLEAN
      /\ mem.mode_map \in BOOLEAN
  BY DEF IInv, Mems
<1>3. addr \in {a \in Addresses : InWindow(a)} <=> InWindow(addr)
  OBVIOUS
<1>4. /\ 0 * AddressSpace + addr = addr
      /\ addr + mem.page_map * AddressSpace = mem.page_map * AddressSpace + addr
      /\ addr + mem.page_stack * AddressSpace = mem.page_stack * AddressSpace + addr
  BY <1>1, <1>2
<1>5. CASE mem.mode_stack /\ stackrq
  <2>1. mem.page_stack # 0
    BY <1>5 DEF IInv, PagingInv
  <2>2. RD!PageOf(addr, stackrq) = mem.page_stack
    BY <1>5, <2>1 DEF RD!PageOf
  <2> QED
    BY <1>1, <1>2, <1>4, <1>5, <2>2 DEF bigram_select
<1>6. CASE ~(mem.mode_stack /\ stackrq) /\ mem.mode_map /\ InWindow(addr)
  <2>1. RD!PageOf(addr, stackrq) = mem.page_map
    BY <1>3, <1>6 DEF RD!PageOf
  <2> QED
    BY <1>1, <1>2, <1>4, <1>6, <2>1 DEF bigram_select
<1>7. CASE ~(mem.mode_stack /\ stackrq) /\ ~(mem.mode_map /\ InWindow(addr))
  <2>1. RD!PageOf(addr, stackrq) = 0
    BY <1>3, <1>7 DEF RD!PageOf
  <2> QED
    BY <1>1, <1>2, <1>4, <1>7, <2>1 DEF bigram_select
<1> QED
  BY <1>5, <1>6, <1>7

LEMMA EmptyImage == \E e \in Images \union {<<>>} : e \in Seq(Bytes) /\ DOMAIN e = {}
<1>1. <<>> \in Images \union {<<>>}
  OBVIOUS
<1> WITNESS <<>> \in Images \union {<<>>}
<1> QED
  OBVIOUS

LEMMA InitRefines == Init => RD!RamDiskInit
<1> SUFFICES ASSUME Init PROVE RD!RamDiskInit
  OBVIOUS
<1>1. PICK image \in Images \union {<<>>} :
        \A p \in 0..4, a \in Addresses :
          Cell(mem, p, a) = RD!Filled(image, AddressSpace, RD!Big(p, a), 0)
  <2>1. \A p \in 0..4, a \in Addresses : Cell(PowerOn, p, a) = 0
    BY BigAddress DEF Cell, PowerOn
  <2>2. CASE mem = PowerOn
    <3>1. PICK e \in Images \union {<<>>} : e \in Seq(Bytes) /\ DOMAIN e = {}
      BY EmptyImage
    <3>2. \A b : RD!Filled(e, AddressSpace, b, 0) = 0
      BY <3>1 DEF RD!Filled
    <3> QED
      BY <2>1, <2>2, <3>2
  <2>3. ASSUME NEW image \in Images, mem = init_from_vector(PowerOn, image, AddressSpace)
        PROVE  \A p \in 0..4, a \in Addresses :
                 Cell(mem, p, a) = RD!Filled(image, AddressSpace, RD!Big(p, a), 0)
    <3>1. image \in Seq(Bytes) /\ AddressSpace \in 0..AddressSpace
      BY ImageBytes, Spaces
    <3>2. ASSUME NEW p \in 0..4, NEW a \in Addresses
          PROVE  Cell(mem, p, a) = RD!Filled(image, AddressSpace, RD!Big(p, a), 0)
      <4>1. Cell(mem, p, a) =
              RD!Filled(image, AddressSpace, RD!Big(p, a),
                        IF AddressSpace < AddressSpace <=> p = 0 THEN 0 ELSE Cell(PowerOn, p, a))
        BY <2>3, <3>1, PowerOnMem, FileBytes
      <4>2. (IF AddressSpace < AddressSpace <=> p = 0 THEN 0 ELSE Cell(PowerOn, p, a)) = 0
        BY <2>1
      <4> QED
        BY <4>1, <4>2
    <3> QED
      BY <3>2
  <2> QED
    BY <2>2, <2>3 DEF Init
<1>2. Ram(mem) = [a \in RD!Addresses |-> RD!Filled(image, AddressSpace, a, 0)]
  <2>1. \A a \in Addresses : RD!Big(0, a) = a
    BY Spaces DEF RD!Big
  <2> QED
    BY <1>1, <2>1, Spaces DEF Ram
<1>3. Page(mem) = [p \in 1..4 |-> [a \in RD!Addresses |->
                                     RD!Filled(image, AddressSpace, RD!Big(p, a), 0)]]
  BY <1>1, Spaces DEF Page, KvazPages
<1>4. ~mem.mode_stack /\ ~mem.mode_map /\ mem.boot = <<>>
  <2>1. ~PowerOn.mode_stack /\ ~PowerOn.mode_map /\ PowerOn.boot = <<>>
    BY DEF PowerOn
  <2>2. ASSUME NEW from \in Images, mem = init_from_vector(PowerOn, from, AddressSpace)
        PROVE  ~mem.mode_stack /\ ~mem.mode_map /\ mem.boot = <<>>
    <3>1. /\ mem.mode_stack = PowerOn.mode_stack /\ mem.mode_map = PowerOn.mode_map
          /\ mem.boot = PowerOn.boot
      BY <2>2, PowerOnMem, ImageBytes, LoadedMem, Spaces
    <3> QED
      BY <2>1, <3>1
  <2> QED
    BY <2>1, <2>2 DEF Init
<1> QED
  BY <1>2, <1>3, <1>4, RefinedMemory DEF Init, RD!RamDiskInit

LEMMA ControlRefines ==
  ASSUME IInv, NEW w8 \in Controls, Out10, mem' = control_write(mem, w8) PROVE RD!Control(w8)
<1>1. /\ mem'.bytes = mem.bytes /\ mem'.boot = mem.boot /\ last' = last
      /\ mem'.mode_stack <=> (w8 \div 16) % 2 = 1
      /\ mem'.mode_map <=> (w8 \div 32) % 2 = 1
      /\ mem'.page_map = (w8 % 4) + 1 /\ mem'.page_stack = ((w8 \div 4) % 4) + 1
  BY DEF Out10, control_write, IInv, Mems
<1>2. w8 % 4 \in Nat /\ (w8 \div 4) % 4 \in Nat
  BY AccessAssumption DEF AccessAssumption
<1>3. (w8 % 4) + 1 = 1 + (w8 % 4) /\ ((w8 \div 4) % 4) + 1 = 1 + ((w8 \div 4) % 4)
  BY <1>2
<1> QED
  BY <1>1, <1>3 DEF RD!Control

LEMMA BootRefines ==
  ASSUME IInv, NEW image \in Boots \union {<<>>}, mem' = [mem EXCEPT !.boot = image]
  PROVE  /\ mem'.boot = image /\ mem'.bytes = mem.bytes
         /\ mem'.mode_stack = mem.mode_stack /\ mem'.mode_map = mem.mode_map
         /\ mem'.page_map = mem.page_map /\ mem'.page_stack = mem.page_stack
BY DEF IInv, Mems

LEMMA ReadRefines ==
  ASSUME IInv, NEW addr \in Addresses, NEW stackrq \in BOOLEAN, Read(addr, stackrq)
  PROVE  RD!Get(addr, stackrq)
<1>1. PICK p \in 0..4 : /\ p = RD!PageOf(addr, stackrq)
                        /\ bigram_select(mem, addr % AddressSpace, stackrq) = p * AddressSpace + addr
  BY SelectsPage
<1>2. PICK b \in Nat : b = p * AddressSpace + addr
  BY BigAddress
<1>3. read(mem, addr, stackrq) = IF b < Len(mem.boot) THEN mem.boot[b + 1] ELSE Cell(mem, p, addr)
  BY <1>1, <1>2 DEF read, Cell
<1>4. b < Len(mem.boot) <=> b - 0 + 1 \in DOMAIN mem.boot
  <2>1. mem.boot \in Seq(Bytes)
    <3>1. mem.boot \in Boots \/ mem.boot = <<>>
      BY DEF IInv, Mems
    <3>2. <<>> \in Seq(Bytes)
      OBVIOUS
    <3> QED
      BY <3>1, <3>2, ImageBytes
  <2>2. Len(mem.boot) \in Nat /\ DOMAIN mem.boot = 1..Len(mem.boot)
    BY <2>1
  <2> QED
    BY <2>2
<1>5. Cell(mem, p, addr) = IF p # 0 THEN Page(mem)[p][addr] ELSE Ram(mem)[addr]
  BY DEF Page, Ram, KvazPages
<1>6. b - 0 + 1 = b + 1
  OBVIOUS
<1>7. RD!Byte(mem.boot, RD!Big(p, addr), Cell(mem, p, addr)) = read(mem, addr, stackrq)
  BY <1>2, <1>3, <1>4, <1>6 DEF RD!Byte, RD!Big
<1>8. last' = <<addr, stackrq, read(mem, addr, stackrq)>> /\ mem' = mem
  BY DEF Read
<1>9. last' = <<addr, stackrq, RD!Byte(mem.boot, RD!Big(p, addr),
                                 IF p # 0 THEN Page(mem)[p][addr] ELSE Ram(mem)[addr])>>
  BY <1>5, <1>7, <1>8
<1> QED
  BY <1>1, <1>8, <1>9, RefinedMemory DEF RD!Get

LEMMA WriteRefines ==
  ASSUME IInv, NEW addr \in Addresses, NEW stackrq \in BOOLEAN, NEW w8 \in Bytes,
         Write(addr, stackrq, w8)
  PROVE  RD!Put(addr, stackrq, w8)
<1>1. PICK p \in 0..4 : /\ p = RD!PageOf(addr, stackrq)
                        /\ bigram_select(mem, addr % AddressSpace, stackrq) = p * AddressSpace + addr
  BY SelectsPage
<1>2. /\ mem'.bytes = [mem.bytes EXCEPT ![tobank(p * AddressSpace + addr)] = w8]
      /\ mem'.boot = mem.boot /\ mem'.mode_stack = mem.mode_stack /\ mem'.mode_map = mem.mode_map
      /\ mem'.page_map = mem.page_map /\ mem'.page_stack = mem.page_stack
  <2>1. mem' = [mem EXCEPT !.bytes = [mem.bytes EXCEPT ![tobank(p * AddressSpace + addr)] = w8]]
    BY <1>1 DEF Write, write, physical
  <2> QED
    BY <2>1 DEF IInv, Mems
<1>3. last' = <<addr, stackrq, w8>>
  BY DEF Write
<1>4. ASSUME NEW q \in 0..4, NEW a \in Addresses
      PROVE  Cell(mem', q, a) = IF q = p /\ a = addr THEN w8 ELSE Cell(mem, q, a)
  <2>1. DOMAIN mem.bytes = 0..(TotalMemory - 1)
    BY DEF IInv, Mems
  <2>2. tobank(q * AddressSpace + a) \in 0..(TotalMemory - 1)
    BY BigAddress
  <2>3. tobank(q * AddressSpace + a) = tobank(p * AddressSpace + addr) <=> q = p /\ a = addr
    BY BigInjective
  <2> QED
    BY <1>2, <2>1, <2>2, <2>3 DEF Cell
<1>5. CASE p # 0
  <2>1. Ram(mem') = Ram(mem)
    BY <1>4, <1>5 DEF Ram
  <2>2. Page(mem') = [Page(mem) EXCEPT ![p][addr] = w8]
    <3>1. p \in KvazPages
      BY <1>5 DEF KvazPages
    <3>2. \A q \in KvazPages, a \in Addresses :
            Cell(mem', q, a) = IF q = p /\ a = addr THEN w8 ELSE Cell(mem, q, a)
      BY <1>4 DEF KvazPages
    <3> QED
      BY <3>1, <3>2 DEF Page
  <2> QED
    BY <1>1, <1>2, <1>3, <1>5, <2>1, <2>2, RefinedMemory DEF RD!Put
<1>6. CASE p = 0
  <2>1. Ram(mem') = [Ram(mem) EXCEPT ![addr] = w8]
    BY <1>4, <1>6 DEF Ram
  <2>2. Page(mem') = Page(mem)
    BY <1>4, <1>6 DEF Page, KvazPages
  <2> QED
    BY <1>1, <1>2, <1>3, <1>6, <2>1, <2>2, RefinedMemory DEF RD!Put
<1> QED
  BY <1>5, <1>6

LEMMA LoadRefines ==
  ASSUME IInv, LoadRom, NEW image \in Roms, NEW org \in Orgs, mem' = LoadedRom(image, org)
  PROVE  RD!InstallRom(image, org)
<1>1. image \in Seq(Bytes) /\ org \in Addresses /\ org \in 0..AddressSpace /\ org < AddressSpace
  BY ImageBytes, AccessAssumption, Spaces DEF AccessAssumption
<1>2. /\ mem'.boot = <<>> /\ ~mem'.mode_stack /\ ~mem'.mode_map
      /\ mem'.bytes = init_from_vector(reset_paging(mem), image, org).bytes
      /\ reset_paging(mem) \in Mems /\ reset_paging(mem).bytes = mem.bytes
  BY LoadedRomMem
<1>3. ASSUME NEW p \in 0..4, NEW a \in Addresses
      PROVE  Cell(mem', p, a) = RD!Filled(image, org, RD!Big(p, a), IF p = 0 THEN 0 ELSE Cell(mem, p, a))
  <2>1. Cell(init_from_vector(reset_paging(mem), image, org), p, a) =
          RD!Filled(image, org, RD!Big(p, a),
                    IF org < AddressSpace <=> p = 0 THEN 0 ELSE Cell(reset_paging(mem), p, a))
    BY <1>1, <1>2, FileBytes
  <2>2. /\ Cell(init_from_vector(reset_paging(mem), image, org), p, a) = Cell(mem', p, a)
        /\ Cell(reset_paging(mem), p, a) = Cell(mem, p, a)
    BY <1>2 DEF Cell
  <2> QED
    BY <1>1, <2>1, <2>2
<1>4. Ram(mem') = [a \in RD!Addresses |-> RD!Filled(image, org, a, 0)]
  <2>1. \A a \in Addresses : RD!Big(0, a) = a
    BY Spaces DEF RD!Big
  <2>2. \A a \in Addresses : Cell(mem', 0, a) = RD!Filled(image, org, a, 0)
    BY <1>3, <2>1
  <2> QED
    BY <2>2, Spaces DEF Ram
<1>5. Page(mem') = [p \in 1..4 |-> [a \in RD!Addresses |->
                                     RD!Filled(image, org, RD!Big(p, a), Page(mem)[p][a])]]
  <2>1. \A p \in KvazPages, a \in Addresses :
          Cell(mem', p, a) = RD!Filled(image, org, RD!Big(p, a), Page(mem)[p][a])
    BY <1>3 DEF Page, KvazPages
  <2> QED
    BY <2>1, Spaces DEF Page, KvazPages
<1> DEFINE pages(m) == [p \in KvazPages |-> [a \in Addresses |-> m.bytes[tobank(p * AddressSpace + a)]]]
           ram(m) == [a \in Addresses |-> m.bytes[tobank(a)]]
<1>6. pages(mem) = Page(mem) /\ pages(mem') = Page(mem') /\ ram(mem') = Ram(mem')
  BY RefinedMemory
<1> HIDE DEF pages, ram
<1>7. pages(mem') = [p \in 1..4 |-> [a \in RD!Addresses |->
                                     RD!Filled(image, org, RD!Big(p, a), pages(mem)[p][a])]]
  BY <1>5, <1>6, Zenon
<1>8. ram(mem') = [a \in RD!Addresses |-> RD!Filled(image, org, a, 0)]
  BY <1>4, <1>6, Zenon
<1>9. last' = last
  BY DEF LoadRom
<1> QED
  BY <1>2, <1>7, <1>8, <1>9, Zenon DEF pages, ram, RD!InstallRom

LEMMA NextRefines ==
  ASSUME IInv, [Next]_vars PROVE [RD!RamDiskNext]_(RD!ramDiskVars)
<1>1. ASSUME NEW w8 \in Controls, Out10, mem' = control_write(mem, w8) PROVE RD!RamDiskNext
  BY <1>1, ControlRefines DEF RD!RamDiskNext
<1>2. ASSUME NEW image \in Boots, Blkvvod, mem' = attach_boot(mem, image) PROVE RD!RamDiskNext
  <2>1. mem'.boot = image /\ mem'.bytes = mem.bytes
        /\ mem'.mode_stack = mem.mode_stack /\ mem'.mode_map = mem.mode_map
        /\ mem'.page_map = mem.page_map /\ mem'.page_stack = mem.page_stack
    BY <1>2, BootRefines DEF attach_boot
  <2> QED
    BY <1>2, <2>1 DEF Blkvvod, RD!RamDiskNext, RD!Attach
<1>3. ASSUME Blksbr PROVE RD!RamDiskNext
  <2>1. mem'.boot = <<>> /\ mem'.bytes = mem.bytes
        /\ mem'.mode_stack = mem.mode_stack /\ mem'.mode_map = mem.mode_map
        /\ mem'.page_map = mem.page_map /\ mem'.page_stack = mem.page_stack
    BY <1>3, BootRefines DEF Blksbr, detach_boot
  <2> QED
    BY <1>3, <2>1 DEF Blksbr, RD!RamDiskNext, RD!Detach
<1>4. ASSUME NEW image \in Roms, NEW org \in Orgs, LoadRom, mem' = LoadedRom(image, org)
      PROVE  RD!RamDiskNext
  <2>1. RD!InstallRom(image, org)
    BY <1>4, LoadRefines
  <2>2. org \in RD!Addresses
    BY AccessAssumption, Spaces DEF AccessAssumption
  <2> QED
    BY <2>1, <2>2 DEF RD!RamDiskNext
<1>5. ASSUME NEW addr \in Addresses, NEW stackrq \in BOOLEAN, Read(addr, stackrq)
      PROVE  RD!RamDiskNext
  BY <1>5, ReadRefines, Spaces DEF RD!RamDiskNext
<1>6. ASSUME NEW addr \in Addresses, NEW stackrq \in BOOLEAN, NEW w8 \in Bytes,
             Write(addr, stackrq, w8)
      PROVE  RD!RamDiskNext
  BY <1>6, WriteRefines, Spaces DEF RD!RamDiskNext
<1>7. CASE UNCHANGED vars
  BY <1>7 DEF vars, RD!ramDiskVars
<1> QED
  BY <1>1, <1>2, <1>3, <1>4, <1>5, <1>6, <1>7 DEF Next, Out10, Blkvvod, LoadRom

(* The flat array with its permuted bytes and its page offsets behaves as  *)
(* five memories, whatever is read, written, paged, loaded and reset; a    *)
(* file of any length lands where RamDisk says, round the end of eight     *)
(* address spaces if it is that long (tobank()'s mask).                    *)
THEOREM MemoryIsFiveMemories == Spec => ImplementsRamDisk
BY InitRefines, NextRefines, Invariant, PTL DEF Spec, ImplementsRamDisk, RD!RamDiskSpec

-----------------------------------------------------------------------------
(***************************************************************************)
(* The processor keeps its types, whatever program it runs, and takes no   *)
(* interrupt right after an EI.  A program here is the contents of the     *)
(* whole memory, as it is in the machine; the programs TLC runs list only  *)
(* the cells they use.                                                     *)
(***************************************************************************)
WholeMemory == \A program \in Programs : DOMAIN program.rom = 0..(TotalMemory - 1)

MachineMems ==
  [bytes : [0..(TotalMemory - 1) -> Byte], boot : {<<>>},
   mode_stack : BOOLEAN, mode_map : BOOLEAN, page_map : 0..4, page_stack : 0..4]

Cpus ==
  [r : [Registers -> Byte], F : Byte, S : 0..1, Z : 0..1, H : 0..1, P : 0..1, C : 0..1,
   sp : Word, pc : Word, iff : BOOLEAN, ei_pending : 0..2, cycles : Nat \X Nat,
   inte : BOOLEAN, irq : BOOLEAN, out : {Nothing} \cup (Byte \X Byte), bus : Byte,
   mem : MachineMems]

States == {s \in Cpus : s.irq => s.inte}

(* Numbers of bytes, words and their fields                                *)
LEMMA WordIs == \A n \in Int : 0 <= n /\ n <= 65535 => n \in Word
BY DEF Word

LEMMA ByteIs == \A n \in Int : 0 <= n /\ n <= 255 => n \in Byte
BY DEF Byte

LEMMA WordBounds == \A word \in Word : word \in Nat /\ word <= 65535
BY DEF Word

LEMMA ByteBounds == \A w8 \in Byte : w8 \in Nat /\ w8 <= 255
BY DEF Byte

LEMMA LowByte == \A n \in Int : n % 256 \in Byte
<1> TAKE n \in Int
<1>1. n % 256 \in Int /\ 0 <= n % 256 /\ n % 256 <= 255
  OBVIOUS
<1> QED
  BY <1>1, ByteIs

LEMMA LowWord == \A n \in Int : n % 65536 \in Word
<1> TAKE n \in Int
<1>1. n % 65536 \in Int /\ 0 <= n % 65536 /\ n % 65536 <= 65535
  OBVIOUS
<1> QED
  BY <1>1, WordIs

LEMMA ByteFields ==
  ASSUME NEW w8 \in Byte
  PROVE  /\ w8 \div 128 \in 0..1 /\ w8 \div 64 \in 0..3
         /\ (w8 \div 8) % 8 \in 0..7 /\ w8 % 8 \in 0..7
         /\ w8 \div 2 \in 0..127 /\ w8 % 2 \in 0..1
         /\ w8 \div 16 \in 0..15 /\ w8 % 16 \in 0..15
BY ByteBounds

LEMMA WordBytes ==
  ASSUME NEW word \in Word PROVE word % 256 \in Byte /\ word \div 256 \in Byte
<1>1. word \in Nat /\ word <= 65535
  BY WordBounds
<1>2. word \div 256 \in Int /\ 0 <= word \div 256 /\ word \div 256 <= 255
  BY <1>1
<1> QED
  BY <1>1, <1>2, ByteIs, LowByte

LEMMA BytesWord ==
  ASSUME NEW low \in Byte, NEW high \in Byte
  PROVE  low + (256 * high) \in Word /\ (256 * high) + low \in Word
<1>1. low \in Nat /\ low <= 255 /\ high \in Nat /\ high <= 255
  BY ByteBounds
<1>2. PICK n \in Nat : n = low + (256 * high) /\ n = (256 * high) + low /\ n <= 65535
  BY <1>1
<1> QED
  BY <1>2, WordIs

LEMMA NextWord == ASSUME NEW addr \in Word, NEW n \in Int PROVE Next16(addr, n) \in Word
<1>1. addr + n \in Int
  BY WordBounds
<1> QED
  BY <1>1, LowWord DEF Next16

LEMMA FlagIs == ASSUME NEW condition PROVE Flag(condition) \in 0..1
BY DEF Flag

-----------------------------------------------------------------------------
(* The memory of the machine                                               *)

LEMMA BigSelected ==
  ASSUME NEW m \in MachineMems, NEW addr \in Word, NEW stackrq \in BOOLEAN
  PROVE  \E p \in 0..4, a \in Addresses :
           bigram_select(m, addr % AddressSpace, stackrq) = p * AddressSpace + a
<1>1. addr \in Nat /\ AddressSpace \in Nat /\ AddressSpace >= 1
  BY Spaces, WordBounds
<1>2. PICK a \in Addresses : a = addr % AddressSpace
  BY <1>1, Spaces, QuotientAndRemainder
<1>3. PICK p \in 0..4, q \in 0..4 : p = m.page_map /\ q = m.page_stack
  BY DEF MachineMems
<1>4. a \in Nat /\ a = 0 * AddressSpace + a
  BY <1>1, Spaces
<1>5. a + p * AddressSpace = p * AddressSpace + a /\ a + q * AddressSpace = q * AddressSpace + a
  <2>1. p * AddressSpace \in Nat /\ q * AddressSpace \in Nat
    BY <1>1
  <2> QED
    BY <1>4, <2>1
<1>6. bigram_select(m, a, stackrq) \in {a + q * AddressSpace, a + p * AddressSpace, a}
  BY <1>3 DEF bigram_select
<1> HIDE DEF Addresses
<1>7. bigram_select(m, a, stackrq) \in
        {q * AddressSpace + a, p * AddressSpace + a, 0 * AddressSpace + a}
  BY <1>4, <1>5, <1>6
<1> QED
  BY <1>2, <1>7

LEMMA MemRead ==
  ASSUME NEW m \in MachineMems, NEW addr \in Word, NEW stackrq \in BOOLEAN
  PROVE  read(m, addr, stackrq) \in Byte
<1>1. PICK big : big = bigram_select(m, addr % AddressSpace, stackrq)
  OBVIOUS
<1>2. big \in Nat /\ tobank(big) \in 0..(TotalMemory - 1)
  BY <1>1, BigSelected, BigAddress
<1>3. Len(m.boot) = 0 /\ m.bytes \in [0..(TotalMemory - 1) -> Byte]
  BY DEF MachineMems
<1>4. read(m, addr, stackrq) = m.bytes[tobank(big)]
  BY <1>1, <1>2, <1>3 DEF read
<1> QED
  BY <1>2, <1>3, <1>4

LEMMA MemWrite ==
  ASSUME NEW m \in MachineMems, NEW addr, NEW stackrq, NEW w8 \in Byte
  PROVE  write(m, addr, w8, stackrq) \in MachineMems
<1>1. [m.bytes EXCEPT ![physical(m, addr, stackrq)] = w8] \in [0..(TotalMemory - 1) -> Byte]
  BY DEF MachineMems
<1> QED
  BY <1>1 DEF MachineMems, write

LEMMA MemControl ==
  ASSUME NEW m \in MachineMems, NEW w8 \in Byte PROVE control_write(m, w8) \in MachineMems
<1>1. (w8 % 4) + 1 \in 0..4 /\ ((w8 \div 4) % 4) + 1 \in 0..4
  BY DEF Byte
<1> QED
  BY <1>1 DEF MachineMems, control_write

-----------------------------------------------------------------------------
(* States of the processor, and what an instruction does to one             *)

LEMMA FieldsOf ==
  ASSUME NEW s \in States
  PROVE  /\ s.r \in [Registers -> Byte] /\ s.F \in Byte /\ s.mem \in MachineMems
         /\ s.S \in 0..1 /\ s.Z \in 0..1 /\ s.H \in 0..1 /\ s.P \in 0..1 /\ s.C \in 0..1
         /\ s.sp \in Word /\ s.pc \in Word /\ s.ei_pending \in 0..2
         /\ s.iff \in BOOLEAN /\ s.inte \in BOOLEAN /\ s.irq \in BOOLEAN
         /\ s.out \in {Nothing} \cup (Byte \X Byte) /\ s.bus \in Byte
         /\ s.cycles \in Nat \X Nat
         /\ s.irq => s.inte
BY DEF States, Cpus

LEMMA SetRegister ==
  ASSUME NEW s \in States, NEW y \in Registers, NEW w8 \in Byte
  PROVE  [s EXCEPT !.r[y] = w8] \in States
BY DEF States, Cpus

LEMMA SetWord ==
  ASSUME NEW s \in States, NEW w \in Word
  PROVE  [s EXCEPT !.pc = w] \in States /\ [s EXCEPT !.sp = w] \in States
BY DEF States, Cpus

LEMMA SetMem ==
  ASSUME NEW s \in States, NEW m \in MachineMems PROVE [s EXCEPT !.mem = m] \in States
BY DEF States, Cpus

LEMMA SetFlag ==
  ASSUME NEW s \in States, NEW x \in 0..1
  PROVE  [s EXCEPT !.C = x] \in States /\ [s EXCEPT !.H = x] \in States
BY DEF States, Cpus

LEMMA SetFlags ==
  ASSUME NEW s \in States, NEW x \in 0..1, NEW y \in 0..1, NEW z \in 0..1
  PROVE  [s EXCEPT !.S = x, !.Z = y, !.P = z] \in States
BY DEF States, Cpus

LEMMA SetAccumulator ==
  ASSUME NEW s \in States, NEW w8 \in Byte, NEW c \in 0..1, NEW h \in 0..1
  PROVE  /\ [s EXCEPT !.r[A] = w8] \in States
         /\ [s EXCEPT !.r[A] = w8, !.C = c] \in States
         /\ [s EXCEPT !.r[A] = w8, !.C = c, !.H = h] \in States
         /\ [s EXCEPT !.r[A] = w8, !.H = h, !.C = c] \in States
<1>1. A \in Registers
  BY DEF A, Registers
<1>2. PICK t \in States : t = [s EXCEPT !.r[A] = w8]
  BY <1>1, SetRegister
<1>3. PICK u \in States, v \in States : u = [t EXCEPT !.C = c] /\ v = [t EXCEPT !.H = h]
  BY SetFlag
<1>4. [u EXCEPT !.H = h] \in States /\ [v EXCEPT !.C = c] \in States
  BY SetFlag
<1>5. [s EXCEPT !.r[A] = w8] \in States
  BY <1>2
<1>6. [s EXCEPT !.r[A] = w8, !.C = c] = u
  BY <1>2, <1>3, Zenon
<1>7. [s EXCEPT !.r[A] = w8, !.C = c, !.H = h] = [u EXCEPT !.H = h]
  BY <1>2, <1>3, Zenon
<1>8. [s EXCEPT !.r[A] = w8, !.H = h, !.C = c] = [v EXCEPT !.C = c]
  BY <1>2, <1>3, Zenon
<1> QED
  BY <1>4, <1>5, <1>6, <1>7, <1>8

LEMMA BytesRead ==
  ASSUME NEW s \in States, NEW addr \in Word, NEW stack \in BOOLEAN
  PROVE  RD_BYTE(s, addr) \in Byte /\ ReadWord(s, addr, stack) \in Word
<1>1. s.mem \in MachineMems /\ Next16(addr, 1) \in Word
  BY FieldsOf, NextWord
<1>2. PICK low \in Byte, high \in Byte :
        low = read(s.mem, addr, stack) /\ high = read(s.mem, Next16(addr, 1), stack)
  BY <1>1, MemRead
<1>3. RD_BYTE(s, addr) \in Byte
  BY <1>1, MemRead DEF RD_BYTE
<1>4. ReadWord(s, addr, stack) = low + (256 * high)
  BY <1>2 DEF ReadWord
<1> QED
  BY <1>3, <1>4, BytesWord

LEMMA WordsRead ==
  ASSUME NEW s \in States, NEW addr \in Word
  PROVE  RD_WORD(s, addr) \in Word /\ RD_STACK(s, addr) \in Word
BY BytesRead DEF RD_WORD, RD_STACK

LEMMA BytesWritten ==
  ASSUME NEW s \in States, NEW addr, NEW w8 \in Byte
  PROVE  WR_BYTE(s, addr, w8) \in States
BY FieldsOf, MemWrite, SetMem DEF WR_BYTE

LEMMA WordsWritten ==
  ASSUME NEW s \in States, NEW addr, NEW word \in Word, NEW stack
  PROVE  WriteWord(s, addr, word, stack) \in States
<1>1. PICK m \in MachineMems : m = write(s.mem, addr, word % 256, stack)
  BY FieldsOf, MemWrite, WordBytes
<1>2. PICK n \in MachineMems : n = write(m, Next16(addr, 1), word \div 256, stack)
  BY MemWrite, WordBytes
<1>3. WriteWord(s, addr, word, stack) = [s EXCEPT !.mem = n]
  BY <1>1, <1>2 DEF WriteWord
<1> QED
  BY <1>3, SetMem

LEMMA PairWord == ASSUME NEW s \in States, NEW rp \in 0..3 PROVE Pair(s, rp) \in Word
<1>1. CASE rp = 3
  BY <1>1, FieldsOf DEF Pair, SP
<1>2. CASE rp \in 0..2
  <2>1. 2 * rp \in Registers /\ (2 * rp) + 1 \in Registers
    BY <1>2 DEF Registers, B, C, D, E, H, L, A
  <2>2. PICK high \in Byte, low \in Byte : high = s.r[2 * rp] /\ low = s.r[(2 * rp) + 1]
    BY <2>1, FieldsOf
  <2>3. Pair(s, rp) = (256 * high) + low
    BY <1>2, <2>2 DEF Pair, SP
  <2> QED
    BY <2>3, BytesWord
<1> QED
  BY <1>1, <1>2

LEMMA PairSet ==
  ASSUME NEW s \in States, NEW rp \in 0..3, NEW word \in Word PROVE SetPair(s, rp, word) \in States
<1>1. CASE rp = 3
  BY <1>1, SetWord DEF SetPair, SP
<1>2. CASE rp \in 0..2
  <2>1. PICK y \in Registers, z \in Registers : y = 2 * rp /\ z = (2 * rp) + 1
    BY <1>2 DEF Registers, B, C, D, E, H, L, A
  <2>2. PICK high \in Byte, low \in Byte : high = word \div 256 /\ low = word % 256
    BY WordBytes
  <2>3. PICK t \in States : t = [s EXCEPT !.r[y] = high]
    BY SetRegister
  <2>4. [t EXCEPT !.r[z] = low] \in States
    BY SetRegister
  <2>5. SetPair(s, rp, word) = [s EXCEPT !.r[y] = high, !.r[z] = low]
    BY <1>2, <2>1, <2>2 DEF SetPair, SP
  <2>6. [s EXCEPT !.r[y] = high, !.r[z] = low] = [t EXCEPT !.r[z] = low]
    BY <2>3, Zenon
  <2> QED
    BY <2>4, <2>5, <2>6
<1> QED
  BY <1>1, <1>2

LEMMA HLWord == ASSUME NEW s \in States PROVE HL(s) \in Word
BY PairWord DEF HL

LEMMA OperandByte == ASSUME NEW s \in States, NEW y \in 0..7 PROVE Operand(s, y) \in Byte
<1>1. CASE y = M
  BY <1>1, HLWord, BytesRead DEF Operand
<1>2. CASE y # M
  <2>1. y \in Registers
    BY <1>2 DEF Registers, B, C, D, E, H, L, M, A
  <2> QED
    BY <1>2, <2>1, FieldsOf DEF Operand
<1> QED
  BY <1>1, <1>2

LEMMA OperandSet ==
  ASSUME NEW s \in States, NEW y \in 0..7, NEW w8 \in Byte PROVE SetOperand(s, y, w8) \in States
<1>1. CASE y = M
  BY <1>1, BytesWritten DEF SetOperand
<1>2. CASE y # M
  <2>1. y \in Registers
    BY <1>2 DEF Registers, B, C, D, E, H, L, M, A
  <2> QED
    BY <1>2, <2>1, SetRegister DEF SetOperand
<1> QED
  BY <1>1, <1>2

LEMMA SkipState ==
  ASSUME NEW s \in States, NEW n \in Int, NEW addr \in Word
  PROVE  Skip(s, n) \in States /\ Jump(s, addr) \in States
<1>1. PICK pc \in Word : pc = Next16(s.pc, n)
  BY FieldsOf, NextWord
<1>2. Skip(s, n) = [s EXCEPT !.pc = pc]
  BY <1>1 DEF Skip
<1> QED
  BY <1>2, SetWord DEF Jump

LEMMA StackStates ==
  ASSUME NEW s \in States, NEW word \in Word
  PROVE  PUSH(s, word) \in States /\ Popped(s) \in States /\ RET(s) \in States
<1>1. PICK down \in Word, up \in Word : down = Next16(s.sp, -2) /\ up = Next16(s.sp, 2)
  BY FieldsOf, NextWord
<1>2. [s EXCEPT !.sp = down] \in States /\ [s EXCEPT !.sp = up] \in States
  BY SetWord
<1>3. PUSH(s, word) = WriteWord([s EXCEPT !.sp = down], down, word, TRUE)
  BY <1>1 DEF PUSH
<1>4. Popped(s) = [s EXCEPT !.sp = up]
  BY <1>1 DEF Popped
<1>5. RD_STACK(s, s.sp) \in Word
  BY FieldsOf, WordsRead
<1>6. WriteWord([s EXCEPT !.sp = down], down, word, TRUE) \in States
  BY <1>2, WordsWritten
<1>7. PICK t \in States : t = Popped(s)
  BY <1>2, <1>4
<1>8. Jump(t, RD_STACK(s, s.sp)) \in States
  BY <1>5, SkipState
<1> QED
  BY <1>3, <1>6, <1>7, <1>8 DEF RET

LEMMA CallStates ==
  ASSUME NEW s \in States, NEW y \in 0..7 PROVE CALL(s) \in States /\ RST(s, 8 * y) \in States
<1>1. Next16(s.pc, 2) \in Word /\ s.pc \in Word
  BY FieldsOf, NextWord
<1>2. PICK t \in States : t = PUSH(s, Next16(s.pc, 2))
  BY <1>1, StackStates
<1>3. RD_STACK(t, t.pc) \in Word
  BY FieldsOf, WordsRead
<1>4. CALL(s) = Jump(t, RD_STACK(t, t.pc))
  BY <1>2 DEF CALL
<1>5. 8 * y \in Word
  BY WordIs
<1>6. PUSH(s, s.pc) \in States
  BY <1>1, StackStates
<1> QED
  BY <1>3, <1>4, <1>5, <1>6, SkipState DEF RST

-----------------------------------------------------------------------------
(* Flags and arithmetic                                                    *)

LEMMA Szp == ASSUME NEW s \in States, NEW w8 \in Byte PROVE SignZeroParity(s, w8) \in States
<1>1. parity_table[w8] \in 0..1
  BY FlagIs DEF parity_table
<1>2. w8 \div 128 \in 0..1 /\ Flag(w8 = 0) \in 0..1
  BY ByteFields, FlagIs
<1> QED
  BY <1>1, <1>2, SetFlags DEF SignZeroParity

LEMMA SzpKeeps ==
  ASSUME NEW s \in States, NEW w8 \in Byte
  PROVE  SignZeroParity(s, w8).r = s.r /\ SignZeroParity(s, w8).H = s.H
BY DEF SignZeroParity, States, Cpus

LEMMA StoredByte == ASSUME NEW s \in States PROVE StoredFlags(s) \in Byte
<1>1. /\ s.S \in 0..1 /\ s.Z \in 0..1 /\ s.H \in 0..1 /\ s.P \in 0..1 /\ s.C \in 0..1
  BY FieldsOf
<1>2. PICK n \in Int : n = StoredFlags(s) /\ 0 <= n /\ n <= 255
  BY <1>1 DEF StoredFlags
<1> QED
  BY <1>2, ByteIs

LEMMA StoredState == ASSUME NEW s \in States PROVE i8080_store_flags(s) \in States
BY StoredByte DEF i8080_store_flags, States, Cpus

LEMMA Retrieved == ASSUME NEW s \in States PROVE i8080_retrieve_flags(s) \in States
<1>1. s.F \in Nat
  BY FieldsOf, ByteBounds
<1>2. PICK a \in 0..1, b \in 0..1, c \in 0..1, d \in 0..1, e \in 0..1 :
        /\ a = (s.F \div 128) % 2 /\ b = (s.F \div 64) % 2 /\ c = (s.F \div 16) % 2
        /\ d = (s.F \div 4) % 2 /\ e = (s.F \div 1) % 2
  BY <1>1
<1>3. i8080_retrieve_flags(s) = [s EXCEPT !.S = a, !.Z = b, !.H = c, !.P = d, !.C = e]
  BY <1>2 DEF i8080_retrieve_flags
<1>4. PICK t \in States : t = [s EXCEPT !.S = a, !.Z = b, !.H = c]
  BY DEF States, Cpus
<1>5. [t EXCEPT !.P = d, !.C = e] \in States
  BY DEF States, Cpus
<1>6. [s EXCEPT !.S = a, !.Z = b, !.H = c, !.P = d, !.C = e] = [t EXCEPT !.P = d, !.C = e]
  BY <1>4, Zenon
<1> QED
  BY <1>3, <1>5, <1>6

LEMMA InrState == ASSUME NEW s \in States, NEW y \in 0..7 PROVE INR(s, y) \in States
<1>1. Operand(s, y) \in Int
  BY OperandByte, ByteBounds
<1>2. PICK w8 \in Byte : w8 = (Operand(s, y) + 1) % 256
  BY <1>1, LowByte
<1>3. PICK t \in States : t = SignZeroParity(SetOperand(s, y, w8), w8)
  BY OperandSet, Szp
<1>4. PICK h \in 0..1 : h = Flag(w8 % 16 = 0)
  BY DEF Flag
<1>5. INR(s, y) = [t EXCEPT !.H = h]
  BY <1>2, <1>3, <1>4 DEF INR
<1>6. [t EXCEPT !.H = h] \in States
  BY SetFlag
<1> QED
  BY <1>5, <1>6

LEMMA DcrState == ASSUME NEW s \in States, NEW y \in 0..7 PROVE DCR(s, y) \in States
<1>1. Operand(s, y) \in Int
  BY OperandByte, ByteBounds
<1>2. PICK w8 \in Byte : w8 = (Operand(s, y) - 1) % 256
  BY <1>1, LowByte
<1>3. PICK t \in States : t = SignZeroParity(SetOperand(s, y, w8), w8)
  BY OperandSet, Szp
<1>4. PICK h \in 0..1 : h = Flag(w8 % 16 # 15)
  BY DEF Flag
<1>5. DCR(s, y) = [t EXCEPT !.H = h]
  BY <1>2, <1>3, <1>4 DEF DCR
<1>6. [t EXCEPT !.H = h] \in States
  BY SetFlag
<1> QED
  BY <1>5, <1>6

LEMMA HalfCarries ==
  ASSUME NEW a \in Int, NEW val \in Int, NEW work16 \in Int
  PROVE  /\ half_carry_table[Index(a, val, work16)] \in 0..1
         /\ 1 - sub_half_carry_table[Index(a, val, work16)] \in 0..1
<1>1. Bit3(a) \in 0..1 /\ Bit3(val) \in 0..1 /\ Bit3(work16) \in 0..1
  BY DEF Bit3
<1>2. PICK i \in 1..8 : i = Index(a, val, work16)
  BY <1>1 DEF Index
<1>3. half_carry_table[i] \in 0..1 /\ sub_half_carry_table[i] \in 0..1
  BY DEF half_carry_table, sub_half_carry_table
<1> QED
  BY <1>2, <1>3

LEMMA ABytes == ASSUME NEW s \in States PROVE s.r[A] \in Byte
BY FieldsOf DEF Registers, A

LEMMA ResultState ==
  ASSUME NEW s \in States, NEW work16 \in Int, NEW halfcarry \in 0..1
  PROVE  Result(s, work16, halfcarry) \in States
<1>1. PICK w8 \in Byte : w8 = work16 % 256
  BY LowByte
<1>2. PICK c \in 0..1 : c = (work16 \div 256) % 2
  OBVIOUS
<1>3. PICK t \in States : t = SignZeroParity(s, w8)
  BY Szp
<1>4. Result(s, work16, halfcarry) = [t EXCEPT !.r[A] = w8, !.C = c, !.H = halfcarry]
  BY <1>1, <1>2, <1>3 DEF Result
<1>5. [t EXCEPT !.r[A] = w8, !.C = c, !.H = halfcarry] \in States
  BY SetAccumulator
<1> QED
  BY <1>4, <1>5

LEMMA AdcState ==
  ASSUME NEW s \in States, NEW val \in Int, NEW carry \in Int PROVE ADC(s, val, carry) \in States
<1>1. s.r[A] \in Int
  BY ABytes, ByteBounds
<1>2. PICK work16 \in Int : work16 = s.r[A] + val + carry
  BY <1>1
<1>3. PICK h \in 0..1 : h = half_carry_table[Index(s.r[A], val, work16)]
  BY <1>1, HalfCarries
<1>4. ADC(s, val, carry) = Result(s, work16, h)
  BY <1>2, <1>3 DEF ADC
<1> QED
  BY <1>4, ResultState

LEMMA SbbState ==
  ASSUME NEW s \in States, NEW val \in Int, NEW carry \in Int PROVE SBB(s, val, carry) \in States
<1>1. s.r[A] \in Int
  BY ABytes, ByteBounds
<1>2. PICK work16 \in Int : work16 = (s.r[A] - val - carry) % 65536
  BY <1>1
<1>3. PICK h \in 0..1 : h = 1 - sub_half_carry_table[Index(s.r[A], val, work16)]
  BY <1>1, HalfCarries
<1>4. SBB(s, val, carry) = Result(s, work16, h)
  BY <1>2, <1>3 DEF SBB
<1> QED
  BY <1>4, ResultState

LEMMA CmpState == ASSUME NEW s \in States, NEW val \in Int PROVE CMP(s, val) \in States
<1>1. PICK t \in States : t = SBB(s, val, 0)
  BY SbbState
<1>2. A \in Registers
  BY DEF Registers, A
<1> QED
  BY <1>1, <1>2, ABytes, SetRegister DEF CMP

LEMMA LogicState ==
  ASSUME NEW s \in States, NEW w8 \in Byte, NEW halfcarry \in 0..1
  PROVE  Logic(s, w8, halfcarry) \in States
<1>1. PICK t \in States : t = SignZeroParity(s, w8)
  BY Szp
<1>2. PICK c \in 0..1 : c = 0
  OBVIOUS
<1>3. [t EXCEPT !.r[A] = w8, !.H = halfcarry, !.C = c] \in States
  BY SetAccumulator
<1>4. Logic(s, w8, halfcarry) = [t EXCEPT !.r[A] = w8, !.H = halfcarry, !.C = c]
  BY <1>1, <1>2 DEF Logic
<1> QED
  BY <1>3, <1>4

LEMMA ByteOfByte == ASSUME NEW bits PROVE ByteOf(bits) \in Byte
<1> DEFINE value(bit) == IF bit \in bits THEN bit ELSE 0
<1>1. \A bit \in Nat : value(bit) \in Int /\ 0 <= value(bit) /\ value(bit) <= bit
  OBVIOUS
<1>2. ByteOf(bits) = value(1) + value(2) + value(4) + value(8)
                       + value(16) + value(32) + value(64) + value(128)
  BY DEF ByteOf
<1> HIDE DEF value
<1>3. PICK n \in Int : n = ByteOf(bits) /\ 0 <= n /\ n <= 255
  BY <1>1, <1>2
<1> QED
  BY <1>3, ByteIs

LEMMA AluState ==
  ASSUME NEW s \in States, NEW y \in 0..7, NEW val \in Byte PROVE Alu(s, y, val) \in States
<1>1. val \in Int /\ s.C \in Int /\ 0 \in Int
  BY FieldsOf, ByteBounds
<1>2. /\ ADC(s, val, 0) \in States /\ ADC(s, val, s.C) \in States
      /\ SBB(s, val, 0) \in States /\ SBB(s, val, s.C) \in States /\ CMP(s, val) \in States
  BY <1>1, AdcState, SbbState, CmpState
<1>3. ANA(s, val) \in States /\ XRA(s, val) \in States /\ ORA(s, val) \in States
  <2>1. \A bits : ByteOf(bits) \in Byte
    BY ByteOfByte
  <2>2. PICK h \in 0..1 : h = Flag(8 \in BitsOf(s.r[A]) \cup BitsOf(val))
    BY DEF Flag
  <2>3. 0 \in 0..1
    OBVIOUS
  <2> QED
    BY <2>1, <2>2, <2>3, LogicState DEF ANA, XRA, ORA
<1> QED
  BY <1>2, <1>3 DEF Alu

LEMMA DadState == ASSUME NEW s \in States, NEW word \in Word PROVE DAD(s, word) \in States
<1>1. PICK n \in Int : n = HL(s) /\ 0 <= n /\ n <= 65535
  BY HLWord, WordBounds
<1>2. PICK m \in Int : m = word /\ 0 <= m /\ m <= 65535
  BY WordBounds
<1>3. PICK work32 \in Int : work32 = n + m /\ 0 <= work32 /\ work32 < 131072
  BY <1>1, <1>2
<1>4. PICK low \in Word, c \in 0..1 : low = work32 % 65536 /\ c = work32 \div 65536
  <2>1. work32 \div 65536 \in 0..1
    BY <1>3
  <2> QED
    BY <2>1, LowWord
<1>5. PICK t \in States : t = SetPair(s, 2, low)
  BY PairSet
<1>6. DAD(s, word) = [t EXCEPT !.C = c]
  BY <1>1, <1>2, <1>3, <1>4, <1>5 DEF DAD
<1>7. [t EXCEPT !.C = c] \in States
  BY SetFlag
<1> QED
  BY <1>6, <1>7

LEMMA DaaState == ASSUME NEW s \in States PROVE DAA(s) \in States
<1> DEFINE a == s.r[A]
           low == IF s.H = 1 \/ a % 16 > 9 THEN 6 ELSE 0
           high == s.C = 1 \/ a \div 16 > 9 \/ (a \div 16 >= 9 /\ a % 16 > 9)
<1>1. PICK n \in Int : n = low + IF high THEN 96 ELSE 0
  OBVIOUS
<1>2. PICK c \in 0..1 : c = Flag(high)
  BY DEF Flag
<1>3. DAA(s) = [ADC(s, low + IF high THEN 96 ELSE 0, 0) EXCEPT !.C = Flag(high)]
  BY DEF DAA
<1> HIDE DEF a, low, high
<1>4. PICK t \in States : t = ADC(s, n, 0)
  BY AdcState
<1>5. DAA(s) = [t EXCEPT !.C = c]
  BY <1>1, <1>2, <1>3, <1>4
<1>6. [t EXCEPT !.C = c] \in States
  BY SetFlag
<1> QED
  BY <1>5, <1>6

LEMMA AccumulatorState ==
  ASSUME NEW s \in States, NEW y \in 0..7 PROVE Accumulator(s, y) \in States
<1>1. PICK a \in Nat : a = s.r[A] /\ a <= 255
  BY ABytes, ByteBounds
<1>2. /\ a \div 128 \in 0..1 /\ a % 2 \in 0..1 /\ s.C \in 0..1 /\ 1 - s.C \in 0..1 /\ 1 \in 0..1
  BY <1>1, FieldsOf
<1>3. \A in \in 0..1, c \in 0..1 : [s EXCEPT !.r[A] = ((2 * a) % 256) + in, !.C = c] \in States
  <2> TAKE in \in 0..1, c \in 0..1
  <2>1. PICK w8 \in Int : w8 = ((2 * a) % 256) + in /\ 0 <= w8 /\ w8 <= 255
    <3>1. PICK h \in Int : h = (2 * a) % 256 /\ 0 <= h /\ h <= 254
      OBVIOUS
    <3> QED
      BY <3>1
  <2>2. w8 \in Byte
    BY <2>1, ByteIs
  <2>3. [s EXCEPT !.r[A] = w8, !.C = c] \in States
    BY <2>2, SetAccumulator
  <2> QED
    BY <2>1, <2>3
<1>4. \A in \in 0..1, c \in 0..1 : [s EXCEPT !.r[A] = (a \div 2) + (128 * in), !.C = c] \in States
  <2> TAKE in \in 0..1, c \in 0..1
  <2>1. PICK w8 \in Int : w8 = (a \div 2) + (128 * in) /\ 0 <= w8 /\ w8 <= 255
    BY <1>1
  <2>2. w8 \in Byte
    BY <2>1, ByteIs
  <2>3. [s EXCEPT !.r[A] = w8, !.C = c] \in States
    BY <2>2, SetAccumulator
  <2> QED
    BY <2>1, <2>3
<1>5. [s EXCEPT !.r[A] = 255 - a] \in States
  <2>1. 255 - a \in Byte /\ A \in Registers
    BY <1>1, ByteIs DEF Registers, A
  <2> QED
    BY <2>1, SetRegister
<1>6. [s EXCEPT !.C = 1] \in States /\ [s EXCEPT !.C = 1 - s.C] \in States
  BY <1>2, SetFlag
<1>7. DAA(s) \in States
  BY DaaState
<1>8. CASE y = 0
  <2>1. PICK in \in 0..1, c \in 0..1 : in = a \div 128 /\ c = a \div 128
    BY <1>2
  <2>2. [s EXCEPT !.r[A] = ((2 * a) % 256) + in, !.C = c] \in States
    BY <1>3
  <2>3. Accumulator(s, 0) = [s EXCEPT !.r[A] = ((2 * a) % 256) + in, !.C = c]
    BY <1>1, <2>1 DEF Accumulator
  <2> QED
    BY <1>8, <2>2, <2>3
<1>9. CASE y = 1
  <2>1. PICK in \in 0..1, c \in 0..1 : in = a % 2 /\ c = a % 2
    BY <1>2
  <2>2. [s EXCEPT !.r[A] = (a \div 2) + (128 * in), !.C = c] \in States
    BY <1>4
  <2>3. Accumulator(s, 1) = [s EXCEPT !.r[A] = (a \div 2) + (128 * in), !.C = c]
    BY <1>1, <2>1 DEF Accumulator
  <2> QED
    BY <1>9, <2>2, <2>3
<1>12. CASE y = 2
  <2>1. PICK in \in 0..1, c \in 0..1 : in = s.C /\ c = a \div 128
    BY <1>2
  <2>2. [s EXCEPT !.r[A] = ((2 * a) % 256) + in, !.C = c] \in States
    BY <1>3
  <2>3. Accumulator(s, 2) = [s EXCEPT !.r[A] = ((2 * a) % 256) + in, !.C = c]
    BY <1>1, <2>1 DEF Accumulator
  <2> QED
    BY <1>12, <2>2, <2>3
<1>13. CASE y = 3
  <2>1. PICK in \in 0..1, c \in 0..1 : in = s.C /\ c = a % 2
    BY <1>2
  <2>2. [s EXCEPT !.r[A] = (a \div 2) + (128 * in), !.C = c] \in States
    BY <1>4
  <2>3. Accumulator(s, 3) = [s EXCEPT !.r[A] = (a \div 2) + (128 * in), !.C = c]
    BY <1>1, <2>1 DEF Accumulator
  <2> QED
    BY <1>13, <2>2, <2>3
<1>10. CASE y \in {4, 5}
  BY <1>1, <1>5, <1>7, <1>10 DEF Accumulator
<1>11. CASE y \in {6, 7}
  BY <1>6, <1>11 DEF Accumulator
<1> QED
  BY <1>8, <1>9, <1>10, <1>11, <1>12, <1>13

LEMMA IffStates ==
  ASSUME NEW s \in States
  PROVE  hal_iff(s, TRUE) \in States /\ hal_iff(s, FALSE) \in States
<1>1. PICK q \in BOOLEAN : q = s.irq
  BY FieldsOf
<1>2. [s EXCEPT !.inte = TRUE, !.irq = q] \in States
  BY <1>1 DEF States, Cpus
<1>3. [s EXCEPT !.inte = FALSE, !.irq = FALSE] \in States
  BY DEF States, Cpus
<1>4. (s.irq /\ TRUE) = q /\ (s.irq /\ FALSE) = FALSE
  BY <1>1
<1> QED
  BY <1>2, <1>3, <1>4 DEF hal_iff

LEMMA EnableStates ==
  ASSUME NEW s \in States
  PROVE  /\ EnableInterrupts(s) \in States /\ DisableInterrupts(s) \in States
         /\ ~EnableInterrupts(s).iff /\ EnableInterrupts(s).ei_pending = 2
<1>1. PICK t \in States, u \in States : t = hal_iff(s, TRUE) /\ u = hal_iff(s, FALSE)
  BY IffStates
<1>2. \A n \in 0..2, x \in States :
        /\ [x EXCEPT !.iff = FALSE, !.ei_pending = n] \in States
        /\ ~[x EXCEPT !.iff = FALSE, !.ei_pending = n].iff
        /\ [x EXCEPT !.iff = FALSE, !.ei_pending = n].ei_pending = n
  <2> TAKE n \in 0..2, x \in States
  <2>1. [x EXCEPT !.iff = FALSE, !.ei_pending = n] \in States
    BY DEF States, Cpus
  <2>2. ~[x EXCEPT !.iff = FALSE, !.ei_pending = n].iff
    BY DEF States, Cpus
  <2>3. [x EXCEPT !.iff = FALSE, !.ei_pending = n].ei_pending = n
    BY DEF States, Cpus
  <2> QED
    BY <2>1, <2>2, <2>3
<1>3. PICK two \in 0..2, none \in 0..2 : two = 2 /\ none = 0
  OBVIOUS
<1>4. /\ EnableInterrupts(s) = [t EXCEPT !.iff = FALSE, !.ei_pending = two]
      /\ DisableInterrupts(s) = [u EXCEPT !.iff = FALSE, !.ei_pending = none]
  BY <1>1, <1>3 DEF EnableInterrupts, DisableInterrupts
<1>5. /\ [t EXCEPT !.iff = FALSE, !.ei_pending = two] \in States
      /\ ~[t EXCEPT !.iff = FALSE, !.ei_pending = two].iff
      /\ [t EXCEPT !.iff = FALSE, !.ei_pending = two].ei_pending = two
      /\ [u EXCEPT !.iff = FALSE, !.ei_pending = none] \in States
  BY <1>2
<1> QED
  BY <1>3, <1>4, <1>5

-----------------------------------------------------------------------------
(* The instructions                                                        *)

LEMMA TransferState == ASSUME NEW s \in States, NEW y \in 0..7 PROVE Transfer(s, y) \in States
<1>1. PICK word \in Word, a \in Byte, hl \in Word :
        word = RD_WORD(s, s.pc) /\ a = s.r[A] /\ hl = HL(s)
  BY FieldsOf, WordsRead, ABytes, HLWord
<1>2. PICK t \in States : t = Skip(s, 2)
  BY FieldsOf, SkipState
<1>3. A \in Registers
  BY DEF Registers, A
<1>4. CASE y = 0
  <2>1. PICK addr \in Word : addr = Pair(s, 0)
    BY PairWord
  <2>2. Transfer(s, 0) = WR_BYTE(s, Pair(s, 0 \div 2), s.r[A]) /\ 0 \div 2 = 0
    BY DEF Transfer
  <2>3. WR_BYTE(s, addr, a) \in States
    BY BytesWritten
  <2> QED
    BY <1>1, <1>4, <2>1, <2>2, <2>3
<1>10. CASE y = 2
  <2>1. PICK addr \in Word : addr = Pair(s, 1)
    BY PairWord
  <2>2. Transfer(s, 2) = WR_BYTE(s, Pair(s, 2 \div 2), s.r[A]) /\ 2 \div 2 = 1
    BY DEF Transfer
  <2>3. WR_BYTE(s, addr, a) \in States
    BY BytesWritten
  <2> QED
    BY <1>1, <1>10, <2>1, <2>2, <2>3
<1>5. CASE y = 1
  <2>1. PICK addr \in Word : addr = Pair(s, 0)
    BY PairWord
  <2>2. PICK w8 \in Byte : w8 = RD_BYTE(s, addr)
    BY BytesRead
  <2>3. Transfer(s, 1) = [s EXCEPT !.r[A] = RD_BYTE(s, Pair(s, 1 \div 2))] /\ 1 \div 2 = 0
    BY DEF Transfer
  <2> QED
    BY <1>3, <1>5, <2>1, <2>2, <2>3, SetRegister
<1>11. CASE y = 3
  <2>1. PICK addr \in Word : addr = Pair(s, 1)
    BY PairWord
  <2>2. PICK w8 \in Byte : w8 = RD_BYTE(s, addr)
    BY BytesRead
  <2>3. Transfer(s, 3) = [s EXCEPT !.r[A] = RD_BYTE(s, Pair(s, 3 \div 2))] /\ 3 \div 2 = 1
    BY DEF Transfer
  <2> QED
    BY <1>3, <1>11, <2>1, <2>2, <2>3, SetRegister
<1>6. CASE y = 4
  <2>1. Transfer(s, y) = WriteWord(t, word, hl, FALSE)
    BY <1>1, <1>2, <1>6 DEF Transfer
  <2> QED
    BY <2>1, WordsWritten
<1>7. CASE y = 5
  <2>1. RD_WORD(s, word) \in Word
    BY WordsRead
  <2>2. Transfer(s, y) = SetPair(t, 2, RD_WORD(s, word))
    BY <1>1, <1>2, <1>7 DEF Transfer
  <2> QED
    BY <2>1, <2>2, PairSet
<1>8. CASE y = 6
  <2>1. Transfer(s, y) = WR_BYTE(t, word, a)
    BY <1>1, <1>2, <1>8 DEF Transfer
  <2> QED
    BY <2>1, BytesWritten
<1>9. CASE y = 7
  <2>1. PICK w8 \in Byte : w8 = RD_BYTE(s, word)
    BY BytesRead
  <2>2. Transfer(s, y) = [t EXCEPT !.r[A] = w8]
    BY <1>1, <1>2, <1>9, <2>1 DEF Transfer
  <2> QED
    BY <1>3, <2>2, SetRegister
<1> QED
  BY <1>4, <1>5, <1>6, <1>7, <1>8, <1>9, <1>10, <1>11

LEMMA Row0State ==
  ASSUME NEW s \in States, NEW y \in 0..7, NEW z \in 0..7 PROVE Row0(s, y, z) \in States
<1>1. PICK rp \in 0..3 : rp = y \div 2
  OBVIOUS
<1>2. Pair(s, rp) \in Word /\ RD_WORD(s, s.pc) \in Word /\ RD_BYTE(s, s.pc) \in Byte
  BY PairWord, WordsRead, BytesRead, FieldsOf
<1>3. Skip(s, 1) \in States /\ Skip(s, 2) \in States
  BY FieldsOf, SkipState
<1>4. /\ Next16(Pair(s, rp), 1) \in Word /\ Next16(Pair(s, rp), -1) \in Word
  BY <1>2, NextWord
<1>5. CASE z = 1
  <2>1. SetPair(Skip(s, 2), rp, RD_WORD(s, s.pc)) \in States /\ DAD(s, Pair(s, rp)) \in States
    BY <1>2, <1>3, PairSet, DadState
  <2> QED
    BY <1>1, <1>5, <2>1 DEF Row0
<1>6. CASE z = 3
  <2>1. /\ SetPair(s, rp, Next16(Pair(s, rp), 1)) \in States
        /\ SetPair(s, rp, Next16(Pair(s, rp), -1)) \in States
    BY <1>4, PairSet
  <2> QED
    BY <1>1, <1>6, <2>1 DEF Row0
<1>7. CASE z = 6
  <2>1. SetOperand(Skip(s, 1), y, RD_BYTE(s, s.pc)) \in States
    BY <1>2, <1>3, OperandSet
  <2> QED
    BY <1>7, <2>1 DEF Row0
<1>8. CASE z \in {0, 2, 4, 5, 7}
  BY <1>8, TransferState, InrState, DcrState, AccumulatorState DEF Row0
<1> QED
  BY <1>5, <1>6, <1>7, <1>8

LEMMA PairsPopped == ASSUME NEW s \in States, NEW rp \in 0..3 PROVE PopPair(s, rp) \in States
<1>1. PICK word \in Word : word = RD_STACK(s, s.sp)
  BY FieldsOf, WordsRead
<1>2. PICK t \in States : t = Popped(s)
  BY <1>1, StackStates
<1>3. PICK high \in Byte, low \in Byte : high = word \div 256 /\ low = word % 256
  BY WordBytes
<1>4. CASE rp = AF
  <2>1. A \in Registers
    BY DEF Registers, A
  <2>2. PICK u \in States : u = [t EXCEPT !.r[A] = high]
    BY <2>1, SetRegister
  <2>3. [u EXCEPT !.F = low] \in States
    BY DEF States, Cpus
  <2>4. [t EXCEPT !.r[A] = high, !.F = low] = [u EXCEPT !.F = low]
    BY <2>2, Zenon
  <2>5. PopPair(s, rp) = i8080_retrieve_flags([t EXCEPT !.r[A] = high, !.F = low])
    BY <1>1, <1>2, <1>3, <1>4 DEF PopPair
  <2> QED
    BY <2>3, <2>4, <2>5, Retrieved
<1>5. CASE rp # AF
  <2>1. PopPair(s, rp) = SetPair(t, rp, word)
    BY <1>1, <1>2, <1>5 DEF PopPair
  <2> QED
    BY <2>1, PairSet
<1> QED
  BY <1>4, <1>5

LEMMA PairsPushed == ASSUME NEW s \in States, NEW rp \in 0..3 PROVE PushPair(s, rp) \in States
<1>1. (256 * s.r[A]) + StoredFlags(s) \in Word
  BY ABytes, StoredByte, BytesWord
<1>2. i8080_store_flags(s) \in States /\ Pair(s, rp) \in Word
  BY StoredState, PairWord
<1> QED
  BY <1>1, <1>2, StackStates DEF PushPair

LEMMA SpecialState == ASSUME NEW s \in States, NEW y \in 0..7 PROVE Special(s, y) \in States
<1>1. PICK word \in Word, w8 \in Byte, a \in Byte, hl \in Word, de \in Word, top \in Word :
        /\ word = RD_WORD(s, s.pc) /\ w8 = RD_BYTE(s, s.pc) /\ a = s.r[A] /\ hl = HL(s)
        /\ de = Pair(s, 1) /\ top = RD_STACK(s, s.sp)
  BY FieldsOf, WordsRead, BytesRead, ABytes, HLWord, PairWord
<1>2. PICK t \in States : t = Skip(s, 1)
  BY FieldsOf, SkipState
<1>3. CASE y \in {0, 1}
  <2>1. Special(s, 0) = Jump(s, word) /\ Special(s, 1) = Jump(s, word)
    BY <1>1 DEF Special
  <2>2. Jump(s, word) \in States
    BY SkipState
  <2> QED
    BY <1>3, <2>1, <2>2
<1>4. CASE y = 2
  <2>1. Special(s, y) = [t EXCEPT !.out = <<w8, a>>]
    BY <1>1, <1>2, <1>4 DEF Special
  <2>2. <<w8, a>> \in {Nothing} \cup (Byte \X Byte)
    OBVIOUS
  <2>3. \A out \in {Nothing} \cup (Byte \X Byte) : [t EXCEPT !.out = out] \in States
    BY DEF States, Cpus
  <2> QED
    BY <2>1, <2>2, <2>3
<1>5. CASE y = 3
  <2>1. Special(s, y) = [t EXCEPT !.r[A] = s.bus]
    BY <1>2, <1>5 DEF Special
  <2>2. s.bus \in Byte /\ A \in Registers
    BY FieldsOf DEF Registers, A
  <2> QED
    BY <2>1, <2>2, SetRegister
<1>6. CASE y = 4
  <2>1. PICK u \in States : u = WriteWord(s, s.sp, hl, TRUE)
    BY WordsWritten
  <2>2. Special(s, y) = SetPair(u, 2, top)
    BY <1>1, <1>6, <2>1 DEF Special
  <2> QED
    BY <2>2, PairSet
<1>7. CASE y = 5
  <2>1. PICK u \in States : u = SetPair(s, 1, hl)
    BY PairSet
  <2>2. Special(s, y) = SetPair(u, 2, de)
    BY <1>1, <1>7, <2>1 DEF Special
  <2> QED
    BY <2>2, PairSet
<1>8. CASE y = 6
  BY <1>8, EnableStates DEF Special
<1>9. CASE y = 7
  BY <1>9, EnableStates DEF Special
<1> QED
  BY <1>3, <1>4, <1>5, <1>6, <1>7, <1>8, <1>9

LEMMA Row3State ==
  ASSUME NEW s \in States, NEW y \in 0..7, NEW z \in 0..7 PROVE Row3(s, y, z) \in States
<1>1. PICK rp \in 0..3 : rp = y \div 2
  OBVIOUS
<1>2. PICK word \in Word, w8 \in Byte, hl \in Word :
        word = RD_WORD(s, s.pc) /\ w8 = RD_BYTE(s, s.pc) /\ hl = HL(s)
  BY FieldsOf, WordsRead, BytesRead, HLWord
<1>3. PICK t \in States, u \in States : t = Skip(s, 1) /\ u = Skip(s, 2)
  BY FieldsOf, SkipState
<1>4. RET(s) \in States /\ CALL(s) \in States /\ RST(s, 8 * y) \in States
  BY <1>2, StackStates, CallStates
<1>5. CASE z \in {0, 4, 7}
  BY <1>3, <1>4, <1>5 DEF Row3
<1>6. CASE z = 1
  <2>1. PopPair(s, rp) \in States /\ Jump(s, hl) \in States /\ [s EXCEPT !.sp = hl] \in States
    <3>1. PopPair(s, rp) \in States
      BY PairsPopped
    <3>2. Jump(s, hl) \in States
      BY SkipState
    <3>3. [s EXCEPT !.sp = hl] \in States
      BY SetWord
    <3> QED
      BY <3>1, <3>2, <3>3
  <2>2. CASE y % 2 = 0
    BY <1>1, <1>6, <2>1, <2>2 DEF Row3
  <2>3. CASE y \in {1, 3}
    BY <1>4, <1>6, <2>3 DEF Row3
  <2>4. CASE y = 5
    BY <1>2, <1>6, <2>1, <2>4 DEF Row3
  <2>5. CASE y = 7
    BY <1>2, <1>6, <2>1, <2>5 DEF Row3
  <2> QED
    BY <2>2, <2>3, <2>4, <2>5
<1>7. CASE z = 2
  <2>1. Jump(s, word) \in States
    BY SkipState
  <2> QED
    BY <1>2, <1>3, <1>7, <2>1 DEF Row3
<1>8. CASE z = 3
  BY <1>8, SpecialState DEF Row3
<1>9. CASE z = 5
  BY <1>1, <1>4, <1>9, PairsPushed DEF Row3
<1>10. CASE z = 6
  <2>1. Alu(t, y, w8) \in States
    BY AluState
  <2> QED
    BY <1>2, <1>3, <1>10, <2>1 DEF Row3
<1> QED
  BY <1>5, <1>6, <1>7, <1>8, <1>9, <1>10

LEMMA EffectState ==
  ASSUME NEW s \in States, NEW opcode \in Byte PROVE Effect(s, opcode) \in States
<1>1. PICK x \in 0..3, y \in 0..7, z \in 0..7 :
        x = opcode \div 64 /\ y = (opcode \div 8) % 8 /\ z = opcode % 8
  BY ByteFields
<1>2. HLT \div 64 = 1 /\ HLT \in Int
  BY DEF HLT
<1>3. /\ Row0(s, y, z) \in States /\ Row3(s, y, z) \in States
      /\ MOV(s, y, z) \in States /\ Alu(s, y, Operand(s, z)) \in States
  BY Row0State, Row3State, OperandByte, OperandSet, AluState DEF MOV
<1>4. Skip(s, -1) \in States
  BY FieldsOf, SkipState
<1>5. CASE x = 0
  BY <1>1, <1>2, <1>3, <1>5 DEF Effect
<1>6. CASE x = 1
  <2>1. CASE opcode = HLT
    BY <1>1, <1>2, <1>4, <1>6, <2>1 DEF Effect
  <2>2. CASE opcode # HLT
    BY <1>1, <1>3, <1>6, <2>2 DEF Effect
  <2> QED
    BY <2>1, <2>2
<1>7. CASE x = 2
  BY <1>1, <1>2, <1>3, <1>7 DEF Effect
<1>8. CASE x = 3
  BY <1>1, <1>2, <1>3, <1>8 DEF Effect
<1> QED
  BY <1>5, <1>6, <1>7, <1>8

LEMMA CyclesNat ==
  ASSUME NEW s \in States, NEW opcode \in Byte PROVE Cycles(s, opcode) \in Nat \X Nat
<1>1. PICK x \in 0..3, y \in 0..7, z \in 0..7 :
        x = opcode \div 64 /\ y = (opcode \div 8) % 8 /\ z = opcode % 8
  BY ByteFields
<1>2. opcode = (64 * x) + (8 * y) + z
  <2>1. \A n \in Nat : n = (64 * (n \div 64)) + (8 * ((n \div 8) % 8)) + (n % 8)
    OBVIOUS
  <2>2. opcode \in Nat
    BY ByteBounds
  <2> QED
    BY <1>1, <2>1, <2>2
<1>3. CASE x = 0
  BY <1>1, <1>2, <1>3 DEF Cycles, HLT, M
<1>4. CASE x = 1
  BY <1>1, <1>2, <1>4 DEF Cycles, HLT, M
<1>5. CASE x = 2
  BY <1>1, <1>2, <1>5 DEF Cycles, HLT, M
<1>6. CASE x = 3
  BY <1>1, <1>2, <1>6 DEF Cycles, HLT, M
<1> QED
  BY <1>3, <1>4, <1>5, <1>6

LEMMA Executed ==
  ASSUME NEW s \in States, NEW opcode \in Byte
  PROVE  /\ i8080_execute(s, opcode) \in States
         /\ i8080_execute(s, opcode).ei_pending \in 0..1
         /\ opcode = EI => ~i8080_execute(s, opcode).iff
<1>1. PICK t \in States : t = Effect(s, opcode)
  BY EffectState
<1>2. t.ei_pending \in 0..2
  BY FieldsOf
<1>3. PICK pending \in 0..1 : pending = IF t.ei_pending = 0 THEN 0 ELSE t.ei_pending - 1
  BY <1>2
<1>4. PICK u \in States : u = hal_iff(t, TRUE)
  BY IffStates
<1>5. [u EXCEPT !.iff = TRUE] \in States
  BY DEF States, Cpus
<1>6. PICK enabled \in States :
        enabled = IF t.ei_pending = 1 THEN [hal_iff(t, TRUE) EXCEPT !.iff = TRUE] ELSE t
  BY <1>4, <1>5
<1>7. PICK cycles \in Nat \X Nat : cycles = Cycles(s, opcode)
  BY CyclesNat
<1>8. i8080_execute(s, opcode) = [enabled EXCEPT !.ei_pending = pending, !.cycles = cycles]
  BY <1>1, <1>3, <1>6, <1>7 DEF i8080_execute
<1>9. pending \in 0..2
  BY <1>3
<1>10. [enabled EXCEPT !.ei_pending = pending, !.cycles = cycles] \in States
  BY <1>9 DEF States, Cpus
<1>11. /\ [enabled EXCEPT !.ei_pending = pending, !.cycles = cycles].ei_pending = pending
       /\ [enabled EXCEPT !.ei_pending = pending, !.cycles = cycles].iff = enabled.iff
  BY DEF States, Cpus
<1>12. ASSUME opcode = EI PROVE ~enabled.iff
  <2>1. EI \div 64 = 3 /\ (EI \div 8) % 8 = 7 /\ EI % 8 = 3 /\ EI # HLT
    BY DEF EI, HLT
  <2>2. Effect(s, EI) = Row3(s, 7, 3)
    BY <2>1 DEF Effect
  <2>3. Row3(s, 7, 3) = Special(s, 7) /\ Special(s, 7) = EnableInterrupts(s)
    BY DEF Row3, Special
  <2>4. ~t.iff /\ t.ei_pending = 2
    BY <1>1, <1>12, <2>2, <2>3, EnableStates
  <2> QED
    BY <1>6, <2>4
<1> QED
  BY <1>3, <1>8, <1>10, <1>11, <1>12

LEMMA InstructionState ==
  ASSUME NEW s \in States
  PROVE  /\ RD_BYTE(s, s.pc) \in Byte
         /\ i8080_instruction(s) \in States
         /\ i8080_instruction(s).ei_pending \in 0..1
         /\ RD_BYTE(s, s.pc) = EI => ~i8080_instruction(s).iff
<1>1. PICK opcode \in Byte : opcode = RD_BYTE(s, s.pc)
  BY FieldsOf, BytesRead
<1>2. PICK t \in States : t = Skip(s, 1)
  BY FieldsOf, SkipState
<1>3. i8080_instruction(s) = i8080_execute(t, opcode)
  BY <1>1, <1>2 DEF i8080_instruction
<1> QED
  BY <1>1, <1>3, Executed

-----------------------------------------------------------------------------
(* The board                                                               *)

LEMMA AcknowledgedState == ASSUME NEW s \in States PROVE Acknowledged(s) \in States
<1>1. PICK low \in States : low = hal_iff(s, FALSE)
  BY IffStates
<1>2. Skip(low, 1) \in States /\ RST7 \in Byte
  BY FieldsOf, SkipState, ByteIs DEF RST7
<1>3. Acknowledged(s) = i8080_execute(IF last_opcode = HLT THEN Skip(low, 1) ELSE low, RST7)
  BY <1>1 DEF Acknowledged
<1> QED
  BY <1>2, <1>3, Executed

LEMMA Committed ==
  ASSUME NEW s \in States
  PROVE  /\ commit(s) \in States /\ commit(s).out = Nothing
         /\ commit(s).iff = s.iff /\ commit(s).ei_pending = s.ei_pending
<1>1. PICK t \in States : t = [s EXCEPT !.out = Nothing]
  BY DEF States, Cpus
<1>2. t.out = Nothing /\ t.iff = s.iff /\ t.ei_pending = s.ei_pending
  BY <1>1 DEF States, Cpus
<1>3. ASSUME s.out # Nothing
      PROVE  /\ [s EXCEPT !.mem = control_write(@, s.out[2]), !.out = Nothing] \in States
             /\ [s EXCEPT !.mem = control_write(@, s.out[2]), !.out = Nothing].out = Nothing
             /\ [s EXCEPT !.mem = control_write(@, s.out[2]), !.out = Nothing].iff = s.iff
             /\ [s EXCEPT !.mem = control_write(@, s.out[2]), !.out = Nothing].ei_pending
                  = s.ei_pending
  <2>1. s.out[2] \in Byte
    BY <1>3, FieldsOf
  <2>2. PICK m \in MachineMems : m = control_write(s.mem, s.out[2])
    BY <2>1, FieldsOf, MemControl
  <2>3. PICK u \in States : u = [s EXCEPT !.mem = m]
    BY SetMem
  <2>4. u.iff = s.iff /\ u.ei_pending = s.ei_pending
    BY <2>3 DEF States, Cpus
  <2>5. [u EXCEPT !.out = Nothing] \in States
    BY DEF States, Cpus
  <2>6. /\ [u EXCEPT !.out = Nothing].out = Nothing /\ [u EXCEPT !.out = Nothing].iff = u.iff
        /\ [u EXCEPT !.out = Nothing].ei_pending = u.ei_pending
    BY DEF States, Cpus
  <2>7. [s EXCEPT !.mem = control_write(@, s.out[2]), !.out = Nothing] = [u EXCEPT !.out = Nothing]
    BY <2>2, <2>3
  <2> QED
    BY <2>4, <2>5, <2>6, <2>7
<1>4. CASE s.out # Nothing /\ s.out[1] = 16
  <2>1. commit(s) = [s EXCEPT !.mem = control_write(@, s.out[2]), !.out = Nothing]
    BY <1>4 DEF commit
  <2> QED
    BY <1>3, <1>4, <2>1
<1>5. CASE ~(s.out # Nothing /\ s.out[1] = 16)
  <2>1. commit(s) = t
    BY <1>1, <1>5 DEF commit
  <2> QED
    BY <1>2, <2>1
<1> QED
  BY <1>4, <1>5

LEMMA StepState ==
  ASSUME machine \in States, NEW raster, Step(raster)
  PROVE  /\ machine' \in States /\ machine'.ei_pending \in 0..1 /\ machine'.out = Nothing
         /\ last_opcode' \in Byte
         /\ last_opcode' = EI => ~machine'.iff
<1>1. PICK ready \in States : ready = IF Accepts THEN Acknowledged(machine) ELSE machine
  BY AcknowledgedState
<1>2. PICK opcode \in Byte : opcode = RD_BYTE(ready, ready.pc)
  BY InstructionState
<1>3. PICK after \in States :
        /\ after = i8080_instruction(ready) /\ after.ei_pending \in 0..1
        /\ opcode = EI => ~after.iff
  BY <1>2, InstructionState
<1>4. PICK irq \in BOOLEAN :
        /\ irq = (after.irq \/ ((raster = "early" \/ (raster = "none" /\ irq_carry)) /\ after.inte))
        /\ irq => after.inte
  BY FieldsOf
<1>5. PICK asked : asked = [after EXCEPT !.irq = irq]
  OBVIOUS
<1>6. asked \in States
  BY <1>4, <1>5 DEF States, Cpus
<1>7. asked.iff = after.iff /\ asked.ei_pending = after.ei_pending
  BY <1>5 DEF States, Cpus
<1>8. machine' = commit(asked) /\ last_opcode' = opcode
  BY <1>1, <1>2, <1>3, <1>4, <1>5 DEF Step
<1> QED
  BY <1>3, <1>6, <1>7, <1>8, Committed

(* The cells of the array are those of the addresses, all of them.         *)
LEMMA EveryCell ==
  {tobank(addr) : addr \in 0..(TotalMemory - 1)} = 0..(TotalMemory - 1)
<1>1. TotalMemory = AddressSpace * 5 /\ TotalMemory \in Nat
  BY Spaces
<1>2. \A a \in 0..(Around - 1) :
        a \in Nat /\ tobank(a) \in Nat /\ (tobank(a) < TotalMemory <=> a < TotalMemory)
  BY <1>1, BankInSpace, Spaces
<1>4. TotalMemory <= Around
  BY Spaces
<1>3. ASSUME NEW cell \in 0..(TotalMemory - 1)
      PROVE  \E a \in 0..(TotalMemory - 1) : tobank(a) = cell
  <2>1. Block \in Nat /\ Block >= 1
    BY BlockAssumption DEF BlockAssumption
  <2>2. PICK n \in Nat : n = 4 * Block /\ n >= 1
    BY <2>1
  <2>3. PICK h \in Nat, rest \in 0..(n - 1) : cell = n * h + rest
    <3>1. cell \in Nat
      BY <1>1
    <3>2. cell \div n \in Nat /\ cell % n \in 0..(n - 1) /\ cell = n * (cell \div n) + (cell % n)
      BY <2>2, <3>1, QuotientAndRemainder
    <3> QED
      BY <3>2
  <2>4. PICK r \in 0..(Block - 1), q \in 0..3 : rest = 4 * r + q
    <3>1. rest = 4 * (rest \div 4) + (rest % 4) /\ rest \div 4 \in Nat /\ rest % 4 \in 0..3
      BY <2>2
    <3>2. rest \div 4 <= Block - 1
      BY <2>1, <2>2, <3>1
    <3> QED
      BY <2>1, <3>1, <3>2
  <2>5. PICK low \in 0..(n - 1) : low = Block * q + r
    <3>1. Block * q \in {0, Block, 2 * Block, 3 * Block}
      BY <2>1
    <3> QED
      BY <2>1, <2>2, <3>1
  <2>6. PICK a \in 0..(Around - 1) : a = n * h + low
    <3>1. n * h \in Nat
      BY <2>2
    <3>2. (n * h + rest < n * 16 <=> h < 16) /\ (n * h + low < n * 16 <=> h < 16)
      BY <2>2, BelowMultiple
    <3>3. Around = n * 16
      BY <2>2, Halves
    <3> QED
      BY <1>1, <1>4, <2>3, <3>1, <3>2, <3>3
  <2>7. PICK g \in Nat, p \in 0..3, s \in 0..(Block - 1) :
          a = n * g + (Block * p + s) /\ tobank(a) = n * g + (4 * s + p)
    <3>1. PICK g \in Nat, p \in 0..3, s \in 0..(Block - 1) :
            /\ a = (4 * Block) * g + (Block * p + s)
            /\ tobank(a) = (4 * Block) * g + (4 * s + p)
      BY LowParts
    <3> QED
      BY <2>2, <3>1
  <2>8. PICK other \in 0..(n - 1) : other = Block * p + s
    <3>1. Block * p \in {0, Block, 2 * Block, 3 * Block}
      BY <2>1
    <3> QED
      BY <2>1, <2>2, <3>1
  <2>9. h = g /\ low = other
    <3>1. n * h + low = n * g + other
      BY <2>6, <2>7, <2>8
    <3> QED
      BY <2>2, <3>1, UniqueDigits
  <2>10. q = p /\ r = s
    BY <2>1, <2>5, <2>8, <2>9, UniqueDigits
  <2>11. tobank(a) = cell
    BY <2>3, <2>4, <2>7, <2>9, <2>10
  <2> QED
    BY <1>1, <1>2, <2>11
<1>5. \A a \in 0..(TotalMemory - 1) : tobank(a) \in 0..(TotalMemory - 1)
  <2> TAKE a \in 0..(TotalMemory - 1)
  <2>1. a \in 0..(Around - 1) /\ a < TotalMemory
    BY <1>1, <1>4, Spaces
  <2> QED
    BY <1>1, <1>2, <2>1
<1> QED
  BY <1>3, <1>5

LEMMA LoadedState ==
  ASSUME NEW rom, DOMAIN rom = 0..(TotalMemory - 1),
         \A cell \in DOMAIN rom : rom[cell] \in Byte,
         NEW iff \in BOOLEAN, NEW ei_pending \in 0..1, NEW inte \in BOOLEAN
  PROVE  Loaded(rom, iff, ei_pending, inte) \in States
<1> DEFINE content(cell) == rom[CHOOSE addr \in DOMAIN rom : tobank(addr) = cell]
           bytes == [cell \in {tobank(addr) : addr \in DOMAIN rom} |-> content(cell)]
           mem_ == [bytes |-> bytes, boot |-> <<>>, mode_stack |-> FALSE, mode_map |-> FALSE,
                    page_map |-> 0, page_stack |-> 0]
<1>1. bytes = [cell \in 0..(TotalMemory - 1) |-> content(cell)]
  BY EveryCell
<1>2. \A cell \in 0..(TotalMemory - 1) : content(cell) \in Byte
  BY EveryCell
<1> HIDE DEF content
<1>3. bytes \in [0..(TotalMemory - 1) -> Byte]
  BY <1>1, <1>2
<1> HIDE DEF bytes
<1>4. mem_ \in MachineMems
  BY <1>3 DEF MachineMems
<1>5. PICK w8 \in Byte, b \in Byte, fill \in Byte : w8 = 2 /\ b = 255 /\ fill = \h5a
  BY ByteIs
<1>7. PICK top \in Word, start \in Word : top = \hc300 /\ start = 0
  BY WordIs
<1>8. PICK regs \in [Registers -> Byte] : regs = [n \in Registers |-> fill]
  OBVIOUS
<1>6. Loaded(rom, iff, ei_pending, inte) =
        [r |-> regs, F |-> w8, S |-> 0, Z |-> 0, H |-> 0, P |-> 0, C |-> 0,
         sp |-> top, pc |-> start, iff |-> iff, ei_pending |-> ei_pending,
         cycles |-> <<4, 4>>, inte |-> inte, irq |-> FALSE, out |-> Nothing, bus |-> b,
         mem |-> mem_]
  BY <1>5, <1>7, <1>8 DEF Loaded, bytes, content
<1> HIDE DEF mem_
<1> QED
  BY <1>4, <1>5, <1>6 DEF States, Cpus

-----------------------------------------------------------------------------
(* The invariant and the theorems                                          *)

(* After an EI, iff stays off until the instruction after it has run.      *)
MachineInv ==
  /\ machine \in States /\ machine.ei_pending \in 0..1 /\ machine.out = Nothing
  /\ last_opcode \in Byte /\ irq_carry \in BOOLEAN /\ due \in BOOLEAN
  /\ last_opcode = EI => ~machine.iff

LEMMA MachineInitInv == ASSUME WholeMemory PROVE MachineInit => MachineInv
<1> SUFFICES ASSUME MachineInit PROVE MachineInv
  OBVIOUS
<1>1. PICK program \in Programs, iff \in BOOLEAN, ei_pending \in 0..1, inte \in BOOLEAN :
        machine = Loaded(program.rom, iff, ei_pending, inte)
  <2>1. PICK program \in Programs,
             left \in {<<FALSE, 0, FALSE>>, <<TRUE, 0, TRUE>>, <<FALSE, 1, TRUE>>, <<TRUE, 0, FALSE>>} :
          machine = Loaded(program.rom, left[1], left[2], left[3])
    BY DEF MachineInit
  <2>2. left[1] \in BOOLEAN /\ left[2] \in 0..1 /\ left[3] \in BOOLEAN
    <3>1. CASE left = <<FALSE, 0, FALSE>>
      BY <3>1
    <3>2. CASE left = <<TRUE, 0, TRUE>>
      BY <3>2
    <3>3. CASE left = <<FALSE, 1, TRUE>>
      BY <3>3
    <3>4. CASE left = <<TRUE, 0, FALSE>>
      BY <3>4
    <3> QED
      BY <2>1, <3>1, <3>2, <3>3, <3>4
  <2> QED
    BY <2>1, <2>2
<1>2. /\ DOMAIN program.rom = 0..(TotalMemory - 1)
      /\ \A cell \in DOMAIN program.rom : program.rom[cell] \in Byte
  BY ProgramsAssumption DEF ProgramsAssumption, WholeMemory
<1>3. machine \in States
  BY <1>1, <1>2, LoadedState
<1>4. machine.ei_pending = ei_pending /\ machine.out = Nothing
  BY <1>1 DEF Loaded
<1>5. last_opcode = 0 /\ irq_carry = FALSE /\ due = TRUE /\ EI # 0
  BY DEF MachineInit, EI
<1>6. last_opcode \in Byte
  BY <1>5, ByteIs
<1> QED
  BY <1>3, <1>4, <1>5, <1>6 DEF MachineInv

LEMMA MachineNextInv == MachineInv /\ [MachineNext]_machineVars => MachineInv'
<1> SUFFICES ASSUME MachineInv, [MachineNext]_machineVars PROVE MachineInv'
  OBVIOUS
<1>1. ASSUME NEW raster \in {"none", "early", "late"}, Step(raster) PROVE MachineInv'
  <2>1. irq_carry' \in BOOLEAN /\ due' \in BOOLEAN
    BY <1>1 DEF Step, MachineInv
  <2>2. /\ machine' \in States /\ machine'.ei_pending \in 0..1 /\ machine'.out = Nothing
        /\ last_opcode' \in Byte
        /\ last_opcode' = EI => ~machine'.iff
    BY <1>1, StepState DEF MachineInv
  <2> QED
    BY <2>1, <2>2 DEF MachineInv
<1>2. CASE UNCHANGED machineVars
  BY <1>2 DEF MachineInv, machineVars
<1> QED
  BY <1>1, <1>2 DEF MachineNext

(* Whatever program fills the memory, and whenever interrupts come, every  *)
(* register, flag and byte keeps its width, the paging its ranges, and a   *)
(* request has the board's INTE (i8080_execute(), single_step()).          *)
THEOREM MachineTypeCorrect == ASSUME WholeMemory PROVE MachineSpec => []MachineTypeOK
<1>1. MachineInit => MachineInv
  BY MachineInitInv
<1>2. MachineInv => MachineTypeOK
  <2> SUFFICES ASSUME MachineInv PROVE MachineTypeOK
    OBVIOUS
  <2>1. /\ machine.S \in {0, 1} /\ machine.Z \in {0, 1} /\ machine.H \in {0, 1}
        /\ machine.P \in {0, 1} /\ machine.C \in {0, 1}
    BY FieldsOf DEF MachineInv
  <2>2. \A cell \in DOMAIN machine.mem.bytes : machine.mem.bytes[cell] \in Byte
    <3>1. machine.mem.bytes \in [0..(TotalMemory - 1) -> Byte]
      BY FieldsOf DEF MachineInv, MachineMems
    <3> QED
      BY <3>1
  <2>3. /\ machine.r \in [Registers -> Byte] /\ machine.F \in Byte
        /\ machine.sp \in Word /\ machine.pc \in Word
        /\ machine.irq => machine.inte
    BY FieldsOf DEF MachineInv
  <2> QED
    BY <2>1, <2>2, <2>3 DEF MachineInv, MachineTypeOK
<1> QED
  BY <1>1, <1>2, MachineNextInv, PTL DEF MachineSpec

(* No interrupt is taken right after an EI, whatever the program and       *)
(* whenever the raster asks: the instruction that follows it, a RET or an  *)
(* HLT, is executed first (i8080_execute(), check_interrupt()).            *)
THEOREM EiAlwaysHolds == ASSUME WholeMemory PROVE MachineSpec => []EiHolds
<1>1. MachineInit => MachineInv
  BY MachineInitInv
<1>2. MachineInv => EiHolds
  BY DEF MachineInv, EiHolds, Accepts
<1> QED
  BY <1>1, <1>2, MachineNextInv, PTL DEF MachineSpec
=====
