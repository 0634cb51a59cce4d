--------------------------- MODULE RuleEngineProofs ---------------------------
(***************************************************************************)
(* Proofs about RuleEngine, for any CN table, upstream list, rule lines and *)
(* targets, any number of lines and any width of an address.  A decision is *)
(* one step, so what the properties say of it is said of its operators: a  *)
(* mask, and a comparison bit by bit, tell the addresses of a block from all *)
(* others, the sorted scan gives up no row that could contain the address, *)
(* compacting a list keeps a suffix of everything on it.                   *)
(***************************************************************************)
EXTENDS RuleEngine, StreamLemmas

-----------------------------------------------------------------------------
(* Blocks of addresses.                                                    *)

\* A recursion over the numbers up to n defines a function.
LEMMA RecursionExists ==
    ASSUME NEW start \in Nat, NEW step \in [Nat -> [Nat -> Nat]]
    PROVE  \A n \in Nat : \E f \in [0 .. n -> Nat] :
               f[0] = start /\ \A k \in 1 .. n : f[k] = step[k][f[k - 1]]
<1> DEFINE Fits(f, n) == f[0] = start /\ \A k \in 1 .. n : f[k] = step[k][f[k - 1]]
           have == {n \in Nat : \E f \in [0 .. n -> Nat] : Fits(f, n)}
<1>1. 0 \in have
  <2>1. [k \in 0 .. 0 |-> start] \in [0 .. 0 -> Nat] /\ Fits([k \in 0 .. 0 |-> start], 0)
      OBVIOUS
  <2> QED
      BY <2>1
<1>2. ASSUME NEW n \in Nat, n \in have PROVE n + 1 \in have
  <2>1. PICK f \in [0 .. n -> Nat] : Fits(f, n)
      BY <1>2
  <2> DEFINE g == [k \in 0 .. (n + 1) |-> IF k = n + 1 THEN step[n + 1][f[n]] ELSE f[k]]
  <2>2. step[n + 1][f[n]] \in Nat
    <3>1. n + 1 \in Nat /\ n \in 0 .. n
        OBVIOUS
    <3>2. step[n + 1] \in [Nat -> Nat] /\ f[n] \in Nat
        BY <3>1, Zenon
    <3> QED
        BY <3>2, Zenon
  <2>3. g \in [0 .. (n + 1) -> Nat] /\ g[0] = start
    <3>1. \A k \in 0 .. (n + 1) : k # n + 1 => k \in 0 .. n
        OBVIOUS
    <3>2. \A k \in 0 .. (n + 1) : g[k] \in Nat
      <4> TAKE k \in 0 .. (n + 1)
      <4>1. CASE k = n + 1
          BY <2>2, <4>1, Zenon
      <4>2. CASE k # n + 1
          BY <2>1, <3>1, <4>2
      <4> QED
          BY <4>1, <4>2
    <3>3. 0 \in 0 .. (n + 1) /\ 0 # n + 1
        OBVIOUS
    <3> QED
        BY <2>1, <3>2, <3>3, Zenon
  <2>4. \A k \in 1 .. (n + 1) : g[k] = step[k][g[k - 1]]
    <3> TAKE k \in 1 .. (n + 1)
    <3>1. k - 1 \in 0 .. n /\ k - 1 # n + 1 /\ k \in 0 .. (n + 1) /\ k - 1 \in 0 .. (n + 1)
        OBVIOUS
    <3>2. g[k - 1] = f[k - 1]
        BY <3>1, Zenon
    <3>3. CASE k = n + 1
      <4>1. k - 1 = n
          BY <3>3
      <4> QED
          BY <3>1, <3>2, <3>3, <4>1, Zenon
    <3>4. CASE k # n + 1
      <4>1. k \in 1 .. n
          BY <3>4
      <4>2. g[k] = f[k]
          BY <3>1, <3>4, Zenon
      <4> QED
          BY <2>1, <3>2, <4>1, <4>2, Zenon
    <3> QED
        BY <3>3, <3>4
  <2> HIDE DEF g
  <2>5. Fits(g, n + 1)
      BY <2>3, <2>4, Zenon
  <2> QED
      BY <2>3, <2>5, n + 1 \in Nat, Zenon
<1>3. \A n \in Nat : n \in have
  <2> HIDE DEF have
  <2> QED
      BY <1>1, <1>2, SetInduction
<1> QED
    BY <1>3

\* The bits of both kinds of address, enough for every block.
Bits6   == Groups * GroupBits
AllBits == Width + Groups * GroupBits

LEMMA WidthsAreNat ==
    Width \in Nat /\ Groups \in Nat \ {0} /\ GroupBits \in Nat \ {0} /\ Bits6 \in Nat /\ AllBits \in Nat
    /\ AllBits = Width + Bits6
<1>1. \A a \in Nat : \A b \in Nat : a * b \in Nat
    OBVIOUS
<1>2. Bits6 \in Nat
    BY <1>1, WidthsAssumption DEF Bits6
<1> QED
    BY <1>2, WidthsAssumption DEF Bits6, AllBits

LEMMA BlockSizeIs ==
    /\ BlockSize[0] = 1
    /\ \A n \in 0 .. AllBits : BlockSize[n] \in Nat \ {0}
    /\ \A n \in Nat : n < AllBits => BlockSize[n + 1] = 2 * BlockSize[n]
<1> DEFINE body(f) == [n \in 0 .. AllBits |-> IF n = 0 THEN 1 ELSE 2 * f[n - 1]]
           step    == [k \in Nat |-> [v \in Nat |-> 2 * v]]
<1>1. AllBits \in Nat
    BY WidthsAreNat
<1>2. step \in [Nat -> [Nat -> Nat]] /\ \A k \in Nat : \A v \in Nat : step[k][v] = 2 * v
    OBVIOUS
<1> HIDE DEF step
<1>3. PICK f \in [0 .. AllBits -> Nat] :
          f[0] = 1 /\ \A k \in 1 .. AllBits : f[k] = step[k][f[k - 1]]
    BY <1>1, <1>2, 1 \in Nat, RecursionExists, Zenon
<1>4. f = body(f)
  <2>1. \A k \in 0 .. AllBits : f[k] = body(f)[k]
    <3> TAKE k \in 0 .. AllBits
    <3>1. CASE k = 0
        BY <1>3, <3>1
    <3>2. CASE k # 0
      <4>1. k \in 1 .. AllBits /\ k \in Nat /\ k - 1 \in 0 .. AllBits
          BY <1>1, <3>2
      <4>2. f[k - 1] \in Nat /\ f[k] = step[k][f[k - 1]]
          BY <1>3, <4>1
      <4>3. f[k] = 2 * f[k - 1]
          BY <1>2, <4>1, <4>2, Zenon
      <4> QED
          BY <3>2, <4>3, Zenon
    <3> QED
        BY <3>1, <3>2
  <2> QED
      BY <2>1, <1>3
<1>5. BlockSize = CHOOSE h : h = body(h)
    BY Zenon DEF BlockSize, AllBits
<1>6. BlockSize = body(BlockSize)
    BY <1>4, <1>5, Zenon
<1>7. \A n \in 0 .. AllBits : BlockSize[n] = IF n = 0 THEN 1 ELSE 2 * BlockSize[n - 1]
    BY <1>6, Zenon
<1>8. BlockSize[0] = 1
    BY <1>1, <1>7
<1>9. ASSUME NEW n \in Nat, n < AllBits PROVE BlockSize[n + 1] = 2 * BlockSize[n]
  <2>1. n + 1 \in 0 .. AllBits /\ n + 1 # 0 /\ (n + 1) - 1 = n
      BY <1>1, <1>9
  <2> QED
      BY <1>7, <2>1, Zenon
<1> DEFINE natural == {n \in Nat : n <= AllBits => BlockSize[n] \in Nat \ {0}}
<1>10. 0 \in natural
    BY <1>8
<1>11. ASSUME NEW n \in Nat, n \in natural PROVE n + 1 \in natural
  <2> SUFFICES ASSUME n + 1 <= AllBits PROVE BlockSize[n + 1] \in Nat \ {0}
      OBVIOUS
  <2>1. n < AllBits /\ n <= AllBits
      BY <1>1
  <2>2. BlockSize[n + 1] = 2 * BlockSize[n] /\ BlockSize[n] \in Nat \ {0}
      BY <1>9, <1>11, <2>1
  <2> QED
      BY <2>2
<1>12. \A n \in Nat : n \in natural
  <2> HIDE DEF natural
  <2> QED
      BY <1>10, <1>11, SetInduction
<1> QED
    BY <1>1, <1>8, <1>9, <1>12

\* No block is empty.
LEMMA BlockSizes == \A n \in 0 .. Width : BlockSize[n] \in Nat \ {0}
<1>1. \A n \in 0 .. Width : n \in 0 .. AllBits
    BY WidthsAreNat
<1> QED
    BY <1>1, BlockSizeIs, Zenon

\* A block with a + b bits free is as many blocks with a bits free as one with b has
\* addresses.
LEMMA BlocksInBlock ==
    ASSUME NEW a \in Nat, NEW b \in Nat, a + b <= AllBits
    PROVE  BlockSize[a + b] = BlockSize[a] * BlockSize[b]
<1> DEFINE good == {n \in Nat : a + n <= AllBits => BlockSize[a + n] = BlockSize[a] * BlockSize[n]}
<1>1. 0 \in good
  <2>1. a + 0 <= AllBits => BlockSize[a] \in Nat
      BY BlockSizeIs, WidthsAreNat
  <2> QED
      BY <2>1, BlockSizeIs
<1>2. ASSUME NEW n \in Nat, n \in good PROVE n + 1 \in good
  <2> SUFFICES ASSUME a + (n + 1) <= AllBits
               PROVE  BlockSize[a + (n + 1)] = BlockSize[a] * BlockSize[n + 1]
      OBVIOUS
  <2>1. /\ a + n <= AllBits /\ a + n \in Nat /\ a + n < AllBits /\ n < AllBits
        /\ a + (n + 1) = (a + n) + 1 /\ a \in 0 .. AllBits /\ n \in 0 .. AllBits
      BY WidthsAreNat
  <2>2. BlockSize[a + (n + 1)] = 2 * BlockSize[a + n] /\ BlockSize[n + 1] = 2 * BlockSize[n]
      BY <2>1, BlockSizeIs
  <2>3. BlockSize[a + n] = BlockSize[a] * BlockSize[n]
      BY <1>2, <2>1
  <2>4. BlockSize[a] \in Nat /\ BlockSize[n] \in Nat
      BY <2>1, BlockSizeIs
  <2>5. \A p, q \in Nat : 2 * (p * q) = p * (2 * q)
      OBVIOUS
  <2> QED
      BY <2>2, <2>3, <2>4, <2>5
<1>3. \A n \in Nat : n \in good
  <2> HIDE DEF good
  <2> QED
      BY <1>1, <1>2, SetInduction
<1> QED
    BY <1>3

\* Quotient and remainder are the only ones.
LEMMA QuotientIs ==
    ASSUME NEW s \in Nat \ {0}, NEW q \in Nat, NEW r \in Nat, r < s
    PROVE  (q * s + r) \div s = q /\ (q * s + r) % s = r
<1> DEFINE x == q * s + r
           p == x \div s
           t == x % s
<1>1. x \in Nat
  <2>1. q * s \in Nat
      OBVIOUS
  <2> QED
      BY <2>1
<1> HIDE DEF x
<1>2. p \in Nat /\ t \in Nat /\ t < s /\ x = s * p + t
    BY <1>1
<1> HIDE DEF p, t
<1>3. x = s * q + r
    BY DEF x
<1>4. s * p \in Nat /\ s * q \in Nat
    BY <1>2
<1>5. ASSUME p < q PROVE FALSE
  <2>1. q = p + (q - p) /\ q - p \in Nat /\ q - p >= 1
      BY <1>2, <1>5
  <2>2. s * (q - p) >= s /\ s * q = s * p + s * (q - p)
      BY <1>2, <2>1
  <2> QED
      BY <1>2, <1>3, <1>4, <2>2
<1>6. ASSUME q < p PROVE FALSE
  <2>1. p = q + (p - q) /\ p - q \in Nat /\ p - q >= 1
      BY <1>2, <1>6
  <2>2. s * (p - q) >= s /\ s * p = s * q + s * (p - q)
      BY <1>2, <2>1
  <2> QED
      BY <1>2, <1>3, <1>4, <2>2
<1>7. p = q
    BY <1>2, <1>5, <1>6
<1>8. t = r
    BY <1>2, <1>3, <1>4, <1>7
<1> QED
    BY <1>7, <1>8 DEF p, t, x

\* Division by a, then by b, is division by their product.
LEMMA DivideTwice ==
    ASSUME NEW x \in Nat, NEW a \in Nat \ {0}, NEW b \in Nat \ {0}
    PROVE  (x \div a) \div b = x \div (a * b)
<1> DEFINE p == x \div a
           r == x % a
           q == p \div b
           t == p % b
<1>1. p \in Nat /\ r \in Nat /\ r < a /\ x = a * p + r
    OBVIOUS
<1> HIDE DEF p, r
<1>2. q \in Nat /\ t \in Nat /\ t < b /\ p = b * q + t
    BY <1>1
<1> HIDE DEF q, t
<1>3. a * b \in Nat \ {0}
    OBVIOUS
<1>4. a * t \in Nat /\ a * t + r < a * b
  <2>1. b = t + (b - t) /\ b - t \in Nat /\ b - t >= 1
      BY <1>2
  <2>2. a * t \in Nat /\ a * b = a * t + a * (b - t) /\ a * (b - t) >= a
      BY <1>2, <2>1
  <2>3. a * (b - t) \in Nat
      BY <2>1
  <2> QED
      BY <1>1, <2>2, <2>3
<1>5. x = q * (a * b) + (a * t + r)
  <2>1. a * p = a * (b * q) + a * t
      BY <1>2
  <2>2. a * (b * q) = q * (a * b)
      BY <1>2
  <2>3. a * t \in Nat /\ q * (a * b) \in Nat
      BY <1>2, <1>3, <1>4
  <2> QED
      BY <1>1, <2>1, <2>2, <2>3
<1>6. x \div (a * b) = q
  <2> DEFINE s == a * b
             u == a * t + r
  <2>1. s \in Nat \ {0} /\ u \in Nat /\ u < s /\ x = q * s + u
      BY <1>1, <1>3, <1>4, <1>5
  <2> HIDE DEF s, u
  <2>2. x \div s = q
      BY <1>2, <2>1, QuotientIs
  <2> QED
      BY <2>2 DEF s
<1> QED
    BY <1>6 DEF p, q

\* A block has one address if no bit is free; one more bit doubles it, and the quotient
\* by the smaller block writes one bit more.
LEMMA OneBitMore ==
    ASSUME NEW v \in Nat, NEW n \in Nat, n < AllBits
    PROVE  /\ v \div BlockSize[n] \in Nat /\ v \div BlockSize[n + 1] \in Nat
           /\ (v \div BlockSize[n]) % 2 \in {0, 1}
           /\ v \div BlockSize[n] = 2 * (v \div BlockSize[n + 1]) + ((v \div BlockSize[n]) % 2)
<1>1. n \in 0 .. AllBits /\ n + 1 \in 0 .. AllBits
    BY WidthsAreNat
<1>2. BlockSize[n] \in Nat \ {0} /\ BlockSize[n + 1] \in Nat \ {0} /\ BlockSize[n + 1] = BlockSize[n] * 2
    BY <1>1, BlockSizeIs
<1>3. v \div BlockSize[n] \in Nat /\ v \div BlockSize[n + 1] \in Nat
    BY <1>2
<1>4. (v \div BlockSize[n]) \div 2 = v \div BlockSize[n + 1]
    BY <1>2, DivideTwice, 2 \in Nat \ {0}
<1> DEFINE q == v \div BlockSize[n]
           h == v \div BlockSize[n + 1]
<1>5. q \in Nat /\ h \in Nat /\ q \div 2 = h
    BY <1>3, <1>4
<1> HIDE DEF q, h
<1>6. \A a \in Nat : a = 2 * (a \div 2) + (a % 2) /\ a % 2 \in {0, 1}
    OBVIOUS
<1>7. q = 2 * h + (q % 2) /\ q % 2 \in {0, 1}
    BY <1>5, <1>6
<1> QED
    BY <1>3, <1>7 DEF q, h

\* Two numbers have the same multiple of s below them exactly if they have the same
\* quotient by it.
LEMMA SameMultiple ==
    \A s \in Nat \ {0} : \A x, y \in Nat :
        /\ x - (x % s) = y - (y % s) <=> x \div s = y \div s
        /\ x % s = 0 /\ x \div s = y \div s => x <= y
        /\ x < s => x \div s = 0
<1> TAKE s \in Nat \ {0}
<1> TAKE x, y \in Nat
<1>1. /\ x = s * (x \div s) + (x % s) /\ x % s < s /\ x \div s \in Nat /\ x % s \in Nat
      /\ y = s * (y \div s) + (y % s) /\ y % s < s /\ y \div s \in Nat /\ y % s \in Nat
    OBVIOUS
<1> DEFINE p == x \div s
           q == y \div s
           a == x % s
           b == y % s
<1>2. p \in Nat /\ q \in Nat /\ a \in Nat /\ b \in Nat /\ x = s * p + a /\ y = s * q + b /\ a < s /\ b < s
    BY <1>1
<1> HIDE DEF p, q, a, b
<1>3. s * p \in Nat /\ s * q \in Nat
    BY <1>2
<1>4. x - a = s * p /\ y - b = s * q
    BY <1>2, <1>3
<1>5. s * p = s * q => p = q
    BY <1>2
<1>6. x < s => p = 0
  <2> SUFFICES ASSUME x < s, p # 0 PROVE FALSE
      BY <1>2
  <2>1. s * p >= s
      BY <1>2
  <2> QED
      BY <1>2, <1>3, <2>1
<1>7. a = 0 /\ p = q => x <= y
    BY <1>2, <1>3
<1> QED
    BY <1>4, <1>5, <1>6, <1>7 DEF p, q, a, b

LEMMA AddressesAreNat == \A x \in Addresses4 : x \in Nat /\ x < BlockSize[Width]
<1>1. BlockSize[Width] \in Nat
    BY BlockSizes, WidthsAssumption
<1> QED
    BY <1>1 DEF Addresses4

\* The mask of a prefix keeps two addresses together exactly if they are in one of
\* its blocks; a prefix of 0 has but one block.
LEMMA MaskIsBlock ==
    \A x, base \in Addresses4 : \A prefix \in 0 .. Width :
        SameNetwork4(x, base, prefix) <=> Contains4(base, prefix, x)
<1> SUFFICES ASSUME NEW x \in Addresses4, NEW base \in Addresses4, NEW prefix \in 0 .. Width
             PROVE  SameNetwork4(x, base, prefix) <=> Contains4(base, prefix, x)
    OBVIOUS
<1> DEFINE size == BlockSize[Width - prefix]
<1>1. Width - prefix \in 0 .. Width
    BY WidthsAssumption
<1>2. size \in Nat \ {0}
    BY <1>1, BlockSizes, Zenon
<1>3. x \in Nat /\ base \in Nat /\ x < BlockSize[Width] /\ base < BlockSize[Width]
    BY AddressesAreNat, Zenon
<1>4. Contains4(base, prefix, x) <=> base \div size = x \div size
    BY Zenon DEF Contains4
<1>5. CASE prefix = 0
  <2>1. Width - prefix = Width
      BY <1>5, WidthsAssumption
  <2>2. size = BlockSize[Width]
      BY <2>1, Zenon
  <2> HIDE DEF size
  <2>3. x \div size = 0 /\ base \div size = 0
      BY <1>2, <1>3, <2>2, SameMultiple, Zenon
  <2>4. SameNetwork4(x, base, prefix)
      BY <1>5, Zenon DEF SameNetwork4, Masked
  <2> QED
      BY <1>4, <2>3, <2>4, Zenon
<1>6. CASE prefix # 0
  <2>1. SameNetwork4(x, base, prefix) <=> x - (x % size) = base - (base % size)
      BY <1>6, Zenon DEF SameNetwork4, Masked
  <2> HIDE DEF size
  <2>2. x - (x % size) = base - (base % size) <=> x \div size = base \div size
      BY <1>2, <1>3, SameMultiple, Zenon
  <2> QED
      BY <1>4, <2>1, <2>2, Zenon
<1> QED
    BY <1>5, <1>6

-----------------------------------------------------------------------------
(* IPv6 addresses as numbers.                                              *)

\* written[g] is the number that the first g groups of x write.
WrittenBy(x, written) ==
    /\ written \in [0 .. Groups -> Nat]
    /\ written[0] = 0
    /\ \A g \in 1 .. Groups : written[g] = written[g - 1] * BlockSize[GroupBits] + x[g]
    /\ AsNumber(x) = written[Groups]

LEMMA GroupsAreNat ==
    /\ GroupBits \in 0 .. Bits6 /\ Bits6 \in 0 .. AllBits
    /\ BlockSize[GroupBits] \in Nat \ {0}
    /\ \A x \in Addresses6 : \A g \in 1 .. Groups : x[g] \in Nat /\ x[g] < BlockSize[GroupBits]
    /\ \A g \in 0 .. Groups : g * GroupBits \in 0 .. Bits6
<1>1. \A g \in 0 .. Groups : g * GroupBits \in 0 .. Bits6
  <2> TAKE g \in 0 .. Groups
  <2>1. g \in Nat /\ Groups - g \in Nat /\ Groups \in Nat /\ GroupBits \in Nat
      BY WidthsAreNat
  <2>2. g * GroupBits \in Nat /\ (Groups - g) * GroupBits \in Nat
      BY <2>1
  <2>3. Groups * GroupBits = g * GroupBits + (Groups - g) * GroupBits
      BY <2>1
  <2> QED
      BY <2>2, <2>3 DEF Bits6
<1>2. Bits6 \in 0 .. AllBits
    BY WidthsAreNat
<1>3. GroupBits \in 0 .. Bits6
  <2>1. 1 \in 0 .. Groups /\ 1 * GroupBits = GroupBits
      BY WidthsAreNat
  <2> QED
      BY <1>1, <2>1
<1>4. GroupBits \in 0 .. AllBits
    BY <1>2, <1>3, WidthsAreNat
<1>5. BlockSize[GroupBits] \in Nat \ {0}
    BY <1>4, BlockSizeIs
<1>6. ASSUME NEW x \in Addresses6, NEW g \in 1 .. Groups
      PROVE  x[g] \in Nat /\ x[g] < BlockSize[GroupBits]
  <2>1. x[g] \in 0 .. (BlockSize[GroupBits] - 1)
      BY DEF Addresses6
  <2> QED
      BY <1>5, <2>1
<1> QED
    BY <1>1, <1>2, <1>3, <1>5, <1>6

LEMMA NumbersAreWritten == \A x \in Addresses6 : \E written : WrittenBy(x, written)
<1> TAKE x \in Addresses6
<1> DEFINE body(f) == [g \in 0 .. Groups |->
                          IF g = 0 THEN 0 ELSE f[g - 1] * BlockSize[GroupBits] + x[g]]
           step == [g \in Nat |-> [v \in Nat |->
                       v * BlockSize[GroupBits] + (IF g \in 1 .. Groups THEN x[g] ELSE 0)]]
<1>1. Groups \in Nat /\ BlockSize[GroupBits] \in Nat /\ \A g \in 1 .. Groups : x[g] \in Nat
    BY WidthsAreNat, GroupsAreNat
<1>2. step \in [Nat -> [Nat -> Nat]]
  <2>1. ASSUME NEW g \in Nat, NEW v \in Nat
        PROVE  v * BlockSize[GroupBits] + (IF g \in 1 .. Groups THEN x[g] ELSE 0) \in Nat
    <3>1. (IF g \in 1 .. Groups THEN x[g] ELSE 0) \in Nat
        BY <1>1
    <3>2. v * BlockSize[GroupBits] \in Nat
        BY <1>1
    <3> QED
        BY <3>1, <3>2
  <2> QED
      BY <2>1, Zenon
<1>3. \A g \in 1 .. Groups : \A v \in Nat : step[g][v] = v * BlockSize[GroupBits] + x[g]
  <2>1. \A g \in 1 .. Groups : g \in Nat
      OBVIOUS
  <2> QED
      BY <2>1, Zenon
<1> HIDE DEF step
<1>4. PICK f \in [0 .. Groups -> Nat] : f[0] = 0 /\ \A g \in 1 .. Groups : f[g] = step[g][f[g - 1]]
    BY <1>1, <1>2, 0 \in Nat, RecursionExists, Zenon
<1>5. \A g \in 1 .. Groups : f[g] = f[g - 1] * BlockSize[GroupBits] + x[g]
  <2> TAKE g \in 1 .. Groups
  <2>1. g - 1 \in 0 .. Groups
      BY <1>1
  <2>2. f[g - 1] \in Nat
      BY <1>4, <2>1
  <2> QED
      BY <1>3, <1>4, <2>2, Zenon
<1>6. f = body(f)
  <2>1. \A g \in 0 .. Groups : f[g] = body(f)[g]
    <3> TAKE g \in 0 .. Groups
    <3>1. CASE g = 0
        BY <1>4, <3>1
    <3>2. CASE g # 0
      <4>1. g \in 1 .. Groups
          BY <1>1, <3>2
      <4> QED
          BY <1>5, <3>2, <4>1, Zenon
    <3> QED
        BY <3>1, <3>2
  <2> QED
      BY <1>4, <2>1
<1> DEFINE h == CHOOSE h : h = body(h)
<1>7. h = body(h)
    BY <1>6, Zenon
<1>8. AsNumber(x) = h[Groups]
    BY Zenon DEF AsNumber
<1> HIDE DEF h
<1>9. \A g \in 0 .. Groups : h[g] = IF g = 0 THEN 0 ELSE h[g - 1] * BlockSize[GroupBits] + x[g]
    BY <1>7, Zenon
<1>10. h[0] = 0 /\ \A g \in 1 .. Groups : h[g] = h[g - 1] * BlockSize[GroupBits] + x[g]
  <2>1. 0 \in 0 .. Groups /\ \A g \in 1 .. Groups : g \in 0 .. Groups /\ g # 0
      BY <1>1
  <2> QED
      BY <1>9, <2>1, Zenon
<1>11. \A g \in 0 .. Groups : h[g] = f[g]
  <2> DEFINE same == {g \in Nat : g <= Groups => h[g] = f[g]}
  <2>1. 0 \in same
      BY <1>4, <1>10
  <2>2. ASSUME NEW g \in Nat, g \in same PROVE g + 1 \in same
    <3> SUFFICES ASSUME g + 1 <= Groups PROVE h[g + 1] = f[g + 1]
        OBVIOUS
    <3>1. g + 1 \in 1 .. Groups /\ (g + 1) - 1 = g /\ g <= Groups
        BY <1>1
    <3>2. h[g] = f[g]
        BY <2>2, <3>1
    <3> QED
        BY <1>5, <1>10, <3>1, <3>2, Zenon
  <2>3. \A g \in Nat : g \in same
    <3> HIDE DEF same
    <3> QED
        BY <2>1, <2>2, SetInduction
  <2> QED
      BY <2>3
<1>12. AsNumber(x) = f[Groups]
    BY <1>1, <1>8, <1>11
<1>13. WrittenBy(x, f)
    BY <1>4, <1>5, <1>12, Zenon DEF WrittenBy
<1> QED
    BY <1>13

\* The quotient of an address's number by a block of whole groups is the number of the
\* groups before.
LEMMA FirstGroups ==
    ASSUME NEW x \in Addresses6, NEW written, WrittenBy(x, written), NEW d \in 0 .. Groups
    PROVE  AsNumber(x) \div BlockSize[d * GroupBits] = written[Groups - d]
<1>1. Groups \in Nat /\ GroupBits \in Nat /\ AllBits \in Nat
    BY WidthsAreNat
<1>2. /\ \A g \in 0 .. Groups : written[g] \in Nat
      /\ \A g \in 1 .. Groups : written[g] = written[g - 1] * BlockSize[GroupBits] + x[g]
      /\ AsNumber(x) = written[Groups] /\ AsNumber(x) \in Nat
    BY <1>1 DEF WrittenBy
<1> DEFINE good == {n \in Nat : n <= Groups =>
                       AsNumber(x) \div BlockSize[n * GroupBits] = written[Groups - n]}
<1>3. 0 \in good
  <2>1. 0 * GroupBits = 0 /\ Groups - 0 = Groups
      BY <1>1
  <2>2. \A n \in Nat : n \div 1 = n
      OBVIOUS
  <2>3. AsNumber(x) \div BlockSize[0 * GroupBits] = AsNumber(x)
      BY <1>2, <2>1, <2>2, BlockSizeIs, Zenon
  <2> QED
      BY <1>2, <2>1, <2>3
<1>4. ASSUME NEW n \in Nat, n \in good PROVE n + 1 \in good
  <2> SUFFICES ASSUME n + 1 <= Groups
               PROVE  AsNumber(x) \div BlockSize[(n + 1) * GroupBits] = written[Groups - (n + 1)]
      OBVIOUS
  <2> DEFINE g == Groups - n
  <2>1. g \in 1 .. Groups /\ Groups - (n + 1) = g - 1 /\ g - 1 \in 0 .. Groups /\ n <= Groups
      BY <1>1
  <2>2. n \in 0 .. Groups /\ n + 1 \in 0 .. Groups
      BY <1>1
  <2>3. /\ (n + 1) * GroupBits = n * GroupBits + GroupBits
        /\ n * GroupBits \in 0 .. AllBits /\ n * GroupBits \in Nat
        /\ (n + 1) * GroupBits \in 0 .. Bits6 /\ Bits6 \in 0 .. AllBits
    <3>1. (n + 1) * GroupBits = n * GroupBits + GroupBits
        BY <1>1
    <3>2. n * GroupBits \in 0 .. Bits6 /\ (n + 1) * GroupBits \in 0 .. Bits6
        BY <2>2, GroupsAreNat
    <3> QED
        BY <1>1, <3>1, <3>2, GroupsAreNat
  <2>4. n * GroupBits + GroupBits <= AllBits
      BY <1>1, <2>3
  <2>5. BlockSize[(n + 1) * GroupBits] = BlockSize[n * GroupBits] * BlockSize[GroupBits]
      BY <1>1, <2>3, <2>4, BlocksInBlock
  <2>6. BlockSize[n * GroupBits] \in Nat \ {0} /\ BlockSize[GroupBits] \in Nat \ {0}
      BY <2>3, BlockSizeIs, GroupsAreNat
  <2>7. AsNumber(x) \div BlockSize[(n + 1) * GroupBits]
            = (AsNumber(x) \div BlockSize[n * GroupBits]) \div BlockSize[GroupBits]
      BY <1>2, <2>5, <2>6, DivideTwice
  <2>8. AsNumber(x) \div BlockSize[n * GroupBits] = written[g]
      BY <1>4, <2>1
  <2>9. /\ written[g] = written[g - 1] * BlockSize[GroupBits] + x[g]
        /\ written[g - 1] \in Nat /\ x[g] \in Nat /\ x[g] < BlockSize[GroupBits]
      BY <1>2, <2>1, GroupsAreNat, Zenon
  <2>10. (written[g - 1] * BlockSize[GroupBits] + x[g]) \div BlockSize[GroupBits] = written[g - 1]
      BY <2>6, <2>9, QuotientIs, Zenon
  <2> QED
      BY <2>1, <2>7, <2>8, <2>9, <2>10, Zenon
<1>5. \A n \in Nat : n \in good
  <2> HIDE DEF good
  <2> QED
      BY <1>3, <1>4, SetInduction
<1> QED
    BY <1>1, <1>5

\* sameCidr6 of rules.js: the bit it reads is the last one of the number that the
\* address writes up to there.
LEMMA BitIs ==
    ASSUME NEW x \in Addresses6, NEW bit \in 0 .. (Bits6 - 1)
    PROVE  (AsNumber(x) \div BlockSize[Bits6 - (bit + 1)]) % 2 = Bit(x, bit)
<1> DEFINE g == bit \div GroupBits
           k == bit % GroupBits
           n == GroupBits - 1 - k
           d == Groups - (g + 1)
<1>1. Groups \in Nat /\ GroupBits \in Nat \ {0} /\ Bits6 \in Nat /\ AllBits \in Nat
    BY WidthsAreNat
<1>2. g \in Nat /\ k \in Nat /\ k < GroupBits /\ bit = GroupBits * g + k /\ bit \in Nat
    BY <1>1
<1> HIDE DEF g, k
<1>3. g < Groups
  <2> SUFFICES ASSUME g >= Groups PROVE FALSE
      BY <1>1, <1>2
  <2>1. g - Groups \in Nat
      BY <1>1, <1>2
  <2>2. GroupBits * g = GroupBits * Groups + GroupBits * (g - Groups)
      BY <1>1, <1>2
  <2>3. GroupBits * (g - Groups) \in Nat /\ GroupBits * Groups = Bits6
      BY <1>1, <2>1 DEF Bits6
  <2> QED
      BY <1>1, <1>2, <2>2, <2>3
<1>4. g + 1 \in 1 .. Groups /\ d \in 0 .. Groups /\ Groups - d = g + 1 /\ n \in Nat /\ n < GroupBits
    BY <1>1, <1>2, <1>3
<1>5. Bits6 - (bit + 1) = d * GroupBits + n /\ d * GroupBits \in Nat
  <2>1. d * GroupBits = Groups * GroupBits - g * GroupBits - GroupBits
      BY <1>1, <1>2, <1>4
  <2>2. g * GroupBits = GroupBits * g /\ g * GroupBits \in Nat /\ d * GroupBits \in Nat
      BY <1>1, <1>2, <1>4
  <2> QED
      BY <1>1, <1>2, <2>1, <2>2 DEF Bits6
<1>6. /\ d * GroupBits + n <= AllBits /\ d * GroupBits \in 0 .. AllBits
      /\ n \in 0 .. AllBits /\ n + (k + 1) <= AllBits /\ n + (k + 1) = GroupBits
      /\ k + 1 \in Nat /\ k \in Nat /\ k < AllBits /\ k \in 0 .. AllBits
  <2>1. Bits6 - (bit + 1) <= Bits6 /\ Bits6 <= AllBits /\ GroupBits <= Bits6
      BY <1>1, <1>2, GroupsAreNat
  <2> QED
      BY <1>1, <1>2, <1>4, <1>5, <2>1
<1> HIDE DEF d, n
<1>7. PICK written : WrittenBy(x, written)
    BY NumbersAreWritten
<1> DEFINE whole == BlockSize[d * GroupBits]
           small == BlockSize[n]
           high  == written[g]
           group == x[g + 1]
<1>8. whole \in Nat \ {0} /\ small \in Nat \ {0} /\ BlockSize[k] \in Nat
    BY <1>6, BlockSizeIs
<1>9. /\ AsNumber(x) \in Nat /\ high \in Nat /\ group \in Nat
      /\ written[g + 1] = high * BlockSize[GroupBits] + group
  <2>1. /\ written \in [0 .. Groups -> Nat]
        /\ \A h \in 1 .. Groups : written[h] = written[h - 1] * BlockSize[GroupBits] + x[h]
        /\ AsNumber(x) = written[Groups]
      BY <1>7, Zenon DEF WrittenBy
  <2>2. g \in 0 .. Groups /\ (g + 1) - 1 = g /\ Groups \in 0 .. Groups
      BY <1>1, <1>2, <1>3
  <2>3. AsNumber(x) \in Nat /\ high \in Nat
      BY <2>1, <2>2
  <2>4. group \in Nat
      BY <1>4, GroupsAreNat
  <2>5. written[g + 1] = written[(g + 1) - 1] * BlockSize[GroupBits] + x[g + 1]
      BY <1>4, <2>1, Zenon
  <2> QED
      BY <2>2, <2>3, <2>4, <2>5, Zenon
<1>10. AsNumber(x) \div BlockSize[Bits6 - (bit + 1)] = (AsNumber(x) \div whole) \div small
  <2>1. BlockSize[d * GroupBits + n] = whole * small
      BY <1>4, <1>5, <1>6, BlocksInBlock
  <2> QED
      BY <1>5, <1>8, <1>9, <2>1, DivideTwice
<1>11. AsNumber(x) \div whole = written[g + 1]
    BY <1>4, <1>7, FirstGroups, Zenon
<1>12. BlockSize[GroupBits] = small * (2 * BlockSize[k])
  <2>1. BlockSize[n + (k + 1)] = BlockSize[n] * BlockSize[k + 1]
      BY <1>4, <1>6, BlocksInBlock
  <2>2. BlockSize[k + 1] = 2 * BlockSize[k]
      BY <1>6, BlockSizeIs
  <2> QED
      BY <1>6, <2>1, <2>2, Zenon
<1> DEFINE even == 2 * (high * BlockSize[k])
<1>13. written[g + 1] = even * small + group /\ even \in Nat /\ high * BlockSize[k] \in Nat
  <2>1. \A a, b, c \in Nat : c * (a * (2 * b)) = (2 * (c * b)) * a /\ c * b \in Nat /\ 2 * (c * b) \in Nat
      OBVIOUS
  <2> QED
      BY <1>8, <1>9, <1>12, <2>1
<1>14. written[g + 1] \div small = even + (group \div small) /\ group \div small \in Nat
  <2> DEFINE q == group \div small
             r == group % small
  <2>1. q \in Nat /\ r \in Nat /\ r < small /\ group = small * q + r
    <3>1. \A s \in Nat \ {0} : \A v \in Nat :
              /\ v \div s \in Nat /\ v % s \in Nat /\ v % s < s
              /\ v = s * (v \div s) + (v % s)
        OBVIOUS
    <3> QED
        BY <1>8, <1>9, <3>1, Zenon
  <2> HIDE DEF q, r, small, even, group
  <2>2. even * small + group = (even + q) * small + r
    <3>1. \A a, b, c \in Nat : (a + b) * c = a * c + c * b /\ a * c \in Nat /\ c * b \in Nat
        OBVIOUS
    <3> QED
        BY <1>8, <1>13, <2>1, <3>1
  <2>3. even + q \in Nat
      BY <1>13, <2>1
  <2>4. ((even + q) * small + r) \div small = even + q
      BY <1>8, <2>1, <2>3, QuotientIs
  <2> QED
      BY <1>13, <2>1, <2>2, <2>4 DEF q
<1>15. (even + (group \div small)) % 2 = (group \div small) % 2
  <2>1. \A a, b \in Nat : (2 * a + b) % 2 = b % 2
      OBVIOUS
  <2> QED
      BY <1>13, <1>14, <2>1
<1>16. Bit(x, bit) = (group \div small) % 2
    BY Zenon DEF Bit, g, k, n
<1> QED
    BY <1>10, <1>11, <1>14, <1>15, <1>16, Zenon

\* An address's number is less than the block of all of them.
LEMMA NumbersFit ==
    ASSUME NEW x \in Addresses6
    PROVE  AsNumber(x) \in Nat /\ AsNumber(x) \div BlockSize[Bits6] = 0
<1>1. PICK written : WrittenBy(x, written)
    BY NumbersAreWritten
<1>2. Groups \in Nat /\ Groups \in 0 .. Groups /\ Groups - Groups = 0
    BY WidthsAreNat
<1>3. AsNumber(x) \div BlockSize[Bits6] = written[0]
    BY <1>1, <1>2, FirstGroups, Zenon DEF Bits6
<1> QED
    BY <1>1, <1>2, <1>3 DEF WrittenBy

\* Comparing the first bits of two addresses is comparing the blocks they are in.
LEMMA BitsAreBlock ==
    \A x, base \in Addresses6 : \A prefix \in 0 .. Bits6 :
        SameNetwork6(x, base, prefix) <=> Contains6(base, prefix, x)
<1> SUFFICES ASSUME NEW x \in Addresses6, NEW base \in Addresses6
             PROVE  \A prefix \in 0 .. Bits6 :
                        SameNetwork6(x, base, prefix) <=> Contains6(base, prefix, x)
    OBVIOUS
<1> DEFINE Top(y, p) == AsNumber(y) \div BlockSize[Bits6 - p]
           good == {p \in Nat : p <= Bits6 =>
                       (SameNetwork6(x, base, p) <=> Top(x, p) = Top(base, p))}
<1>1. Bits6 \in Nat /\ AllBits \in Nat /\ Bits6 <= AllBits
    BY WidthsAreNat
<1>2. 0 \in good
  <2>1. Bits6 - 0 = Bits6 /\ \A bit \in 0 .. (0 - 1) : FALSE
      BY <1>1
  <2>2. SameNetwork6(x, base, 0)
      BY <2>1, Zenon DEF SameNetwork6
  <2>3. Top(x, 0) = 0 /\ Top(base, 0) = 0
      BY <2>1, NumbersFit, Zenon
  <2> QED
      BY <2>2, <2>3
<1>3. ASSUME NEW p \in Nat, p \in good PROVE p + 1 \in good
  <2> SUFFICES ASSUME p + 1 <= Bits6
               PROVE  SameNetwork6(x, base, p + 1) <=> Top(x, p + 1) = Top(base, p + 1)
      OBVIOUS
  <2>1. SameNetwork6(x, base, p) <=> Top(x, p) = Top(base, p)
      BY <1>1, <1>3
  <2>2. SameNetwork6(x, base, p + 1) <=> SameNetwork6(x, base, p) /\ Bit(x, p) = Bit(base, p)
    <3>1. p - 1 + 1 = p /\ (p + 1) - 1 = p /\ \A bit : bit \in 0 .. p <=> bit \in 0 .. (p - 1) \/ bit = p
        OBVIOUS
    <3> QED
        BY <3>1, Zenon DEF SameNetwork6
  <2>3. ASSUME NEW y \in Addresses6
        PROVE  /\ Top(y, p) \in Nat /\ Bit(y, p) \in {0, 1}
               /\ Top(y, p + 1) = 2 * Top(y, p) + Bit(y, p)
    <3> DEFINE n == Bits6 - (p + 1)
    <3>1. n \in Nat /\ n < AllBits /\ n + 1 = Bits6 - p /\ p \in 0 .. (Bits6 - 1)
        BY <1>1
    <3>2. AsNumber(y) \in Nat
        BY NumbersFit
    <3> HIDE DEF n
    <3>3. /\ AsNumber(y) \div BlockSize[n + 1] \in Nat
          /\ (AsNumber(y) \div BlockSize[n]) % 2 \in {0, 1}
          /\ AsNumber(y) \div BlockSize[n] = 2 * (AsNumber(y) \div BlockSize[n + 1])
                                             + ((AsNumber(y) \div BlockSize[n]) % 2)
        BY <3>1, <3>2, OneBitMore, Zenon
    <3>4. (AsNumber(y) \div BlockSize[n]) % 2 = Bit(y, p)
        BY <3>1, BitIs, Zenon DEF n
    <3>5. Top(y, p) = AsNumber(y) \div BlockSize[n + 1] /\ Top(y, p + 1) = AsNumber(y) \div BlockSize[n]
        BY <3>1, Zenon DEF n
    <3> QED
        BY <3>3, <3>4, <3>5, Zenon
  <2>4. Top(x, p + 1) = Top(base, p + 1) <=> Top(x, p) = Top(base, p) /\ Bit(x, p) = Bit(base, p)
    <3>1. /\ Top(x, p) \in Nat /\ Bit(x, p) \in {0, 1}
          /\ Top(x, p + 1) = 2 * Top(x, p) + Bit(x, p)
        BY <2>3, Zenon
    <3>2. /\ Top(base, p) \in Nat /\ Bit(base, p) \in {0, 1}
          /\ Top(base, p + 1) = 2 * Top(base, p) + Bit(base, p)
        BY <2>3, Zenon
    <3> HIDE DEF Top
    <3> QED
        BY <3>1, <3>2
  <2> QED
      BY <2>1, <2>2, <2>4
<1>4. \A p \in Nat : p \in good
  <2> HIDE DEF good
  <2> QED
      BY <1>2, <1>3, SetInduction
<1>5. ASSUME NEW prefix \in 0 .. Bits6
      PROVE  SameNetwork6(x, base, prefix) <=> Contains6(base, prefix, x)
  <2>1. SameNetwork6(x, base, prefix) <=> Top(x, prefix) = Top(base, prefix)
      BY <1>1, <1>4
  <2>2. Contains6(base, prefix, x) <=> Top(base, prefix) = Top(x, prefix)
      BY Zenon DEF Contains6, Bits6
  <2> QED
      BY <2>1, <2>2
<1> QED
    BY <1>5

-----------------------------------------------------------------------------
(* The sorted scan.                                                        *)

LEMMA RowsAreTyped ==
    \A i \in DOMAIN CnTable4 :
        CnTable4[i].base \in Addresses4 /\ CnTable4[i].prefix \in 0 .. Width
<1> TAKE i \in DOMAIN CnTable4
<1>1. CnTable4 \in Seq([base : Addresses4, prefix : 0 .. Width])
    BY Table4Assumption, Zenon
<1>2. i \in 1 .. Len(CnTable4)
    BY <1>1, LenProperties
<1>3. CnTable4[i] \in [base : Addresses4, prefix : 0 .. Width]
    BY <1>1, <1>2, ElementOfSeq, Zenon
<1> QED
    BY <1>3

\* inCnCidr4 stops at the first base beyond the address.  A row that contains the
\* address starts at or before it, as its base is the first of a block, and so do
\* the rows before that one, as they are sorted.
LEMMA ScanFinds ==
    \A ip \in Addresses4 :
        InCnCidr4(ip) <=>
            \E i \in DOMAIN CnTable4 : Contains4(CnTable4[i].base, CnTable4[i].prefix, ip)
<1> TAKE ip \in Addresses4
<1>1. ASSUME NEW i \in DOMAIN CnTable4
      PROVE  SameNetwork4(ip, CnTable4[i].base, CnTable4[i].prefix)
                 <=> Contains4(CnTable4[i].base, CnTable4[i].prefix, ip)
    BY RowsAreTyped, MaskIsBlock, Zenon
<1>2. ASSUME NEW i \in DOMAIN CnTable4, Contains4(CnTable4[i].base, CnTable4[i].prefix, ip)
      PROVE  \A j \in 1 .. i : CnTable4[j].base <= ip
  <2> DEFINE base == CnTable4[i].base
             size == BlockSize[Width - CnTable4[i].prefix]
  <2>1. base \in Nat /\ ip \in Nat
      BY RowsAreTyped, AddressesAreNat, Zenon
  <2>2. size \in Nat \ {0}
    <3>1. Width - CnTable4[i].prefix \in 0 .. Width
        BY RowsAreTyped, WidthsAssumption
    <3> QED
        BY <3>1, BlockSizes, Zenon
  <2>3. base % size = 0 /\ base \div size = ip \div size
      BY <1>2, Table4Assumption, Zenon DEF Contains4
  <2> HIDE DEF base, size
  <2>4. base <= ip
      BY <2>1, <2>2, <2>3, SameMultiple, Zenon
  <2> TAKE j \in 1 .. i
  <2>5. j \in DOMAIN CnTable4 /\ (j = i \/ j < i)
    <3>1. DOMAIN CnTable4 = 1 .. Len(CnTable4) /\ Len(CnTable4) \in Nat
        BY Table4Assumption, LenProperties
    <3> QED
        BY <3>1
  <2>6. CnTable4[j].base \in Nat
      BY <2>5, RowsAreTyped, AddressesAreNat, Zenon
  <2>7. CnTable4[j].base <= base
    <3>1. CASE j = i
        BY <2>1, <3>1 DEF base
    <3>2. CASE j < i
        BY <2>5, <3>2, Table4Assumption, Zenon DEF base
    <3> QED
        BY <2>5, <3>1, <3>2
  <2> QED
      BY <2>1, <2>4, <2>6, <2>7
<1> QED
    BY <1>1, <1>2, Zenon DEF InCnCidr4

-----------------------------------------------------------------------------
(* The rules in force.                                                     *)

\* What the decision is taken from, and the decision.
RuleInv ==
    /\ target \in Targets
    /\ extra \in Seq(Lines) /\ subscription \in Seq(Lines)
    /\ listed \subseteq Domains
    /\ verdict = "none" \/ verdict = Decision(target)

LEMMA BoundedAreSeqs == \A S, n : BoundedSeq(S, n) \subseteq Seq(S)
<1> TAKE S, n
<1>1. \A m \in 0 .. n : [1 .. m -> S] \subseteq Seq(S)
  <2> TAKE m \in 0 .. n
  <2>1. m \in Nat
      OBVIOUS
  <2> QED
      BY <2>1, IsASeq
<1> QED
    BY <1>1, Zenon DEF BoundedSeq, SeqOf

LEMMA RulesInit == Init => RuleInv
<1> SUFFICES ASSUME Init PROVE RuleInv
    OBVIOUS
<1>1. extra \in Seq(Lines) /\ subscription \in Seq(Lines)
    BY BoundedAreSeqs, Zenon DEF Init
<1>2. listed \subseteq Domains
  <2>1. CASE target.kind = "host"
      BY <2>1 DEF Init
  <2>2. CASE target.kind # "host"
      BY <2>2 DEF Init
  <2> QED
      BY <2>1, <2>2
<1> QED
    BY <1>1, <1>2, Zenon DEF Init, RuleInv

LEMMA RulesStep == RuleInv /\ [Next]_vars => RuleInv'
<1> SUFFICES ASSUME RuleInv, [Next]_vars PROVE RuleInv'
    OBVIOUS
<1>1. /\ extra' = extra /\ subscription' = subscription /\ excluded' = excluded
      /\ listed' = listed /\ target' = target
    BY Zenon DEF Next, Decide, vars
<1>2. Decision(target)' = Decision(target)
  <2>1. Composed' = Composed
      BY <1>1, Zenon DEF Composed
  <2>2. \A i : Dropped(i)' <=> Dropped(i)
      BY <1>1, <2>1, Zenon DEF Dropped
  <2> DEFINE matching(i) == ~Dropped(i) /\ Compiles(Composed[i]) /\ Matches(Composed[i], target)
             all == {i \in DOMAIN Composed : matching(i)}
             found == CHOOSE i \in all : \A j \in all : i <= j
  <2>3. all' = all
      BY <1>1, <2>1, <2>2, Zenon
  <2>4. FirstMatch(target) = IF all = {} THEN "none" ELSE Actions[Composed[found].target]
      BY Zenon DEF FirstMatch
  <2>5. FirstMatch(target)' = IF all' = {} THEN "none" ELSE Actions[Composed'[found'].target]
      BY Zenon DEF FirstMatch
  <2> HIDE DEF all
  <2>6. FirstMatch(target)' = FirstMatch(target)
    <3>1. found' = found
        BY <2>3, Zenon
    <3> HIDE DEF found
    <3> QED
        BY <2>1, <2>3, <2>4, <2>5, <3>1, Zenon
  <2>7. InCnTables(target)' = InCnTables(target)
      BY <1>1, Zenon DEF InCnTables
  <2> QED
      BY <2>6, <2>7, Zenon DEF Decision
<1>3. verdict' = verdict \/ verdict' = Decision(target)
    BY Zenon DEF Next, Decide, vars
<1> QED
    BY <1>1, <1>2, <1>3, Zenon DEF RuleInv

LEMMA RulesAlways == Spec => []RuleInv
<1> QED
    BY RulesInit, RulesStep, PTL DEF Spec

\* A rule matches what it covers.
LEMMA MatchesCovered ==
    \A line \in Lines : \A t \in Targets : Matches(line, t) <=> InRule(line, t)
<1> SUFFICES ASSUME NEW line \in Lines, NEW t \in Targets
             PROVE  Matches(line, t) <=> InRule(line, t)
    OBVIOUS
<1>1. CASE t.kind = "host"
  <2>1. Matches(line, t) <=> line.type \in HostTypes /\ MatchesHost(line, t.is)
      BY <1>1 DEF Matches
  <2>2. InRule(line, t) <=> line.type \in HostTypes /\ MatchesHost(line, t.is)
      BY <1>1 DEF InRule
  <2> QED
      BY <2>1, <2>2
<1>2. CASE t.kind = "ip4"
  <2>1. Matches(line, t) <=> line.type = "IP-CIDR" /\ SameNetwork4(t.is, line.param, line.prefix)
      BY <1>2 DEF Matches
  <2>2. InRule(line, t) <=> line.type = "IP-CIDR" /\ Contains4(line.param, line.prefix, t.is)
      BY <1>2 DEF InRule
  <2>3. t.is \in Addresses4
      BY <1>2, TargetsAssumption
  <2>4. line.type = "IP-CIDR" => line.param \in Addresses4 /\ line.prefix \in 0 .. Width
      BY LinesAssumption, Zenon
  <2> QED
      BY <2>1, <2>2, <2>3, <2>4, MaskIsBlock, Zenon
<1>3. CASE t.kind = "ip6"
  <2>1. Matches(line, t) <=> line.type = "IP-CIDR6" /\ SameNetwork6(t.is, line.param, line.prefix)
      BY <1>3 DEF Matches
  <2>2. InRule(line, t) <=> line.type = "IP-CIDR6" /\ Contains6(line.param, line.prefix, t.is)
      BY <1>3 DEF InRule
  <2>3. t.is \in Addresses6
      BY <1>3, TargetsAssumption, Zenon
  <2>4. line.type = "IP-CIDR6" => line.param \in Addresses6 /\ line.prefix \in 0 .. Bits6
      BY LinesAssumption, Zenon DEF Bits6
  <2> QED
      BY <2>1, <2>2, <2>3, <2>4, BitsAreBlock, Zenon
<1> QED
    BY <1>1, <1>2, <1>3, TargetsAssumption

\* The rules in force are the user's, then the subscription's.
LEMMA ComposedIs ==
    ASSUME RuleInv
    PROVE  /\ Len(extra) \in Nat /\ DOMAIN extra = 1 .. Len(extra)
           /\ DOMAIN Composed \subseteq Nat
           /\ \A i \in DOMAIN extra :
                 i \in DOMAIN Composed /\ Composed[i] = extra[i] /\ extra[i] \in Lines /\ ~Dropped(i)
           /\ \A i \in DOMAIN Composed \ DOMAIN extra :
                 /\ i > Len(extra) /\ Composed[i] \in Lines
                 /\ Composed[i] \in ToSet(subscription)
<1>1. extra \in Seq(Lines) /\ subscription \in Seq(Lines)
    BY DEF RuleInv
<1>2. /\ Len(extra) \in Nat /\ DOMAIN extra = 1 .. Len(extra)
      /\ Len(subscription) \in Nat /\ DOMAIN subscription = 1 .. Len(subscription)
    BY <1>1, LenProperties
<1>3. /\ Composed \in Seq(Lines) /\ Len(Composed) = Len(extra) + Len(subscription)
      /\ \A i \in 1 .. Len(extra) + Len(subscription) :
            Composed[i] = IF i <= Len(extra) THEN extra[i] ELSE subscription[i - Len(extra)]
    BY <1>1, ConcatProperties, Zenon DEF Composed
<1>4. DOMAIN Composed = 1 .. Len(extra) + Len(subscription)
    BY <1>3, LenProperties, Zenon
<1> HIDE DEF Composed
<1>5. ASSUME NEW i \in DOMAIN extra
      PROVE  i \in DOMAIN Composed /\ Composed[i] = extra[i] /\ extra[i] \in Lines /\ ~Dropped(i)
  <2>1. i \in 1 .. Len(extra) + Len(subscription) /\ i <= Len(extra) /\ ~(i > Len(extra))
      BY <1>2
  <2>2. extra[i] \in Lines
      BY <1>1, <1>2, ElementOfSeq
  <2> QED
      BY <1>3, <1>4, <2>1, <2>2, Zenon DEF Dropped
<1>6. ASSUME NEW i \in DOMAIN Composed \ DOMAIN extra
      PROVE  /\ i > Len(extra) /\ Composed[i] \in Lines
             /\ Composed[i] \in ToSet(subscription)
  <2>1. /\ i \in 1 .. Len(extra) + Len(subscription) /\ i > Len(extra) /\ ~(i <= Len(extra))
        /\ i - Len(extra) \in DOMAIN subscription
      BY <1>2, <1>4
  <2>2. Composed[i] = subscription[i - Len(extra)]
      BY <1>3, <2>1, Zenon
  <2>3. subscription[i - Len(extra)] \in Lines
      BY <1>1, <1>2, <2>1, ElementOfSeq
  <2> QED
      BY <2>1, <2>2, <2>3, Zenon DEF ToSet
<1>7. DOMAIN Composed \subseteq Nat
    BY <1>2, <1>4
<1> QED
    BY <1>2, <1>5, <1>6, <1>7

\* What no rule covers is decided by the tables.
LEMMA TablesDecide ==
    ASSUME RuleInv, NoRuleCovers(target)
    PROVE  FirstMatch(target) = "none"
<1> SUFFICES ASSUME NEW i \in DOMAIN Composed, ~Dropped(i), Compiles(Composed[i]),
                    Matches(Composed[i], target)
             PROVE  FALSE
    BY Zenon DEF FirstMatch
<1>1. target \in Targets
    BY DEF RuleInv
<1>2. Composed[i] \in Lines /\ Composed[i] \in ToSet(extra) \cup (ToSet(subscription) \ excluded)
  <2>1. CASE i \in DOMAIN extra
      BY <2>1, ComposedIs, Zenon DEF ToSet
  <2>2. CASE i \notin DOMAIN extra
      BY <2>2, ComposedIs, Zenon DEF Dropped
  <2> QED
      BY <2>1, <2>2
<1>3. InRule(Composed[i], target)
    BY <1>1, <1>2, MatchesCovered, Zenon
<1> QED
    BY <1>2, <1>3, Zenon DEF NoRuleCovers

-----------------------------------------------------------------------------
(* Suffixes.                                                               *)

\* t ends with the labels of s.
EndsWith(t, s) ==
    Len(s) <= Len(t) /\ \A i \in 1 .. Len(s) : s[i] = t[Len(t) - Len(s) + i]

LEMMA UnderIs == \A s, t \in Seq(Labels) : Under(t, s) <=> EndsWith(t, s)
<1> TAKE s, t \in Seq(Labels)
<1> DEFINE m == Len(s)
           n == Len(t)
           r == [i \in 1 .. m |-> s[(m - i) + 1]]
           q == [i \in 1 .. n |-> t[(n - i) + 1]]
<1>1. /\ m \in Nat /\ n \in Nat
      /\ \A i \in 1 .. m : s[i] \in Labels
      /\ \A i \in 1 .. n : t[i] \in Labels
    BY LenProperties, ElementOfSeq
<1>2. Reverse(s) = r /\ Reverse(t) = q
    BY Zenon DEF Reverse
<1>3. r \in Seq(Labels) /\ Len(r) = m /\ q \in Seq(Labels) /\ Len(q) = n
    BY <1>1
<1>4. /\ \A i \in 1 .. m : r[i] = s[(m - i) + 1]
      /\ \A i \in 1 .. n : q[i] = t[(n - i) + 1]
    BY Zenon
<1> HIDE DEF r, q
<1>5. Under(t, s) <=> Len(r) <= Len(q) /\ SubSeq(r, 1, Len(r)) = SubSeq(q, 1, Len(r))
    BY <1>2, Zenon DEF Under, IsSuffix, IsPrefix
<1>6. SubSeq(r, 1, Len(r)) = r
    BY <1>3, SubSeqFull
<1>7. ASSUME m <= n
      PROVE  r = SubSeq(q, 1, m) <=> \A i \in 1 .. m : r[i] = q[i]
  <2> DEFINE p == SubSeq(q, 1, m)
  <2>1. \A i \in 1 .. m : q[i] \in Labels
      BY <1>1, <1>3, <1>7, ElementOfSeq
  <2>2. p \in Seq(Labels) /\ Len(p) = m /\ \A i \in 1 .. m : p[i] = q[i]
      BY <1>1, <2>1, SubSeqProperties
  <2> HIDE DEF p
  <2>3. r = p <=> \A i \in 1 .. m : r[i] = p[i]
      BY <1>3, <2>2, SeqEqual, Zenon
  <2> QED
      BY <2>2, <2>3, Zenon DEF p
<1>8. ASSUME m <= n
      PROVE  (\A i \in 1 .. m : r[i] = q[i]) <=> \A i \in 1 .. m : s[i] = t[n - m + i]
  <2>1. ASSUME \A i \in 1 .. m : r[i] = q[i], NEW i \in 1 .. m
        PROVE  s[i] = t[n - m + i]
    <3>1. (m - i) + 1 \in 1 .. m /\ (m - i) + 1 \in 1 .. n
        BY <1>1, <1>8
    <3>2. r[(m - i) + 1] = s[(m - ((m - i) + 1)) + 1] /\ q[(m - i) + 1] = t[(n - ((m - i) + 1)) + 1]
        BY <1>4, <3>1, Zenon
    <3>3. (m - ((m - i) + 1)) + 1 = i /\ (n - ((m - i) + 1)) + 1 = n - m + i
        BY <1>1
    <3> QED
        BY <2>1, <3>1, <3>2, <3>3, Zenon
  <2>2. ASSUME \A i \in 1 .. m : s[i] = t[n - m + i], NEW i \in 1 .. m
        PROVE  r[i] = q[i]
    <3>1. (m - i) + 1 \in 1 .. m /\ i \in 1 .. n
        BY <1>1, <1>8
    <3>2. r[i] = s[(m - i) + 1] /\ q[i] = t[(n - i) + 1]
        BY <1>4, <3>1, Zenon
    <3>3. s[(m - i) + 1] = t[n - m + ((m - i) + 1)]
        BY <2>2, <3>1, Zenon
    <3>4. n - m + ((m - i) + 1) = (n - i) + 1
        BY <1>1
    <3> QED
        BY <3>2, <3>3, <3>4, Zenon
  <2> QED
      BY <2>1, <2>2, Zenon
<1> QED
    BY <1>3, <1>5, <1>6, <1>7, <1>8, Zenon DEF EndsWith

LEMMA UnderTransitive ==
    \A s, t, u \in Seq(Labels) : Under(t, s) /\ Under(u, t) => Under(u, s)
<1> TAKE s, t, u \in Seq(Labels)
<1> SUFFICES ASSUME EndsWith(t, s), EndsWith(u, t) PROVE EndsWith(u, s)
    BY UnderIs, Zenon
<1>1. Len(s) \in Nat /\ Len(t) \in Nat /\ Len(u) \in Nat
    BY LenProperties
<1>2. Len(s) <= Len(t) /\ Len(t) <= Len(u)
    BY Zenon DEF EndsWith
<1>3. ASSUME NEW i \in 1 .. Len(s) PROVE s[i] = u[Len(u) - Len(s) + i]
  <2>1. Len(t) - Len(s) + i \in 1 .. Len(t)
      BY <1>1, <1>2
  <2>2. s[i] = t[Len(t) - Len(s) + i]
      BY Zenon DEF EndsWith
  <2>3. t[Len(t) - Len(s) + i] = u[Len(u) - Len(t) + (Len(t) - Len(s) + i)]
      BY <2>1, Zenon DEF EndsWith
  <2>4. Len(u) - Len(t) + (Len(t) - Len(s) + i) = Len(u) - Len(s) + i
      BY <1>1
  <2> QED
      BY <2>2, <2>3, <2>4, Zenon
<1>4. Len(s) <= Len(u)
    BY <1>1, <1>2
<1> QED
    BY <1>3, <1>4, Zenon DEF EndsWith

\* A suffix is shorter, or all.
LEMMA UnderShorter ==
    \A s, t \in Seq(Labels) : Under(t, s) => s = t \/ Len(s) < Len(t)
<1> TAKE s, t \in Seq(Labels)
<1> SUFFICES ASSUME EndsWith(t, s), ~(Len(s) < Len(t)) PROVE s = t
    BY UnderIs, Zenon
<1>1. Len(s) \in Nat /\ Len(t) \in Nat /\ Len(s) <= Len(t)
    BY LenProperties, Zenon DEF EndsWith
<1>2. Len(s) = Len(t)
    BY <1>1
<1>3. \A i \in 1 .. Len(s) : s[i] = t[i]
  <2> TAKE i \in 1 .. Len(s)
  <2>1. Len(t) - Len(s) + i = i
      BY <1>1, <1>2
  <2> QED
      BY <2>1, Zenon DEF EndsWith
<1> QED
    BY <1>2, <1>3, SeqEqual, Zenon

LEMMA LastLabelsEnd ==
    \A t \in Seq(Labels) : \A n \in 0 .. Len(t) :
        LastLabels(t, n) \in Seq(Labels) /\ Len(LastLabels(t, n)) = n /\ Under(t, LastLabels(t, n))
<1> TAKE t \in Seq(Labels)
<1> TAKE n \in 0 .. Len(t)
<1> DEFINE m == Len(t)
           s == SubSeq(t, m - n + 1, m)
<1>1. m \in Nat /\ n \in Nat /\ n <= m /\ \A i \in 1 .. m : t[i] \in Labels
    BY LenProperties, ElementOfSeq
<1>2. /\ m - n + 1 \in Nat /\ m - n + 1 >= 1
      /\ m - n + 1 \in 1 .. m + 1 /\ m \in m - n + 1 - 1 .. m
      /\ \A i \in m - n + 1 .. m : t[i] \in Labels
    BY <1>1
<1>3. /\ s \in Seq(Labels)
      /\ Len(s) = n
      /\ \A i \in 1 .. n : s[i] = t[m - n + i]
  <2>1. /\ s \in Seq(Labels)
        /\ Len(s) = IF m - n + 1 <= m THEN m - (m - n + 1) + 1 ELSE 0
        /\ \A i \in 1 .. m - (m - n + 1) + 1 : s[i] = t[m - n + 1 + i - 1]
      BY <1>1, <1>2, SubSeqProperties
  <2>2. (IF m - n + 1 <= m THEN m - (m - n + 1) + 1 ELSE 0) = n /\ m - (m - n + 1) + 1 = n
      BY <1>1
  <2>3. \A i \in 1 .. n : m - n + 1 + i - 1 = m - n + i
      BY <1>1
  <2> QED
      BY <2>1, <2>2, <2>3, Zenon
<1>4. LastLabels(t, n) = s
    BY Zenon DEF LastLabels
<1> HIDE DEF s
<1>5. EndsWith(t, s)
    BY <1>1, <1>3 DEF EndsWith
<1> QED
    BY <1>3, <1>4, <1>5, UnderIs, Zenon

\* Compacting a name keeps an end of it.
LEMMA CompactEnds ==
    \A name \in Seq(Labels) : Len(name) >= 2 =>
        Compact(name) \in Seq(Labels) /\ Len(Compact(name)) >= 1 /\ Under(name, Compact(name))
<1> TAKE name \in Seq(Labels)
<1> HAVE Len(name) >= 2
<1>1. 2 \in 0 .. Len(name) /\ (Len(name) >= 3 => 3 \in 0 .. Len(name)) /\ 2 >= 1 /\ 3 >= 1
    BY LenProperties
<1>2. CASE LastLabels(name, 2) \in MultiLabelCn /\ Len(name) >= 3
  <2>1. Compact(name) = LastLabels(name, 3)
      BY <1>2, Zenon DEF Compact
  <2> QED
      BY <1>1, <1>2, <2>1, LastLabelsEnd, Zenon
<1>3. CASE ~(LastLabels(name, 2) \in MultiLabelCn /\ Len(name) >= 3)
  <2>1. Compact(name) = LastLabels(name, 2)
      BY <1>3, Zenon DEF Compact
  <2> QED
      BY <1>1, <2>1, LastLabelsEnd, Zenon
<1> QED
    BY <1>2, <1>3

\* extractSuffixes drops no name altogether: the shortest of the suffixes that its
\* compact form is under stays, as nothing that stays covers it.
LEMMA SuffixStays ==
    ASSUME NEW names \in SUBSET Seq(Labels), NEW name \in names, Len(name) >= 2
    PROVE  \E t \in ExtractSuffixes(names) :
               t \in Seq(Labels) /\ Len(t) >= 1 /\ Under(name, t)
<1> DEFINE suffixes == {Compact(n) : n \in {n \in names : Len(n) >= 2}}
           c        == Compact(name)
           covering == {t \in suffixes : Under(c, t)}
           lengths  == {Len(t) : t \in covering}
<1>1. \A t \in suffixes : t \in Seq(Labels) /\ Len(t) >= 1 /\ Len(t) \in Nat
    BY CompactEnds, LenProperties
<1>2. ExtractSuffixes(names) = {s \in suffixes : ~\E t \in suffixes \ {s} : Under(s, t)}
    BY Zenon DEF ExtractSuffixes
<1>3. name \in Seq(Labels) /\ c \in suffixes /\ c \in Seq(Labels) /\ Under(name, c)
    BY CompactEnds
<1> HIDE DEF suffixes, c
<1>4. c \in covering
  <2>1. EndsWith(c, c)
    <3>1. Len(c) \in Nat
        BY <1>3, LenProperties
    <3>2. \A i \in 1 .. Len(c) : Len(c) - Len(c) + i = i
        BY <3>1
    <3> QED
        BY <3>1, <3>2 DEF EndsWith
  <2> QED
      BY <1>3, <2>1, UnderIs, Zenon
<1>5. lengths \in SUBSET Nat /\ lengths # {}
    BY <1>1, <1>4
<1>6. PICK m \in lengths : \A k \in lengths : m <= k
    BY <1>5, LeastNat, Zenon
<1>7. PICK t \in covering : Len(t) = m
    BY <1>6
<1>8. t \in suffixes /\ t \in Seq(Labels) /\ Len(t) >= 1 /\ Under(c, t)
    BY <1>1, <1>7, Zenon
<1>9. ASSUME NEW s \in suffixes \ {t}, Under(t, s) PROVE FALSE
  <2>1. s \in suffixes /\ s \in Seq(Labels) /\ s # t
      BY <1>1, <1>9, Zenon
  <2>2. Under(c, s)
      BY <1>3, <1>8, <1>9, <2>1, UnderTransitive, Zenon
  <2>3. s \in covering
      BY <2>1, <2>2, Zenon
  <2>4. m <= Len(s)
      BY <1>6, <2>3, Zenon
  <2>5. Len(s) < Len(t)
      BY <1>8, <1>9, <2>1, UnderShorter, Zenon
  <2>6. Len(s) \in Nat /\ Len(t) \in Nat
      BY <1>1, <1>8, <2>1, Zenon
  <2> QED
      BY <1>7, <2>4, <2>5, <2>6
<1>10. t \in ExtractSuffixes(names)
    BY <1>2, <1>8, <1>9, Zenon
<1>11. Under(name, t)
    BY <1>3, <1>8, UnderTransitive, Zenon
<1> QED
    BY <1>8, <1>10, <1>11, Zenon

\* The walk over a host's dots comes to every suffix of it.
LEMMA WalkFinds ==
    ASSUME NEW host \in Seq(Labels), NEW t \in Seq(Labels), Len(t) >= 1, Under(host, t),
           NEW suffixes, t \in suffixes
    PROVE  CnHost(host, suffixes)
<1>1. CASE t = host
    BY <1>1, Zenon DEF CnHost
<1>2. CASE t # host
  <2> DEFINE dot == Len(host) - Len(t)
  <2>1. Len(host) \in Nat /\ Len(t) \in Nat /\ Len(t) < Len(host)
      BY <1>2, UnderShorter, LenProperties
  <2>2. dot \in 1 .. (Len(host) - 1) /\ Len(t) \in 0 .. Len(host)
      BY <2>1
  <2> DEFINE s == LastLabels(host, Len(t))
  <2>3. s \in Seq(Labels) /\ Len(s) = Len(t) /\ EndsWith(host, s) /\ EndsWith(host, t)
      BY <2>2, LastLabelsEnd, UnderIs, Zenon
  <2>4. s = SubSeq(host, dot + 1, Len(host))
      BY Zenon DEF LastLabels
  <2> HIDE DEF s, dot
  <2>5. \A i \in 1 .. Len(t) : s[i] = t[i]
    <3> TAKE i \in 1 .. Len(t)
    <3>1. s[i] = host[Len(host) - Len(s) + i]
        BY <2>3, Zenon DEF EndsWith
    <3>2. t[i] = host[Len(host) - Len(t) + i]
        BY <2>3, Zenon DEF EndsWith
    <3> QED
        BY <2>3, <3>1, <3>2, Zenon
  <2>6. s = t
      BY <2>3, <2>5, SeqEqual, Zenon
  <2>7. SubSeq(host, dot + 1, Len(host)) \in suffixes
      BY <2>4, <2>6, Zenon
  <2> QED
      BY <2>2, <2>7, Zenon DEF CnHost
<1> QED
    BY <1>1, <1>2

-----------------------------------------------------------------------------
(* The theorems.                                                           *)

\* RuleEngine's constructor and match methods: the user's first rule that covers the
\* target decides, whatever excludeRules, the subscription and the CN tables say.
THEOREM UserRulesWin == Spec => []ExtraRulesWin
<1>1. RuleInv => ExtraRulesWin
  <2> SUFFICES ASSUME RuleInv, verdict # "none",
                      NEW i \in DOMAIN extra, Compiles(extra[i]), InRule(extra[i], target),
                      \A j \in 1 .. (i - 1) : ~(Compiles(extra[j]) /\ InRule(extra[j], target))
               PROVE  verdict = Actions[extra[i].target]
      BY Zenon DEF ExtraRulesWin
  <2>1. target \in Targets /\ verdict = Decision(target)
      BY Zenon DEF RuleInv
  <2> DEFINE matching == {j \in DOMAIN Composed : /\ ~Dropped(j) /\ Compiles(Composed[j])
                                                 /\ Matches(Composed[j], target)}
             first    == CHOOSE j \in matching : \A k \in matching : j <= k
  <2>2. i \in DOMAIN Composed /\ Composed[i] = extra[i] /\ extra[i] \in Lines /\ ~Dropped(i)
      BY ComposedIs, Zenon
  <2>3. Matches(extra[i], target)
      BY <2>1, <2>2, MatchesCovered, Zenon
  <2>4. i \in matching
      BY <2>2, <2>3, Zenon
  <2>5. \A j \in matching : i <= j
    <3> SUFFICES ASSUME NEW j \in matching, ~(i <= j) PROVE FALSE
        OBVIOUS
    <3>1. j \in DOMAIN extra /\ j \in 1 .. (i - 1)
      <4>1. i \in Nat /\ j \in Nat /\ i <= Len(extra) /\ Len(extra) \in Nat
          BY <2>2, ComposedIs
      <4>2. j \in DOMAIN extra \/ j > Len(extra)
          BY ComposedIs, Zenon
      <4> QED
          BY <4>1, <4>2, ComposedIs
    <3>2. Composed[j] = extra[j] /\ extra[j] \in Lines
        BY <3>1, ComposedIs, Zenon
    <3>3. Compiles(extra[j]) /\ Matches(extra[j], target)
        BY <3>2, Zenon
    <3>4. InRule(extra[j], target)
        BY <2>1, <3>2, <3>3, MatchesCovered, Zenon
    <3> QED
        BY <3>1, <3>3, <3>4, Zenon
  <2>6. FirstMatch(target) = IF matching = {} THEN "none" ELSE Actions[Composed[first].target]
      BY Zenon DEF FirstMatch
  <2>7. matching \subseteq Nat
      BY ComposedIs
  <2> HIDE DEF matching
  <2>8. first = i
    <3>1. first \in matching /\ \A k \in matching : first <= k
        BY <2>4, <2>5, Zenon
    <3> HIDE DEF first
    <3>2. first \in Nat /\ i \in Nat /\ first <= i /\ i <= first
        BY <2>4, <2>5, <2>7, <3>1
    <3> QED
        BY <3>2
  <2> HIDE DEF first
  <2>9. FirstMatch(target) = Actions[extra[i].target]
      BY <2>2, <2>4, <2>6, <2>8, Zenon
  <2>10. Actions[extra[i].target] # "none"
    <3>1. extra[i].target \in DOMAIN Actions
        BY Zenon DEF Compiles
    <3>2. \A t \in DOMAIN Actions : Actions[t] # "none"
        BY DEF Actions
    <3> QED
        BY <3>1, <3>2, Zenon
  <2> QED
      BY <2>1, <2>9, <2>10, Zenon DEF Decision
<1> QED
    BY <1>1, RulesAlways, PTL

\* inCnCidr4 of rules.js: an IPv4 address that no rule covers is direct exactly if a
\* row of the embedded table contains it, for a sorted table of any size.
THEOREM Cn4ScanComplete == Spec => []Cn4Complete
<1>1. RuleInv => Cn4Complete
  <2> SUFFICES ASSUME RuleInv, verdict # "none", target.kind = "ip4", NoRuleCovers(target)
               PROVE  (verdict = "direct") <=>
                        \E i \in DOMAIN CnTable4 :
                            Contains4(CnTable4[i].base, CnTable4[i].prefix, target.is)
      BY Zenon DEF Cn4Complete
  <2>1. target \in Targets /\ verdict = Decision(target)
      BY Zenon DEF RuleInv
  <2>2. target.is \in Addresses4
      BY <2>1, TargetsAssumption
  <2>3. FirstMatch(target) = "none"
      BY TablesDecide
  <2>4. verdict = IF InCnTables(target) THEN "direct" ELSE "proxy"
      BY <2>1, <2>3, Zenon DEF Decision
  <2>5. InCnTables(target) <=> InCnCidr4(target.is)
      BY DEF InCnTables
  <2>6. verdict = "direct" <=> InCnCidr4(target.is)
      BY <2>4, <2>5
  <2> QED
      BY <2>2, <2>6, ScanFinds, Zenon
<1> QED
    BY <1>1, RulesAlways, PTL

\* extractSuffixes of build-cn-data.mjs and the walk in decide(): a host at or under
\* a name of the upstream list, which no rule covers, is direct, for any list.
THEOREM ListedAreDirect == Spec => []ListedHostsDirect
<1>1. RuleInv => ListedHostsDirect
  <2> SUFFICES ASSUME RuleInv, verdict # "none", target.kind = "host", NoRuleCovers(target),
                      NEW name \in listed, Len(name) >= 2, Under(target.is, name)
               PROVE  verdict = "direct"
      BY Zenon DEF ListedHostsDirect
  <2>1. target \in Targets /\ verdict = Decision(target) /\ listed \subseteq Domains
      BY Zenon DEF RuleInv
  <2>2. target.is \in Seq(Labels)
      BY <2>1, TargetsAssumption
  <2>3. listed \in SUBSET Seq(Labels) /\ name \in Seq(Labels)
      BY <2>1, NamesAssumption
  <2>4. PICK t \in ExtractSuffixes(listed) : t \in Seq(Labels) /\ Len(t) >= 1 /\ Under(name, t)
      BY <2>3, SuffixStays, Zenon
  <2>5. Under(target.is, t)
      BY <2>2, <2>3, <2>4, UnderTransitive, Zenon
  <2>6. CnHost(target.is, ExtractSuffixes(listed))
      BY <2>2, <2>4, <2>5, WalkFinds, Zenon
  <2>7. InCnTables(target)
      BY <2>6 DEF InCnTables
  <2>8. FirstMatch(target) = "none"
      BY TablesDecide
  <2> QED
      BY <2>1, <2>7, <2>8, Zenon DEF Decision
<1> QED
    BY <1>1, RulesAlways, PTL

=============================================================================
