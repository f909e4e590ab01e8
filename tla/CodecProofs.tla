---------------------------- MODULE CodecProofs ----------------------------
(***************************************************************************)
(* Proofs about the codec of internal/storage/codec.go: what InsertRow     *)
(* encodes comes back from decodeStrip, for bytes of every width that      *)
(* Codec allows, the 256 values of the source included, whose int32 and    *)
(* int64 are beyond TLC's integers.                                        *)
(***************************************************************************)
EXTENDS Codec, TLAPS

Byte == 0 .. (Radix - 1)

\* The integers of four and of eight bytes in two's complement.
Int32 == (-(Radix^4 \div 2)) .. (Radix^4 \div 2 - 1)
Int64 == (-(Radix^4 \div 2) * Radix^4) .. ((Radix^4 \div 2) * Radix^4 - 1)

\* The bytes of one banner.
Banner(b) == b \in Seq(Byte) /\ Len(b) = bytesPerBanner

-----------------------------------------------------------------------------
(* Sequences.                                                              *)

\* Two sequences in a row.
LEMMA Joined ==
  ASSUME NEW S, NEW s \in Seq(S), NEW t \in Seq(S)
  PROVE  /\ s \o t \in Seq(S) /\ Len(s \o t) = Len(s) + Len(t)
         /\ \A i \in 1 .. Len(s) : (s \o t)[i] = s[i]
         /\ \A i \in 1 .. Len(t) : (s \o t)[Len(s) + i] = t[i]
OBVIOUS

\* Sequences with the same elements are the same.
LEMMA SameSeq ==
  ASSUME NEW S, NEW s \in Seq(S), NEW t \in Seq(S), Len(s) = Len(t),
         \A i \in 1 .. Len(s) : s[i] = t[i]
  PROVE  s = t
OBVIOUS

\* The k elements after the first o.
LEMMA Part ==
  ASSUME NEW S, NEW s \in Seq(S), NEW o \in Nat, NEW k \in Nat, o + k <= Len(s)
  PROVE  /\ SubSeq(s, o + 1, o + k) \in Seq(S) /\ Len(SubSeq(s, o + 1, o + k)) = k
         /\ \A i \in 1 .. k : SubSeq(s, o + 1, o + k)[i] = s[o + i]
OBVIOUS

\* The two halves of the twelve bytes of two banners, and their first eight.
LEMMA PartsOfTwelve ==
  ASSUME NEW S, NEW b \in Seq(S), Len(b) = 12
  PROVE  /\ SubSeq(b, 1, 6) \in Seq(S) /\ Len(SubSeq(b, 1, 6)) = 6
         /\ \A i \in 1 .. 6 : SubSeq(b, 1, 6)[i] = b[0 + i]
         /\ SubSeq(b, 7, 12) \in Seq(S) /\ Len(SubSeq(b, 7, 12)) = 6
         /\ \A i \in 1 .. 6 : SubSeq(b, 7, 12)[i] = b[6 + i]
         /\ SubSeq(b, 1, 8) \in Seq(S) /\ Len(SubSeq(b, 1, 8)) = 8
         /\ \A i \in 1 .. 8 : SubSeq(b, 1, 8)[i] = b[0 + i]
<1>1. /\ SubSeq(b, 1, 6) \in Seq(S) /\ Len(SubSeq(b, 1, 6)) = 6
      /\ \A i \in 1 .. 6 : SubSeq(b, 1, 6)[i] = b[0 + i]
  <2>1. PICK o \in Nat, k \in Nat : o = 0 /\ k = 6
    OBVIOUS
  <2>2. o + k <= Len(b)
    BY <2>1
  <2>3. SubSeq(b, o + 1, o + k) \in Seq(S)
    BY <2>2, Part, Zenon
  <2>4. Len(SubSeq(b, o + 1, o + k)) = k
    BY <2>2
  <2>5. \A i \in 1 .. k : SubSeq(b, o + 1, o + k)[i] = b[o + i]
    BY <2>2
  <2>6. 0 + 1 = 1 /\ 0 + 6 = 6
    OBVIOUS
  <2> QED
    BY <2>1, <2>3, <2>4, <2>5, <2>6, Zenon
<1>2. /\ SubSeq(b, 7, 12) \in Seq(S) /\ Len(SubSeq(b, 7, 12)) = 6
      /\ \A i \in 1 .. 6 : SubSeq(b, 7, 12)[i] = b[6 + i]
  <2>1. PICK o \in Nat, k \in Nat : o = 6 /\ k = 6
    OBVIOUS
  <2>2. o + k <= Len(b)
    BY <2>1
  <2>3. SubSeq(b, o + 1, o + k) \in Seq(S)
    BY <2>2, Part, Zenon
  <2>4. Len(SubSeq(b, o + 1, o + k)) = k
    BY <2>2
  <2>5. \A i \in 1 .. k : SubSeq(b, o + 1, o + k)[i] = b[o + i]
    BY <2>2
  <2>6. 6 + 1 = 7 /\ 6 + 6 = 12
    OBVIOUS
  <2> QED
    BY <2>1, <2>3, <2>4, <2>5, <2>6, Zenon
<1>3. /\ SubSeq(b, 1, 8) \in Seq(S) /\ Len(SubSeq(b, 1, 8)) = 8
      /\ \A i \in 1 .. 8 : SubSeq(b, 1, 8)[i] = b[0 + i]
  <2>1. PICK o \in Nat, k \in Nat : o = 0 /\ k = 8
    OBVIOUS
  <2>2. o + k <= Len(b)
    BY <2>1
  <2>3. SubSeq(b, o + 1, o + k) \in Seq(S)
    BY <2>2, Part, Zenon
  <2>4. Len(SubSeq(b, o + 1, o + k)) = k
    BY <2>2
  <2>5. \A i \in 1 .. k : SubSeq(b, o + 1, o + k)[i] = b[o + i]
    BY <2>2
  <2>6. 0 + 1 = 1 /\ 0 + 8 = 8
    OBVIOUS
  <2> QED
    BY <2>1, <2>3, <2>4, <2>5, <2>6, Zenon
<1> QED
  BY <1>1, <1>2, <1>3, Zenon

\* The padding of a banner.
LEMMA ZeroBytes ==
  ASSUME NEW n \in Nat
  PROVE  Zeros(n) \in Seq(Byte) /\ Len(Zeros(n)) = n /\ \A i \in 1 .. n : Zeros(n)[i] = 0
<1>1. 0 \in Byte
  BY CodecAssumption DEF Byte
<1> QED
  BY <1>1 DEF Zeros

-----------------------------------------------------------------------------
(* The mask.                                                               *)

\* x ^ 0x55 is a byte again, and masking twice gives x back.
LEMMA Mask ==
  ASSUME NEW x \in Byte
  PROVE  xormask(x) \in Byte /\ xormask(xormask(x)) = x
<1>1. CASE Radix = 4
  BY <1>1 DEF xormask, Flip, Byte
<1>2. CASE Radix = 16
  BY <1>2 DEF xormask, Flip, Byte
<1>3. CASE Radix = 256
  <2>1. PICK p, q, r, s \in 0 .. 3 : x = p + 4 * q + 16 * r + 64 * s
    <3>1. /\ x = (x % 4) + 4 * ((x \div 4) % 4) + 16 * ((x \div 16) % 4) + 64 * (x \div 64)
          /\ x \div 64 \in 0 .. 3
      BY <1>3 DEF Byte
    <3>2. x % 4 \in 0 .. 3 /\ (x \div 4) % 4 \in 0 .. 3 /\ (x \div 16) % 4 \in 0 .. 3
      BY <1>3 DEF Byte
    <3> QED
      BY <3>1, <3>2
  <2>2. \A d \in 0 .. 3 : /\ d + (1 - 2 * (d % 2)) \in 0 .. 3
                          /\ (d + (1 - 2 * (d % 2))) % 2 = 1 - (d % 2)
    OBVIOUS
  <2>3. ASSUME NEW a \in 0 .. 3, NEW b \in 0 .. 3, NEW c \in 0 .. 3, NEW d \in 0 .. 3
        PROVE  xormask(a + 4 * b + 16 * c + 64 * d) =
                 (a + (1 - 2 * (a % 2))) + 4 * (b + (1 - 2 * (b % 2)))
                 + 16 * (c + (1 - 2 * (c % 2))) + 64 * (d + (1 - 2 * (d % 2)))
    BY <1>3 DEF xormask, Flip
  <2>4. PICK p1, q1, r1, s1 \in 0 .. 3 :
          /\ p1 = p + (1 - 2 * (p % 2)) /\ q1 = q + (1 - 2 * (q % 2))
          /\ r1 = r + (1 - 2 * (r % 2)) /\ s1 = s + (1 - 2 * (s % 2))
          /\ p1 % 2 = 1 - (p % 2) /\ q1 % 2 = 1 - (q % 2)
          /\ r1 % 2 = 1 - (r % 2) /\ s1 % 2 = 1 - (s % 2)
    BY <2>2
  <2>5. xormask(x) = p1 + 4 * q1 + 16 * r1 + 64 * s1
    BY <2>1, <2>3, <2>4
  <2>6. xormask(xormask(x)) =
          (p1 + (1 - 2 * (p1 % 2))) + 4 * (q1 + (1 - 2 * (q1 % 2)))
          + 16 * (r1 + (1 - 2 * (r1 % 2))) + 64 * (s1 + (1 - 2 * (s1 % 2)))
    BY <2>3, <2>5
  <2>7. xormask(xormask(x)) = x
    BY <2>1, <2>4, <2>6
  <2> QED
    BY <1>3, <2>5, <2>7 DEF Byte
<1> QED
  BY <1>1, <1>2, <1>3, CodecAssumption

\* The mask of a byte sequence.
LEMMA MaskSeq ==
  ASSUME NEW b \in Seq(Byte)
  PROVE  /\ Masked(b) \in Seq(Byte) /\ Len(Masked(b)) = Len(b)
         /\ \A i \in 1 .. Len(b) : Masked(b)[i] = xormask(b[i])
<1>1. \A i \in DOMAIN b : b[i] \in Byte /\ xormask(b[i]) \in Byte
  BY Mask
<1>2. DOMAIN b = 1 .. Len(b) /\ Len(b) \in Nat
  OBVIOUS
<1>3. Masked(b) = [i \in 1 .. Len(b) |-> xormask(b[i])]
  BY <1>2 DEF Masked
<1> QED
  BY <1>1, <1>2, <1>3

\* Masking undoes masking, whatever part of the banner is read back.
LEMMA MaskTwice ==
  ASSUME NEW b \in Seq(Byte), NEW n \in 0 .. Len(b)
  PROVE  Masked(SubSeq(Masked(b), 1, n)) = SubSeq(b, 1, n)
<1>1. PICK m \in Seq(Byte) : /\ m = Masked(b) /\ Len(m) = Len(b)
                             /\ \A i \in 1 .. Len(b) : m[i] = xormask(b[i])
  BY MaskSeq
<1>2. PICK p : p = SubSeq(m, 1, n)
  OBVIOUS
<1>3. p \in Seq(Byte) /\ Len(p) = n /\ \A i \in 1 .. n : p[i] = m[i]
  BY <1>1, <1>2
<1>4. PICK q \in Seq(Byte) : /\ q = Masked(p) /\ Len(q) = n
                             /\ \A i \in 1 .. n : q[i] = xormask(p[i])
  BY <1>3, MaskSeq
<1>5. PICK s : s = SubSeq(b, 1, n)
  OBVIOUS
<1>6. s \in Seq(Byte) /\ Len(s) = n /\ \A i \in 1 .. n : s[i] = b[i]
  BY <1>5
<1>7. \A i \in 1 .. n : q[i] = s[i]
  BY <1>1, <1>3, <1>4, <1>6, Mask
<1>8. q = s
  BY <1>4, <1>6, <1>7
<1> QED
  BY <1>1, <1>2, <1>4, <1>5, <1>8

-----------------------------------------------------------------------------
(* Integers.                                                               *)

\* Radix^k, which the provers need not compute.
Power(k) == Radix^k

\* The powers of the radix up to the fourth, which is even.
LEMMA Powers ==
  /\ Power(0) = 1 /\ Power(1) \in Nat /\ Power(1) > 0 /\ Power(2) \in Nat /\ Power(2) > 0
  /\ Power(3) \in Nat /\ Power(3) > 0
  /\ \E h \in Nat : Power(4) = 2 * h /\ h > 0 /\ Power(4) \div 2 = h
<1>1. CASE Radix = 4
  BY <1>1, SMT DEF Power
<1>2. CASE Radix = 16
  BY <1>2, SMT DEF Power
<1>3. CASE Radix = 256
  BY <1>3, SMT DEF Power
<1> QED
  BY <1>1, <1>2, <1>3, CodecAssumption

\* The four digits of a number less than the fourth power add up to it.
LEMMA FourDigits ==
  ASSUME NEW v \in Int, NEW u, u = v % Power(4)
  PROVE  ((((u \div Power(3)) % Radix) * Radix + ((u \div Power(2)) % Radix)) * Radix
           + ((u \div Power(1)) % Radix)) * Radix + ((u \div Power(0)) % Radix) = u
<1>1. CASE Radix = 4
  BY <1>1, SMT DEF Power
<1>2. CASE Radix = 16
  BY <1>2, SMT DEF Power
<1>3. CASE Radix = 256
  BY <1>3, SMT DEF Power
<1> QED
  BY <1>1, <1>2, <1>3, CodecAssumption

\* Each of them is a byte.
LEMMA Digit ==
  ASSUME NEW v \in Int, NEW u, u = v % Power(4), NEW k \in 0 .. 3
  PROVE  (u \div Power(k)) % Radix \in Byte
<1>1. PICK d \in Nat : d = Power(k) /\ d > 0
  <2>1. k = 0 \/ k = 1 \/ k = 2 \/ k = 3
    OBVIOUS
  <2> QED
    BY <2>1, Powers
<1>2. u \in Nat
  BY Powers
<1>3. Radix \in Nat /\ Radix > 0
  BY CodecAssumption
<1> QED
  BY <1>1, <1>2, <1>3 DEF Byte

\* PutUint32 gives four bytes, and Uint32 the number back.
LEMMA Word ==
  ASSUME NEW v \in Int
  PROVE  /\ PutUint32(v) \in Seq(Byte) /\ Len(PutUint32(v)) = 4
         /\ Uint32(PutUint32(v)) = v % Power(4)
<1>1. PICK b : b = PutUint32(v)
  OBVIOUS
<1>2. PICK u : u = v % Power(4)
  OBVIOUS
<1>3. b = [i \in 1 .. 4 |-> (u \div Power(4 - i)) % Radix]
  BY <1>1, <1>2, Zenon DEF PutUint32, Power
<1>4. \A i \in 1 .. 4 : b[i] \in Byte
  <2>1. \A i \in 1 .. 4 : 4 - i \in 0 .. 3
    OBVIOUS
  <2> QED
    BY <1>2, <1>3, <2>1, Digit
<1>5. b \in Seq(Byte) /\ Len(b) = 4
  BY <1>3, <1>4
<1>6. /\ b[1] = (u \div Power(3)) % Radix /\ b[2] = (u \div Power(2)) % Radix
      /\ b[3] = (u \div Power(1)) % Radix /\ b[4] = (u \div Power(0)) % Radix
  <2>1. /\ 4 - 1 = 3 /\ 4 - 2 = 2 /\ 4 - 3 = 1 /\ 4 - 4 = 0
        /\ 1 \in 1 .. 4 /\ 2 \in 1 .. 4 /\ 3 \in 1 .. 4 /\ 4 \in 1 .. 4
    OBVIOUS
  <2> QED
    BY <1>3, <2>1
<1>7. Uint32(b) = u
  BY <1>2, <1>6, FourDigits, Zenon DEF Uint32
<1> QED
  BY <1>1, <1>2, <1>5, <1>7

\* Two's complement: four bytes of a 32-bit integer are that integer.
LEMMA SignedWord ==
  ASSUME NEW v \in Int32
  PROVE  v \in Int /\ Signed(v % Power(4)) = v
<1>1. PICK h \in Nat : Power(4) = 2 * h /\ h > 0 /\ Power(4) \div 2 = h
  BY Powers
<1>2. v \in (-h) .. (h - 1)
  BY <1>1, Zenon DEF Int32, Power
<1>3. v % Power(4) = IF v >= 0 THEN v ELSE v + Power(4)
  BY <1>1, <1>2
<1>4. \A u : Signed(u) = IF 2 * u >= Power(4) THEN u - Power(4) ELSE u
  BY Zenon DEF Signed, Power
<1> QED
  BY <1>1, <1>2, <1>3, <1>4

\* Quotient and remainder.
LEMMA DivMod ==
  ASSUME NEW v \in Int, NEW d \in Nat, d > 0
  PROVE  v = (v \div d) * d + (v % d)
BY SMT

\* The high word of a 64-bit integer is a 32-bit one.
LEMMA HighWord ==
  ASSUME NEW v \in Int64
  PROVE  /\ v \in Int /\ v \div Power(4) \in Int32
         /\ (v \div Power(4)) * Power(4) + (v % Power(4)) = v
<1>1. PICK h \in Nat : Power(4) = 2 * h /\ h > 0 /\ Power(4) \div 2 = h
  BY Powers
<1>2. v \in (-h * Power(4)) .. (h * Power(4) - 1)
  BY <1>1, Zenon DEF Int64, Power
<1>3. PICK d \in Nat : d = Power(4) /\ d > 1 /\ d = 2 * h
  BY <1>1
<1>4. v \in Int /\ v \in (-h * d) .. (h * d - 1)
  BY <1>2, <1>3
<1>5. v \div d \in (-h) .. (h - 1)
  BY <1>3, <1>4
<1>6. (v \div d) * d + (v % d) = v
  BY <1>3, <1>4, DivMod
<1>7. Int32 = (-h) .. (h - 1)
  BY <1>1, Zenon DEF Int32, Power
<1> QED
  BY <1>3, <1>4, <1>5, <1>6, <1>7

\* What InsertRow writes for an INT column is a banner, and decodeStrip reads
\* the same integer from it (EncodeInt32, DecodeInt32).
THEOREM Int32RoundTrip ==
  \A v \in Int32 : Banner(EncodeInt32(v)) /\ DecodeInt32(EncodeInt32(v)) = v
<1> SUFFICES ASSUME NEW v \in Int32
             PROVE  Banner(EncodeInt32(v)) /\ DecodeInt32(EncodeInt32(v)) = v
  OBVIOUS
<1>1. v \in Int /\ Signed(v % Power(4)) = v
  BY SignedWord
<1>2. PICK w \in Seq(Byte) : w = PutUint32(v) /\ Len(w) = 4 /\ Uint32(w) = v % Power(4)
  BY <1>1, Word
<1>3. PICK z \in Seq(Byte) : z = Zeros(bytesPerBanner - 4) /\ Len(z) = 2
  <2>1. bytesPerBanner - 4 = 2
    BY DEF bytesPerBanner
  <2> QED
    BY <2>1, ZeroBytes
<1>a. PICK b : b = w \o z
  OBVIOUS
<1>4. b \in Seq(Byte) /\ b = w \o z /\ Len(b) = 6 /\ SubSeq(b, 1, 4) = w
  <2>1. PICK k \in Nat, l \in Nat : k = 4 /\ l = 2 /\ k + l = 6
    OBVIOUS
  <2>2. Len(w) = k /\ Len(z) = l /\ w \in Seq(Byte) /\ z \in Seq(Byte)
    BY <1>2, <1>3, <2>1
  <2>3. b \in Seq(Byte) /\ Len(b) = Len(w) + Len(z)
    BY <1>a, <2>2, Joined, Zenon
  <2>4. SubSeq(b, 1, k) = w
    BY <1>a, <2>2
  <2> QED
    BY <1>a, <2>1, <2>2, <2>3, <2>4, Zenon
<1>6. EncodeInt32(v) = Masked(b)
  BY <1>2, <1>3, <1>4 DEF EncodeInt32
<1>7. Banner(Masked(b))
  BY <1>4, MaskSeq DEF Banner, bytesPerBanner
<1>8. Masked(SubSeq(Masked(b), 1, 4)) = w
  <2>1. 4 \in 0 .. Len(b)
    BY <1>4
  <2> QED
    BY <1>4, <2>1, MaskTwice, Zenon
<1> QED
  BY <1>1, <1>2, <1>6, <1>7, <1>8 DEF DecodeInt32

\* The first banner and the first two bytes of the second hold the integer.
LEMMA Rejoined ==
  ASSUME NEW b \in Seq(Byte), Len(b) = 12
  PROVE  SubSeq(b, 1, 6) \o SubSeq(SubSeq(b, 7, 12), 1, 2) = SubSeq(b, 1, 8)
<1>a. PICK p : p = SubSeq(b, 1, 6)
  OBVIOUS
<1>b. PICK q : q = SubSeq(b, 7, 12)
  OBVIOUS
<1>c. PICK r : r = SubSeq(q, 1, 2)
  OBVIOUS
<1>d. PICK s : s = SubSeq(b, 1, 8)
  OBVIOUS
<1>e. PICK t : t = p \o r
  OBVIOUS
<1>1. p \in Seq(Byte) /\ Len(p) = 6 /\ \A i \in 1 .. 6 : p[i] = b[0 + i]
  BY <1>a, PartsOfTwelve, Zenon
<1>2. q \in Seq(Byte) /\ Len(q) = 6 /\ \A i \in 1 .. 6 : q[i] = b[6 + i]
  BY <1>b, PartsOfTwelve, Zenon
<1>3. r \in Seq(Byte) /\ Len(r) = 2 /\ \A i \in 1 .. 2 : r[i] = q[i]
  BY <1>2, <1>c, SMTT(30)
<1>4. s \in Seq(Byte) /\ Len(s) = 8 /\ \A i \in 1 .. 8 : s[i] = b[0 + i]
  BY <1>d, PartsOfTwelve, Zenon
<1>5. /\ t \in Seq(Byte) /\ Len(t) = 8
      /\ \A i \in 1 .. 6 : t[i] = p[i]
      /\ \A i \in 1 .. 2 : t[6 + i] = r[i]
  <2>1. PICK k \in Nat, l \in Nat : k = 6 /\ l = 2 /\ k + l = 8
    OBVIOUS
  <2>2. Len(p) = k /\ Len(r) = l /\ p \in Seq(Byte) /\ r \in Seq(Byte)
    BY <1>1, <1>3, <2>1
  <2>3. t \in Seq(Byte)
    BY <1>e, <2>2
  <2>a. Len(t) = Len(p) + Len(r)
    BY <1>e, <2>2, Joined, ZenonT(30)
  <2>4. \A i \in 1 .. k : t[i] = p[i]
    BY <1>e, <2>2
  <2>5. \A i \in 1 .. l : t[k + i] = r[i]
    BY <1>e, <2>2
  <2> QED
    BY <2>1, <2>2, <2>3, <2>a, <2>4, <2>5, Zenon
<1>6. ASSUME NEW i \in 1 .. 8 PROVE t[i] = s[i]
  <2>1. CASE i \in 1 .. 6
    BY <1>1, <1>4, <1>5, <2>1
  <2>2. CASE i \in {7, 8}
    <3>1. PICK k \in 1 .. 2 : i = 6 + k /\ k \in 1 .. 6
      BY <2>2
    <3> QED
      BY <1>2, <1>3, <1>4, <1>5, <3>1
  <2> QED
    BY <2>1, <2>2
<1>7. t = s
  <2>1. \A i \in 1 .. Len(t) : t[i] = s[i]
    BY <1>5, <1>6
  <2> QED
    BY <1>4, <1>5, <2>1, SameSeq
<1> QED
  BY <1>a, <1>b, <1>c, <1>d, <1>e, <1>7

\* The twelve bytes of EncodeInt64: the two words and four zeros, masked.
LEMMA Int64Bytes ==
  ASSUME NEW v \in Int64
  PROVE  \E b \in Seq(Byte) :
           /\ Len(b) = 12 /\ b[12] = 0 /\ Int64Of(SubSeq(b, 1, 8)) = v
           /\ EncodeInt64(v) = <<SubSeq(Masked(b), 1, 6), SubSeq(Masked(b), 7, 12)>>
<1>1. PICK hi \in Int32 : /\ v \in Int /\ hi = v \div Power(4)
                          /\ hi * Power(4) + (v % Power(4)) = v
  BY HighWord
<1>2. hi \in Int /\ Signed(hi % Power(4)) = hi
  BY SignedWord
<1>3. PICK w \in Seq(Byte) : w = PutUint32(hi) /\ Len(w) = 4 /\ Uint32(w) = hi % Power(4)
  BY <1>2, Word
<1>4. PICK x \in Seq(Byte) : x = PutUint32(v) /\ Len(x) = 4 /\ Uint32(x) = v % Power(4)
  BY <1>1, Word
<1>5. PICK z \in Seq(Byte) : /\ z = Zeros(2 * bytesPerBanner - 8) /\ Len(z) = 4
                             /\ z[4] = 0
  <2>1. 2 * bytesPerBanner - 8 = 4 /\ 4 \in 1 .. 4
    BY DEF bytesPerBanner
  <2> QED
    BY <2>1, ZeroBytes
<1>a. PICK y : y = w \o x
  OBVIOUS
<1>6. /\ y \in Seq(Byte) /\ y = w \o x /\ Len(y) = 8
      /\ SubSeq(y, 1, 4) = w /\ SubSeq(y, 5, 8) = x
  <2>1. PICK k \in Nat, l \in Nat : k = 4 /\ l = 4 /\ k + l = 8 /\ k + 1 = 5
    OBVIOUS
  <2>2. Len(w) = k /\ Len(x) = l /\ w \in Seq(Byte) /\ x \in Seq(Byte)
    BY <1>3, <1>4, <2>1
  <2>3. y \in Seq(Byte) /\ Len(y) = Len(w) + Len(x)
    BY <1>a, <2>2, Joined, Zenon
  <2>4. SubSeq(y, 1, k) = w
    BY <1>a, <2>2
  <2>5. SubSeq(y, k + 1, k + l) = x
    BY <1>a, <2>2
  <2> QED
    BY <1>a, <2>1, <2>2, <2>3, <2>4, <2>5, Zenon
<1>b. PICK b : b = y \o z
  OBVIOUS
<1>7. b \in Seq(Byte) /\ b = y \o z /\ Len(b) = 12 /\ b[12] = 0 /\ SubSeq(b, 1, 8) = y
  <2>1. PICK k \in Nat, l \in Nat : k = 8 /\ l = 4 /\ k + l = 12 /\ l \in 1 .. l
    OBVIOUS
  <2>2. Len(y) = k /\ Len(z) = l /\ y \in Seq(Byte) /\ z \in Seq(Byte) /\ z[l] = 0
    BY <1>5, <1>6, <2>1
  <2>3. b \in Seq(Byte) /\ Len(b) = Len(y) + Len(z)
    BY <1>b, <2>2, Joined, Zenon
  <2>4. SubSeq(b, 1, k) = y
    BY <1>b, <2>2
  <2>5. \A i \in 1 .. l : b[k + i] = z[i]
    BY <1>b, <2>2
  <2> QED
    BY <1>b, <2>1, <2>2, <2>3, <2>4, <2>5, Zenon
<1>8. PutUint64(v) = y
  BY <1>1, <1>3, <1>4, <1>6, Zenon DEF PutUint64, Power
<1>9. PICK m \in Seq(Byte) : m = Masked(b) /\ Len(m) = 12
  BY <1>7, MaskSeq
<1>10. EncodeInt64(v) = <<SubSeq(m, 1, 6), SubSeq(m, 7, 12)>>
  <2>1. bytesPerBanner = 6 /\ bytesPerBanner + 1 = 7
    BY DEF bytesPerBanner
  <2>2. EncodeInt64(v) = <<SubSeq(m, 1, bytesPerBanner), SubSeq(m, bytesPerBanner + 1, Len(m))>>
    BY <1>5, <1>7, <1>8, <1>9, Zenon DEF EncodeInt64
  <2> QED
    BY <1>9, <2>1, <2>2
<1>11. Int64Of(y) = v
  <2>1. Int64Of(y) = Signed(Uint32(w)) * Power(4) + Uint32(x)
    BY <1>6, Zenon DEF Int64Of, Power
  <2> QED
    BY <1>1, <1>2, <1>3, <1>4, <2>1
<1> QED
  BY <1>7, <1>9, <1>10, <1>11

\* What InsertRow writes for a BIGINT column, and for a transaction's number,
\* is two banners, and the same integer comes back from them.
THEOREM Int64RoundTrip ==
  \A v \in Int64 :
    /\ Banner(EncodeInt64(v)[1]) /\ Banner(EncodeInt64(v)[2])
    /\ DecodeInt64(EncodeInt64(v)[1], EncodeInt64(v)[2]) = v
<1> SUFFICES ASSUME NEW v \in Int64
             PROVE  /\ Banner(EncodeInt64(v)[1]) /\ Banner(EncodeInt64(v)[2])
                    /\ DecodeInt64(EncodeInt64(v)[1], EncodeInt64(v)[2]) = v
  OBVIOUS
<1>1. PICK b \in Seq(Byte) :
        /\ Len(b) = 12 /\ Int64Of(SubSeq(b, 1, 8)) = v
        /\ EncodeInt64(v) = <<SubSeq(Masked(b), 1, 6), SubSeq(Masked(b), 7, 12)>>
  BY Int64Bytes
<1>2. PICK m \in Seq(Byte) : m = Masked(b) /\ Len(m) = 12
  BY <1>1, MaskSeq
<1>3. Banner(SubSeq(m, 1, 6)) /\ Banner(SubSeq(m, 7, 12))
  BY <1>2, PartsOfTwelve, Zenon DEF Banner, bytesPerBanner
<1>4. SubSeq(m, 1, 6) \o SubSeq(SubSeq(m, 7, 12), 1, 2) = SubSeq(m, 1, 8)
  BY <1>2, Rejoined
<1>5. Masked(SubSeq(m, 1, 8)) = SubSeq(b, 1, 8)
  <2>1. 8 \in 0 .. Len(b)
    BY <1>1
  <2> QED
    BY <1>2, <2>1, MaskTwice
<1>6. EncodeInt64(v)[1] = SubSeq(m, 1, 6) /\ EncodeInt64(v)[2] = SubSeq(m, 7, 12)
  BY <1>1, <1>2
<1> QED
  BY <1>1, <1>3, <1>4, <1>5, <1>6 DEF DecodeInt64

\* The banners of an integer are never those that stand for "not deleted": a
\* row whose xmax MarkDeleted has written stays deleted for isVisible, whatever
\* the number of the transaction.
THEOREM Int64NeverNull ==
  \A v \in Int64 : ~IsNull(EncodeInt64(v)[1], EncodeInt64(v)[2])
<1> SUFFICES ASSUME NEW v \in Int64 PROVE EncodeInt64(v)[2] # nullHex
  BY DEF IsNull
<1>1. PICK b \in Seq(Byte) :
        /\ Len(b) = 12 /\ b[12] = 0
        /\ EncodeInt64(v) = <<SubSeq(Masked(b), 1, 6), SubSeq(Masked(b), 7, 12)>>
  BY Int64Bytes
<1>2. PICK m \in Seq(Byte) : m = Masked(b) /\ Len(m) = 12 /\ m[12] = xormask(0)
  <2>1. 12 \in 1 .. Len(b)
    BY <1>1
  <2> QED
    BY <1>1, <2>1, MaskSeq
<1>3. EncodeInt64(v)[2][6] = xormask(0)
  BY <1>1, <1>2
<1>4. nullHex[6] = xormask(Radix - 1)
  BY DEF nullHex, Masked, bytesPerBanner
<1>5. 0 \in Byte /\ Radix - 1 \in Byte /\ 0 # Radix - 1
  BY CodecAssumption DEF Byte
<1>6. xormask(0) # xormask(Radix - 1)
  BY <1>5, Mask
<1> QED
  BY <1>3, <1>4, <1>6

\* What InsertRow writes for a BOOLEAN column comes back.
THEOREM BoolRoundTrip ==
  \A v \in BOOLEAN : Banner(EncodeBool(v)) /\ DecodeBool(EncodeBool(v)) = v
<1> SUFFICES ASSUME NEW v \in BOOLEAN
             PROVE  Banner(EncodeBool(v)) /\ DecodeBool(EncodeBool(v)) = v
  OBVIOUS
<1>1. PICK x \in Byte : x = (IF v THEN 1 ELSE 0) /\ ((x # 0) <=> v)
  BY CodecAssumption DEF Byte
<1>2. PICK z \in Seq(Byte) : z = Zeros(bytesPerBanner - 1) /\ Len(z) = 5
  <2>1. bytesPerBanner - 1 = 5
    BY DEF bytesPerBanner
  <2> QED
    BY <2>1, ZeroBytes
<1>a. PICK b : b = <<x>> \o z
  OBVIOUS
<1>3. b \in Seq(Byte) /\ b = <<x>> \o z /\ Len(b) = 6 /\ b[1] = x
  <2>1. <<x>> \in Seq(Byte) /\ Len(<<x>>) = 1 /\ <<x>>[1] = x
    OBVIOUS
  <2>2. PICK y : y = <<x>>
    OBVIOUS
  <2>a. PICK k \in Nat, l \in Nat : k = 1 /\ l = 5 /\ k + l = 6 /\ k \in 1 .. k
    OBVIOUS
  <2>3. Len(y) = k /\ Len(z) = l /\ y \in Seq(Byte) /\ z \in Seq(Byte) /\ b = y \o z
    BY <1>2, <1>a, <2>1, <2>2, <2>a
  <2>4. b \in Seq(Byte) /\ Len(b) = Len(y) + Len(z)
    BY <2>3, Joined, Zenon
  <2>5. \A i \in 1 .. k : b[i] = y[i]
    BY <2>3
  <2> QED
    BY <1>a, <2>1, <2>2, <2>a, <2>3, <2>4, <2>5, Zenon
<1>4. EncodeBool(v) = Masked(b)
  BY <1>1, <1>2, <1>3 DEF EncodeBool
<1>5. 1 \in 1 .. Len(b)
  BY <1>3
<1>6. Banner(Masked(b)) /\ Masked(b)[1] = xormask(x)
  BY <1>3, <1>5, MaskSeq DEF Banner, bytesPerBanner
<1>7. xormask(xormask(x)) = x
  BY Mask
<1> QED
  BY <1>1, <1>4, <1>6, <1>7 DEF DecodeBool

-----------------------------------------------------------------------------
(* Text.                                                                   *)

\* Where line i of a text of n bytes ends.
EndOf(m, n) == IF m < n THEN m ELSE n

\* The lines up to byte m and the line that ends at byte e are the text up to
\* e, also where the text ends before m and the line is empty.
LEMMA NextLine ==
  ASSUME NEW S, NEW s \in Seq(S), NEW m \in Nat, NEW e \in Nat, m <= e
  PROVE  SubSeq(s, 1, EndOf(m, Len(s))) \o SubSeq(s, m + 1, EndOf(e, Len(s)))
           = SubSeq(s, 1, EndOf(e, Len(s)))
<1>1. PICK n \in Nat : n = Len(s)
  OBVIOUS
<1>2. PICK a \in Nat, z \in Nat : a = EndOf(m, n) /\ z = EndOf(e, n)
  BY <1>1 DEF EndOf
<1>a. PICK p : p = SubSeq(s, 1, a)
  OBVIOUS
<1>b. PICK q : q = SubSeq(s, m + 1, z)
  OBVIOUS
<1>c. PICK r : r = SubSeq(s, 1, z)
  OBVIOUS
<1>d. PICK t : t = p \o q
  OBVIOUS
<1>3. CASE m < n
  <2>1. a = m /\ m <= z /\ z <= n
    BY <1>2, <1>3 DEF EndOf
  <2>2. p \in Seq(S) /\ Len(p) = m /\ \A i \in 1 .. m : p[i] = s[i]
    BY <1>1, <1>a, <2>1
  <2>3. q \in Seq(S) /\ Len(q) = z - m /\ \A i \in 1 .. (z - m) : q[i] = s[m + i]
    <3>1. PICK k \in Nat : k = z - m /\ m + k = z /\ m + k <= Len(s)
      BY <1>1, <2>1
    <3>2. q = SubSeq(s, m + 1, m + k)
      BY <1>b, <3>1
    <3>3. /\ SubSeq(s, m + 1, m + k) \in Seq(S) /\ Len(SubSeq(s, m + 1, m + k)) = k
          /\ \A i \in 1 .. k : SubSeq(s, m + 1, m + k)[i] = s[m + i]
      <4>1. m + k <= Len(s)
        BY <3>1
      <4> QED
        BY <4>1, Part
    <3> QED
      BY <3>1, <3>2, <3>3
  <2>4. r \in Seq(S) /\ Len(r) = z /\ \A i \in 1 .. z : r[i] = s[i]
    BY <1>1, <1>c, <2>1
  <2>5. t \in Seq(S) /\ Len(t) = Len(p) + Len(q)
    BY <1>d, <2>2, <2>3, Joined, Zenon
  <2>6. \A i \in 1 .. m : t[i] = p[i]
    BY <1>d, <2>2, <2>3
  <2>7. \A i \in 1 .. (z - m) : t[m + i] = q[i]
    BY <1>d, <2>2, <2>3
  <2>8. ASSUME NEW i \in 1 .. z PROVE t[i] = r[i]
    <3>1. CASE i <= m
      BY <2>1, <2>2, <2>4, <2>6, <3>1
    <3>2. CASE i > m
      <4>1. PICK j \in 1 .. (z - m) : i = m + j
        BY <2>1, <3>2
      <4> QED
        BY <2>2, <2>3, <2>4, <2>7, <4>1
    <3> QED
      BY <3>1, <3>2
  <2>9. t = r
    BY <2>1, <2>2, <2>3, <2>4, <2>5, <2>8, SameSeq
  <2> QED
    BY <1>1, <1>2, <1>a, <1>b, <1>c, <1>d, <2>9
<1>4. CASE n <= m
  <2>1. a = n /\ z = n
    BY <1>2, <1>4 DEF EndOf
  <2>2. q = <<>>
    BY <1>1, <1>4, <1>b, <2>1
  <2>3. p \in Seq(S) /\ p = r
    BY <1>1, <1>a, <1>c, <2>1
  <2>4. t = r
    BY <1>d, <2>2, <2>3
  <2> QED
    BY <1>1, <1>2, <1>a, <1>b, <1>c, <1>d, <2>4
<1>5. m < n \/ n <= m
  BY <1>1
<1> QED
  BY <1>3, <1>4, <1>5, Zenon

\* The four lines of a text that fits on a sign are the text.
LEMMA FourLines ==
  ASSUME NEW S, NEW s \in Seq(S), Len(s) <= signMaxLen
  PROVE  ((Line(s, 1) \o Line(s, 2)) \o Line(s, 3)) \o Line(s, 4) = s
<1>1. PICK l \in Nat : l = SignLineLen
  BY CodecAssumption
<1>2. Line(s, 1) = SubSeq(s, 1, EndOf(l, Len(s)))
  <2>1. ((1 - 1) * l) + 1 = 1 /\ 1 * l = l
    OBVIOUS
  <2> QED
    BY <1>1, <2>1, Zenon DEF Line, EndOf
<1>3. /\ Line(s, 2) = SubSeq(s, l + 1, EndOf(2 * l, Len(s)))
      /\ Line(s, 3) = SubSeq(s, (2 * l) + 1, EndOf(3 * l, Len(s)))
      /\ Line(s, 4) = SubSeq(s, (3 * l) + 1, EndOf(4 * l, Len(s)))
  <2>1. (2 - 1) * l = l /\ (3 - 1) * l = 2 * l /\ (4 - 1) * l = 3 * l
    OBVIOUS
  <2> QED
    BY <1>1, <2>1, Zenon DEF Line, EndOf
<1>4. /\ l \in Nat /\ 2 * l \in Nat /\ 3 * l \in Nat /\ 4 * l \in Nat
      /\ l <= 2 * l /\ 2 * l <= 3 * l /\ 3 * l <= 4 * l
  OBVIOUS
<1>5. Line(s, 1) \o Line(s, 2) = SubSeq(s, 1, EndOf(2 * l, Len(s)))
  BY <1>2, <1>3, <1>4, NextLine, Zenon
<1>6. SubSeq(s, 1, EndOf(2 * l, Len(s))) \o Line(s, 3) = SubSeq(s, 1, EndOf(3 * l, Len(s)))
  BY <1>3, <1>4, NextLine, Zenon
<1>7. SubSeq(s, 1, EndOf(3 * l, Len(s))) \o Line(s, 4) = SubSeq(s, 1, EndOf(4 * l, Len(s)))
  BY <1>3, <1>4, NextLine, Zenon
<1>8. EndOf(4 * l, Len(s)) = Len(s)
  BY <1>1 DEF EndOf, signMaxLen, signLines
<1>9. SubSeq(s, 1, Len(s)) = s
  OBVIOUS
<1> QED
  BY <1>5, <1>6, <1>7, <1>8, <1>9, Zenon

\* A text of at most the sign's capacity comes back from its four lines byte
\* for byte, the text that fills the sign included; of a longer one the first
\* bytes and three dots (EncodeText, DecodeText).
THEOREM TextRoundTrip ==
  \A s \in Seq(Nat) :
    DecodeText(EncodeText(s)) =
      IF Len(s) <= signMaxLen THEN s ELSE SubSeq(s, 1, signMaxLen - 3) \o Dots
<1> SUFFICES ASSUME NEW s \in Seq(Nat)
             PROVE  DecodeText(EncodeText(s)) =
                      IF Len(s) <= signMaxLen THEN s
                      ELSE SubSeq(s, 1, signMaxLen - 3) \o Dots
  OBVIOUS
<1>1. PICK c : c = IF Len(s) <= signMaxLen THEN s
                   ELSE SubSeq(s, 1, signMaxLen - 3) \o Dots
  OBVIOUS
<1>2. PICK m \in Nat : m = signMaxLen /\ m > 3
  BY CodecAssumption DEF signMaxLen, signLines
<1>3. c \in Seq(Nat) /\ Len(c) <= m
  <2>1. CASE Len(s) <= m
    BY <1>1, <1>2, <2>1
  <2>2. CASE ~(Len(s) <= m)
    <3>1. PICK p : p = SubSeq(s, 1, m - 3)
      OBVIOUS
    <3>2. PICK n \in Nat : n = m - 3 /\ n <= Len(s)
      BY <1>2, <2>2
    <3>3. p \in Seq(Nat) /\ Len(p) = n
      BY <3>1, <3>2
    <3>4. Dots \in Seq(Nat) /\ Len(Dots) = 3
      BY DEF Dots
    <3>5. c = p \o Dots
      BY <1>1, <1>2, <2>2, <3>1
    <3>6. c \in Seq(Nat) /\ Len(c) = Len(p) + Len(Dots)
      BY <3>3, <3>4, <3>5, Joined, ZenonT(30)
    <3> QED
      BY <1>2, <3>2, <3>3, <3>4, <3>6
  <2> QED
    BY <2>1, <2>2
<1>4. EncodeText(s) = [i \in 1 .. 4 |-> Line(c, i)]
  BY <1>1, Zenon DEF EncodeText, signLines
<1>5. /\ EncodeText(s)[1] = Line(c, 1) /\ EncodeText(s)[2] = Line(c, 2)
      /\ EncodeText(s)[3] = Line(c, 3) /\ EncodeText(s)[4] = Line(c, 4)
  BY <1>4
<1>6. DecodeText(EncodeText(s)) = ((Line(c, 1) \o Line(c, 2)) \o Line(c, 3)) \o Line(c, 4)
  BY <1>5, Zenon DEF DecodeText
<1> QED
  BY <1>1, <1>2, <1>3, <1>6, FourLines, Zenon

=============================================================================
