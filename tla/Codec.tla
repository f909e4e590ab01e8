-------------------------------- MODULE Codec --------------------------------
(***************************************************************************)
(* How values become blocks: internal/storage/codec.go, the conversions of *)
(* storage.go and what the plugin's BlockHandler.java does to sign data.   *)
(*                                                                         *)
(* A banner is its six bytes (the hexadecimal digits are another spelling  *)
(* of them), a sign the bytes of its four lines joined by NUL.  Bytes of   *)
(* banners count to Radix instead of 256, so that an int32 (four bytes)    *)
(* and an int64 (eight) stay within TLC's integers; sign lines hold        *)
(* SignLineLen bytes instead of 16.                                        *)
(***************************************************************************)
EXTENDS Values

CONSTANTS
  Radix,       \* values of a banner's byte, a power of 4 (256 in the source)
  SignLineLen  \* bytes of a sign line (16 in the source)

ASSUME CodecAssumption ==
  /\ Radix \in {4, 16, 256}
  /\ SignLineLen \in Nat /\ SignLineLen > 3

bytesPerBanner == 6
signLines      == 4
signMaxLen     == SignLineLen * signLines

\* x ^ 0x55: the lower of the two bits of every base-4 digit is flipped.
Flip(x, j) == IF 4^j < Radix THEN 4^j * (1 - 2 * ((x \div 4^j) % 2)) ELSE 0
xormask(x) == x + Flip(x, 0) + Flip(x, 1) + Flip(x, 2) + Flip(x, 3)

Masked(b) == [i \in DOMAIN b |-> xormask(b[i])]

-----------------------------------------------------------------------------
(* Integers and booleans.                                                  *)

\* The low four bytes of v, most significant first, and back.
PutUint32(v) == [i \in 1 .. 4 |-> ((v % Radix^4) \div Radix^(4 - i)) % Radix]
Uint32(b) == ((b[1] * Radix + b[2]) * Radix + b[3]) * Radix + b[4]

\* int32(u): two's complement.
Signed(u) == IF 2 * u >= Radix^4 THEN u - Radix^4 ELSE u

\* A 64-bit integer is a signed word and an unsigned one.
PutUint64(v) == PutUint32(v \div Radix^4) \o PutUint32(v)
Int64Of(b) == Signed(Uint32(SubSeq(b, 1, 4))) * Radix^4 + Uint32(SubSeq(b, 5, 8))

Zeros(n) == [i \in 1 .. n |-> 0]

EncodeInt32(v) == Masked(PutUint32(v) \o Zeros(bytesPerBanner - 4))
DecodeInt32(b) == Signed(Uint32(Masked(SubSeq(b, 1, 4))))

EncodeInt64(v) ==
  LET b == Masked(PutUint64(v) \o Zeros(2 * bytesPerBanner - 8))
  IN  <<SubSeq(b, 1, bytesPerBanner), SubSeq(b, bytesPerBanner + 1, Len(b))>>

DecodeInt64(b1, b2) == Int64Of(Masked(b1 \o SubSeq(b2, 1, 2)))

\* nullHex: twelve bytes of 0xFF under the mask, where EncodeInt64(-1) has
\* eight bytes of 0xFF and four of zero.
nullHex == Masked([i \in 1 .. bytesPerBanner |-> Radix - 1])

EncodeNull     == <<nullHex, nullHex>>
IsNull(b1, b2) == b1 = nullHex /\ b2 = nullHex

EncodeBool(v) == Masked(<<IF v THEN 1 ELSE 0>> \o Zeros(bytesPerBanner - 1))
DecodeBool(b) == xormask(b[1]) # 0

-----------------------------------------------------------------------------
(* Text.                                                                   *)

\* The bytes of s in line i.
Line(s, i) == SubSeq(s, (i - 1) * SignLineLen + 1,
                        IF i * SignLineLen < Len(s) THEN i * SignLineLen ELSE Len(s))

Dots == <<46, 46, 46>>

\* Cut at bytes, not at characters.
EncodeTextTight(s) ==
  LET content == IF Len(s) < signMaxLen THEN s
                 ELSE SubSeq(s, 1, signMaxLen - 3) \o Dots
  IN  [i \in 1 .. signLines |-> Line(content, i)]
EncodeText(s) ==
  LET content == IF Len(s) <= signMaxLen THEN s
                 ELSE SubSeq(s, 1, signMaxLen - 3) \o Dots
  IN  [i \in 1 .. signLines |-> Line(content, i)]

DecodeText(lines) == lines[1] \o lines[2] \o lines[3] \o lines[4]

encodeSignData(lines) ==
  lines[1] \o <<0>> \o lines[2] \o <<0>> \o lines[3] \o <<0>> \o lines[4]

\* strings.SplitN(s, "\x00", 4): the last part keeps any further NUL.
decodeSignData(data) ==
  LET nuls  == {i \in DOMAIN data : data[i] = 0}
      nth(k) == CHOOSE i \in nuls : Cardinality({j \in nuls : j < i}) = k - 1
      from(k) == IF k = 1 THEN 1 ELSE nth(k - 1) + 1
      to(k)   == IF k = signLines \/ k > Cardinality(nuls) THEN Len(data)
                 ELSE nth(k) - 1
  IN  [k \in 1 .. signLines |->
         IF k > Cardinality(nuls) + 1 THEN <<>> ELSE SubSeq(data, from(k), to(k))]

\* new String(bytes, UTF_8) and getBytes(UTF_8) in the plugin: a byte that
\* belongs to no complete character comes back as U+FFFD.
PluginTextRaw(b) == b
PluginText(b) ==
  LET whole(i) == \/ b[i] < 128
                  \/ IsLead(b[i]) /\ i < Len(b) /\ IsFollow(b[i + 1])
                  \/ IsFollow(b[i]) /\ i > 1 /\ IsLead(b[i - 1])
  IN  FlattenSeq([i \in DOMAIN b |->
        IF whole(i) THEN <<b[i]>> ELSE <<239, 191, 189>>])

-----------------------------------------------------------------------------
(* Conversions of a statement's value to a column's type.  Whatever is no  *)
(* number becomes 0, a number wraps to the width, NULL becomes 0, false or *)
(* the empty text.                                                         *)

Wrapped(n) == Signed(Uint32(PutUint32(n)))

toInt32(v) == IF v.kind = "int" THEN Wrapped(v.num) ELSE 0
toInt64(v) == IF v.kind = "int" THEN v.num ELSE 0

toBool(v) ==
  CASE v.kind = "text" -> v.text = TrueText \/ v.text = <<49>>
    [] OTHER           -> v.num # 0

toString(v) == IF v.kind = "nil" THEN <<>> ELSE Formatted(v)

=============================================================================
