------------------------------ MODULE Encodings ------------------------------
(***************************************************************************)
(* How numbers, bytes and bits are written for others to read: the hex texts *)
(* and the byte order of index keys and vectors (hexconvert.h, mybyteswap.h, *)
(* myendian.h), the base64 of a file that is imported (base64.cc), and the   *)
(* bits that are counted for distances (mypopcount.h).                       *)
(*                                                                         *)
(* A digit has HexBase values and a byte two digits.  The host is little     *)
(* endian.                                                                   *)
(***************************************************************************)
EXTENDS Integers, Sequences, FiniteSets, SequencesExt, FiniteSetsExt

CONSTANTS
  HexBase,      \* 16
  ByteBitsOf,   \* bits of a byte of a bit vector: 8
  WordBytes     \* bytes of a word of popcount: 8

ASSUME EncodingsAssumption ==
  /\ {HexBase, ByteBitsOf, WordBytes} \subseteq Nat \ {0} /\ HexBase > 1

ByteValues == HexBase ^ 2
Values(n)  == 0 .. ByteValues ^ n - 1     \* of an unsigned number of n bytes

-----------------------------------------------------------------------------
(* hexconvert.h.  A character is a digit, in capitals or not, or another.    *)

Upper(d) == [digit |-> d, upper |-> TRUE]
Lower(d) == [digit |-> d, upper |-> FALSE]
NoDigit  == [digit |-> -1, upper |-> FALSE]

(* toHex<T, uppercase>: always two digits for a byte.                        *)
toHex(number, n) == [i \in 1 .. 2 * n |-> Upper((number \div HexBase ^ (2 * n - i)) % HexBase)]

nibble(c) == IF c.digit < 0 THEN 0 ELSE c.digit

(* fromHex<T>: what is shifted out of T is lost.                             *)
fromHex(hex, n) ==
  FoldLeft(LAMBDA val, c : ((val * HexBase) % (ByteValues ^ n)) + nibble(c), 0, hex)

(* fromHexBytes                                                              *)
fromHexBytes(hex, size) ==
  IF Len(hex) % 2 # 0 \/ Len(hex) \div 2 > size THEN <<>>
  ELSE [i \in 1 .. Len(hex) \div 2 |-> fromHex(SubSeq(hex, 2 * i - 1, 2 * i), 1)]

-----------------------------------------------------------------------------
(* mybyteswap.h, myendian.h                                                  *)

(* The bytes of a number in the memory of the host, and back.                *)
inMemory(a, n) == [i \in 1 .. n |-> (a \div ByteValues ^ (i - 1)) % ByteValues]
fromMemory(bs) == MapThenSumSet(LAMBDA i : bs[i] * ByteValues ^ (i - 1), DOMAIN bs)

(* Each byte is masked out and shifted over to the other side.               *)
byteswap(a, n) ==
  MapThenSumSet(LAMBDA i : LET byte == (a \div ByteValues ^ i) % ByteValues IN byte * ByteValues ^ (n - 1 - i),
                0 .. n - 1)

(* uint128_t: the halves are swapped, and what is in them.                   *)
byteswapHalves(a, n) ==
  LET half == ByteValues ^ (n \div 2)
  IN  byteswap(a % half, n \div 2) * half + byteswap(a \div half, n \div 2)

(* byteswapSigned: the number is taken for an unsigned one and back.         *)
asUnsigned(a, n) == a % (ByteValues ^ n)
asSigned(a, n)   == IF 2 * a < ByteValues ^ n THEN a ELSE a - ByteValues ^ n
byteswapSigned(a, n) == asSigned(byteswap(asUnsigned(a, n), n), n)

htobe(a, n) == byteswap(a, n)
htole(a, n) == a

(* VGET of a vector in hex, and the vector that VADD makes of the text.      *)
elementToHex(a, n, order)   == IF order = "HEX_LE" THEN toHex(htobe(a, n), n) ELSE toHex(htole(a, n), n)
elementFromHex(hex, n, order) ==
  LET a == fromMemory(fromHexBytes(hex, n)) IN IF order = "HEX_LE" THEN htole(a, n) ELSE htobe(a, n)

-----------------------------------------------------------------------------
(* mypopcount.h.  A bit vector is a sequence of bits, the low ones of a byte *)
(* first.                                                                    *)

Ones(a, from, to) == Cardinality({i \in from + 1 .. to : a[i] = 1})

(* Whole words, whole bytes of the rest, and the bits of one more byte.      *)
popcountOf(a, bits) ==
  LET word  == WordBytes * ByteBitsOf
      size  == bits \div word
      rest  == bits % word
      size8 == rest \div ByteBitsOf
      tail  == rest % ByteBitsOf
      at8   == size * word
      atEnd == at8 + size8 * ByteBitsOf
  IN  MapThenSumSet(LAMBDA i : Ones(a, i * word, (i + 1) * word), 0 .. size - 1)
        + MapThenSumSet(LAMBDA i : Ones(a, at8 + i * ByteBitsOf, at8 + (i + 1) * ByteBitsOf), 0 .. size8 - 1)
        + IF tail = 0 THEN 0 ELSE Ones(a, atEnd, atEnd + tail)

(* popcount2F over the bits of both.                                         *)
popcountXOR(a, b, bits) == popcountOf([i \in DOMAIN a |-> (a[i] + b[i]) % 2], bits)
popcountAND(a, b, bits) == popcountOf([i \in DOMAIN a |-> a[i] * b[i]], bits)
popcountDOT(a, b, bits) ==
  [dot |-> popcountAND(a, b, bits), normA |-> popcountOf(a, bits), normB |-> popcountOf(b, bits)]

-----------------------------------------------------------------------------
(* base64.cc.  A character is its number, or PAD for "=", or Bad.  In the     *)
(* table PAD has the value -1, which sets all bits.                          *)

PAD     == -1
Bad     == -2
Octet   == 256
Unwritten == -1

shiftIn(v, c) == IF c = -1 THEN -1 ELSE v * 64 + c

(* The three places of the buffer that four characters are decoded to.       *)
decodeFour(four) ==
  LET or0(c) == IF c = PAD THEN 0 ELSE c
      v      == FoldLeft(shiftIn, 0, <<four[1], four[2], or0(four[3]), or0(four[4])>>)
  IN  <<(v \div Octet ^ 2) % Octet,
        IF four[3] = PAD THEN Unwritten ELSE (v \div Octet) % Octet,
        IF four[4] = PAD THEN Unwritten ELSE v % Octet>>

base64_decode(data) ==
  IF Len(data) % 4 # 0 \/ Bad \in ToSet(data) THEN <<>>
  ELSE LET buffer == FoldLeft(LAMBDA out, i : out \o decodeFour(SubSeq(data, 4 * i - 3, 4 * i)), <<>>,
                              [i \in 1 .. Len(data) \div 4 |-> i])
           len    == Cardinality({i \in DOMAIN buffer : buffer[i] # Unwritten})
       IN  SubSeq(buffer, 1, len)

-----------------------------------------------------------------------------
(* mortoncurve.h.  A word is the set of its bits that are set; a round       *)
(* shifts it, and masks it with 16 bits at a time, the high ones first.      *)

Mask(ws)      == {i \in 0 .. 16 * Len(ws) - 1 : (ws[Len(ws) - (i \div 16)] \div 2 ^ (i % 16)) % 2 = 1}
Shifted(x, n) == {i + n : i \in x} \cap Nat
Bits32 == 0 .. 31
Bits8  == 0 .. 7

splitRounds2D32 ==
  <<<<16, <<\h0000, \hffff, \h0000, \hffff>>>>,
    << 8, <<\h00ff, \h00ff, \h00ff, \h00ff>>>>,
    << 4, <<\h0f0f, \h0f0f, \h0f0f, \h0f0f>>>>,
    << 2, <<\h3333, \h3333, \h3333, \h3333>>>>,
    << 1, <<\h5555, \h5555, \h5555, \h5555>>>>>>

splitRounds3D32 ==
  <<<<64, <<\h0000, \h03ff, \h0000, \h0000, \h0000, \h0000, \hffff, \hffff>>>>,
    <<32, <<\h0000, \h03ff, \h0000, \h0000, \hffff, \h0000, \h0000, \hffff>>>>,
    <<16, <<\h0300, \h00ff, \h0000, \hff00, \h00ff, \h0000, \hff00, \h00ff>>>>,
    << 8, <<\h0300, \hf00f, \h00f0, \h0f00, \hf00f, \h00f0, \h0f00, \hf00f>>>>,
    << 4, <<\h030c, \h30c3, \h0c30, \hc30c, \h30c3, \h0c30, \hc30c, \h30c3>>>>,
    << 2, <<\h0924, \h9249, \h2492, \h4924, \h9249, \h2492, \h4924, \h9249>>>>>>

splitRounds4D32 ==
  <<<<64, <<\h0000, \h0000, \hffc0, \h0000, \h0000, \h0000, \h003f, \hffff>>>>,
    <<32, <<\h0000, \h0000, \hffc0, \h0000, \h003f, \hf800, \h0000, \h07ff>>>>,
    <<16, <<\h0000, \hf800, \h07c0, \h003f, \h0000, \hf800, \h07c0, \h003f>>>>,
    << 8, <<\h00c0, \h3807, \h00c0, \h3807, \h00c0, \h3807, \h00c0, \h3807>>>>,
    << 4, <<\h0843, \h0843, \h0843, \h0843, \h0843, \h0843, \h0843, \h0843>>>>,
    << 2, <<\h0909, \h0909, \h0909, \h0909, \h0909, \h0909, \h0909, \h0909>>>>,
    << 1, <<\h1111, \h1111, \h1111, \h1111, \h1111, \h1111, \h1111, \h1111>>>>>>

splitRounds8D8 ==
  <<<<32, <<\h0000, \h00e0, \h0000, \h001f>>>>,
    <<16, <<\h0080, \h0060, \h0018, \h0007>>>>,
    << 8, <<\h0080, \h4020, \h1008, \h0403>>>>,
    << 4, <<\h0080, \h4021, \h0080, \h4021>>>>,
    << 2, <<\h0081, \h0081, \h0081, \h0081>>>>,
    << 1, <<\h0101, \h0101, \h0101, \h0101>>>>>>

splitRounds16D8 ==
  <<<<64, <<\h0000, \h0000, \h0000, \h00e0, \h0000, \h0000, \h0000, \h001f>>>>,
    <<32, <<\h0000, \h0080, \h0000, \h0060, \h0000, \h0018, \h0000, \h0007>>>>,
    <<16, <<\h0000, \h0080, \h0040, \h0020, \h0010, \h0008, \h0004, \h0003>>>>,
    << 8, <<\h0000, \h8000, \h4000, \h2000, \h1000, \h0800, \h0400, \h0201>>>>,
    << 4, <<\h0000, \h8000, \h4000, \h2001, \h0000, \h8000, \h4000, \h2001>>>>,
    << 2, <<\h0000, \h8001, \h0000, \h8001, \h0000, \h8001, \h0000, \h8001>>>>,
    << 1, <<\h0001, \h0001, \h0001, \h0001, \h0001, \h0001, \h0001, \h0001>>>>>>

spreadBits(rounds, x) ==
  FoldLeft(LAMBDA y, r : (y \cup Shifted(y, r[1])) \cap Mask(r[2]), x, rounds)

(* The rounds back: of each the mask, the shift, and the bits that differ.   *)
gatherBits(rounds, z) ==
  FoldLeft(LAMBDA y, r : LET w == y \cap Mask(r[2]) IN SymDiff(w, Shifted(w, - r[1])), z, Reverse(rounds)) \cap Bits32

splitBits2D32(x) == spreadBits(splitRounds2D32, x \cap Bits32)
splitBits3D32(x) == spreadBits(splitRounds3D32, x \cap Bits32)
splitBits4D32(x) == spreadBits(splitRounds4D32, x \cap Bits32)
splitBits8D8(x)  == spreadBits(splitRounds8D8, x \cap Bits8)
splitBits16D8(x) == spreadBits(splitRounds16D8, x \cap Bits8)
combineBits2D32(z) == gatherBits(splitRounds2D32, z)
combineBits3D32(z) == gatherBits(splitRounds3D32, z)
combineBits4D32(z) == gatherBits(splitRounds4D32, z)
combineBits8D8(z)  == {i \in Bits8 : 8 * i \in z}
combineBits16D8(z) == {i \in Bits8 : 16 * i \in z}

-----------------------------------------------------------------------------
(* What is written is read back.                                             *)

(* A number in hex keeps its order, in either case of the digits; a text     *)
(* that is too long keeps its last digits; bytes are read in pairs.          *)
HexExact(a, b, n) ==
  LET h == toHex(a, n)
      k == toHex(b, n)
  IN  /\ fromHex(h, n) = a
      /\ fromHex([i \in DOMAIN h |-> Lower(h[i].digit)], n) = a
      /\ fromHex(k \o h, n) = a /\ fromHex(<<NoDigit>> \o h, n) = a
      /\ a < b <=> \E i \in 1 .. 2 * n : /\ h[i].digit < k[i].digit
                                         /\ \A j \in 1 .. i - 1 : h[j] = k[j]
      /\ fromHexBytes(h \o k, n) = <<>>
      /\ fromHexBytes(h, n) = Reverse(inMemory(a, n))

(* In memory a number that was put into the order of the net is compared by  *)
(* its bytes; it is put back by the same; elements keep their value.         *)
OrderExact(a, b, n) ==
  LET x == inMemory(htobe(a, n), n)
      y == inMemory(htobe(b, n), n)
  IN  /\ a < b <=> \E i \in 1 .. n : x[i] < y[i] /\ \A j \in 1 .. i - 1 : x[j] = y[j]
      /\ htobe(htobe(a, n), n) = a /\ htole(htole(a, n), n) = a
      /\ n % 2 = 0 => byteswapHalves(a, n) = byteswap(a, n)
      /\ byteswapSigned(byteswapSigned(asSigned(a, n), n), n) = asSigned(a, n)
      /\ \A order \in {"HEX_LE", "HEX_BE"} : elementFromHex(elementToHex(a, n, order), n, order) = a
      /\ elementToHex(a, n, "HEX_BE") = toHex(a, n)

(* Just the first bits count, whatever is behind them.                       *)
BitsExact(a, b) ==
  \A bits \in 0 .. Len(a) :
    LET count(P(_)) == Cardinality({i \in 1 .. bits : P(i)})
    IN  /\ popcountOf(a, bits) = count(LAMBDA i : a[i] = 1)
        /\ popcountXOR(a, b, bits) = count(LAMBDA i : a[i] # b[i])
        /\ popcountDOT(a, b, bits) = [dot   |-> count(LAMBDA i : a[i] = 1 /\ b[i] = 1),
                                      normA |-> count(LAMBDA i : a[i] = 1),
                                      normB |-> count(LAMBDA i : b[i] = 1)]

(* The bits of a coordinate are spread over every D-th bit, and are read     *)
(* from there whatever the other coordinates are.                            *)
MortonExact(x) ==
  LET exact(D, bits, split(_), combine(_)) ==
        LET c  == x \cap bits
            zz == UNION {Shifted(split(IF d % 2 = 0 THEN c ELSE bits \ c), d) : d \in 0 .. D - 1}
        IN  /\ split(c) = {D * i : i \in c}
            /\ \A d \in 0 .. D - 1 : combine(Shifted(zz, - d)) = IF d % 2 = 0 THEN c ELSE bits \ c
  IN  /\ exact(2, Bits32, splitBits2D32, combineBits2D32)
      /\ exact(3, Bits32, splitBits3D32, combineBits3D32)
      /\ exact(4, Bits32, splitBits4D32, combineBits4D32)
      /\ exact(8, Bits8, splitBits8D8, combineBits8D8)
      /\ exact(16, Bits8, splitBits16D8, combineBits16D8)

(* The text of some bytes (RFC 4648), which is what is imported.             *)
encoded_size(size) == 4 * ((size + 2) \div 3)
base64(bytes) ==
  LET at(i)  == IF i <= Len(bytes) THEN bytes[i] ELSE 0
      v(g)   == at(3 * g + 1) * Octet ^ 2 + at(3 * g + 2) * Octet + at(3 * g + 3)
      six(i) == (v((i - 1) \div 4) \div 64 ^ (3 - ((i - 1) % 4))) % 64
  IN  [i \in 1 .. encoded_size(Len(bytes)) |->
         IF 3 * ((i - 1) \div 4) + ((i - 1) % 4) > Len(bytes) THEN PAD ELSE six(i)]

Base64Exact(bytes) ==
  LET text == base64(bytes)
  IN  /\ base64_decode(text) = bytes
      /\ \A i \in DOMAIN text : base64_decode([text EXCEPT ![i] = Bad]) = <<>>
      /\ text # <<>> => base64_decode(Tail(text)) = <<>>
==============================================================================
