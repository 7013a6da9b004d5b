------------------------------ MODULE BitArray ------------------------------
(***************************************************************************)
(* The bit arrays that are the keys and paths of the tries                 *)
(* (core/trie2/trieutils/bitarray.go and its older copy in                 *)
(* core/trie/bitarray.go): a length and four words, least significant      *)
(* first, of which the bits above the length are zero.  A word has 64 bits *)
(* in the code and WordBits here, a byte 8 and ByteBits; the length has as *)
(* many values as four words have bits.  `bits' is the sequence that `cur' *)
(* stands for, most significant bit first, computed with sequences only.   *)
(***************************************************************************)
EXTENDS Integers, Sequences, SequencesExt, FiniteSetsExt, Bitwise

CONSTANTS
    WordBits,  \* bits of a word
    ByteBits   \* bits of a byte

VARIABLES cur, bits

vars == <<cur, bits>>

W == WordBits

maxUint64 == 2^W - 1

maxUint8 == 4 * W - 1

Lens == 0..maxUint8

\* Shifts of a word; a shift by its width or more leaves nothing.
Left(w, n) == (w * 2^n) % 2^W

Right(w, n) == w \div 2^n

----------------------------------------------------------------------------
(* The operations.  The receiver is the result.                             *)

BA(len, words) == [len |-> len, words |-> words]

clear == BA(0, <<0, 0, 0, 0>>)

\* The words of b with the bits above its length cleared.
truncateToLength(b) ==
    LET w == b.words IN
    CASE b.len = 0      -> clear
      [] b.len \in 1..W -> BA(b.len, <<w[1] & Right(maxUint64, W - b.len), 0, 0, 0>>)
      [] b.len \in W + 1..2 * W ->
            BA(b.len, <<w[1], w[2] & Right(maxUint64, 2 * W - b.len), 0, 0>>)
      [] b.len \in 2 * W + 1..3 * W ->
            BA(b.len, <<w[1], w[2], w[3] & Right(maxUint64, 3 * W - b.len), 0>>)
      [] OTHER -> BA(b.len, <<w[1], w[2], w[3], w[4] & Right(maxUint64, 4 * W - b.len)>>)

LSBsFromLSB(x, n) ==
    LET w == x.words IN
    CASE n >= x.len       -> x
      [] n < x.len /\ n = 0      -> clear
      [] n < x.len /\ n \in 1..W -> BA(n, <<w[1] & Right(maxUint64, W - n), 0, 0, 0>>)
      [] n < x.len /\ n \in W + 1..2 * W ->
            BA(n, <<w[1], w[2] & Right(maxUint64, 2 * W - n), 0, 0>>)
      [] n < x.len /\ n \in 2 * W + 1..3 * W ->
            BA(n, <<w[1], w[2], w[3] & Right(maxUint64, 3 * W - n), 0>>)
      [] OTHER -> BA(n, <<w[1], w[2], w[3], w[4] & Right(maxUint64, 4 * W - n)>>)

LSBs(x, n) ==
    IF n = 0 THEN x ELSE IF n > x.len THEN clear ELSE LSBsFromLSB(x, x.len - n)

\* Two words of a shift to the right: the low bits of the upper one come in.
Down(lo, hi, n) == Right(lo, n) | Left(hi, W - n)

Up(hi, lo, n) == Left(hi, n) | Right(lo, W - n)

Rsh(x, n) ==
    LET w == x.words
        m == n % W
    IN IF x.len = 0 \/ n = 0 THEN x
       ELSE IF n >= x.len THEN clear
       ELSE truncateToLength(BA(x.len - n,
         CASE n >= 3 * W -> <<Right(w[4], m), 0, 0, 0>>
           [] n \in 2 * W..3 * W - 1 -> <<Down(w[3], w[4], m), Right(w[4], m), 0, 0>>
           [] n \in W..2 * W - 1 -> <<Down(w[2], w[3], m), Down(w[3], w[4], m), Right(w[4], m), 0>>
           [] n < W -> <<Down(w[1], w[2], m), Down(w[2], w[3], m), Down(w[3], w[4], m),
                         Right(w[4], m)>>))

\* The length stops at its maximum; the bits are shifted all the same.
Lsh(x, n) ==
    LET w == x.words
        m == n % W
    IN IF x.len = 0 \/ n = 0 THEN x
       ELSE truncateToLength(BA(IF n > maxUint8 - x.len THEN maxUint8 ELSE x.len + n,
         CASE n >= 3 * W -> <<0, 0, 0, Left(w[1], m)>>
           [] n \in 2 * W..3 * W - 1 -> <<0, 0, Left(w[1], m), Up(w[2], w[1], m)>>
           [] n \in W..2 * W - 1 -> <<0, Left(w[1], m), Up(w[2], w[1], m), Up(w[3], w[2], m)>>
           [] n < W -> <<Left(w[1], m), Up(w[2], w[1], m), Up(w[3], w[2], m),
                         Up(w[4], w[3], m)>>))

MSBs(x, n) == IF n >= x.len THEN x ELSE Rsh(x, x.len - n)

OrWords(x, y) == BA(x.len, [i \in 1..4 |-> x.words[i] | y.words[i]])

AndWords(x, y) == BA(x.len, [i \in 1..4 |-> x.words[i] & y.words[i]])

\* Xor leaves the length of the receiver, here x, alone.
XorWords(x, y) == BA(x.len, [i \in 1..4 |-> x.words[i] ^^ y.words[i]])

Equal(x, y) == x.len = y.len /\ \A i \in 1..4 : x.words[i] = y.words[i]

EqualMSBs(b, x) ==
    IF b.len = x.len THEN Equal(b, x)
    ELSE IF b.len = 0 \/ x.len = 0 THEN TRUE
    ELSE LET n == Min({b.len, x.len}) IN Equal(MSBs(b, n), MSBs(x, n))

LeadingZeros(w) == W - Max({0} \cup {i \in 1..W : w >= 2^(i - 1)})

findFirstSetBit(b) ==
    LET set == {i \in 1..4 : b.words[i] # 0}
    IN IF b.len = 0 \/ set = {} THEN 0
       ELSE Max(set) * W - LeadingZeros(b.words[Max(set)])

CommonMSBs(x, y) ==
    LET long  == IF x.len < y.len THEN y ELSE x
        short == IF x.len < y.len THEN x ELSE y
    IN IF x.len = 0 \/ y.len = 0 THEN clear
       ELSE Rsh(short, findFirstSetBit(XorWords(Rsh(long, long.len - short.len), short)))

Append_(x, y) ==
    IF x.len = 0 \/ y.len = maxUint8 THEN y
    ELSE IF y.len = 0 THEN x
    ELSE OrWords(Lsh(x, y.len), y)

SetBit(bit) == BA(1, <<bit % 2, 0, 0, 0>>)

Zeros(n) == BA(n, <<0, 0, 0, 0>>)

Ones(n) == truncateToLength(BA(n, [i \in 1..4 |-> maxUint64]))

AppendBit(x, bit) == Append_(x, SetBit(bit))

AppendZeros(x, n) == Append_(x, Zeros(n))

Subset_(x, from, to) ==
    IF from >= to \/ from >= x.len THEN clear
    ELSE LET length == Min({to, x.len}) - from
             b      == LSBs(x, from)
             mask   == Append_(Ones(length), Zeros(b.len - length))
         IN MSBs(AndWords(b, mask), length)

BitFromLSB(b, n) == IF n >= b.len THEN 0 ELSE Right(b.words[(n \div W) + 1], n % W) % 2

Bit(b, n) == IF n >= b.len THEN 0 ELSE BitFromLSB(b, b.len - n - 1)

\* Borrow of a subtraction of words with a borrow in.
Borrow(x, y, in) == IF x < y + in THEN 1 ELSE 0

Cmp(b, x) ==
    LET carry[i \in 0..4] == IF i = 0 THEN 0 ELSE Borrow(b.words[i], x.words[i], carry[i - 1])
        d(i) == (b.words[i] - x.words[i] - carry[i - 1]) % 2^W
    IN CASE b.len < x.len -> -1
         [] b.len > x.len -> 1
         [] b.len = x.len /\ carry[4] = 1 -> -1
         [] b.len = x.len /\ carry[4] = 0 -> IF \A i \in 1..4 : d(i) = 0 THEN 0 ELSE 1

(* Bytes, most significant first.                                           *)

BytesPerWord == W \div ByteBits

\* Byte k, counted from 1, of the big endian form of b.
Bytes(b) ==
    [k \in 1..4 * BytesPerWord |->
        LET i == 4 - ((k - 1) \div BytesPerWord)
            j == (BytesPerWord - 1) - ((k - 1) % BytesPerWord)
        IN Right(b.words[i], j * ByteBits) % 2^ByteBits]

\* The words that a slice of bytes fills from the least significant end; of
\* more than four words the first bytes count.
setBytes32(data) ==
    LET used == IF Len(data) > 4 * BytesPerWord THEN SubSeq(data, 1, 4 * BytesPerWord) ELSE data
        at(k) == IF k \in DOMAIN used THEN used[k] ELSE 0
        word(i) == FoldLeft(LAMBDA acc, j : acc * 2^ByteBits + at(Len(used) - i * BytesPerWord + j),
                            0, [j \in 1..BytesPerWord |-> j])
    IN [i \in 1..4 |-> word(i)]

SetBytes(length, data) == truncateToLength(BA(length, setBytes32(data)))

\* The low bits of a field element, which four words hold.
SetFelt(length, f) ==
    truncateToLength(BA(length, [i \in 1..4 |-> (f \div 2^((i - 1) * W)) % 2^W]))

Felt(b) == b.words[1] + b.words[2] * 2^W + b.words[3] * 2^(2 * W) + b.words[4] * 2^(3 * W)

activeBytes(b) == (b.len + ByteBits - 1) \div ByteBits

LastBytes(b) == SubSeq(Bytes(b), 4 * BytesPerWord - activeBytes(b) + 1, 4 * BytesPerWord)

\* The newer copy writes the length behind the bytes.
EncodedBytes(b) == Append(LastBytes(b), b.len)

Invalid == BA(0, <<>>)

byteCount(length) == (length + ByteBits - 1) \div ByteBits

UnmarshalBinary(data) ==
    IF data = <<>> \/ Len(data) > byteCount(Last(data)) + 1 THEN Invalid
    ELSE BA(Last(data), setBytes32(Front(data)))

\* The older copy writes it in front, and puts the bytes where it expects them.
Write(b) == <<b.len>> \o LastBytes(b)

UnmarshalBinaryFlat(data) ==
    IF data = <<>> \/ Len(data) < byteCount(data[1]) + 1 THEN Invalid
    ELSE BA(data[1], setBytes32(SubSeq(data, 2, byteCount(data[1]) + 1)))

----------------------------------------------------------------------------
(* The older copy of the operations in core/trie.                           *)

LSBsFromLSBFlat(x, n) == LSBsFromLSB(x, n)

LSBsFlat(x, n) == LSBs(x, n)

RshFlat(x, n) == Rsh(x, n)

LshFlat(x, n) == Lsh(x, n)

MSBsFlat(x, n) == MSBs(x, n)

EqualMSBsFlat(x, y) == EqualMSBs(x, y)

CommonMSBsFlat(x, y) == CommonMSBs(x, y)

AppendFlat(x, y) == Append_(x, y)

SubsetFlat(x, from, to) == Subset_(x, from, to)

CmpFlat(b, x) == Cmp(b, x)

SetBytesFlat(length, data) == SetBytes(length, data)

----------------------------------------------------------------------------
(* The same on sequences of bits.                                           *)

Seqs == UNION {[1..n -> {0, 1}] : n \in Lens}

\* The second operands: sequences whose bits change at most once.
Operands ==
    {[i \in 1..n |-> IF i <= k THEN b ELSE 1 - b] : n \in Lens, k \in Lens, b \in {0, 1}}

LastN(s, n) == IF n >= Len(s) THEN s ELSE SubSeq(s, Len(s) - n + 1, Len(s))

FirstN(s, n) == IF n >= Len(s) THEN s ELSE SubSeq(s, 1, n)

ZeroBits(n) == [i \in 1..n |-> 0]

ValueOf(s) ==
    LET first[i \in 0..Len(s)] == IF i = 0 THEN 0 ELSE 2 * first[i - 1] + s[i]
    IN first[Len(s)]

\* The n low bits of a number.
LowBits(v, n) == [i \in 1..n |-> (v \div 2^(n - i)) % 2]

CommonPrefix(s, t) ==
    FirstN(s, Max({n \in 0..Min({Len(s), Len(t)}) : FirstN(s, n) = FirstN(t, n)}))

\* The array of words that stands for a sequence.
Array(s) == BA(Len(s), [i \in 1..4 |-> (ValueOf(s) \div 2^((i - 1) * W)) % 2^W])

Init == bits \in Seqs /\ cur = Array(bits)

DoCut(n) ==
    \/ cur' \in {LSBs(cur, n), LSBsFlat(cur, n)}
       /\ bits' = SubSeq(bits, n + 1, Len(bits))
    \/ cur' \in {LSBsFromLSB(cur, n), LSBsFromLSBFlat(cur, n)} /\ bits' = LastN(bits, n)
    \/ cur' \in {MSBs(cur, n), MSBsFlat(cur, n)} /\ bits' = FirstN(bits, n)

DoShift(n) ==
    \/ cur' \in {Rsh(cur, n), RshFlat(cur, n)}
       /\ bits' = IF n >= Len(bits) THEN <<>> ELSE FirstN(bits, Len(bits) - n)
    \/ cur' \in {Lsh(cur, n), LshFlat(cur, n), AppendZeros(cur, n)}
       /\ cur.len # 0
       /\ bits' = LastN(bits \o ZeroBits(n), maxUint8)

DoAppend(s) ==
    /\ cur' \in {Append_(cur, Array(s)), AppendFlat(cur, Array(s))}
       \/ (Len(s) = 1 /\ cur' = AppendBit(cur, s[1]))
    /\ bits' = LastN(bits \o s, maxUint8)

DoCommon(s) ==
    /\ cur' \in {CommonMSBs(cur, Array(s)), CommonMSBsFlat(cur, Array(s))}
    /\ bits' = CommonPrefix(bits, s)

DoSubset(from, to) ==
    /\ cur' \in {Subset_(cur, from, to), SubsetFlat(cur, from, to)}
    /\ bits' = SubSeq(bits, from + 1, Min({to, Len(bits)}))

\* Through bytes, and to another length through the bytes or a field element.
DoConvert(n) ==
    \/ cur' \in {UnmarshalBinary(EncodedBytes(cur)), UnmarshalBinaryFlat(Write(cur))}
       /\ UNCHANGED bits
    \/ cur' \in {SetFelt(n, Felt(cur)), SetBytes(n, Bytes(cur)), SetBytesFlat(n, LastBytes(cur))}
       /\ bits' = LowBits(ValueOf(bits), n)

Next ==
    \/ \E n \in Lens : DoCut(n) \/ DoShift(n) \/ DoConvert(n)
    \/ \E s \in Operands : DoAppend(s) \/ DoCommon(s)
    \/ \E from \in Lens, to \in Lens : DoSubset(from, to)

Spec == Init /\ [][Next]_vars

----------------------------------------------------------------------------

\* Order of two sequences as the code has it: by length, then by value.
Compared(s, t) ==
    IF Len(s) # Len(t) THEN (IF Len(s) < Len(t) THEN -1 ELSE 1)
    ELSE IF s = t THEN 0 ELSE IF ValueOf(s) < ValueOf(t) THEN -1 ELSE 1

\* A chain of cuts, shifts, concatenations and conversions of a bit array leaves
\* exactly the bits that the same operations on a sequence of bits leave, with
\* nothing above the length, at every length up to the largest; and what is read
\* of it (single bits, order, common prefix test) is what the sequence says.
BitsExact ==
    /\ cur = Array(bits)
    /\ \A n \in Lens : Bit(cur, n) = (IF n < Len(bits) THEN bits[n + 1] ELSE 0)
    /\ \A s \in Operands :
          /\ Cmp(cur, Array(s)) = Compared(bits, s) /\ CmpFlat(cur, Array(s)) = Compared(bits, s)
          /\ LET n    == Min({Len(bits), Len(s)})
                 same == FirstN(bits, n) = FirstN(s, n)
             IN EqualMSBs(cur, Array(s)) = same /\ EqualMSBsFlat(cur, Array(s)) = same
=============================================================================
