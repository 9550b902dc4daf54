------------------------------ MODULE BaseConv ------------------------------
(* utils/encoding/baseconv and numconv: bytes as digits of any base.  A      *)
(* character of the alphabet is its index in it, bytes are 0..255.           *)
EXTENDS Integers, Sequences

Pad == -1           \* the padding character
Reject == <<-2>>    \* an error; no data and no code is this

\* len(AlphabetBase32): its comment leaves L out, but L is in it.
Base32 == 33
Base62 == 62

\* NewBaseEncodingWithPadding takes an alphabet of distinct characters and a
\* padding byte outside it: none, an ASCII character beside any alphabet, or
\* ("wide") a byte from 0x80 on beside an alphabet of ASCII characters.
Paddings(base) ==
    {"none"} \cup (IF base < 256 THEN {"ascii"} ELSE {}) \cup (IF base <= 128 THEN {"wide"} ELSE {})

\* 2^n.
Pow2[n \in Nat] == IF n = 0 THEN 1 ELSE 2 * Pow2[n - 1]

\* The bits of a character, when the base is a power of two.
BitsPerChar(base) == {w \in 1..8 : Pow2[w] = base}
Bitwise(base) == BitsPerChar(base) # {}
Width(base) == CHOOSE w \in BitsPerChar(base) : TRUE

-----------------------------------------------------------------------------
\* The loop of both bitwise directions: take bits in, `bits` at a time, and hand
\* out as many times w as there are.  The bits handed out stay in the code's
\* buffer, above those it looks at.
Emit(st, w) ==
    [buf |-> st.buf % Pow2[st.n % w],
     n   |-> st.n % w,
     out |-> st.out \o [i \in 1..st.n \div w |-> (st.buf \div Pow2[st.n - i * w]) % Pow2[w]]]

Shift(st, v, bits) == [buf |-> st.buf * Pow2[bits] + v, n |-> st.n + bits, out |-> st.out]

Regroup(digits, bits, w) ==
    LET st[i \in 0..Len(digits)] ==
            IF i = 0 THEN [buf |-> 0, n |-> 0, out |-> <<>>]
            ELSE Emit(Shift(st[i - 1], digits[i], bits), w)
    IN  st[Len(digits)]

PaddingNeeded(w, chars) ==
    CASE w = 6 -> (4 - (chars % 4)) % 4
      [] w = 5 -> (8 - (chars % 8)) % 8
      [] OTHER -> 0

EncodeBitwise(data, w, pad) ==
    LET st == Regroup(data, 8, w)
        tail == IF st.n > 0 THEN <<st.buf * Pow2[w - st.n]>> ELSE <<>>
        chars == (Len(data) * 8 + w - 1) \div w
    IN  st.out \o tail \o (IF pad = "none" THEN <<>> ELSE [i \in 1..PaddingNeeded(w, chars) |-> Pad])

DecodeBitwise(code, w) == Regroup(code, w, 8).out

-----------------------------------------------------------------------------
\* One long division of a number in base `from` by `to`: the quotient without
\* leading zeros, and the remainder.
DivideDigit(s, d, from, to) ==
    LET c == s.carry * from + d
    IN  [carry |-> c % to,
         quot  |-> IF c >= to \/ s.quot # <<>> THEN Append(s.quot, c \div to) ELSE s.quot]

Divide(digits, from, to) ==
    LET s[i \in 0..Len(digits)] ==
            IF i = 0 THEN [carry |-> 0, quot |-> <<>>] ELSE DivideDigit(s[i - 1], digits[i], from, to)
    IN  s[Len(digits)]

Convert(digits, from, to) ==
    LET text[ds \in Seq(0..from - 1)] ==
            IF ds = <<>> THEN <<>>
            ELSE LET d == Divide(ds, from, to) IN Append(text[d.quot], d.carry)
    IN  text[digits]

\* Variant: every zero counts.
BadLeadingZeros(s) == SelectSeq(s, LAMBDA d : d = 0)

\* The zeros at the front, which a number does not show, are written one by one.
LeadingZeros(s) ==
    LET n == CHOOSE n \in 0..Len(s) : (\A i \in 1..n : s[i] = 0) /\ (n < Len(s) => s[n + 1] # 0)
    IN  [i \in 1..n |-> 0]

EncodeMathematical(data, base) == LeadingZeros(data) \o Convert(data, 256, base)
DecodeMathematical(code, base) == LeadingZeros(code) \o Convert(code, base, 256)

-----------------------------------------------------------------------------
EncodeToString(data, base, pad) ==
    IF data = <<>> THEN <<>>
    ELSE IF Bitwise(base) THEN EncodeBitwise(data, Width(base), pad)
    ELSE EncodeMathematical(data, base)

TrimPadding(code) ==
    LET n == CHOOSE n \in 0..Len(code) :
                 (\A i \in n + 1..Len(code) : code[i] = Pad) /\ (n > 0 => code[n] # Pad)
    IN  SubSeq(code, 1, n)

\* The cutset of TrimRight is string(e.padChar): from 0x80 on the two bytes of a
\* rune, so that nothing of the text is in it and its padding stays.
DecodeString(encoded, base, pad) ==
    LET code == IF pad = "ascii" THEN TrimPadding(encoded) ELSE encoded
    IN  IF code = <<>> THEN <<>>
        ELSE IF \E i \in 1..Len(code) : code[i] \notin 0..base - 1 THEN Reject
        ELSE IF Bitwise(base) THEN DecodeBitwise(code, Width(base))
        ELSE DecodeMathematical(code, base)

-----------------------------------------------------------------------------
(* numconv.  An int64 is its eight bytes.                                    *)

BytesToInt64(b) ==
    IF Len(b) > 8 THEN Reject ELSE [i \in 1..8 - Len(b) |-> 0] \o b

Int64ToBase(n, base) == EncodeToString(n, base, "none")

BaseToInt64(s, base) ==
    LET b == DecodeString(s, base, "none") IN IF b = Reject THEN Reject ELSE BytesToInt64(b)

=============================================================================
