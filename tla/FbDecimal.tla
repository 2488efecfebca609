----------------------------- MODULE FbDecimal ------------------------------
(***************************************************************************)
(* Exact numbers between Go values and the wire: NUMERIC and INT128        *)
(* parameters, the text of a scaled integer, and DECFLOAT.                 *)
(*                                                                         *)
(* A decimal text is a record: sign, the digits before and after the dot,  *)
(* and the exponent; scanning characters is left out, a malformed text is  *)
(* one without digits.   The integer types keep their limits as widths, so *)
(* that a small instance meets every limit.                                *)
(***************************************************************************)
EXTENDS Integers, Sequences, SequencesExt

CONSTANTS
  Bits,       \* [SQLShort, SQLLong, SQLInt64, SQLInt128 -> width], the last the largest
  maxShift,   \* 128 in the code: a larger power of ten is reported at once
  Declets,    \* groups of three digits in a DECFLOAT: 5 or 11
  ExpBits,    \* its exponent's bits after the combination field: 8 or 12
  Bias        \* 398 or 6176

ASSUME DecimalAssumption ==
  /\ \A t \in DOMAIN Bits : Bits[t] \in Nat \ {0}
  /\ {maxShift, Declets, ExpBits, Bias} \subseteq Nat

minInt(t) == -(2^(Bits[t] - 1))
maxInt(t) == 2^(Bits[t] - 1) - 1

----------------------------------------------------------------------------
(* Digits *)

Zeros(n) == [i \in 1..n |-> 0]

\* FormatUint and big.Int.String: no leading zero, and "0" for zero.
Digits(n) ==
  LET len == CHOOSE k \in 1..10 : n < 10^k /\ (k = 1 \/ n >= 10^(k - 1))
  IN [i \in 1..len |-> (n \div 10^(len - i)) % 10]

Number(ds) == FoldLeft(LAMBDA acc, d : 10 * acc + d, 0, ds)

Text(neg, int, frac, exp) == [neg |-> neg, int |-> int, frac |-> frac, exp |-> exp]

\* What a conversion returns: a number, or the error errInvalidDecimal or
\* numericOverflow.
Ok(v) == [err |-> "none", v |-> v]
Invalid == [err |-> "invalid", v |-> 0]
Overflow == [err |-> "overflow", v |-> 0]

----------------------------------------------------------------------------
(* Parameters *)

\* parseDecimalStringStrict: the digits without the dot and the exponent of
\* the last one.  A text without a digit is invalid.
parseDecimalStringStrict(s) ==
  [neg |-> s.neg, ok |-> s.int \o s.frac # <<>>,
   coeff |-> Number(s.int \o s.frac), exp |-> s.exp - Len(s.frac)]

\* Half away from zero; the first is half toward zero.
roundsUpPastHalf(rest, divisor) == 2 * rest > divisor
roundsUp(rest, divisor) == 2 * rest >= divisor

\* decimalStringToScaledBigInt: shift places to the left, or to the right with rounding.
decimalStringToScaledBigInt(s, scale) ==
  LET p == parseDecimalStringStrict(s)
      shift == p.exp - scale
      divisor == 10^(-shift)
      quotient == p.coeff \div divisor
      up == IF roundsUp(p.coeff % divisor, divisor) THEN 1 ELSE 0
      abs == IF shift >= 0 THEN p.coeff * 10^shift ELSE quotient + up
  IN IF ~p.ok THEN Invalid
     ELSE IF shift > maxShift /\ p.coeff # 0 THEN Overflow
     ELSE Ok(IF p.neg THEN -abs ELSE abs)

decimalStringToScaledInt64(s, scale) ==
  LET r == decimalStringToScaledBigInt(s, scale)
  IN IF r.v < minInt("SQLInt64") \/ r.v > maxInt("SQLInt64") THEN Overflow ELSE r

\* Go's integer division truncates.
Quo(a, b) == IF a >= 0 THEN a \div b ELSE -((-a) \div b)

\* scaleIntegralInt64 multiplies digit by digit and looks before each step.
scaleIntegralInt64(v, scale) ==
  LET Times10(acc, i) ==
        IF acc.err # "none" \/ acc.v > Quo(maxInt("SQLInt64"), 10)
                            \/ acc.v < Quo(minInt("SQLInt64"), 10)
        THEN Overflow ELSE Ok(acc.v * 10)
  IN IF scale >= 0 THEN Ok(v)
     ELSE FoldLeft(Times10, Ok(v), [i \in 1..(-scale) |-> i])

\* numericInt64, by the kind of the Go value: unsigned integers beyond int64
\* are an overflow; floats are formatted first, so they come as texts.
numericInt64(x, scale) ==
  CASE x.kind = "int"  -> IF x.v > maxInt("SQLInt64") THEN Overflow
                          ELSE scaleIntegralInt64(x.v, scale)
    [] x.kind = "bool" -> IF x.v THEN scaleIntegralInt64(1, scale) ELSE Ok(0)
    [] x.kind = "text" -> decimalStringToScaledInt64(x.v, scale)
    [] OTHER           -> Invalid

\* valueToInt128 formats every kind to a text first.  stringToInt128Err adds 2^128
\* to a negative value and keeps the low 16 bytes of the magnitude of the result.
asText(x) ==
  CASE x.kind = "int"  -> Text(x.v < 0, Digits(IF x.v < 0 THEN -x.v ELSE x.v), <<>>, 0)
    [] x.kind = "bool" -> Text(FALSE, IF x.v THEN <<1>> ELSE <<0>>, <<>>, 0)
    [] OTHER           -> x.v

valueToInt128(x, scale) ==
  LET r == decimalStringToScaledBigInt(asText(x), scale)
      w == IF r.v < 0 THEN r.v + 2^Bits["SQLInt128"] ELSE r.v
  IN IF r.err # "none" THEN r
     ELSE Ok((IF w < 0 THEN -w ELSE w) % 2^Bits["SQLInt128"])

\* CheckNamedValue makes an int64 of every Go integer, and refuses one beyond
\* it; floats, strings and Booleans pass.
CheckNamedValue(x) == IF x.kind = "int" /\ x.v > maxInt("SQLInt64") THEN Overflow ELSE Ok(x)

\* The cases of encodeValue for exact numbers: the integer on the wire.
encodeNumeric(t, scale, x) ==
  LET r == numericInt64(x, scale)
  IN IF t = "SQLInt128" THEN valueToInt128(x, scale)
     ELSE IF r.v < minInt(t) \/ r.v > maxInt(t) THEN Overflow ELSE r

----------------------------------------------------------------------------
(* Columns *)

\* scaledInt64 and scaledBigInt put the dot -scale digits from the end and
\* add zeros in front if there are too few.
dotAt(ds, neg, scale) ==
  LET dec == -scale
  IN IF dec >= Len(ds) THEN Text(neg, <<0>>, Zeros(dec - Len(ds)) \o ds, 0)
     ELSE Text(neg, SubSeq(ds, 1, Len(ds) - dec), SubSeq(ds, Len(ds) - dec + 1, Len(ds)), 0)

\* The magnitude is taken in uint64: -MinInt64 does not exist in int64.
scaledInt64(v, scale) ==
  LET u == v % 2^Bits["SQLInt64"]
      magnitude == IF v < 0 THEN (-u) % 2^Bits["SQLInt64"] ELSE u
  IN dotAt(Digits(magnitude), v < 0, scale)

scaledBigInt(v, scale) == dotAt(Digits(IF v < 0 THEN -v ELSE v), v < 0, scale)

\* The cases of DecodeColumn for exact numbers.  INT128 arrives as unsigned bytes.
decodeNumeric(t, scale, wire) ==
  IF t = "SQLInt128"
  THEN scaledBigInt(IF wire >= 2^(Bits[t] - 1) THEN wire - 2^Bits[t] ELSE wire, scale)
  ELSE scaledInt64(wire, scale)

----------------------------------------------------------------------------
(* DECFLOAT *)

\* A DECFLOAT in parts: sign, the combination field's digit and exponent bits,
\* the exponent's continuation and the declets, most significant first.
\* dpdToInt: a declet's bits, b[10] the most significant.
DpdBits(dpd) == [i \in 1..10 |-> (dpd \div 2^(i - 1)) % 2]

dpdToInt(dpd) ==
  LET b == DpdBits(dpd)
      high   == b[10] * 4 + b[9] * 2     \* b9 b8
      middle == b[7] * 4 + b[6] * 2      \* b6 b5
      low    == b[3] * 4 + b[2] * 2      \* b2 b1
      d == CASE b[4] = 0                        -> <<high + b[8], middle + b[5], low + b[1]>>
             [] b[4] = 1 /\ low = 0             -> <<high + b[8], middle + b[5], 8 + b[1]>>
             [] b[4] = 1 /\ low = 2             -> <<high + b[8], 8 + b[5], middle + b[1]>>
             [] b[4] = 1 /\ low = 4             -> <<8 + b[8], middle + b[5], high + b[1]>>
             [] b[4] = 1 /\ low = 6 /\ middle = 0 -> <<8 + b[8], 8 + b[5], high + b[1]>>
             [] b[4] = 1 /\ low = 6 /\ middle = 2 -> <<8 + b[8], high + b[5], 8 + b[1]>>
             [] b[4] = 1 /\ low = 6 /\ middle = 4 -> <<high + b[8], 8 + b[5], 8 + b[1]>>
             [] OTHER                           -> <<8 + b[8], 8 + b[5], 8 + b[1]>>
  IN 100 * d[1] + 10 * d[2] + d[3]

\* calcDPDSignificand
calcDPDSignificand(prefix, declets) ==
  FoldLeft(LAMBDA acc, dpd : acc * 1000 + dpdToInt(dpd), prefix, declets)

\* formatDecimalCoefficient writes a small exponent out and drops the zeros
\* after the dot; otherwise scientific notation.
TrimZeros(ds) ==
  LET keep == {i \in 1..Len(ds) : \E j \in i..Len(ds) : ds[j] # 0}
  IN SubSeq(ds, 1, IF keep = {} THEN 0 ELSE CHOOSE i \in keep : \A j \in keep : j <= i)

formatDecimalCoefficient(coeff, exponent, neg) ==
  LET ds == Digits(coeff)
      adjExp == exponent + Len(ds) - 1
      dotPos == Len(ds) + exponent
  IN IF coeff = 0 THEN Text(neg, <<0>>, <<>>, 0)
     ELSE IF adjExp < -6 \/ adjExp > Len(ds) + 2
     THEN Text(neg, <<ds[1]>>, TrimZeros(Tail(ds)), adjExp)
     ELSE IF dotPos <= 0 THEN Text(neg, <<0>>, TrimZeros(Zeros(-dotPos) \o ds), 0)
     ELSE IF dotPos >= Len(ds) THEN Text(neg, ds \o Zeros(dotPos - Len(ds)), <<>>, 0)
     ELSE Text(neg, SubSeq(ds, 1, dotPos), TrimZeros(SubSeq(ds, dotPos + 1, Len(ds))), 0)

\* decfloat64BytesToString and decfloat128BytesToString: cf is the 5-bit
\* combination field, cont the exponent's continuation.
decfloatToString(neg, cf, cont, declets) ==
  LET top == cf \div 8                                \* cf & 0x18
      large == top = 3                                \* the first digit is 8 or 9
      prefix == IF large THEN 8 + (cf % 2) ELSE cf % 8
      expHigh == IF large THEN (cf \div 2) % 4 ELSE top
  IN CASE cf = 31 -> "NaN"
       [] cf = 30 -> IF neg THEN "-Infinity" ELSE "Infinity"
       [] OTHER   -> formatDecimalCoefficient(calcDPDSignificand(prefix, declets),
                                              expHigh * 2^ExpBits + cont - Bias, neg)

\* A case of IEEE 754-2008's decimal encoding, for values of at most
\* 1 + 3 * Declets digits: what the server sends for sign, coefficient, exponent.
DpdOf(n) ==
  LET d == <<(n \div 100) % 10, (n \div 10) % 10, n % 10>>
      s(i) == IF d[i] >= 8 THEN 1 ELSE 0           \* a large digit
      lo(i) == d[i] % 2
      mid(i) == (d[i] \div 2) % 4                    \* its two middle bits
      \* bits 9..7, 6..4, 3, 2..1, 0 of the declet
      bits(x, y, v, w) == x * 256 + lo(1) * 128 + y * 32 + lo(2) * 16 + v * 8 + w * 2 + lo(3)
  IN CASE s(1) + s(2) + s(3) = 0 -> bits(mid(1), mid(2), 0, mid(3))
       [] s(1) + s(2) = 0        -> bits(mid(1), mid(2), 1, 0)
       [] s(1) + s(3) = 0        -> bits(mid(1), mid(3), 1, 1)
       [] s(2) + s(3) = 0        -> bits(mid(3), mid(2), 1, 2)
       [] s(1) = 0               -> bits(mid(1), 2, 1, 3)
       [] s(2) = 0               -> bits(mid(2), 1, 1, 3)
       [] s(3) = 0               -> bits(mid(3), 0, 1, 3)
       [] OTHER                  -> bits(0, 3, 1, 3)

decfloatOf(neg, coeff, exp) ==
  LET first == coeff \div 1000^Declets
      biased == exp + Bias
      top == biased \div 2^ExpBits
  IN [neg |-> neg,
      cf |-> IF first < 8 THEN top * 8 + first ELSE 24 + top * 2 + (first - 8),
      cont |-> biased % 2^ExpBits,
      declets |-> [i \in 1..Declets |-> DpdOf((coeff \div 1000^(Declets - i)) % 1000)]]

----------------------------------------------------------------------------
(* What the conversions promise *)

\* The number a text denotes, as a multiple of 10^(-places).
ValueOf(t, places) ==
  LET all == Number(t.int \o t.frac)
      shift == t.exp - Len(t.frac) + places
  IN (IF t.neg THEN -1 ELSE 1) * all * 10^shift

\* x rounded to -scale digits, half away from zero: the reference for parameters.
\* places digits are enough to write x exactly.
Nearest(x, scale, places) ==
  LET v == ValueOf(asText(x), places)
      unit == 10^(places + scale)
      abs == IF v < 0 THEN -v ELSE v
      n == (2 * abs + unit) \div (2 * unit)
  IN IF v < 0 THEN -n ELSE n

\* What a NUMERIC parameter stores and a NUMERIC column shows: the server gets
\* the nearest number of the column's scale or the caller an error, which it
\* gets just when the number does not fit; and the text read back denotes what
\* was stored.  (An INT128 beyond its range wraps: stringToInt128Err; and an
\* integer beyond BIGINT is refused for an INT128 as well: CheckNamedValue.)
NumericIsExact(t, scale, x, places) ==
  LET checked == CheckNamedValue(x)
      wire == IF checked.err # "none" THEN checked ELSE encodeNumeric(t, scale, checked.v)
      n == Nearest(x, scale, places)
      fits == minInt(t) <= n /\ n <= maxInt(t)
  IN /\ fits /\ checked.err = "none" => /\ wire.err = "none"
                                         /\ ValueOf(decodeNumeric(t, scale, wire.v), -scale) = n
     /\ ~fits /\ t # "SQLInt128" => wire = Overflow

\* DECFLOAT: the text denotes the server's number.
DecfloatIsExact(neg, coeff, exp, places) ==
  LET e == decfloatOf(neg, coeff, exp)
      t == decfloatToString(e.neg, e.cf, e.cont, e.declets)
  IN t.neg = neg /\ ValueOf(t, places) = (IF neg THEN -1 ELSE 1) * coeff * 10^(exp + places)
=============================================================================
