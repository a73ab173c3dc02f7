---------------------------- MODULE NumberCodec ----------------------------
(***************************************************************************)
(* Integers and doubles as bytes (lib/ctio.js), in the big-endian order    *)
(* that lib/parser.js asks for.  The operators take the width of an        *)
(* integer in bytes, so that one stands for the 8, 16 and 32 bit functions *)
(* of the source; a double is taken apart into a sign, an exponent and a   *)
(* mantissa of any width.  Bytes are numbers below Base.                   *)
(***************************************************************************)
EXTENDS Integers, Sequences, SequencesExt

CONSTANTS
  Base,          \* 256
  ExponentBits,  \* 11
  MantissaBits,  \* 52
  DoubleWidth,   \* bytes of a double, 8
  LogReach,      \* how many doubles beside a power of two log2 may misjudge, some 2^11
  MathLogs       \* what it makes of them, by runtime: a set of functions, see LogErrors

ASSUME NumberConstants ==
  /\ Base \in Nat /\ Base >= 16 /\ Base % 16 = 0
  /\ {ExponentBits, MantissaBits, DoubleWidth} \subseteq Nat \ {0}
  /\ ExponentBits > 1 /\ MantissaBits > 4

\* Powers, and the number of patterns of n bytes.
Powers(base, n) ==
  LET power[k \in 0 .. n] == IF k = 0 THEN 1 ELSE base * power[k - 1]
  IN  power
Power(base, n) == Powers(base, n)[n]
Capacity(n) == Power(Base, n)

\* The last n digits of a number.
Digits(base, val, n) == [k \in 1 .. n |-> (val \div Power(base, n - k)) % base]

\* What the digits up to each of them amount to, and all of them.
Amounts(base, digits) ==
  LET amount[k \in 0 .. Len(digits)] ==
        IF k = 0 THEN 0 ELSE base * amount[k - 1] + digits[k]
  IN  amount
Amount(base, digits) == Amounts(base, digits)[Len(digits)]

-----------------------------------------------------------------------------
(* Integers *)

\* ruint8, ruint16, ruint32 of the n bytes at their offset.
ReadUnsigned(bytes) == Amount(Base, bytes)

\* rsint8, rsint16, rsint32: with the top bit set, -(max - val + 1).
SignedOf(val, capacity) ==
  IF val < capacity \div 2 THEN val ELSE -(capacity - 1 - val + 1)
ReadSigned(bytes) == SignedOf(ReadUnsigned(bytes), Capacity(Len(bytes)))

\* Mutant of Prepared: the greatest value is refused.
PreparedBelow(value, capacity) ==
  value < capacity \div 2 - 1 /\ value >= -(capacity - capacity \div 16)
\* prepsint with the bounds wsint8, wsint16 and wsint32 give it: 0x7f and -0xf0,
\* and so on.  A value below half the capacity is let through.
Prepared(value, capacity) ==
  /\ value <= capacity \div 2 - 1
  /\ value >= -(capacity - capacity \div 16)

\* wsint8, wsint16, wsint32 up to the call of the unsigned function.
UnsignedOf(value, capacity) ==
  IF value >= 0 THEN value ELSE capacity - 1 + value + 1

\* Mutant of WriteUnsigned: nothing is masked.
WriteUnmasked(val, n) == [k \in 1 .. n |-> val \div Power(Base, n - k)]
\* wuint8, wuint16, wuint32.
WriteUnsigned(val, n) == Digits(Base, val, n)
WriteSigned(value, n) == WriteUnsigned(UnsignedOf(value, Capacity(n)), n)

-----------------------------------------------------------------------------
(* Doubles.  A finite number is an integer, in units of the least positive   *)
(* double; these are the marks for the rest.                                 *)

PlusInfinity  == <<"infinity", 1>>
MinusInfinity == <<"infinity", -1>>
NotANumber    == <<"nan">>
Real(v)       == <<"real", v>>

MaxExponent  == Power(2, ExponentBits) - 1
LeastNormal  == Power(2, MantissaBits)
GreatestReal == (2 * LeastNormal - 1) * Power(2, MaxExponent - 2)

\* The finite numbers that a double has: so many bits, at one of its exponents.
Magnitude(n) == IF n < 0 THEN -n ELSE n
Reals ==
  {v \in -GreatestReal .. GreatestReal :
     \E e \in 0 .. MaxExponent - 2 : /\ Magnitude(v) % Power(2, e) = 0
                                     /\ Magnitude(v) \div Power(2, e) < 2 * LeastNormal}
Doubles == ({"real"} \X Reals) \cup {PlusInfinity, MinusInfinity, NotANumber}

\* The exponent field of the greatest power of two up to v, a normal number.
ExactExponent(v) ==
  CHOOSE e \in 1 .. MaxExponent - 1 :
    LeastNormal * Power(2, e - 1) <= v /\ v < LeastNormal * Power(2, e)

\* How many doubles a double is above a power of two, and below the next one.
Significand(v) == v \div Power(2, ExactExponent(v) - 1)
AbovePower(v)  == Significand(v) - LeastNormal
BelowPower(v)  == 2 * LeastNormal - Significand(v)

\* log2 rounds: the quotient of the logarithms may reach the exponent for doubles
\* below a power of two, the more the larger the exponent is, or fall below it for
\* the power and doubles above.  err[e], of a runtime's Math.log, says how many at
\* the power with the exponent field e: below it, or from it on where negative.
LogErrors == [1 .. MaxExponent -> -LogReach .. LogReach]
NoError   == [e \in 1 .. MaxExponent |-> 0]
ASSUME LogConstants == LogReach \in Nat /\ MathLogs \subseteq LogErrors
FloorOfLog(v, err) ==
  LET e == ExactExponent(v)
  IN  IF AbovePower(v) < -err[e] THEN e - 1
      ELSE IF BelowPower(v) <= err[e + 1] THEN e + 1 ELSE e
\* A double whose exponent the logarithm cannot misjudge.
FarFromPower(v) ==
  v >= LeastNormal => AbovePower(v) >= LogReach /\ BelowPower(v) > LogReach

\* wdouble's exponent field and mantissa of a magnitude: its ebits are the
\* exponent less the bias, cut to the largest a finite number has.
Clamp(e)   == IF e > MaxExponent - 1 THEN MaxExponent - 1 ELSE e
Denormal(v, err) == v < LeastNormal \/ FloorOfLog(v, err) <= 0
Fields(v, err) ==
  IF Denormal(v, err)
    THEN [exponent |-> 0, mantissa |-> v % LeastNormal]
    ELSE LET e == Clamp(FloorOfLog(v, err))
         IN  [exponent |-> e, mantissa |-> (v \div Power(2, e - 1)) % LeastNormal]

\* wdouble: the fields side by side, whatever bytes they fall in.
WriteDouble(value, err) ==
  LET Pack(sign, f) ==
        WriteUnsigned((sign * Power(2, ExponentBits) + f.exponent) * LeastNormal + f.mantissa,
                      DoubleWidth)
      Special(m) == [exponent |-> MaxExponent, mantissa |-> m]
  IN  CASE value = NotANumber    -> Pack(0, Special(23))
        [] value = PlusInfinity  -> Pack(0, Special(0))
        [] value = MinusInfinity -> Pack(1, Special(0))
        [] OTHER -> IF value[2] < 0 THEN Pack(1, Fields(-value[2], err))
                                    ELSE Pack(0, Fields(value[2], err))

\* rdouble.
ReadDouble(bytes) ==
  LET bits     == ReadUnsigned(bytes)
      mantissa == bits % LeastNormal
      exponent == (bits \div LeastNormal) % (MaxExponent + 1)
      sign     == bits \div (LeastNormal * (MaxExponent + 1))
      size     == IF exponent = 0 THEN mantissa
                  ELSE (LeastNormal + mantissa) * Power(2, exponent - 1)
  IN  IF exponent = MaxExponent
        THEN IF mantissa # 0 THEN NotANumber
             ELSE IF sign = 0 THEN PlusInfinity ELSE MinusInfinity
        ELSE Real(IF sign = 0 THEN size ELSE -size)
=============================================================================
