----------------------------- MODULE ValueCodec -----------------------------
(***************************************************************************)
(* Values on the wire (lib/parser.js).  A JavaScript value is a tuple of   *)
(* its kind and its content; a type is the sequence of names in the        *)
(* source's text, so that <<"array", "int">> is array[int].  Writing is a  *)
(* predicate, what the driver does not throw on, and the bytes it appends. *)
(* Reading goes from a cursor to a cursor: the position, the value just    *)
(* read, and whether a read has thrown.  Widths are scaled down, except    *)
(* that of a byte.                                                         *)
(***************************************************************************)
EXTENDS NumberCodec

CONSTANTS
  ShortWidth, IntWidth, LongWidth, DecimalWidth,  \* 2, 4, 8, 16
  DecimalPlaces,     \* 12
  MaxIntDigits,      \* 26
  PlainDigits,       \* 21
  PlainPlaces,       \* 6
  NullDouble,        \* -1.7E+308, in units of the least double
  ToNumber           \* JavaScript's conversion of what is no number, see Coerced

Width == [byte |-> 1, short |-> ShortWidth, int |-> IntWidth, long |-> LongWidth,
          decimal |-> DecimalWidth]
Least(kind) == -(Capacity(Width[kind]) \div 2)
Most(kind)  == -Least(kind) - 1

ASSUME ValueConstants ==
  /\ Base = 256
  /\ {ShortWidth, IntWidth, LongWidth, DecimalWidth} \subseteq Nat \ {0}
  \* A double is a sign, an exponent and a mantissa, and null is one that can be written.
  /\ 2 * (MaxExponent + 1) * LeastNormal = Capacity(DoubleWidth)
  /\ NullDouble \in Reals /\ FarFromPower(Magnitude(NullDouble))
  /\ DecimalPlaces \in Nat \ {0} /\ MaxIntDigits \in Nat /\ PlainDigits \in 1 .. MaxIntDigits
  /\ PlainPlaces \in Nat
  /\ \A v \in DOMAIN ToNumber : ToNumber[v] \in Doubles
  \* The digits of a decimal fit in its bytes.
  /\ Power(10, MaxIntDigits + DecimalPlaces) <= Most("decimal")

Null         == <<"null">>
\* A JavaScript number, in the notation of the type it is for: a Real for a double;
\* an integer; one with a point, n / 10^places with as few places as will do.
Number(n)           == <<"number", n>>
Fraction(n, places) == <<"fraction", n, places>>
Chars(bytes) == <<"string", bytes>>    \* a string, as its UTF-8 bytes
Binary(bytes) == <<"bytes", bytes>>    \* a Buffer
List(values) == <<"list", values>>     \* an Array
Moment(ms)   == <<"date", ms>>         \* a Date
Big(n)       == <<"big", n>>           \* a BigInteger
Truth        == <<"boolean">>
Object       == <<"object">>           \* any other object
\* A numerical string for a decimal: the characters on either side of the point.
Text(whole, fraction) == <<"text", whole, fraction>>
Minus == -1
\* null in an arithmetic expression.
AsNumber(v) == IF v = Null THEN 0 ELSE v[2]

\* TYPES_NUMBERS, and the kind of value that TYPES_READ and TYPES_WRITE give
\* the names of a type.
Kinds == [array |-> -99, null |-> 1, byte |-> 3, short |-> 4, int |-> 5, long |-> 6,
          double |-> 8, string |-> 9, date |-> 11, decimal |-> 22, varbinary |-> 25]
KindOf == [null |-> "null", byte |-> "byte", tinyint |-> "byte", short |-> "short",
           smallint |-> "short", int |-> "int", integer |-> "int", long |-> "long",
           bigint |-> "long", double |-> "double", float |-> "double",
           string |-> "string", date |-> "date", timestamp |-> "date",
           decimal |-> "decimal", varbinary |-> "varbinary"]
TypeCode(name) == Kinds[KindOf[name]]
\* TYPES_STRINGS of a byte that has been read, which may be none of these.
KindCoded(value) ==
  IF \E k \in DOMAIN Kinds : Kinds[k] = AsNumber(value)
    THEN CHOOSE k \in DOMAIN Kinds : Kinds[k] = AsNumber(value) ELSE "unknown"

-----------------------------------------------------------------------------
(* What there is to write *)

Byte         == 0 .. Base - 1
Strings      == {"string"} \X Seq(Byte)
Numbers(kind) == {"number"} \X (Least(kind) + 1 .. Most(kind))

\* A value a caller can pass, as far as its own level goes.
IsValue(v) ==
  \/ v \in {Null, Object, Truth} \cup Strings \cup ({"bytes"} \X Seq(Byte))
             \cup ({"number", "date", "big"} \X Int) \cup Doubles
  \/ v \in {"fraction"} \X Int \X (Nat \ {0}) /\ v[2] % 10 # 0
  \/ v \in {"text"} \X Seq(-1 .. 9) \X Seq(0 .. 9) /\ \A i \in 2 .. Len(v[2]) : v[2][i] # Minus
  \/ v[1] = "list" /\ v[2] \in Seq(ToSet(v[2]))
\* A value of a kind's own notation.  What is left out: numbers with a point for a
\* long or a date, which the library parses in its own way; a Date or an Array in
\* an array of strings, an Array in one of varbinaries.
HasNotation(kind, v) ==
  CASE kind = "double"          -> v[1] \notin {"number", "fraction", "text"}
    [] kind \in {"long", "date"} -> v[1] \notin {"fraction", "real", "infinity", "nan", "text"}
    [] kind \in {"byte", "short", "int", "decimal"} -> v[1] # "real"
    [] kind = "string"          -> v[1] \notin {"date", "list", "text"}
    [] kind = "varbinary"       -> v[1] \notin {"list", "text"}
    [] OTHER                    -> TRUE
\* A type's name, with "array" in front of it for each pair of brackets.
IsType(t) == t \in Seq(STRING) \ {<<>>} /\ \A k \in 1 .. Len(t) - 1 : t[k] = "array"

-----------------------------------------------------------------------------
(* Writing *)

\* Mutant of NullOf: null is written as zero.
ZeroForNull(kind) == 0
\* NullValueOf.
NullOf(kind) == IF kind = "double" THEN NullDouble ELSE Least(kind)

\* writeByte, writeShort, writeInt.
WriteInteger(kind, value) ==
  WriteSigned(IF value = Null THEN NullOf(kind) ELSE value[2], Width[kind])

\* The bytes of a BigInteger, extended to the width; of one that has a byte
\* more, the last byte falls off.  (Longer ones are left out.)
WriteBigInteger(kind, v) ==
  LET fits == Least(kind) <= v /\ v <= Most(kind)
  IN  WriteSigned(IF fits THEN v ELSE v \div Base, Width[kind])

WriteLong(value) ==
  WriteBigInteger("long", IF value = Null THEN NullOf("long") ELSE value[2])

\* writeDate: milliseconds in, microseconds out.
WriteDate(value) ==
  WriteBigInteger("long", IF value = Null THEN NullOf("long") ELSE 1000 * value[2])

\* Digits may have a sign in front of them.
Signed(digits)   == digits # <<>> /\ Head(digits) = Minus
Unsigned(digits) == IF Signed(digits) THEN Tail(digits) ELSE digits
\* The integer that digits spell.
Spelt(digits) ==
  IF Signed(digits) THEN -Amount(10, Unsigned(digits)) ELSE Amount(10, Unsigned(digits))
\* How many digits a number has, and those of a number that is not negative.
Count(n)    == CHOOSE k \in 1 .. n + 1 : n < Power(10, k) /\ (k = 1 \/ n >= Power(10, k - 1))
DigitsOf(n) == Digits(10, n, Count(n))
\* An integer as toString writes it.
Numeral(n) == IF n < 0 THEN <<Minus>> \o DigitsOf(-n) ELSE DigitsOf(n)

\* A number for a decimal becomes text.  The text of a large one, or of one next to
\* zero, has an exponent, which is not numerical.
Plain(value) ==
  IF value[1] = "number" THEN Magnitude(value[2]) < Power(10, PlainDigits)
  ELSE Magnitude(value[2]) * Power(10, PlainPlaces) >= Power(10, value[3])
TextOf(value) ==
  CASE value[1] = "text"   -> value
    [] value[1] = "number" -> Text(Numeral(value[2]), <<>>)
    [] OTHER -> LET n     == Magnitude(value[2])
                    whole == DigitsOf(n \div Power(10, value[3]))
                IN  Text(IF value[2] < 0 THEN <<Minus>> \o whole ELSE whole,
                         Digits(10, n, value[3]))

\* sanitizeDecimal: what it refuses, and the digits it makes.
TooLong(text) == Len(Unsigned(text[2])) > MaxIntDigits \/ Len(text[3]) > DecimalPlaces
Zeros(n) == [i \in 1 .. n |-> 0]
Sanitized(text) == text[2] \o text[3] \o Zeros(DecimalPlaces - Len(text[3]))

WriteDecimal(value) ==
  WriteBigInteger("decimal", IF value = Null THEN NullOf("decimal")
                             ELSE Spelt(Sanitized(TextOf(value))))

\* An integer of this kind can be the length of something.
Countable(kind, n) == Prepared(n, Capacity(Width[kind]))

\* writeString and writeVarbinary, and the bytes they share.
WriteBytes(value) ==
  IF value = Null THEN WriteInteger("int", Number(-1))
  ELSE WriteInteger("int", Number(Len(value[2]))) \o value[2]

\* What writeVarbinary takes for a buffer: a string is one of its UTF-16 units, each
\* of which becomes a byte by way of a number.
Units(bytes) ==
  FlattenSeq([i \in 1 .. Len(bytes) |->
    CASE bytes[i] \in 48 .. 57   -> <<bytes[i] - 48>>
      [] bytes[i] \in 128 .. 191 -> <<>>
      [] bytes[i] >= 240         -> <<0, 0>>
      [] OTHER                   -> <<0>>])
BufferOf(value) == IF value[1] = "string" THEN Binary(Units(value[2])) ELSE value
\* The rest has no length: it gets null's, and then the position is no number, and
\* nothing is written any more.
HasLength(value) == value = Null \/ value[1] \in {"bytes", "string"}
Lost == -1
WriteVarbinary(value) ==
  IF HasLength(value) THEN WriteBytes(BufferOf(value))
  ELSE Append(WriteInteger("int", Null), Lost)
\* What has been written before that.
Kept(bytes) ==
  LET n == CHOOSE n \in 0 .. Len(bytes) :
             /\ \A i \in 1 .. n : bytes[i] # Lost
             /\ n < Len(bytes) => bytes[n + 1] = Lost
  IN  SubSeq(bytes, 1, n)

\* wdouble checks no type: JavaScript makes a number of anything.
Coerced(value) ==
  IF value[1] \in {"real", "infinity", "nan"} THEN value
  ELSE IF value \in DOMAIN ToNumber THEN ToNumber[value] ELSE NotANumber

\* What the write method of a kind does not throw on.
WritesKind(kind, value) ==
  IF kind = "null" \/ value = Null THEN TRUE
  ELSE CASE kind \in {"byte", "short", "int"} ->
              value[1] = "number" /\ Prepared(value[2], Capacity(Width[kind]))
         [] kind = "long"      -> value[1] \in {"number", "big"}
         [] kind = "date"      -> value[1] = "number"
         [] kind = "double"    -> TRUE
         [] kind = "string"    -> /\ value[1] \in {"string", "bytes"}
                                  /\ Countable("int", Len(value[2]))
         [] kind = "decimal"   -> /\ value[1] \in {"text", "number", "fraction"}
                                  /\ value[1] # "text" => Plain(value)
                                  /\ ~TooLong(TextOf(value))
         [] kind = "varbinary" -> HasLength(value) => Countable("int", Len(BufferOf(value)[2]))

WriteKind(kind, value, err) ==
  CASE kind = "null"    -> <<>>
    [] kind \in {"byte", "short", "int"} -> WriteInteger(kind, value)
    [] kind = "long"    -> WriteLong(value)
    [] kind = "date"    -> WriteDate(value)
    [] kind = "decimal" -> WriteDecimal(value)
    [] kind = "double"  -> WriteDouble(IF value = Null THEN Real(NullOf(kind)) ELSE Coerced(value), err)
    [] kind = "varbinary" -> WriteVarbinary(value)
    [] OTHER            -> WriteBytes(value)

WriteByte(n) == WriteInteger("byte", Number(n))

\* The length of an array of bytes is an int, under that name of the type only.
LengthKind(name) == IF name = "byte" THEN "int" ELSE "short"

\* What is in a value, itself at the top, down to n levels below it.
Parts(value, n) ==
  LET part[k \in 0 .. n] ==
        IF k = 0 THEN {value}
        ELSE UNION {ToSet(v[2]) : v \in {w \in part[k - 1] : w[1] = "list"}}
  IN  part

\* writeArray accepts a value whose parts are arrays down to the depth of its
\* type.  The name of what they hold is looked at where there is an array of it,
\* and "array" is the name of nothing.
WritesArray(type, value) ==
  LET n    == Len(type)
      part == Parts(value, n)
  IN  /\ \A k \in 1 .. n : \A v \in part[k - 1] :
           v[1] = "list" /\ Countable(LengthKind(type[k]), Len(v[2]))
      /\ part[n - 1] # {} => type[n] \in DOMAIN KindOf \cup {"array"}
      /\ \A v \in part[n] : type[n] # "array" /\ WritesKind(KindOf[type[n]], v)

\* writeArray, from the innermost values outwards.
WriteArray(type, value, err) ==
  LET n == Len(type)
      bytes[k \in 0 .. n] ==
        [v \in Parts(value, n)[k] |->
           IF k = n THEN WriteKind(KindOf[type[n]], v, err)
           ELSE WriteByte(IF type[k + 1] = "array" THEN Kinds.array ELSE TypeCode(type[k + 1]))
                  \o WriteInteger(LengthKind(type[k + 1]), Number(Len(v[2])))
                  \o FlattenSeq([i \in 1 .. Len(v[2]) |-> bytes[k + 1][v[2][i]]])]
  IN  bytes[0][value]

\* checkType.  Its test for numbers compares with a typeof there is not.
CheckType(type, value) ==
  /\ type # <<"array">>
  /\ type[1] = "array" \/ type[1] \in DOMAIN KindOf
  /\ value[1] \in {"string", "text"} => type[1] \in {"string", "decimal"}
  /\ value[1] \notin {"object", "date", "big"}
  /\ value[1] = "list" <=> type[1] = "array"

\* writeParameterSet.
WritesParameters(types, values) ==
  /\ Len(types) = Len(values) /\ Countable("short", Len(values))
  /\ \A i \in 1 .. Len(values) :
       /\ CheckType(types[i], values[i])
       /\ IF types[i][1] = "array" THEN WritesArray(Tail(types[i]), values[i])
          ELSE WritesKind(KindOf[types[i][1]], values[i])
WriteParameter(type, value, err) ==
  IF type[1] = "array" THEN WriteByte(Kinds.array) \o WriteArray(Tail(type), value, err)
  ELSE WriteByte(TypeCode(type[1])) \o WriteKind(KindOf[type[1]], value, err)
WriteParameters(types, values, err) ==
  Kept(WriteInteger("short", Number(Len(values)))
         \o FlattenSeq([i \in 1 .. Len(values) |-> WriteParameter(types[i], values[i], err)]))

-----------------------------------------------------------------------------
(* Reading from the buffer b at the cursor c *)

Cursor(at, value) == [at |-> at, value |-> value, ok |-> TRUE]
Start    == Cursor(0, Null)
Fail(c)  == [c EXCEPT !.ok = FALSE]
Gives(c, v) == [at |-> c.at, value |-> v, ok |-> c.ok]
\* The next n bytes through one of the functions of ctio.js, which throw beyond
\* the end of the buffer.
Take(b, c, n, Decode(_)) ==
  IF ~c.ok \/ c.at + n > Len(b) THEN Fail(c)
  ELSE Cursor(c.at + n, Decode(SubSeq(b, c.at + 1, c.at + n)))
\* The next n bytes by slice and toString, which stop at the end of the buffer.
Slice(b, c, n, Decode(_)) ==
  IF ~c.ok THEN c
  ELSE LET end == IF c.at + n > Len(b) THEN Len(b) ELSE c.at + n
       IN  Cursor(c.at + n, Decode(SubSeq(b, c.at + 1, end)))

\* readByte, readShort, readInt, readLong.
ReadInteger(b, c, kind) ==
  LET Integer(s) == IF ReadSigned(s) = Least(kind) THEN Null ELSE Number(ReadSigned(s))
  IN  Take(b, c, Width[kind], Integer)

ReadReal(b, c) ==
  Take(b, c, DoubleWidth,
       LAMBDA s : LET v == ReadDouble(s) IN IF v = Real(NullDouble) THEN Null ELSE v)

\* BigInteger.divide rounds towards zero.
Thousandth(n) == IF n < 0 THEN -(-n \div 1000) ELSE n \div 1000
\* readDate: its test for null compares a string with a BigInteger.
ReadDate(b, c) == Take(b, c, LongWidth, LAMBDA s : Moment(Thousandth(ReadSigned(s))))

\* The text of a decimal: the sign counts as a character.
Pointed(s) ==
  LET k == Len(s) - DecimalPlaces
  IN  IF k <= 0 THEN Text(<<0>>, Zeros(-k) \o s)
      ELSE Text(SubSeq(s, 1, k), SubSeq(s, k + 1, Len(s)))
ReadDecimal(b, c) ==
  Take(b, c, DecimalWidth,
       LAMBDA s : LET n == ReadSigned(s)
                  IN  IF n = Least("decimal") THEN Null
                      ELSE Pointed(IF n < 0 THEN <<Minus>> \o DigitsOf(-n) ELSE DigitsOf(n)))

ReadString(b, c) ==
  LET r == ReadInteger(b, c, "int")
  IN  IF r.ok /\ AsNumber(r.value) < 0 THEN Gives(r, Null)
      ELSE Slice(b, r, AsNumber(r.value), Chars)
ReadVarbinary(b, c) ==
  LET r == ReadInteger(b, c, "int")
  IN  IF r.value = Number(-1) THEN Gives(r, Null)
      ELSE Slice(b, r, AsNumber(r.value), Binary)

\* A method of the parser, by what it makes of each place of the buffer.
Call(method, c) == IF c.ok THEN method[c.at] ELSE c

\* Methods called one after the other; the values become a list.
ReadEach(c, methods) ==
  LET result[k \in 0 .. Len(methods)] ==
        IF k = 0 THEN [cursor |-> c, values |-> <<>>]
        ELSE LET after == Call(methods[k], result[k - 1].cursor)
             IN  [cursor |-> after, values |-> Append(result[k - 1].values, after.value)]
      all == result[Len(methods)]
  IN  Gives(all.cursor, List(all.values))

\* One method for each element of a new Array(n), each of which takes so many bytes
\* at least: where there are not that many, one of the calls throws.
ReadMany(b, c, n, least, method) ==
  IF n < 0 \/ n * least > Len(b) - c.at THEN Fail(c)
  ELSE ReadEach(c, [i \in 1 .. n |-> method])

\* What the method for a kind reads, where there is one and it is no array.
ReadScalar(b, c, kind) ==
  CASE kind \in {"byte", "short", "int", "long"} -> ReadInteger(b, c, kind)
    [] kind = "null"      -> Gives(c, Null)
    [] kind = "double"    -> ReadReal(b, c)
    [] kind = "date"      -> ReadDate(b, c)
    [] kind = "decimal"   -> ReadDecimal(b, c)
    [] kind = "string"    -> ReadString(b, c)
    [] kind = "varbinary" -> ReadVarbinary(b, c)
    [] OTHER              -> Fail(c)
Scalars(b) ==
  [kind \in DOMAIN Kinds \cup {"unknown"} |->
     [at \in Int |-> ReadScalar(b, Cursor(at, Null), kind)]]

\* readArray, with the methods for its elements.
ReadArray(b, at, methods) ==
  LET type   == ReadInteger(b, Cursor(at, Null), "byte")
      kind   == KindCoded(type.value)
      length == ReadInteger(b, type, LengthKind(kind))
  IN  IF kind = "unknown" \/ ~length.ok THEN Fail(length)
      ELSE ReadMany(b, length, AsNumber(length.value), IF kind = "null" THEN 0 ELSE 1,
                    methods[kind])
\* The arrays at each place of the buffer.  One in another starts behind it, and
\* nothing is read where the buffer ends.
ArraysIn(b, methods) ==
  LET array[at \in 0 .. Len(b)] ==
        ReadArray(b, at, [methods EXCEPT !["array"] =
          [p \in Int |-> IF p \in at + 1 .. Len(b) THEN array[p] ELSE Fail(Cursor(p, Null))]])
  IN  array
\* TYPES_READ: the methods, that of arrays with them.
TypesRead(b, methods) ==
  [methods EXCEPT !["array"] =
     [at \in Int |-> IF at \in 0 .. Len(b) THEN ArraysIn(b, methods)[at]
                    ELSE Fail(Cursor(at, Null))]]

\* The last column of a name.
LastOf(names, name) ==
  CHOOSE j \in 1 .. Len(names) : names[j] = name /\ \A k \in j + 1 .. Len(names) : names[k] # name
\* A row, as a function from column names: the later of two columns of one name
\* wins.  A type that has no method makes the cell throw.
ReadRow(read, types, names) ==
  [at \in Int |->
    LET cells == ReadEach(Call(read["int"], Cursor(at, Null)),
                          [j \in 1 .. Len(types) |-> read[types[j]]])
    IN  IF cells.ok THEN Gives(cells, [name \in ToSet(names) |-> cells.value[2][LastOf(names, name)]])
        ELSE cells]
\* readVoltTable.
ReadTable(b, c) ==
  LET read   == TypesRead(b, Scalars(b))
      head   == ReadEach(c, <<read["int"], read["int"], read["byte"], read["short"]>>)
      count  == AsNumber(head.value[2][4])
      codes  == ReadMany(b, head, count, 1, read["byte"])
      types  == [j \in 1 .. count |-> KindCoded(codes.value[2][j])]
      named  == ReadMany(b, codes, count, 1, read["string"])
      names  == named.value[2]
      size   == Call(read["int"], named)
      rows   == ReadMany(b, size, AsNumber(size.value), 1, ReadRow(read, types, names))
  IN  IF ~size.ok THEN size ELSE IF ~rows.ok THEN rows
      ELSE Gives(rows, <<"table", [status |-> head.value[2][3], columnNames |-> names,
                                   columnTypes |-> types, rows |-> rows.value[2]]>>)
=============================================================================
