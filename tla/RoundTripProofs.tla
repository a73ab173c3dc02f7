-------------------------- MODULE RoundTripProofs ---------------------------
(***************************************************************************)
(* What comes out at the other end of the wire: a query as the server      *)
(* reads it and a response as lib/parser.js and lib/message.js read it,    *)
(* whatever the parameters, their depth, the tables and the widths.  A     *)
(* sequence of written values has its elements at places that follow each  *)
(* other, and is read there one element after the other: a reading over a  *)
(* sequence is an induction over places, done once for each kind of        *)
(* sequence.  The two theorems at the ends of the sections on queries and  *)
(* on responses say what arrives.                                          *)
(***************************************************************************)
EXTENDS MessagesProofs

-----------------------------------------------------------------------------
(* What the server reads of one value *)

\* A signed number is read where it was written.
LEMMA SignedAt ==
  ASSUME NEW kind \in {"byte", "short", "int", "long", "decimal"}, NEW n \in Least(kind) .. Most(kind),
         NEW b \in Bytes, NEW k, NEW x, At(b, k, WriteSigned(n, Width[kind]))
  PROVE  /\ ReadSigned(SubSeq(b, k + 1, k + Width[kind])) = n
         /\ Len(WriteSigned(n, Width[kind])) = Width[kind]
         /\ ~(~Cursor(k, x).ok \/ Cursor(k, x).at + Width[kind] > Len(b))
         /\ Cursor(k, x).ok /\ Cursor(k, x).at = k
<1> DEFINE w == WriteSigned(n, Width[kind])
           width == Width[kind]
<1>1. /\ width \in Nat \ {0} /\ Least(kind) \in Int /\ Most(kind) = -Least(kind) - 1
      /\ Capacity(width) \div 2 = -Least(kind)
  BY Widths DEF Most
<1>2. n \in -(Capacity(width) \div 2) .. Capacity(width) \div 2 - 1
  BY <1>1
<1>3. w \in Bytes /\ Len(w) = width /\ ReadSigned(w) = n
  BY <1>1, <1>2, SignedRoundTrip DEF Bytes, Byte
<1> HIDE DEF w, width
<1>4. At(b, k, w)
  BY DEF w
<1>5. /\ SubSeq(b, k + 1, k + Len(w)) = w
      /\ ~(~Cursor(k, x).ok \/ Cursor(k, x).at + Len(w) > Len(b))
      /\ Cursor(k, x).ok /\ Cursor(k, x).at = k
  BY <1>3, <1>4, TakenAt
<1>6. QED BY <1>3, <1>5 DEF w, width

\* A double, or null, that the logarithm does not misjudge.
DoubleKept(v, err) ==
  /\ v \in (Doubles \ {Real(NullDouble)}) \cup {Null} /\ err \in LogErrors
  /\ v # Null => (v[1] = "real" => err = NoError \/ FarFromPower(Magnitude(v[2])))

\* A double is read where it was written, null by its number.
LEMMA DoubleAt ==
  ASSUME NEW v, NEW err, DoubleKept(v, err),
         NEW b \in Bytes, NEW k, NEW x, At(b, k, WriteKind("double", v, err))
  PROVE  /\ ReadReal(b, Cursor(k, x)) = Cursor(k + Len(WriteKind("double", v, err)), v)
         /\ Len(WriteKind("double", v, err)) = DoubleWidth
<1> DEFINE d == IF v = Null THEN Real(NullDouble) ELSE v
           w == WriteKind("double", v, err)
<1>0. /\ v \in Doubles \cup {Null} /\ v # Real(NullDouble) /\ err \in LogErrors
      /\ v # Null => (v[1] = "real" => err = NoError \/ FarFromPower(Magnitude(v[2])))
  BY DEF DoubleKept, Real, Null
<1>1. w = WriteDouble(d, err)
  <2>1. w = WriteDouble(IF v = Null THEN Real(NullDouble) ELSE Coerced(v), err)
    BY DEF WriteKind, NullOf
  <2>2. v # Null => v[1] \in {"real", "infinity", "nan"}
    BY <1>0 DEF Doubles, PlusInfinity, MinusInfinity, NotANumber
  <2>3. v # Null => Coerced(v) = v
    BY <2>2 DEF Coerced
  <2>4. QED BY <2>1, <2>3
<1>2. d \in Doubles /\ (d[1] = "real" => err = NoError \/ FarFromPower(Magnitude(d[2])))
  <2>1. CASE v = Null
    <3>1. d = <<"real", NullDouble>> /\ NullDouble \in Reals /\ FarFromPower(Magnitude(NullDouble))
      BY <2>1, ValueConstants DEF Real
    <3>2. d \in Doubles /\ d[2] = NullDouble
      BY <3>1 DEF Doubles
    <3>3. QED BY <3>1, <3>2
  <2>2. CASE v # Null
    BY <1>0, <2>2
  <2>3. QED BY <2>1, <2>2
<1>3. v = IF d = Real(NullDouble) THEN Null ELSE d
  BY <1>0
<1> HIDE DEF d
<1>4. ReadDouble(w) = d
  BY <1>0, <1>1, <1>2, DoubleRoundTrip
<1>5. w \in Bytes /\ Len(w) = DoubleWidth
  BY <1>0, <1>1, <1>2, DoubleType DEF Bytes, Byte
<1>6. At(b, k, w)
  OBVIOUS
<1> HIDE DEF w
<1>7. /\ SubSeq(b, k + 1, k + Len(w)) = w
      /\ ~(~Cursor(k, x).ok \/ Cursor(k, x).at + Len(w) > Len(b))
      /\ Cursor(k, x).at = k
  BY <1>5, <1>6, TakenAt
<1>8. ReadReal(b, Cursor(k, x))
        = Cursor(k + DoubleWidth,
                 LET u == ReadDouble(SubSeq(b, k + 1, k + DoubleWidth))
                 IN  IF u = Real(NullDouble) THEN Null ELSE u)
  BY <1>5, <1>7 DEF ReadReal, Take
<1>9. ReadReal(b, Cursor(k, x)) = Cursor(k + DoubleWidth, IF d = Real(NullDouble) THEN Null ELSE d)
  BY <1>4, <1>5, <1>7, <1>8
<1>10. QED BY <1>3, <1>5, <1>9 DEF w

\* A number has one form only.
LEMMA NumberForm ==
  ASSUME NEW v, IsValue(v), v[1] = "number"
  PROVE  v = Number(v[2]) /\ v[2] \in Int /\ v # Null
<1>1. v \in {"number", "date", "big"} \X Int
  BY DEF IsValue, Null, Object, Truth, Strings, Doubles, PlusInfinity, MinusInfinity, NotANumber
<1>2. QED BY <1>1 DEF Number, Null

\* What a kind's method does at a place.
LEMMA ServerScalarIs ==
  ASSUME NEW b, NEW kind \in DOMAIN Kinds, NEW k \in Nat
  PROVE  ServerScalars(b)[kind][k] = ServerReadScalar(b, Cursor(k, Null), kind)
<1>1. k \in Int /\ kind \in DOMAIN Kinds \cup {"unknown"}
  OBVIOUS
<1>2. QED BY <1>1 DEF ServerScalars

\* The integers that fit, at the server.
LEMMA IntegerAtServer ==
  ASSUME NEW kind \in {"byte", "short", "int", "long"}, NEW v, IsValue(v), WritesKind(kind, v),
         Fits(kind, v), NEW err, NEW b \in Bytes, NEW k, At(b, k, WriteKind(kind, v, err))
  PROVE  /\ ServerScalars(b)[kind][k] = Cursor(k + Len(WriteKind(kind, v, err)), AtServer(kind, v))
         /\ Len(WriteKind(kind, v, err)) >= 1
<1> DEFINE u == IF v = Null THEN Null ELSE Number(v[2])
<1>1. v # Null => v[2] \in Int /\ Least(kind) < v[2] /\ v[2] <= Most(kind)
  <2>1. v # Null => v[1] \in {"number", "big"}
    BY DEF WritesKind
  <2>2. v # Null => Least(kind) < v[2] /\ v[2] <= Most(kind)
    BY DEF Fits
  <2>3. QED BY <2>1, <2>2, ValueContents
<1>2. Least(kind) \in Int /\ Most(kind) \in Nat /\ Width[kind] \in Nat \ {0}
      /\ Most(kind) = -Least(kind) - 1
  BY Widths DEF Most
<1>3. u \in {Null} \cup Numbers(kind)
  BY <1>1, <1>2 DEF Numbers, Number
<1>4. WriteKind(kind, v, err) = WriteInteger(kind, u)
  <2>0. (IF u = Null THEN NullOf(kind) ELSE u[2]) = IF v = Null THEN Least(kind) ELSE v[2]
    BY DEF NullOf, Number, Null
  <2>1. CASE kind # "long"
    <3>1. WriteKind(kind, v, err) = WriteInteger(kind, v)
      BY <2>1 DEF WriteKind
    <3>2. (IF v = Null THEN NullOf(kind) ELSE v[2]) = IF v = Null THEN Least(kind) ELSE v[2]
      BY DEF NullOf
    <3> HIDE DEF u
    <3>3. QED BY <2>0, <3>1, <3>2 DEF WriteInteger
  <2>2. CASE kind = "long"
    <3> DEFINE i == IF v = Null THEN Least("long") ELSE v[2]
    <3>1. Least("long") <= i /\ i <= Most("long")
      BY <1>1, <1>2, <2>2
    <3>2. WriteKind(kind, v, err) = WriteBigInteger("long", i)
      BY <2>2 DEF WriteKind, WriteLong, NullOf
    <3>3. WriteInteger(kind, u) = WriteSigned(i, Width["long"])
      BY <2>0, <2>2 DEF WriteInteger
    <3> HIDE DEF i, u
    <3>4. QED BY <3>1, <3>2, <3>3 DEF WriteBigInteger
  <2>3. QED BY <2>1, <2>2
<1>5. /\ ReadInteger(b, Cursor(k, Null), kind) = Cursor(k + Width[kind], u)
      /\ Len(WriteInteger(kind, u)) = Width[kind]
  <2> HIDE DEF u
  <2>1. QED BY <1>3, <1>4, IntegerAt
<1>6. ServerScalars(b)[kind][k] = ServerReadScalar(b, Cursor(k, Null), kind)
  <2>1. kind \in DOMAIN Kinds /\ k \in Nat
    BY DEF Kinds, At
  <2>2. QED BY <2>1, ServerScalarIs
<1>7. ServerReadScalar(b, Cursor(k, Null), kind) = ReadInteger(b, Cursor(k, Null), kind)
  BY DEF ServerReadScalar, ReadScalar
<1>8. AtServer(kind, v) = u
  <2>1. CASE v = Null
    BY <2>1 DEF AtServer
  <2>2. CASE v # Null /\ kind = "long"
    BY <2>2 DEF AtServer
  <2>3. CASE v # Null /\ kind # "long"
    <3>1. v[1] = "number"
      BY <2>3 DEF WritesKind
    <3>2. v = Number(v[2])
      BY <3>1, NumberForm
    <3>3. AtServer(kind, v) = v
      BY <2>3 DEF AtServer
    <3>4. QED BY <2>3, <3>2, <3>3
  <2>4. QED BY <2>1, <2>2, <2>3
<1> HIDE DEF u
<1>9. QED BY <1>2, <1>4, <1>5, <1>6, <1>7, <1>8

\* A date that fits, in the server's microseconds, or null.
LEMMA DateAtServer ==
  ASSUME NEW v, IsValue(v), WritesKind("date", v), Fits("date", v),
         NEW err, NEW b \in Bytes, NEW k, At(b, k, WriteKind("date", v, err))
  PROVE  /\ ServerScalars(b)["date"][k] = Cursor(k + Len(WriteKind("date", v, err)), AtServer("date", v))
         /\ Len(WriteKind("date", v, err)) >= 1
<1> DEFINE i == IF v = Null THEN Least("long") ELSE 1000 * v[2]
           w == WriteKind("date", v, err)
<1>1. v # Null => v[2] \in Int /\ Least("long") < 1000 * v[2] /\ 1000 * v[2] <= Most("long")
  <2>1. v # Null => v[1] = "number"
    BY DEF WritesKind
  <2>2. v # Null => Least("long") < 1000 * v[2] /\ 1000 * v[2] <= Most("long")
    BY DEF Fits
  <2>3. QED BY <2>1, <2>2, NumberForm
<1>2. Least("long") \in Int /\ Least("long") <= Most("long") /\ Width["long"] \in Nat \ {0}
      /\ LongWidth = Width["long"]
  <2>1. Least("long") \in Int /\ Least("long") <= -8 /\ Most("long") = -Least("long") - 1
    BY Widths DEF Most
  <2>2. QED BY <2>1, Widths DEF Width
<1>3. i \in Least("long") .. Most("long") /\ Least("long") <= i /\ i <= Most("long")
  BY <1>1, <1>2
<1>4. w = WriteBigInteger("long", i)
  BY DEF WriteKind, WriteDate, NullOf
<1>5. AtServer("date", v) = IF i = Least("long") THEN Null ELSE <<"micros", i>>
  <2>1. CASE v = Null
    BY <2>1 DEF AtServer
  <2>2. CASE v # Null
    <3>1. i = 1000 * v[2] /\ i # Least("long")
      BY <1>1, <1>2, <2>2
    <3>2. AtServer("date", v) = <<"micros", 1000 * v[2]>>
      BY <2>2 DEF AtServer
    <3>3. QED BY <3>1, <3>2
  <2>3. QED BY <2>1, <2>2
<1>6. At(b, k, w) /\ k \in Nat
  BY DEF At
<1> HIDE DEF i, w
<1>7. w = WriteSigned(i, Width["long"])
  BY <1>3, <1>4 DEF WriteBigInteger
<1>8. /\ ReadSigned(SubSeq(b, k + 1, k + Width["long"])) = i
      /\ Len(w) = Width["long"]
      /\ ~(~Cursor(k, Null).ok \/ Cursor(k, Null).at + Width["long"] > Len(b))
      /\ Cursor(k, Null).at = k
  BY <1>3, <1>6, <1>7, SignedAt
<1>9. ServerScalars(b)["date"][k] = ServerReadScalar(b, Cursor(k, Null), "date")
  <2>1. "date" \in DOMAIN Kinds
    BY DEF Kinds
  <2>2. QED BY <1>6, <2>1, ServerScalarIs
<1>10. ServerReadScalar(b, Cursor(k, Null), "date")
         = Cursor(k + LongWidth,
                  IF ReadSigned(SubSeq(b, k + 1, k + LongWidth)) = Least("long") THEN Null
                  ELSE <<"micros", ReadSigned(SubSeq(b, k + 1, k + LongWidth))>>)
  BY <1>2, <1>8 DEF ServerReadScalar, Take
<1>11. QED BY <1>2, <1>5, <1>8, <1>9, <1>10 DEF w

\* A decimal that is accepted, as the server's integer, or null.
LEMMA DecimalAtServer ==
  ASSUME NEW v, IsValue(v), WritesKind("decimal", v),
         NEW err, NEW b \in Bytes, NEW k, At(b, k, WriteKind("decimal", v, err))
  PROVE  /\ ServerScalars(b)["decimal"][k]
              = Cursor(k + Len(WriteKind("decimal", v, err)), AtServer("decimal", v))
         /\ Len(WriteKind("decimal", v, err)) >= 1
<1> DEFINE i == IF v = Null THEN Least("decimal") ELSE Unscaled(TextOf(v))
           w == WriteKind("decimal", v, err)
<1>1. Least("decimal") \in Int /\ Most("decimal") = -Least("decimal") - 1 /\ Least("decimal") <= -8
      /\ Width["decimal"] \in Nat \ {0} /\ DecimalWidth = Width["decimal"]
  <2>1. Least("decimal") \in Int /\ Least("decimal") <= -8 /\ Most("decimal") = -Least("decimal") - 1
    BY Widths DEF Most
  <2>2. QED BY <2>1, Widths DEF Width
<1>2. v # Null =>
        /\ WriteDecimal(v) = WriteSigned(Unscaled(TextOf(v)), DecimalWidth)
        /\ Unscaled(TextOf(v)) \in -Most("decimal") .. Most("decimal")
        /\ v[1] \in {"text", "number", "fraction"}
        /\ v[1] = "number" => Unscaled(TextOf(v)) = v[2] * Power(10, DecimalPlaces)
        /\ v[1] = "fraction" => Unscaled(TextOf(v)) = v[2] * Power(10, DecimalPlaces - v[3])
        /\ v[1] = "text" => TextOf(v) = v
  BY DecimalWritten
<1>3. i \in Least("decimal") .. Most("decimal")
  BY <1>1, <1>2
<1>4. w = WriteSigned(i, Width["decimal"])
  <2>1. w = WriteDecimal(v)
    BY DEF WriteKind
  <2>2. CASE v = Null
    <3>1. WriteDecimal(v) = WriteBigInteger("decimal", Least("decimal"))
      BY <2>2 DEF WriteDecimal, NullOf
    <3>2. Least("decimal") <= Least("decimal") /\ Least("decimal") <= Most("decimal")
      BY <1>1
    <3>3. QED BY <2>1, <2>2, <3>1, <3>2 DEF WriteBigInteger
  <2>3. CASE v # Null
    BY <1>1, <1>2, <2>1, <2>3
  <2>4. QED BY <2>2, <2>3
<1>5. AtServer("decimal", v) = IF i = Least("decimal") THEN Null ELSE <<"unscaled", i>>
  <2>1. CASE v = Null
    BY <2>1 DEF AtServer
  <2>2. CASE v # Null
    <3>1. i = Unscaled(TextOf(v))
      BY <2>2
    <3>2. i # Least("decimal")
      BY <1>1, <1>2, <2>2
    <3> DEFINE x == v[2] * Power(10, DecimalPlaces)
               y == v[2] * Power(10, DecimalPlaces - v[3])
               z == Spelt(v[2] \o v[3]) * Power(10, DecimalPlaces - Len(v[3]))
    <3>3. AtServer("decimal", v) = <<"unscaled",
              CASE v[1] = "number"   -> x
                [] v[1] = "fraction" -> y
                [] OTHER -> z>>
      BY <2>2 DEF AtServer
    <3>4. v[1] = "text" => i = z
      BY <1>2, <2>2, <3>1 DEF Unscaled
    <3>5. (v[1] = "number" => i = x) /\ (v[1] = "fraction" => i = y)
      BY <1>2, <2>2, <3>1
    <3>6. v[1] \in {"text", "number", "fraction"}
      BY <1>2, <2>2
    <3> HIDE DEF i, x, y, z
    <3>7. (CASE v[1] = "number" -> x [] v[1] = "fraction" -> y [] OTHER -> z) = i
      BY <3>4, <3>5, <3>6
    <3>8. AtServer("decimal", v) = <<"unscaled", i>>
      BY <3>3, <3>7
    <3>9. QED BY <3>2, <3>8
  <2>3. QED BY <2>1, <2>2
<1>6. At(b, k, w) /\ k \in Nat
  BY DEF At
<1> HIDE DEF i, w
<1>7. /\ ReadSigned(SubSeq(b, k + 1, k + Width["decimal"])) = i
      /\ Len(w) = Width["decimal"]
      /\ ~(~Cursor(k, Null).ok \/ Cursor(k, Null).at + Width["decimal"] > Len(b))
      /\ Cursor(k, Null).at = k
  BY <1>3, <1>4, <1>6, SignedAt
<1>8. ServerScalars(b)["decimal"][k] = ServerReadScalar(b, Cursor(k, Null), "decimal")
  <2>1. "decimal" \in DOMAIN Kinds
    BY DEF Kinds
  <2>2. QED BY <1>6, <2>1, ServerScalarIs
<1>9. ServerReadScalar(b, Cursor(k, Null), "decimal")
        = Cursor(k + DecimalWidth,
                 IF ReadSigned(SubSeq(b, k + 1, k + DecimalWidth)) = Least("decimal") THEN Null
                 ELSE <<"unscaled", ReadSigned(SubSeq(b, k + 1, k + DecimalWidth))>>)
  BY <1>1, <1>7 DEF ServerReadScalar, Take
<1>10. QED BY <1>1, <1>5, <1>7, <1>8, <1>9 DEF w

\* What is written of a string or a varbinary.
Contents(kind, v) ==
  IF v = Null THEN Null ELSE IF kind = "string" THEN Chars(v[2]) ELSE BufferOf(v)

\* Bytes or characters with their length in front, at the server.
LEMMA BytesAtServer ==
  ASSUME NEW kind \in {"string", "varbinary"}, NEW v, IsValue(v), WritesKind(kind, v),
         kind = "varbinary" => HasLength(v),
         NEW err, NEW b \in Bytes, NEW k, At(b, k, WriteKind(kind, v, err))
  PROVE  /\ ServerScalars(b)[kind][k] = Cursor(k + Len(WriteKind(kind, v, err)), Contents(kind, v))
         /\ Len(WriteKind(kind, v, err)) >= 1
<1> DEFINE w == WriteKind(kind, v, err)
           u == Contents(kind, v)
           s == u[2]
<1>0. Width["int"] \in Nat \ {0}
  BY Widths
<1>1. v # Null =>
        /\ u = <<IF kind = "string" THEN "string" ELSE "bytes", s>>
        /\ s \in Bytes /\ Countable("int", Len(s))
  <2>1. SUFFICES ASSUME v # Null
                 PROVE  /\ u = <<IF kind = "string" THEN "string" ELSE "bytes", s>>
                        /\ s \in Bytes /\ Countable("int", Len(s))
    OBVIOUS
  <2>2. CASE kind = "string"
    <3>1. v[1] \in {"string", "bytes"} /\ Countable("int", Len(v[2]))
      BY <2>1, <2>2 DEF WritesKind
    <3>2. u = <<"string", v[2]>>
      BY <2>1, <2>2 DEF Contents, Chars
    <3>3. s = v[2] /\ v[2] \in Bytes
      BY <3>1, <3>2, ValueContents
    <3>4. QED BY <2>2, <3>1, <3>2, <3>3
  <2>3. CASE kind = "varbinary"
    <3>1. v[1] \in {"string", "bytes"} /\ u = BufferOf(v)
      BY <2>1, <2>3 DEF HasLength, Contents
    <3>2. Countable("int", Len(s))
      BY <2>1, <2>3, <3>1 DEF WritesKind
    <3>3. v[2] \in Bytes
      BY <3>1, ValueContents
    <3>4. CASE v[1] = "string"
      <4>1. u = <<"bytes", Units(v[2])>>
        BY <3>1, <3>4 DEF BufferOf, Binary
      <4>2. Units(v[2]) \in Bytes
        BY <3>3, UnitBytes
      <4>3. QED BY <2>3, <3>2, <4>1, <4>2
    <3>5. CASE v[1] = "bytes"
      <4>1. u = v
        BY <3>1, <3>5 DEF BufferOf
      <4>2. v \in {"bytes"} \X Bytes
        BY <3>5 DEF IsValue, Null, Object, Truth, Strings, Bytes, Doubles, PlusInfinity, MinusInfinity,
                    NotANumber
      <4>3. QED BY <2>3, <3>2, <4>1, <4>2
    <3>6. QED BY <3>1, <3>4, <3>5
  <2>4. QED BY <2>2, <2>3
<1>2. v # Null => u # Null /\ u[2] \in Bytes /\ Len(u[2]) \in Nat /\ Len(u[2]) <= Most("int")
  <2>1. v # Null => u # Null
    BY <1>1 DEF Null
  <2>2. v # Null => Len(s) \in Nat
    BY <1>1, LenProperties DEF Bytes
  <2> HIDE DEF u
  <2>3. QED BY <1>1, <2>1, <2>2, CountableRange
<1>3. v = Null => u = Null
  BY DEF Contents
<1>4. w = WriteBytes(u)
  <2>1. CASE kind = "string"
    <3>1. w = WriteBytes(v)
      BY <2>1 DEF WriteKind
    <3>2. v # Null => u[2] = v[2]
      BY <2>1 DEF Contents, Chars
    <3> HIDE DEF u
    <3>3. QED BY <1>2, <1>3, <3>1, <3>2 DEF WriteBytes
  <2>2. CASE kind = "varbinary"
    <3>1. w = WriteBytes(BufferOf(v))
      BY <2>2 DEF WriteKind, WriteVarbinary
    <3>2. BufferOf(Null) = Null
      BY DEF BufferOf, Null
    <3>3. u = BufferOf(v)
      BY <2>2, <3>2 DEF Contents
    <3>4. QED BY <3>1, <3>3
  <2>3. QED BY <2>1, <2>2
<1>6. kind = "string" => u \in Strings \cup {Null}
  BY <1>1, <1>3 DEF Strings, Bytes
<1>7. kind = "varbinary" => u \in ({"bytes"} \X Bytes) \cup {Null}
  BY <1>1, <1>3
<1>8. u # Null => Len(u[2]) <= Most("int")
  BY <1>2, <1>3
<1>9. Len(w) >= 1
  <2>1. CASE v = Null
    <3>1. -1 \in Int
      OBVIOUS
    <3>2. w = WriteInteger("int", Number(-1)) /\ Len(WriteInteger("int", Number(-1))) = Width["int"]
      BY <1>3, <1>4, <2>1, <3>1, CountBytes DEF WriteBytes
    <3>3. QED BY <1>0, <3>2
  <2>2. CASE v # Null
    <3> DEFINE h == WriteInteger("int", Number(Len(s)))
    <3>1. w = h \o s
      BY <1>2, <1>4, <2>2 DEF WriteBytes
    <3>2. s \in Bytes /\ Len(s) \in Int
      BY <1>2, <2>2
    <3> HIDE DEF s, w
    <3>3. h \in Bytes /\ Len(h) = Width["int"]
      BY <3>2, CountBytes
    <3> HIDE DEF h
    <3>4. Len(w) = Len(h) + Len(s) /\ Len(s) \in Nat
      BY <3>1, <3>2, <3>3, Concatenated
    <3>5. QED BY <1>0, <3>3, <3>4
  <2>3. QED BY <2>1, <2>2
<1>10. At(b, k, w) /\ k \in Nat
  BY DEF At
<1> HIDE DEF u, s, w
<1>11. ServerScalars(b)[kind][k] = ServerReadScalar(b, Cursor(k, Null), kind)
  <2>1. kind \in DOMAIN Kinds
    BY DEF Kinds
  <2>2. QED BY <1>10, <2>1, ServerScalarIs
<1>12. CASE kind = "string"
  <2>1. ReadString(b, Cursor(k, Null)) = Cursor(k + Len(WriteBytes(u)), u)
    BY <1>4, <1>6, <1>8, <1>10, <1>12, StringAt
  <2>2. ServerReadScalar(b, Cursor(k, Null), kind) = ReadString(b, Cursor(k, Null))
    BY <1>12 DEF ServerReadScalar, ReadScalar
  <2>3. QED BY <1>4, <1>9, <1>11, <2>1, <2>2 DEF u, w
<1>13. CASE kind = "varbinary"
  <2>1. ReadVarbinary(b, Cursor(k, Null)) = Cursor(k + Len(WriteBytes(u)), u)
    BY <1>4, <1>7, <1>8, <1>10, <1>13, VarbinaryAt
  <2>2. ServerReadScalar(b, Cursor(k, Null), kind) = ReadVarbinary(b, Cursor(k, Null))
    BY <1>13 DEF ServerReadScalar, ReadScalar
  <2>3. QED BY <1>4, <1>9, <1>11, <2>1, <2>2 DEF u, w
<1>14. QED BY <1>12, <1>13

\* A double that fits, at the server.
LEMMA DoubleAtServer ==
  ASSUME NEW v, IsValue(v), WritesKind("double", v), Fits("double", v),
         NEW err \in LogErrors, NEW b \in Bytes, NEW k, At(b, k, WriteKind("double", v, err))
  PROVE  /\ ServerScalars(b)["double"][k] = Cursor(k + Len(WriteKind("double", v, err)), AtServer("double", v))
         /\ Len(WriteKind("double", v, err)) >= 1
<1> DEFINE w == WriteKind("double", v, err)
<1>1. v # Null => v[1] \in {"real", "infinity", "nan"}
  BY DEF Fits
<1>2. v \in Doubles \cup {Null}
  BY <1>1, ValueContents
<1>3. v # Null => (v[1] = "real" => v[2] # NullDouble /\ FarFromPower(Magnitude(v[2])))
  BY DEF Fits
<1>4. v # Real(NullDouble)
  BY <1>3 DEF Real, Null
<1>5. v # Null => (v[1] = "real" => err = NoError \/ FarFromPower(Magnitude(v[2])))
  BY <1>3
<1>6. ReadReal(b, Cursor(k, Null)) = Cursor(k + Len(w), v) /\ Len(w) = DoubleWidth
  <2>1. DoubleKept(v, err)
    BY <1>2, <1>4, <1>5 DEF DoubleKept
  <2>2. QED BY <2>1, DoubleAt
<1>7. ServerScalars(b)["double"][k] = ServerReadScalar(b, Cursor(k, Null), "double")
  <2>1. "double" \in DOMAIN Kinds /\ k \in Nat
    BY DEF Kinds, At
  <2>2. QED BY <2>1, ServerScalarIs
<1>8. ServerReadScalar(b, Cursor(k, Null), "double") = ReadReal(b, Cursor(k, Null))
  BY DEF ServerReadScalar, ReadScalar
<1>9. AtServer("double", v) = v
  BY DEF AtServer
<1>10. DoubleWidth \in Nat \ {0}
  BY NumberConstants
<1>11. QED BY <1>6, <1>7, <1>8, <1>9, <1>10

\* A value that its writer accepts, and that has a length if it needs one.
Sent(kind, v, err) ==
  /\ kind \in ValueKinds /\ IsValue(v) /\ WritesKind(kind, v) /\ err \in LogErrors
  /\ kind = "varbinary" => HasLength(v)

\* What the server makes of a value that its type has.
LEMMA ValueAtServer ==
  ASSUME NEW kind, NEW v, NEW err, Sent(kind, v, err), Fits(kind, v),
         NEW b \in Bytes, NEW k, At(b, k, WriteKind(kind, v, err))
  PROVE  /\ ServerScalars(b)[kind][k] = Cursor(k + Len(WriteKind(kind, v, err)), AtServer(kind, v))
         /\ (IF kind = "null" THEN 0 ELSE 1) <= Len(WriteKind(kind, v, err))
<1>1. kind \in ValueKinds /\ IsValue(v) /\ WritesKind(kind, v) /\ Fits(kind, v) /\ err \in LogErrors
      /\ (kind = "varbinary" => HasLength(v))
  BY DEF Sent
<1>2. CASE kind \in {"byte", "short", "int", "long"}
  BY <1>1, <1>2, IntegerAtServer
<1>3. CASE kind = "date"
  BY <1>1, <1>3, DateAtServer
<1>4. CASE kind = "decimal"
  BY <1>1, <1>4, DecimalAtServer
<1>5. CASE kind = "double"
  BY <1>1, <1>5, DoubleAtServer
<1>6. CASE kind \in {"string", "varbinary"}
  <2>1. Contents(kind, v) = AtServer(kind, v)
    <3>1. CASE v = Null
      BY <3>1 DEF Contents, AtServer
    <3>2. CASE v # Null /\ kind = "string"
      BY <3>2 DEF Contents, AtServer
    <3>3. CASE v # Null /\ kind = "varbinary"
      <4>1. v[1] = "bytes"
        BY <1>1, <3>3 DEF Fits
      <4>2. QED BY <3>3, <4>1 DEF Contents, AtServer, BufferOf
    <3>4. QED BY <1>6, <3>1, <3>2, <3>3
  <2>2. /\ ServerScalars(b)[kind][k] = Cursor(k + Len(WriteKind(kind, v, err)), Contents(kind, v))
        /\ Len(WriteKind(kind, v, err)) >= 1
    BY <1>1, <1>6, BytesAtServer
  <2>3. QED BY <1>6, <2>1, <2>2
<1>7. CASE kind = "null"
  <2>1. WriteKind(kind, v, err) = <<>> /\ Len(<<>>) = 0
    BY <1>7, EmptySeq DEF WriteKind
  <2>2. k \in Nat /\ "null" \in DOMAIN Kinds
    BY DEF At, Kinds
  <2>3. ServerScalars(b)[kind][k] = ServerReadScalar(b, Cursor(k, Null), kind)
    BY <1>7, <2>2, ServerScalarIs
  <2>4. ServerReadScalar(b, Cursor(k, Null), kind) = Cursor(k, Null)
    BY <1>7 DEF ServerReadScalar, ReadScalar, Gives, Cursor
  <2>5. AtServer(kind, v) = Null
    BY <1>7 DEF AtServer
  <2>6. k + 0 = k /\ 0 <= 0
    BY <2>2
  <2>7. QED BY <1>7, <2>1, <2>3, <2>4, <2>5, <2>6
<1>8. QED BY <1>1, <1>2, <1>3, <1>4, <1>5, <1>6, <1>7 DEF ValueKinds

\* What the server makes of a value, whether its type has it or not: it is the same
\* wherever the value is.
Seen(kind, v, err) == ServerScalars(WriteKind(kind, v, err))[kind][0].value

\* The kinds whose values all have the same number of bytes, and that number.
FixedKinds == {"byte", "short", "int", "long", "date", "decimal", "double"}
WidthOf(kind) ==
  CASE kind = "double" -> DoubleWidth [] kind = "date" -> LongWidth [] OTHER -> Width[kind]

\* One of them has it.
LEMMA FixedBytes ==
  ASSUME NEW kind \in FixedKinds, NEW v, NEW err, Sent(kind, v, err)
  PROVE  /\ Len(WriteKind(kind, v, err)) = WidthOf(kind)
         /\ WidthOf(kind) \in Nat \ {0}
<1>1. IsValue(v) /\ WritesKind(kind, v) /\ err \in LogErrors
  BY DEF Sent
<1>2. CASE kind \in {"byte", "short", "int"}
  <2> DEFINE n == IF v = Null THEN Least(kind) ELSE v[2]
  <2>1. v # Null => v[1] = "number"
    BY <1>1, <1>2 DEF WritesKind
  <2>2. n \in Int /\ Width[kind] \in Nat \ {0}
    BY <1>1, <1>2, <2>1, ValueContents, Widths
  <2>3. WriteKind(kind, v, err) = WriteInteger(kind, Number(n))
    <3>1. WriteKind(kind, v, err) = WriteSigned(n, Width[kind])
      BY <1>2 DEF WriteKind, WriteInteger, NullOf
    <3>2. Number(n) # Null /\ Number(n)[2] = n
      BY DEF Number, Null
    <3> HIDE DEF n
    <3>3. QED BY <3>1, <3>2 DEF WriteInteger
  <2> HIDE DEF n
  <2>4. Len(WriteKind(kind, v, err)) = Width[kind]
    BY <1>2, <2>2, <2>3, CountBytes
  <2>5. QED BY <1>2, <2>2, <2>4 DEF WidthOf
<1>3. CASE kind \in {"long", "date"}
  <2> DEFINE n == IF v = Null THEN Least("long") ELSE IF kind = "long" THEN v[2] ELSE 1000 * v[2]
  <2>1. v # Null => v[1] \in {"number", "big"}
    BY <1>1, <1>3 DEF WritesKind
  <2>2. Least("long") \in Int /\ Width["long"] \in Nat \ {0} /\ LongWidth = Width["long"]
    BY Widths DEF Width
  <2>3. v # Null => v[2] \in Int
    BY <1>1, <2>1, ValueContents
  <2>4. n \in Int
    BY <2>2, <2>3
  <2>5. WriteKind(kind, v, err) = WriteBigInteger("long", n)
    BY <1>3 DEF WriteKind, WriteLong, WriteDate, NullOf
  <2> HIDE DEF n
  <2>6. Len(WriteKind(kind, v, err)) = Width["long"]
    BY <2>4, <2>5, BigIntegerBytes
  <2>7. QED BY <1>3, <2>2, <2>6 DEF WidthOf
<1>4. CASE kind = "decimal"
  <2> DEFINE n == IF v = Null THEN Least("decimal") ELSE Unscaled(TextOf(v))
  <2>1. Least("decimal") \in Int /\ Width["decimal"] \in Nat \ {0} /\ DecimalWidth = Width["decimal"]
    BY Widths DEF Width
  <2>2. v # Null => /\ WriteDecimal(v) = WriteSigned(Unscaled(TextOf(v)), DecimalWidth)
                    /\ Unscaled(TextOf(v)) \in Least("decimal") .. Most("decimal")
    <3>1. v # Null => /\ WriteDecimal(v) = WriteSigned(Unscaled(TextOf(v)), DecimalWidth)
                      /\ Unscaled(TextOf(v)) \in -Most("decimal") .. Most("decimal")
      BY <1>1, <1>4, DecimalWritten
    <3>2. Most("decimal") = -Least("decimal") - 1
      BY DEF Most
    <3>3. QED BY <2>1, <3>1, <3>2
  <2>3. WriteKind(kind, v, err) = WriteBigInteger("decimal", n)
    <3>1. WriteKind(kind, v, err) = WriteDecimal(v)
      BY <1>4 DEF WriteKind
    <3>2. CASE v = Null
      BY <3>1, <3>2 DEF WriteDecimal, NullOf
    <3>3. CASE v # Null
      <4>1. n \in Least("decimal") .. Most("decimal") /\ n = Unscaled(TextOf(v))
        BY <2>2, <3>3
      <4> HIDE DEF n
      <4>2. Least("decimal") <= n /\ n <= Most("decimal")
        BY <4>1
      <4>3. WriteBigInteger("decimal", n) = WriteSigned(n, Width["decimal"])
        BY <4>2 DEF WriteBigInteger
      <4>4. QED BY <2>1, <2>2, <3>1, <3>3, <4>1, <4>3
    <3>4. QED BY <3>2, <3>3
  <2>4. n \in Int
    BY <2>1, <2>2
  <2> HIDE DEF n
  <2>5. Len(WriteKind(kind, v, err)) = Width["decimal"]
    BY <2>3, <2>4, BigIntegerBytes
  <2>6. QED BY <1>4, <2>1, <2>5 DEF WidthOf
<1>5. CASE kind = "double"
  <2> DEFINE d == IF v = Null THEN Real(NullDouble) ELSE Coerced(v)
  <2>1. WriteKind(kind, v, err) = WriteDouble(d, err)
    BY <1>5 DEF WriteKind, NullOf
  <2>2. Real(NullDouble) \in Doubles
    BY ValueConstants DEF Doubles, Real
  <2>3. d \in Doubles
    BY <1>1, <2>2, CoercedType
  <2> HIDE DEF d
  <2>4. Len(WriteKind(kind, v, err)) = DoubleWidth /\ DoubleWidth \in Nat \ {0}
    BY <1>1, <2>1, <2>3, DoubleType, NumberConstants
  <2>5. QED BY <1>5, <2>4 DEF WidthOf
<1>6. QED BY <1>2, <1>3, <1>4, <1>5 DEF FixedKinds

\* What the server makes of bytes in their place.
Decoded(kind, s) ==
  CASE kind = "double"  -> (IF ReadDouble(s) = Real(NullDouble) THEN Null ELSE ReadDouble(s))
    [] kind = "date"    -> (IF ReadSigned(s) = Least("long") THEN Null ELSE <<"micros", ReadSigned(s)>>)
    [] kind = "decimal" -> (IF ReadSigned(s) = Least("decimal") THEN Null
                            ELSE <<"unscaled", ReadSigned(s)>>)
    [] OTHER -> (IF ReadSigned(s) = Least(kind) THEN Null ELSE Number(ReadSigned(s)))

\* It reads so many bytes, whatever is behind them.
LEMMA FixedAt ==
  ASSUME NEW kind \in FixedKinds, NEW w \in Bytes, Len(w) = WidthOf(kind),
         NEW b \in Bytes, NEW k, At(b, k, w)
  PROVE  ServerScalars(b)[kind][k] = Cursor(k + Len(w), Decoded(kind, w))
<1> DEFINE c == Cursor(k, Null)
           piece == SubSeq(b, k + 1, k + Len(w))
<1>1. piece = w /\ k \in Nat /\ ~(~c.ok \/ c.at + Len(w) > Len(b)) /\ c.at = k
  BY TakenAt
<1>2. kind \in DOMAIN Kinds
  BY DEF FixedKinds, Kinds
<1>3. ServerScalars(b)[kind][k] = ServerReadScalar(b, c, kind)
  BY <1>1, <1>2, ServerScalarIs
<1> HIDE DEF c
<1>4. CASE kind = "double"
  <2>1. Len(w) = DoubleWidth
    BY <1>4 DEF WidthOf
  <2>2. ServerReadScalar(b, c, kind) = ReadReal(b, c)
    BY <1>4 DEF ServerReadScalar, ReadScalar
  <2>3. ReadReal(b, c) = Cursor(k + Len(w), LET u == ReadDouble(piece)
                                            IN  IF u = Real(NullDouble) THEN Null ELSE u)
    BY <1>1, <2>1 DEF ReadReal, Take
  <2>4. QED BY <1>1, <1>3, <1>4, <2>2, <2>3 DEF Decoded
<1>5. CASE kind = "date"
  <2>1. Len(w) = LongWidth
    BY <1>5 DEF WidthOf
  <2>2. ServerReadScalar(b, c, kind)
          = Cursor(k + Len(w), IF ReadSigned(piece) = Least("long") THEN Null ELSE <<"micros", ReadSigned(piece)>>)
    BY <1>1, <1>5, <2>1 DEF ServerReadScalar, Take
  <2>3. QED BY <1>1, <1>3, <1>5, <2>2 DEF Decoded
<1>6. CASE kind = "decimal"
  <2>1. Len(w) = DecimalWidth
    BY <1>6 DEF WidthOf, Width
  <2>2. ServerReadScalar(b, c, kind)
          = Cursor(k + Len(w), IF ReadSigned(piece) = Least("decimal") THEN Null
                               ELSE <<"unscaled", ReadSigned(piece)>>)
    BY <1>1, <1>6, <2>1 DEF ServerReadScalar, Take
  <2>3. QED BY <1>1, <1>3, <1>6, <2>2 DEF Decoded
<1>7. CASE kind \in {"byte", "short", "int", "long"}
  <2>0. kind # "decimal" /\ kind # "date" /\ kind # "double"
    BY <1>7
  <2>1. Len(w) = Width[kind]
    BY <2>0 DEF WidthOf
  <2>2. ServerReadScalar(b, c, kind) = ReadInteger(b, c, kind)
    <3>1. ServerReadScalar(b, c, kind) = ReadScalar(b, c, kind)
      BY <2>0 DEF ServerReadScalar
    <3>2. ReadScalar(b, c, kind) = ReadInteger(b, c, kind)
      BY <1>7 DEF ReadScalar
    <3>3. QED BY <3>1, <3>2
  <2>3. ReadInteger(b, c, kind)
          = Cursor(k + Len(w), IF ReadSigned(piece) = Least(kind) THEN Null ELSE Number(ReadSigned(piece)))
    <3> HIDE DEF piece
    <3> DEFINE width == Len(w)
    <3>1. width = Width[kind] /\ ~(~c.ok \/ c.at + width > Len(b)) /\ c.at = k
      BY <1>1, <2>1
    <3>2. piece = SubSeq(b, k + 1, k + width)
      BY DEF piece
    <3> HIDE DEF width
    <3>3. ReadInteger(b, c, kind)
            = Cursor(c.at + width,
                     IF ReadSigned(SubSeq(b, c.at + 1, c.at + width)) = Least(kind) THEN Null
                     ELSE Number(ReadSigned(SubSeq(b, c.at + 1, c.at + width))))
      BY <3>1, IntegerTaken
    <3>4. ReadInteger(b, c, kind)
            = Cursor(k + width, IF ReadSigned(piece) = Least(kind) THEN Null ELSE Number(ReadSigned(piece)))
      BY <3>1, <3>2, <3>3
    <3>5. QED BY <3>4 DEF width
  <2>4. Decoded(kind, w) = IF ReadSigned(w) = Least(kind) THEN Null ELSE Number(ReadSigned(w))
    BY <2>0 DEF Decoded
  <2> HIDE DEF piece
  <2>5. QED BY <1>1, <1>3, <2>2, <2>3, <2>4
<1>8. QED BY <1>4, <1>5, <1>6, <1>7 DEF FixedKinds

\* The names of types, by the codes that are written for them.
LEMMA CodeKnown ==
  ASSUME NEW kind \in DOMAIN Kinds
  PROVE  /\ Number(Kinds[kind]) \in Numbers("byte") /\ KindCoded(Number(Kinds[kind])) = kind
<1>1. Kinds[kind] \in -99 .. 25 /\ \A k \in DOMAIN Kinds : Kinds[k] = Kinds[kind] => k = kind
  BY DEF Kinds
<1>2. Least("byte") = -128 /\ Most("byte") = 127
  <2>1. Width["byte"] = 1 /\ Base = 256
    BY ValueConstants DEF Width
  <2>2. Capacity(1) = 256
    <3>1. 0 \in Nat /\ 0 + 1 = 1 /\ 256 * 1 = 256
      OBVIOUS
    <3>2. Power(256, 0) = 1 /\ Power(256, 0 + 1) = 256 * Power(256, 0)
      BY <3>1, PowerRecursion
    <3>3. QED BY <2>1, <3>1, <3>2 DEF Capacity
  <2>3. 256 \div 2 = 128
    OBVIOUS
  <2>4. Least("byte") = -128
    BY <2>1, <2>2, <2>3 DEF Least
  <2>5. QED BY <2>4 DEF Most
<1>3. Number(Kinds[kind]) \in Numbers("byte")
  BY <1>1, <1>2 DEF Number, Numbers
<1>4. AsNumber(Number(Kinds[kind])) = Kinds[kind]
  BY DEF AsNumber, Number, Null
<1>5. QED BY <1>1, <1>3, <1>4 DEF KindCoded

-----------------------------------------------------------------------------
(* Arrays *)

\* The bytes of an array: the code of its elements, their count, and they.
ArrayOf(kind, n, bytes) ==
  WriteByte(Kinds[kind]) \o WriteInteger(LengthKind(kind), Number(n)) \o bytes

\* Elements that are read, in a number that can be counted.
GoodElements(b, k, kind, method, n, ss, v) ==
  /\ kind \in DOMAIN Kinds /\ n \in Nat /\ n <= Most(LengthKind(kind))
  /\ \A at \in Nat :
       k < at => Elements(b, at, ss, method, n, v, IF kind = "null" THEN 0 ELSE 1)

\* One array, its elements read by the method of their kind.
LEMMA OneArrayAt ==
  ASSUME NEW b \in Bytes, NEW k, NEW kind, NEW methods, NEW n, NEW ss, NEW v,
         GoodElements(b, k, kind, methods[kind], n, ss, v), FlattenSeq(ss) \in Bytes,
         At(b, k, ArrayOf(kind, n, FlattenSeq(ss)))
  PROVE  /\ ReadArray(b, k, methods)
              = Cursor(k + Len(ArrayOf(kind, n, FlattenSeq(ss))), List(v))
         /\ 1 <= Len(ArrayOf(kind, n, FlattenSeq(ss)))
<1> DEFINE f == FlattenSeq(ss)
           l == LengthKind(kind)
           x == WriteByte(Kinds[kind])
           y == WriteInteger(l, Number(n))
           w == ArrayOf(kind, n, f)
<1>1. /\ kind \in DOMAIN Kinds /\ n \in Nat /\ n <= Most(l)
      /\ \A at \in Nat :
           k < at => Elements(b, at, ss, methods[kind], n, v, IF kind = "null" THEN 0 ELSE 1)
  BY DEF GoodElements
<1>2. k \in Nat /\ Len(b) \in Nat
  BY LenProperties DEF At, Bytes
<1>3. l \in {"int", "short"}
  BY DEF LengthKind
<1>4. Number(n) \in Numbers(l) /\ Width[l] \in Nat \ {0}
  <2>1. Least(l) \in Int /\ Least(l) <= -8 /\ Width[l] \in Nat \ {0} /\ Most(l) \in Nat
    BY <1>3, Widths
  <2>2. n \in Least(l) + 1 .. Most(l)
    BY <1>1, <2>1
  <2>3. QED BY <2>1, <2>2 DEF Numbers, Number
<1>5. Number(Kinds[kind]) \in Numbers("byte") /\ KindCoded(Number(Kinds[kind])) = kind
  BY <1>1, CodeKnown
<1>6. x = WriteInteger("byte", Number(Kinds[kind])) /\ Width["byte"] = 1
  BY DEF WriteByte, Width
<1>7. x \in Bytes /\ y \in Bytes
  BY <1>3, <1>4, <1>5, <1>6, NumberBytes
<1>8. w = x \o y \o f
  BY DEF ArrayOf
<1> HIDE DEF f, l, x, y, w
<1>9. x \o y \in Bytes /\ Len(x \o y) = Len(x) + Len(y) /\ f \in Bytes
  BY <1>7, Concatenated DEF f
<1>10. Len(w) = Len(x \o y) + Len(f) /\ Len(f) \in Nat
  BY <1>8, <1>9, Concatenated
<1>11. At(b, k, x \o y) /\ At(b, k + Len(x \o y), f)
  <2>1. At(b, k, (x \o y) \o f)
    BY <1>8 DEF w, f
  <2>2. QED BY <1>2, <1>9, <2>1, AtEach
<1>12. At(b, k, x) /\ At(b, k + Len(x), y)
  BY <1>2, <1>7, <1>11, AtEach
<1>13. ReadInteger(b, Cursor(k, Null), "byte") = Cursor(k + 1, Number(Kinds[kind])) /\ Len(x) = 1
  <2>1. At(b, k, WriteInteger("byte", Number(Kinds[kind])))
    BY <1>6, <1>12
  <2> DEFINE m == Number(Kinds[kind])
  <2>2. m \in {Null} \cup Numbers("byte") /\ At(b, k, WriteInteger("byte", m))
    BY <1>5, <2>1
  <2> HIDE DEF m
  <2>3. /\ ReadInteger(b, Cursor(k, Null), "byte") = Cursor(k + Width["byte"], m)
        /\ Len(WriteInteger("byte", m)) = Width["byte"]
    BY <2>2, IntegerAt
  <2>4. QED BY <1>6, <2>3 DEF m
<1> DEFINE t == Cursor(k + 1, Number(Kinds[kind]))
           at == k + 1 + Width[l]
<1>14. ReadInteger(b, t, l) = Cursor(at, Number(n)) /\ Len(y) = Width[l]
  <2>1. At(b, k + 1, WriteInteger(l, Number(n)))
    BY <1>12, <1>13 DEF y
  <2>2. QED BY <1>3, <1>4, <2>1, IntegerAt DEF y
<1>15. t.value = Number(Kinds[kind])
  BY DEF Cursor
<1>16. at \in Nat /\ k < at /\ at = k + Len(x \o y) /\ at + Len(f) = k + Len(w)
  <2> HIDE DEF t, l
  <2>1. Len(x) = 1 /\ Len(y) = Width[l] /\ Width[l] \in Nat /\ Width[l] >= 1
    BY <1>4, <1>13, <1>14
  <2>2. Len(x \o y) = 1 + Width[l]
    BY <1>9, <2>1
  <2> HIDE DEF f, w
  <2>3. Len(w) = 1 + Width[l] + Len(f)
    BY <1>10, <2>2
  <2> DEFINE q == Width[l]
             r == Len(f)
  <2>4. k \in Nat /\ q \in Nat /\ q >= 1 /\ r \in Nat /\ at = k + 1 + q
    BY <1>2, <1>10, <2>1
  <2>5. Len(x \o y) = 1 + q /\ Len(w) = 1 + q + r
    BY <2>2, <2>3
  <2> HIDE DEF at, q, r
  <2>6. at \in Nat /\ k < at /\ at = k + (1 + q) /\ at + r = k + (1 + q + r)
    BY <2>4
  <2>7. QED BY <2>5, <2>6 DEF r
<1> DEFINE c == Cursor(at, Number(n))
           least == IF kind = "null" THEN 0 ELSE 1
<1>17. c.ok /\ c.value = Number(n)
  BY DEF Cursor
<1> HIDE DEF at, t
<1>18. ReadMany(b, c, n, least, methods[kind]) = Cursor(at + Len(f), List(v))
  <2>1. Elements(b, at, ss, methods[kind], n, v, least)
    BY <1>1, <1>16
  <2>2. At(b, at, FlattenSeq(ss))
    BY <1>11, <1>16 DEF f
  <2> HIDE DEF least
  <2>3. QED BY <2>1, <2>2, ManyAt DEF f
<1>19. AsNumber(Number(n)) = n
  BY DEF AsNumber, Number, Null
<1>20. kind # "unknown"
  BY <1>1 DEF Kinds
<1> HIDE DEF c, least
<1>21. ReadArray(b, k, methods) = ReadMany(b, c, n, least, methods[kind])
  <2> DEFINE type   == ReadInteger(b, Cursor(k, Null), "byte")
             kind0  == KindCoded(type.value)
             length == ReadInteger(b, type, LengthKind(kind0))
  <2>1. type = t
    BY <1>13 DEF t
  <2>2. kind0 = kind
    BY <1>5, <1>15, <2>1
  <2>3. length = c
    BY <1>14, <2>1, <2>2 DEF l, c
  <2>4. ReadArray(b, k, methods)
          = IF kind0 = "unknown" \/ ~length.ok THEN Fail(length)
            ELSE ReadMany(b, length, AsNumber(length.value), IF kind0 = "null" THEN 0 ELSE 1,
                          methods[kind0])
    BY DEF ReadArray
  <2> HIDE DEF type, kind0, length
  <2>5. QED BY <1>17, <1>19, <1>20, <2>2, <2>3, <2>4 DEF least
<1>22. 1 <= Len(w)
  BY <1>4, <1>9, <1>10, <1>13, <1>14
<1>23. QED BY <1>16, <1>18, <1>21, <1>22 DEF w, f

\* The arrays behind a place.
Behind(b, at, arrays) ==
  [p \in Int |-> IF p \in at + 1 .. Len(b) THEN arrays[p] ELSE Fail(Cursor(p, Null))]

\* What the arrays of a buffer are.
LEMMA ArraysRecursion ==
  ASSUME NEW b \in Bytes, NEW methods, NEW k \in Nat, k <= Len(b)
  PROVE  ArraysIn(b, methods)[k]
           = ReadArray(b, k, [methods EXCEPT !["array"] = Behind(b, k, ArraysIn(b, methods))])
<1> DEFINE n == Len(b)
           E(at, f) == ReadArray(b, at, [methods EXCEPT !["array"] = Behind(b, at, f)])
           T(a, f) == f = [at \in a .. n |-> E(at, f)]
           P == {m \in Nat : m <= n => \E f : T(n - m, f)}
<1>1. n \in Nat
  BY LenProperties DEF Bytes
<1>2. ASSUME NEW at, NEW f, NEW g, \A p \in at + 1 .. n : f[p] = g[p]
      PROVE  E(at, f) = E(at, g)
  <2>1. Behind(b, at, f) = Behind(b, at, g)
    BY <1>2 DEF Behind
  <2>2. QED BY <2>1
<1>3. \E f : T(0, f)
  <2> HIDE DEF E, n
  <2>1. 0 \in P
    <3> DEFINE f == [at \in n .. n |-> E(at, 0)]
    <3>1. n - 0 = n /\ \A at \in n .. n : at = n
      BY <1>1
    <3>2. f = [at \in n .. n |-> E(at, f)]
      <4>1. \A p \in n + 1 .. n : FALSE
        BY <1>1
      <4>2. \A x, y : E(n, x) = E(n, y)
        BY <1>2, <4>1
      <4>3. QED BY <3>1, <4>2
    <3> HIDE DEF f
    <3>3. T(n - 0, f)
      BY <3>1, <3>2
    <3>4. QED BY <3>3
  <2>2. ASSUME NEW m \in P PROVE m + 1 \in P
    <3>1. CASE m + 1 <= n
      <4> DEFINE a == n - m
                 c == n - (m + 1)
      <4>1. a \in Nat /\ c \in Nat /\ a = c + 1 /\ c < n /\ a <= n
        BY <1>1, <3>1
      <4>2. PICK f : T(a, f)
        <5>1. m <= n
          BY <1>1, <3>1
        <5> HIDE DEF T
        <5>2. QED BY <5>1
      <4> DEFINE g == [at \in c .. n |-> IF at = c THEN E(at, f) ELSE f[at]]
      <4> HIDE DEF a, c
      <4>3. ASSUME NEW at \in c .. n
            PROVE  g[at] = E(at, g)
        <5>1. \A p \in at + 1 .. n : f[p] = g[p]
          BY <1>1, <4>1
        <5>2. E(at, f) = E(at, g)
          <6> HIDE DEF g
          <6>1. QED BY <1>2, <5>1
        <5>3. g[at] = E(at, f)
          <6>1. at # c => at \in a .. n
            BY <1>1, <4>1
          <6>2. QED BY <4>2, <6>1
        <5>4. QED BY <5>2, <5>3
      <4>4. g = [at \in c .. n |-> E(at, g)]
        BY <4>3
      <4> HIDE DEF g
      <4>5. T(c, g)
        BY <4>4
      <4>6. m + 1 \in Nat
        OBVIOUS
      <4> HIDE DEF T
      <4>7. QED BY <4>5, <4>6 DEF c
    <3>2. CASE ~(m + 1 <= n)
      BY <3>2
    <3>3. QED BY <3>1, <3>2
  <2>3. P = Nat
    <3>1. P \in SUBSET Nat
      OBVIOUS
    <3> HIDE DEF P
    <3>2. QED BY <2>1, <2>2, <3>1, SetInduction
  <2>4. n \in P
    <3> HIDE DEF P
    <3>1. QED BY <1>1, <2>3
  <2>5. n <= n /\ n - n = 0
    BY <1>1
  <2> HIDE DEF T
  <2>6. QED BY <2>4, <2>5
<1> DEFINE f == CHOOSE f : T(0, f)
<1>4. T(0, f)
  <2> HIDE DEF T
  <2>1. QED BY <1>3
<1>5. ArraysIn(b, methods) = f
  BY DEF ArraysIn, Behind
<1> HIDE DEF f
<1>6. f[k] = E(k, f)
  <2> HIDE DEF E
  <2>1. QED BY <1>1, <1>4
<1>7. QED BY <1>5, <1>6

\* The methods, and that of arrays among them.
LEMMA MethodsRead ==
  ASSUME NEW b \in Bytes, NEW methods, DOMAIN methods = DOMAIN Kinds \cup {"unknown"}
  PROVE  /\ \A kind \in DOMAIN Kinds \ {"array"} : TypesRead(b, methods)[kind] = methods[kind]
         /\ \A k \in Nat : k <= Len(b) =>
              TypesRead(b, methods)["array"][k]
                = ReadArray(b, k, [methods EXCEPT !["array"] = Behind(b, k, ArraysIn(b, methods))])
         /\ \A k \in Nat : \A at \in Nat : k < at /\ at <= Len(b) =>
              Behind(b, k, ArraysIn(b, methods))[at] = TypesRead(b, methods)["array"][at]
<1> DEFINE n == Len(b)
           a == ArraysIn(b, methods)
           m == [at \in Int |-> IF at \in 0 .. n THEN a[at] ELSE Fail(Cursor(at, Null))]
<1>1. n \in Nat
  BY LenProperties DEF Bytes
<1>2. "array" \in DOMAIN methods /\ DOMAIN Kinds \subseteq DOMAIN methods
  BY DEF Kinds
<1>3. TypesRead(b, methods) = [methods EXCEPT !["array"] = m]
  BY DEF TypesRead
<1>4. \A k \in Nat : k <= n => m[k] = a[k]
  <2> HIDE DEF a, n
  <2>1. QED BY <1>1
<1>5. \A k \in Nat : k <= n =>
        a[k] = ReadArray(b, k, [methods EXCEPT !["array"] = Behind(b, k, a)])
  BY ArraysRecursion
<1>6. \A k \in Nat : \A at \in Nat : k < at /\ at <= n => Behind(b, k, a)[at] = a[at]
  <2> HIDE DEF a, n
  <2>1. SUFFICES ASSUME NEW k \in Nat, NEW at \in Nat, k < at, at <= n
                 PROVE  Behind(b, k, a)[at] = a[at]
    OBVIOUS
  <2>2. at \in Int /\ at \in k + 1 .. n
    BY <1>1, <2>1
  <2>3. QED BY <2>2 DEF Behind, n
<1> HIDE DEF a, m, n
<1>7. TypesRead(b, methods)["array"] = m
  BY <1>2, <1>3
<1>8. \A kind \in DOMAIN Kinds \ {"array"} : TypesRead(b, methods)[kind] = methods[kind]
  BY <1>2, <1>3
<1>9. \A k \in Nat : k <= n =>
        TypesRead(b, methods)["array"][k]
          = ReadArray(b, k, [methods EXCEPT !["array"] = Behind(b, k, a)])
  BY <1>4, <1>5, <1>7
<1>10. \A k \in Nat : \A at \in Nat : k < at /\ at <= n =>
         Behind(b, k, a)[at] = TypesRead(b, methods)["array"][at]
  BY <1>4, <1>6, <1>7
<1>11. QED BY <1>8, <1>9, <1>10 DEF a, n

\* A value that is sent has a length, and the server makes the same of it wherever
\* it is.
LEMMA ValueSeen ==
  ASSUME NEW kind, NEW v, NEW err, Sent(kind, v, err)
  PROVE  /\ WriteKind(kind, v, err) \in Bytes
         /\ (IF kind = "null" THEN 0 ELSE 1) <= Len(WriteKind(kind, v, err))
         /\ \A b \in Bytes : \A k : At(b, k, WriteKind(kind, v, err)) =>
              ServerScalars(b)[kind][k] = Cursor(k + Len(WriteKind(kind, v, err)), Seen(kind, v, err))
         /\ Fits(kind, v) => Seen(kind, v, err) = AtServer(kind, v)
<1> DEFINE w == WriteKind(kind, v, err)
<1>1. w \in Bytes
  BY KindBytes DEF Sent
<1>2. At(w, 0, w)
  <2> HIDE DEF w
  <2>1. QED BY <1>1, AtStart
<1>3. Fits(kind, v) => Seen(kind, v, err) = AtServer(kind, v)
  <2>1. Fits(kind, v) => ServerScalars(w)[kind][0] = Cursor(0 + Len(w), AtServer(kind, v))
    BY <1>1, <1>2, ValueAtServer
  <2>2. QED BY <2>1 DEF Seen, Cursor
<1>4. /\ (IF kind = "null" THEN 0 ELSE 1) <= Len(w)
      /\ \A b \in Bytes : \A k : At(b, k, w) =>
           ServerScalars(b)[kind][k] = Cursor(k + Len(w), Seen(kind, v, err))
  <2>1. CASE kind \in FixedKinds
    <3>1. Len(w) = WidthOf(kind) /\ Len(w) >= 1 /\ kind # "null"
      BY <2>1, FixedBytes DEF FixedKinds
    <3> HIDE DEF w
    <3>2. ServerScalars(w)[kind][0] = Cursor(0 + Len(w), Decoded(kind, w))
      BY <1>1, <1>2, <2>1, <3>1, FixedAt
    <3>3. Seen(kind, v, err) = Decoded(kind, w)
      BY <3>2 DEF Seen, Cursor, w
    <3>4. QED BY <1>1, <2>1, <3>1, <3>3, FixedAt
  <2>2. CASE kind \in {"string", "varbinary"}
    <3>1. IsValue(v) /\ WritesKind(kind, v) /\ (kind = "varbinary" => HasLength(v)) /\ kind # "null"
      BY <2>2 DEF Sent
    <3>2. ServerScalars(w)[kind][0] = Cursor(0 + Len(w), Contents(kind, v)) /\ Len(w) >= 1
      BY <1>1, <1>2, <2>2, <3>1, BytesAtServer
    <3>3. Seen(kind, v, err) = Contents(kind, v)
      BY <3>2 DEF Seen, Cursor
    <3>4. \A b \in Bytes : \A k : At(b, k, w) =>
            ServerScalars(b)[kind][k] = Cursor(k + Len(w), Contents(kind, v))
      BY <2>2, <3>1, BytesAtServer
    <3>5. 1 <= Len(w)
      <4>1. Len(w) \in Nat
        BY <1>1, LenProperties DEF Bytes
      <4> HIDE DEF w
      <4>2. QED BY <3>2, <4>1
    <3> HIDE DEF w
    <3>6. QED BY <3>1, <3>3, <3>4, <3>5
  <2>3. CASE kind = "null"
    <3>1. Fits(kind, v)
      BY <2>3 DEF Fits
    <3>2. \A b \in Bytes : \A k : At(b, k, w) =>
            ServerScalars(b)[kind][k] = Cursor(k + Len(w), AtServer(kind, v))
      BY <3>1, ValueAtServer
    <3>3. (IF kind = "null" THEN 0 ELSE 1) <= Len(w)
      BY <1>1, <1>2, <3>1, ValueAtServer
    <3> HIDE DEF w
    <3>4. QED BY <1>3, <3>1, <3>2, <3>3
  <2>4. QED BY <2>1, <2>2, <2>3 DEF Sent, ValueKinds, FixedKinds
<1>5. QED BY <1>1, <1>3, <1>4

\* From the innermost values of a parameter outwards.
ThereSteps(type, value, becomes, g) ==
  \A k \in 0 .. Len(type) - 1 :
    g[k] = [v \in Parts(value, Len(type) - 1)[k] |->
              IF k = Len(type) - 1 THEN becomes[v]
              ELSE List([i \in 1 .. Len(v[2]) |-> g[k + 1][v[2][i]]])]

\* What becomes of a parameter.
LEMMA ThereRecursion ==
  ASSUME NEW type, Len(type) \in Nat \ {0}, NEW value, NEW becomes
  PROVE  \E g : Outwards(type, value, becomes) = g[0][value] /\ ThereSteps(type, value, becomes, g)
<1> DEFINE n == Len(type) - 1
           E(k, below) ==
             [v \in Parts(value, n)[k] |->
                IF k = n THEN becomes[v]
                ELSE List([i \in 1 .. Len(v[2]) |-> below[v[2][i]]])]
           T(a, f) == f = [k \in a .. n |-> E(k, f[k + 1])]
           P == {m \in Nat : m <= n => \E f : T(n - m, f)}
<1>1. n \in Nat
  OBVIOUS
<1>2. \A x, y : E(n, x) = E(n, y)
  OBVIOUS
<1>3. \E f : T(0, f)
  <2> HIDE DEF E, n
  <2>1. 0 \in P
    <3> DEFINE f == [k \in n .. n |-> E(k, 0)]
    <3>1. n - 0 = n /\ \A k \in n .. n : k = n
      BY <1>1
    <3>2. f = [k \in n .. n |-> E(k, f[k + 1])]
      BY <1>2, <3>1
    <3> HIDE DEF f
    <3>3. T(n - 0, f)
      BY <3>1, <3>2
    <3>4. QED BY <3>3
  <2>2. ASSUME NEW m \in P PROVE m + 1 \in P
    <3>1. CASE m + 1 <= n
      <4> DEFINE a == n - m
                 b == n - (m + 1)
      <4>1. a \in Nat /\ b \in Nat /\ a = b + 1 /\ b < n /\ a <= n
        BY <1>1, <3>1
      <4>2. PICK f : T(a, f)
        <5>1. m <= n
          BY <1>1, <3>1
        <5> HIDE DEF T
        <5>2. QED BY <5>1
      <4> DEFINE g == [k \in b .. n |-> IF k = b THEN E(k, f[k + 1]) ELSE f[k]]
      <4> HIDE DEF a, b
      <4>3. ASSUME NEW k \in b .. n
            PROVE  g[k] = E(k, g[k + 1])
        <5>1. CASE k = n
          <6>1. k \in a .. n /\ k # b
            BY <4>1, <5>1
          <6>2. g[k] = E(k, f[k + 1])
            BY <4>2, <6>1
          <6>3. QED BY <1>2, <5>1, <6>2
        <5>2. CASE k # n
          <6>1. k + 1 \in a .. n /\ k + 1 \in b .. n /\ k + 1 # b /\ (k # b => k \in a .. n)
            BY <1>1, <4>1, <5>2
          <6>2. g[k + 1] = f[k + 1]
            BY <6>1
          <6>3. g[k] = E(k, f[k + 1])
            BY <4>2, <6>1
          <6>4. QED BY <6>2, <6>3
        <5>3. QED BY <5>1, <5>2
      <4>4. g = [k \in b .. n |-> E(k, g[k + 1])]
        BY <4>3
      <4> HIDE DEF g
      <4>5. T(b, g)
        BY <4>4
      <4>6. m + 1 \in Nat
        OBVIOUS
      <4> HIDE DEF T
      <4>7. QED BY <4>5, <4>6 DEF b
    <3>2. CASE ~(m + 1 <= n)
      BY <3>2
    <3>3. QED BY <3>1, <3>2
  <2>3. P = Nat
    <3>1. P \in SUBSET Nat
      OBVIOUS
    <3> HIDE DEF P
    <3>2. QED BY <2>1, <2>2, <3>1, SetInduction
  <2>4. n \in P
    <3> HIDE DEF P
    <3>1. QED BY <1>1, <2>3
  <2>5. n <= n /\ n - n = 0
    BY <1>1
  <2> HIDE DEF T
  <2>6. QED BY <2>4, <2>5
<1> DEFINE f == CHOOSE f : T(0, f)
<1>4. T(0, f)
  <2> HIDE DEF T
  <2>1. QED BY <1>3
<1>5. Outwards(type, value, becomes) = f[0][value]
  BY DEF Outwards
<1> HIDE DEF f
<1>6. ASSUME NEW k \in 0 .. n PROVE f[k] = E(k, f[k + 1])
  <2> HIDE DEF E, n
  <2>1. QED BY <1>4
<1>7. ThereSteps(type, value, becomes, f)
  BY <1>6 DEF ThereSteps
<1>8. QED BY <1>5, <1>7

\* The kind of what is so many levels down in an array.
KindAt(type, k) == IF k = 0 \/ type[k] = "array" THEN "array" ELSE KindOf[type[k]]

\* An array that writeArray accepts, and that displaces nothing.
ArraySent(type, value, err) ==
  /\ IsType(type) /\ WritesArray(type, value) /\ err \in LogErrors
  /\ \A k \in 0 .. Len(type) : \A v \in Parts(value, Len(type))[k] : IsValue(v)
  /\ type[Len(type)] # "tinyint"
  /\ KindOf[type[Len(type)]] = "varbinary" =>
       \A v \in Parts(value, Len(type))[Len(type)] : HasLength(v)

\* What the server makes of the parts of an array of this type.
ArraysThere(type, value, err, g) ==
  \A k \in 0 .. Len(type) :
    g[k] = [v \in Parts(value, Len(type))[k] |->
              IF k = Len(type) THEN Seen(KindOf[type[Len(type)]], v, err)
              ELSE List([i \in 1 .. Len(v[2]) |-> g[k + 1][v[2][i]]])]

\* What the server reads of a part of an array, wherever it is.
PartRead(b, kind, w, x) ==
  /\ w \in Bytes /\ (IF kind = "null" THEN 0 ELSE 1) <= Len(w)
  /\ \A at \in Nat : At(b, at, w) =>
       TypesRead(b, ServerScalars(b))[kind][at] = Cursor(at + Len(w), x)

\* A part that is an array, from its elements.
LEMMA PartAt ==
  ASSUME NEW b \in Bytes, NEW kind, kind \in ValueKinds \cup {"array"},
         NEW n \in Nat, n <= Most(LengthKind(kind)), NEW ss, NEW v,
         ss = [i \in 1 .. n |-> ss[i]], v = [i \in 1 .. n |-> v[i]],
         \A i \in 1 .. n : PartRead(b, kind, ss[i], v[i])
  PROVE  PartRead(b, "array", ArrayOf(kind, n, FlattenSeq(ss)), List(v))
<1> DEFINE S == ServerScalars(b)
           f == FlattenSeq(ss)
           w == ArrayOf(kind, n, f)
           least == IF kind = "null" THEN 0 ELSE 1
<1>1. kind \in DOMAIN Kinds /\ DOMAIN S = DOMAIN Kinds \cup {"unknown"}
  BY DEF Kinds, ValueKinds, ServerScalars
<1>2. \A i \in 1 .. n : ss[i] \in Bytes /\ least <= Len(ss[i])
  BY DEF PartRead
<1>3. ss \in [1 .. n -> Bytes]
  BY <1>2
<1>4. f \in Bytes
  <2>1. \A i \in 1 .. n : ss[i] \in Seq(Byte)
    BY <1>2 DEF Bytes
  <2>2. QED BY <2>1, FlattenedFamily DEF Bytes
<1> HIDE DEF S, f, least
<1>5. \A k \in DOMAIN Kinds \ {"array"} : TypesRead(b, S)[k] = S[k]
  BY <1>1, MethodsRead
<1>6. /\ \A k \in Nat : k <= Len(b) =>
           TypesRead(b, S)["array"][k]
             = ReadArray(b, k, [S EXCEPT !["array"] = Behind(b, k, ArraysIn(b, S))])
      /\ \A k \in Nat : \A at \in Nat : k < at /\ at <= Len(b) =>
           Behind(b, k, ArraysIn(b, S))[at] = TypesRead(b, S)["array"][at]
  BY <1>1, MethodsRead
<1>7. ASSUME NEW k \in Nat, NEW methods,
             \A at \in Nat : k < at /\ at <= Len(b) => methods[kind][at] = TypesRead(b, S)[kind][at],
             \A i \in 1 .. n : \A at \in Nat : At(b, at, ss[i]) =>
               TypesRead(b, S)[kind][at] = Cursor(at + Len(ss[i]), v[i])
      PROVE  GoodElements(b, k, kind, methods[kind], n, ss, v)
  <2>1. ASSUME NEW p \in Nat, k < p
        PROVE  Elements(b, p, ss, methods[kind], n, v, least)
    <3> DEFINE e == Each(n, methods[kind])
    <3>1. Len(e) = n /\ \A i \in 1 .. n : e[i] = methods[kind]
      BY DEF Each
    <3> HIDE DEF e
    <3>2. ASSUME NEW i \in 1 .. n, NEW at \in Nat, p <= at, At(b, at, ss[i])
          PROVE  e[i][at] = Cursor(at + Len(ss[i]), v[i])
      <4>1. k < at
        BY <2>1, <3>2
      <4>2. at <= Len(b)
        <5>1. at + Len(ss[i]) <= Len(b) /\ Len(ss[i]) \in Nat /\ Len(b) \in Nat
          BY <1>2, <1>7, <3>2, LenProperties DEF At, Bytes
        <5>2. QED BY <5>1
      <4>3. methods[kind][at] = Cursor(at + Len(ss[i]), v[i])
        BY <1>7, <3>2, <4>1, <4>2
      <4>4. QED BY <3>1, <4>3
    <3>3. ReadsWhat(b, p, ss, e, n, v)
      BY <1>3, <3>1, <3>2 DEF ReadsWhat
    <3>4. least \in Nat
      BY DEF least
    <3>5. QED BY <1>2, <3>3, <3>4 DEF Elements, e
  <2>2. QED BY <1>1, <2>1 DEF GoodElements, least
<1>8. ASSUME NEW k \in Nat, At(b, k, w)
      PROVE  TypesRead(b, S)["array"][k] = Cursor(k + Len(w), List(v)) /\ 1 <= Len(w)
  <2> DEFINE methods == [S EXCEPT !["array"] = Behind(b, k, ArraysIn(b, S))]
  <2>1. \A at \in Nat : k < at /\ at <= Len(b) => methods[kind][at] = TypesRead(b, S)[kind][at]
    <3>1. CASE kind = "array"
      <4>1. methods[kind] = Behind(b, k, ArraysIn(b, S))
        BY <1>1, <3>1
      <4>2. QED BY <1>6, <3>1, <4>1
    <3>2. CASE kind # "array"
      <4>1. methods[kind] = S[kind] /\ TypesRead(b, S)[kind] = S[kind]
        BY <1>1, <1>5, <3>2
      <4>2. QED BY <4>1
    <3>3. QED BY <3>1, <3>2
  <2> HIDE DEF methods
  <2>2. GoodElements(b, k, kind, methods[kind], n, ss, v)
    <3>1. \A i \in 1 .. n : \A at \in Nat : At(b, at, ss[i]) =>
            TypesRead(b, S)[kind][at] = Cursor(at + Len(ss[i]), v[i])
      BY DEF PartRead, S
    <3>2. QED BY <1>7, <2>1, <3>1
  <2>3. ReadArray(b, k, methods) = Cursor(k + Len(w), List(v)) /\ 1 <= Len(w)
    BY <1>4, <1>8, <2>2, OneArrayAt DEF f
  <2>4. k <= Len(b)
    BY <1>8 DEF At
  <2>5. QED BY <1>6, <2>3, <2>4 DEF methods
<1>9. w \in Bytes /\ 1 <= Len(w)
  <2> DEFINE l == LengthKind(kind)
             x == WriteByte(Kinds[kind])
             y == WriteInteger(l, Number(n))
  <2>1. Kinds[kind] \in Int /\ l \in {"byte", "short", "int"} /\ n \in Int
    BY <1>1 DEF Kinds, LengthKind
  <2>2. x \in Bytes /\ Len(x) = 1 /\ y \in Bytes
    BY <2>1, ByteBytes, CountBytes
  <2>3. w = x \o y \o f
    BY DEF ArrayOf
  <2> HIDE DEF x, y, w
  <2>4. x \o y \in Bytes /\ Len(x \o y) = Len(x) + Len(y) /\ Len(y) \in Nat
    BY <2>2, Concatenated
  <2>5. w \in Bytes /\ Len(w) = Len(x \o y) + Len(f) /\ Len(f) \in Nat
    BY <1>4, <2>3, <2>4, Concatenated
  <2>6. QED BY <2>2, <2>4, <2>5
<1> HIDE DEF w
<1>10. PartRead(b, "array", w, List(v))
  <2>1. \A at \in Nat : At(b, at, w) =>
          TypesRead(b, ServerScalars(b))["array"][at] = Cursor(at + Len(w), List(v))
    BY <1>8 DEF S
  <2>2. (IF "array" = "null" THEN 0 ELSE 1) = 1
    OBVIOUS
  <2>3. QED BY <1>9, <2>1, <2>2 DEF PartRead
<1>11. QED BY <1>10 DEF w, f

\* One that is not.
LEMMA ValueRead ==
  ASSUME NEW b \in Bytes, NEW kind, NEW v, NEW err, Sent(kind, v, err)
  PROVE  PartRead(b, kind, WriteKind(kind, v, err), Seen(kind, v, err))
<1> DEFINE w == WriteKind(kind, v, err)
           S == ServerScalars(b)
<1>1. kind \in DOMAIN Kinds \ {"array"} /\ DOMAIN S = DOMAIN Kinds \cup {"unknown"}
  BY DEF Sent, ValueKinds, Kinds, ServerScalars
<1>2. w \in Bytes /\ (IF kind = "null" THEN 0 ELSE 1) <= Len(w)
  BY ValueSeen
<1>3. \A at \in Nat : At(b, at, w) => S[kind][at] = Cursor(at + Len(w), Seen(kind, v, err))
  BY ValueSeen
<1> HIDE DEF S, w
<1>4. TypesRead(b, S)[kind] = S[kind]
  BY <1>1, MethodsRead
<1>5. PartRead(b, kind, w, Seen(kind, v, err))
  BY <1>2, <1>3, <1>4 DEF PartRead, S
<1>6. QED BY <1>5 DEF w

\* An array of any depth.
LEMMA ArrayRead ==
  ASSUME NEW b \in Bytes, NEW type, NEW value, NEW err, ArraySent(type, value, err),
         NEW f, ArraySteps(type, value, err, f), NEW g, ArraysThere(type, value, err, g)
  PROVE  PartRead(b, "array", f[0][value], g[0][value])
<1> DEFINE n == Len(type)
           part == Parts(value, n)
           Q == {m \in Nat : m <= n =>
                   \A v \in part[n - m] : PartRead(b, KindAt(type, n - m), f[n - m][v], g[n - m][v])}
<1>1. IsType(type) /\ WritesArray(type, value) /\ err \in LogErrors
      /\ (\A k \in 0 .. n : \A v \in part[k] : IsValue(v)) /\ type[n] # "tinyint"
      /\ (KindOf[type[n]] = "varbinary" => \A v \in part[n] : HasLength(v))
  BY DEF ArraySent
<1>2. n \in Nat /\ n >= 1 /\ \A k \in 1 .. n - 1 : type[k] = "array"
  BY <1>1, LenProperties, EmptySeq DEF IsType
<1>3. /\ part[0] = {value}
      /\ \A k \in 1 .. n :
           part[k] = UNION {ToSet(v[2]) : v \in {w \in part[k - 1] : w[1] = "list"}}
  <2> HIDE DEF n
  <2>1. QED BY <1>2, PartsRecursion
<1>4. /\ \A k \in 1 .. n : \A v \in part[k - 1] :
           v[1] = "list" /\ Countable(LengthKind(type[k]), Len(v[2]))
      /\ part[n - 1] # {} => type[n] \in DOMAIN KindOf \cup {"array"}
      /\ \A v \in part[n] : type[n] # "array" /\ WritesKind(KindOf[type[n]], v)
  BY <1>1 DEF WritesArray
<1>5. \A k \in 0 .. n :
        f[k] = [v \in part[k] |->
                  IF k = n THEN WriteKind(KindOf[type[n]], v, err)
                  ELSE WriteByte(IF type[k + 1] = "array" THEN Kinds.array ELSE TypeCode(type[k + 1]))
                         \o WriteInteger(LengthKind(type[k + 1]), Number(Len(v[2])))
                         \o FlattenSeq([i \in 1 .. Len(v[2]) |-> f[k + 1][v[2][i]]])]
  BY DEF ArraySteps
<1>6. \A k \in 0 .. n :
        g[k] = [v \in part[k] |->
                  IF k = n THEN Seen(KindOf[type[n]], v, err)
                  ELSE List([i \in 1 .. Len(v[2]) |-> g[k + 1][v[2][i]]])]
  BY DEF ArraysThere
<1>7. (type[n] # "array" => KindAt(type, n) = KindOf[type[n]])
      /\ \A k \in 0 .. n - 1 : KindAt(type, k) = "array"
  BY <1>2 DEF KindAt
<1> HIDE DEF n, part
<1>8. 0 \in Q
  <2>1. ASSUME NEW v \in part[n] PROVE PartRead(b, KindAt(type, n), f[n][v], g[n][v])
    <3> DEFINE kind == KindOf[type[n]]
    <3>1. part[n - 1] # {}
      <4>1. n \in 1 .. n
        BY <1>2
      <4>2. QED BY <1>3, <2>1, <4>1
    <3>2. type[n] \in DOMAIN KindOf /\ WritesKind(kind, v)
      BY <1>4, <2>1, <3>1
    <3>3. n \in 0 .. n
      BY <1>2
    <3>4. IsValue(v) /\ (kind = "varbinary" => HasLength(v))
      BY <1>1, <2>1, <3>3
    <3>5. kind \in ValueKinds
      BY <3>2, KindsOfNames
    <3>6. f[n][v] = WriteKind(kind, v, err) /\ g[n][v] = Seen(kind, v, err) /\ KindAt(type, n) = kind
      BY <1>4, <1>5, <1>6, <1>7, <2>1, <3>3
    <3> HIDE DEF kind
    <3>7. Sent(kind, v, err)
      BY <1>1, <3>2, <3>4, <3>5 DEF Sent
    <3>8. QED BY <3>6, <3>7, ValueRead
  <2>2. n - 0 = n
    BY <1>2
  <2>3. QED BY <2>1, <2>2
<1>9. ASSUME NEW m \in Q PROVE m + 1 \in Q
  <2>1. CASE m + 1 <= n
    <3> DEFINE k == n - (m + 1)
    <3>1. /\ k \in 0 .. n /\ k \in Nat /\ k + 1 = n - m /\ k + 1 \in 1 .. n /\ k # n /\ k + 1 - 1 = k
          /\ k \in 0 .. n - 1
      BY <1>2, <2>1
    <3> DEFINE kind == KindAt(type, k + 1)
               name == type[k + 1]
    <3>2. \A v \in part[k + 1] : PartRead(b, kind, f[k + 1][v], g[k + 1][v])
      <4>1. \A v \in part[n - m] : PartRead(b, KindAt(type, n - m), f[n - m][v], g[n - m][v])
        BY <1>2, <2>1
      <4>2. QED BY <3>1, <4>1
    <3> HIDE DEF k, Q
    <3>3. kind = (IF name = "array" THEN "array" ELSE KindOf[name])
      BY <3>1 DEF KindAt
    <3>4. ASSUME NEW v \in part[k]
          PROVE  name \in DOMAIN KindOf \cup {"array"} /\ name # "tinyint"
      <4>1. CASE k + 1 = n
        <5>1. part[n - 1] # {} /\ k = n - 1
          BY <1>2, <3>1, <3>4, <4>1
        <5>2. QED BY <1>1, <1>4, <4>1, <5>1 DEF n
      <4>2. CASE k + 1 # n
        <5>1. k + 1 \in 1 .. n - 1
          BY <1>2, <3>1, <4>2
        <5>2. QED BY <1>2, <5>1
      <4>3. QED BY <4>1, <4>2
    <3>5. ASSUME NEW v \in part[k]
          PROVE  /\ kind \in ValueKinds \cup {"array"} /\ LengthKind(name) = LengthKind(kind)
                 /\ Kinds[kind] = IF name = "array" THEN Kinds.array ELSE TypeCode(name)
      <4>1. name \in DOMAIN KindOf \cup {"array"} /\ name # "tinyint"
        BY <3>4, <3>5
      <4>2. CASE name = "array"
        BY <3>3, <4>2
      <4>3. CASE name # "array"
        <5>1. kind = KindOf[name] /\ name \in DOMAIN KindOf
          BY <3>3, <4>1, <4>3
        <5> HIDE DEF kind, name
        <5>2. kind \in ValueKinds /\ Kinds[kind] = TypeCode(name)
          BY <5>1, KindsOfNames DEF TypeCode
        <5>3. LengthKind(name) = LengthKind(kind)
          BY <4>1, <5>1 DEF LengthKind, KindOf
        <5>4. QED BY <4>3, <5>2, <5>3
      <4>4. QED BY <4>2, <4>3
    <3> HIDE DEF kind, name
    <3>6. ASSUME NEW v \in part[k]
          PROVE  PartRead(b, "array", f[k][v], g[k][v])
      <4> DEFINE l == v[2]
                 c == Len(l)
                 ss == [i \in 1 .. c |-> f[k + 1][l[i]]]
                 x == [i \in 1 .. c |-> g[k + 1][l[i]]]
      <4>1. v[1] = "list" /\ IsValue(v) /\ Countable(LengthKind(name), c)
        BY <1>1, <1>4, <3>1, <3>6 DEF name
      <4>2. l \in Seq(ToSet(l)) /\ c \in Nat /\ \A i \in 1 .. c : l[i] \in ToSet(l)
        BY <4>1, ValueContents, LenProperties, ElementOfSeq
      <4>3. \A i \in 1 .. c : l[i] \in part[k + 1]
        BY <1>3, <3>1, <3>6, <4>1, <4>2
      <4>4. \A i \in 1 .. c : PartRead(b, kind, ss[i], x[i])
        BY <3>2, <4>3
      <4>5. g[k][v] = List(x)
        BY <1>6, <3>1, <3>6
      <4>6. f[k][v] = ArrayOf(kind, c, FlattenSeq(ss))
        <5>1. f[k][v] = WriteByte(IF name = "array" THEN Kinds.array ELSE TypeCode(name))
                          \o WriteInteger(LengthKind(name), Number(c)) \o FlattenSeq(ss)
          BY <1>5, <3>1, <3>6 DEF name
        <5>2. /\ Kinds[kind] = IF name = "array" THEN Kinds.array ELSE TypeCode(name)
              /\ LengthKind(name) = LengthKind(kind)
          BY <3>5, <3>6
        <5> HIDE DEF ss, c
        <5>3. QED BY <5>1, <5>2 DEF ArrayOf
      <4>7. ss = [i \in 1 .. c |-> ss[i]] /\ x = [i \in 1 .. c |-> x[i]]
        OBVIOUS
      <4> HIDE DEF l, c, ss, x
      <4>8. kind \in ValueKinds \cup {"array"} /\ c <= Most(LengthKind(kind))
        <5>1. LengthKind(name) = LengthKind(kind) /\ kind \in ValueKinds \cup {"array"}
          BY <3>5, <3>6
        <5>2. LengthKind(kind) \in {"byte", "short", "int"}
          BY DEF LengthKind
        <5>3. Countable(LengthKind(kind), c)
          BY <4>1, <5>1
        <5>4. QED BY <4>2, <5>1, <5>2, <5>3, CountableRange
      <4>9. PartRead(b, "array", ArrayOf(kind, c, FlattenSeq(ss)), List(x))
        BY <4>2, <4>4, <4>7, <4>8, PartAt
      <4>10. QED BY <4>5, <4>6, <4>9
    <3>7. ASSUME NEW v \in part[k] PROVE KindAt(type, k) = "array"
      <4>1. k \in 0 .. n - 1
        BY <3>1
      <4>2. QED BY <1>7, <4>1
    <3>8. m + 1 \in Nat /\ \A v \in part[n - (m + 1)] :
            PartRead(b, KindAt(type, n - (m + 1)), f[n - (m + 1)][v], g[n - (m + 1)][v])
      BY <3>6, <3>7 DEF k, Q
    <3>9. QED BY <3>8 DEF Q
  <2>2. CASE ~(m + 1 <= n)
    BY <2>2
  <2>3. QED BY <2>1, <2>2
<1>10. Q = Nat
  <2>1. Q \in SUBSET Nat
    OBVIOUS
  <2> HIDE DEF Q
  <2>2. QED BY <1>8, <1>9, <2>1, SetInduction
<1>11. n \in Q
  <2> HIDE DEF Q
  <2>1. QED BY <1>2, <1>10
<1>12. n <= n /\ n - n = 0 /\ 0 \in 0 .. n - 1
  BY <1>2
<1>13. QED BY <1>3, <1>7, <1>11, <1>12

-----------------------------------------------------------------------------
(* A query *)

\* What the server makes of a parameter at each place of the buffer.
ServerParameter(b) ==
  [at \in Int |->
     LET type == ReadInteger(b, Cursor(at, Null), "byte")
     IN  Call(TypesRead(b, ServerScalars(b))[KindCoded(type.value)], type)]

\* A value behind the code of its kind.
Coded(b, kind, y, x, w) ==
  kind \in DOMAIN Kinds /\ PartRead(b, kind, y, x) /\ w = WriteByte(Kinds[kind]) \o y

\* It is read, whatever its kind.
LEMMA CodedAt ==
  ASSUME NEW b \in Bytes, NEW kind, NEW y, NEW x, NEW w, Coded(b, kind, y, x, w)
  PROVE  /\ w \in Bytes /\ 1 <= Len(w)
         /\ \A at \in Nat : At(b, at, w) => ServerParameter(b)[at] = Cursor(at + Len(w), x)
<1> DEFINE m == Number(Kinds[kind])
           h == WriteByte(Kinds[kind])
           S == TypesRead(b, ServerScalars(b))
<1>0. kind \in DOMAIN Kinds /\ PartRead(b, kind, y, x) /\ w = h \o y
  BY DEF Coded
<1>1. y \in Bytes /\ \A at \in Nat : At(b, at, y) => S[kind][at] = Cursor(at + Len(y), x)
  BY <1>0 DEF PartRead
<1>2. m \in Numbers("byte") /\ KindCoded(m) = kind /\ Kinds[kind] \in Int
  BY <1>0, CodeKnown DEF Kinds
<1>3. h = WriteInteger("byte", m) /\ Width["byte"] = 1
  BY DEF WriteByte, Width
<1>4. h \in Bytes /\ Len(h) = 1
  BY <1>2, ByteBytes
<1>5. w = h \o y /\ Len(b) \in Nat
  BY <1>0, LenProperties DEF Bytes
<1> HIDE DEF m, h, S
<1>6. w \in Bytes /\ Len(w) = 1 + Len(y) /\ Len(y) \in Nat
  BY <1>1, <1>4, <1>5, Concatenated
<1>7. ASSUME NEW at \in Nat, At(b, at, w)
      PROVE  ServerParameter(b)[at] = Cursor(at + Len(w), x)
  <2>1. At(b, at, h \o y)
    BY <1>5, <1>7
  <2>2. At(b, at, h) /\ At(b, at + Len(h), y)
    BY <1>1, <1>4, <1>5, <2>1, AtEach
  <2>3. m \in {Null} \cup Numbers("byte") /\ At(b, at, WriteInteger("byte", m))
    BY <1>2, <1>3, <2>2
  <2> DEFINE c == Cursor(at + 1, m)
  <2>4. ReadInteger(b, Cursor(at, Null), "byte") = Cursor(at + Width["byte"], m)
    BY <2>3, IntegerAt
  <2>5. ReadInteger(b, Cursor(at, Null), "byte") = c
    BY <1>3, <2>4
  <2>6. c.value = m /\ c.at = at + 1 /\ c.ok
    BY DEF Cursor
  <2> HIDE DEF c
  <2>7. ServerParameter(b)[at] = Call(S[KindCoded(c.value)], c)
    BY <2>5 DEF ServerParameter, S
  <2>8. ServerParameter(b)[at] = S[kind][at + 1]
    BY <1>2, <2>6, <2>7 DEF Call
  <2>9. S[kind][at + 1] = Cursor(at + 1 + Len(y), x)
    BY <1>1, <1>4, <2>2
  <2>10. at + 1 + Len(y) = at + Len(w)
    BY <1>6
  <2>11. QED BY <2>8, <2>9, <2>10
<1>8. 1 <= Len(w)
  BY <1>6
<1>9. QED BY <1>6, <1>7, <1>8

\* A parameter that is accepted, and displaces nothing.
ParameterSent(type, value, err) ==
  /\ IsType(type) /\ CheckType(type, value) /\ ~Displaces(type, value) /\ err \in LogErrors
  /\ \A k \in 0 .. Len(type) - 1 : \A v \in Parts(value, Len(type) - 1)[k] : IsValue(v)
  /\ IF type[1] = "array" THEN WritesArray(Tail(type), value)
     ELSE WritesKind(KindOf[type[1]], value)

\* What the server makes of it, and of its innermost values.
SeenParts(type, value, err) ==
  [v \in Innermost(type, value) |-> Seen(KindOf[Last(type)], v, err)]
SeenParameter(type, value, err) == Outwards(type, value, SeenParts(type, value, err))
LEMMA ParameterAt ==
  ASSUME NEW b \in Bytes, NEW type, NEW value, NEW err, ParameterSent(type, value, err)
  PROVE  /\ WriteParameter(type, value, err) \in Bytes /\ 1 <= Len(WriteParameter(type, value, err))
         /\ \A at \in Nat : At(b, at, WriteParameter(type, value, err)) =>
              ServerParameter(b)[at]
                = Cursor(at + Len(WriteParameter(type, value, err)), SeenParameter(type, value, err))
<1> DEFINE n == Len(type) - 1
           w == WriteParameter(type, value, err)
<1>1. /\ IsType(type) /\ CheckType(type, value) /\ ~Displaces(type, value) /\ err \in LogErrors
      /\ \A k \in 0 .. n : \A v \in Parts(value, n)[k] : IsValue(v)
      /\ IF type[1] = "array" THEN WritesArray(Tail(type), value)
         ELSE WritesKind(KindOf[type[1]], value)
  BY DEF ParameterSent
<1>2. type \in Seq(STRING) /\ Len(type) \in Nat \ {0} /\ \A k \in 1 .. Len(type) - 1 : type[k] = "array"
  BY <1>1, LenProperties, EmptySeq DEF IsType
<1>3. n \in Nat /\ Last(type) = type[n + 1] /\ 0 \in 0 .. n
  BY <1>2 DEF Last
<1> DEFINE becomes == SeenParts(type, value, err)
<1>4. /\ n > 0 => Last(type) # "tinyint"
      /\ Last(type) = "varbinary" => \A v \in Parts(value, n)[n] : HasLength(v)
      /\ becomes = [v \in Parts(value, n)[n] |-> Seen(KindOf[Last(type)], v, err)]
  <2>1. Innermost(type, value) = Parts(value, n)[n]
    BY DEF Innermost
  <2>2. n > 0 => Len(type) > 1
    BY <1>2
  <2> HIDE DEF n
  <2>3. QED BY <1>1, <2>1, <2>2 DEF Displaces, SeenParts
<1>5. PICK g : SeenParameter(type, value, err) = g[0][value] /\ ThereSteps(type, value, becomes, g)
  <2> HIDE DEF becomes
  <2>1. \E g : Outwards(type, value, becomes) = g[0][value] /\ ThereSteps(type, value, becomes, g)
    BY <1>2, ThereRecursion
  <2>2. SeenParameter(type, value, err) = Outwards(type, value, becomes)
    BY DEF SeenParameter, becomes
  <2>3. QED BY <2>1, <2>2
<1> HIDE DEF becomes
<1>6. \A k \in 0 .. n :
        g[k] = [v \in Parts(value, n)[k] |->
                  IF k = n THEN Seen(KindOf[Last(type)], v, err)
                  ELSE List([i \in 1 .. Len(v[2]) |-> g[k + 1][v[2][i]]])]
  <2>1. \A k \in 0 .. n :
          g[k] = [v \in Parts(value, n)[k] |->
                    IF k = n THEN becomes[v]
                    ELSE List([i \in 1 .. Len(v[2]) |-> g[k + 1][v[2][i]]])]
    BY <1>5 DEF ThereSteps
  <2>2. \A v \in Parts(value, n)[n] : becomes[v] = Seen(KindOf[Last(type)], v, err)
    BY <1>4
  <2> HIDE DEF n
  <2>3. QED BY <2>1, <2>2
<1>7. Parts(value, n)[0] = {value}
  BY <1>3, PartsRecursion
<1>8. CASE type[1] = "array"
  <2> DEFINE t == Tail(type)
  <2>1. type # <<"array">>
    BY <1>1 DEF CheckType
  <2>2. IsType(t) /\ Len(t) = n
    BY <1>1, <1>8, <2>1, TailType
  <2>3. n >= 1
    BY <2>2, LenProperties, EmptySeq DEF IsType
  <2>4. t[n] = Last(type)
    <3>1. type # <<>> /\ n \in 1 .. Len(t)
      BY <1>1, <2>2, <2>3 DEF IsType
    <3>2. \A i \in 1 .. Len(t) : t[i] = type[i + 1]
      BY <1>2, <3>1, HeadTailProperties
    <3>3. QED BY <1>3, <3>1, <3>2
  <2>5. WritesArray(t, value)
    BY <1>1, <1>8
  <2>6. w = WriteByte(Kinds["array"]) \o WriteArray(t, value, err)
    BY <1>8 DEF WriteParameter
  <2> HIDE DEF t, n, w
  <2>7. ArraySent(t, value, err)
    <3>1. KindOf[t[n]] = "varbinary" => \A v \in Parts(value, n)[n] : HasLength(v)
      <4>1. SUFFICES ASSUME KindOf[t[n]] = "varbinary", NEW v \in Parts(value, n)[n]
                     PROVE  HasLength(v)
        OBVIOUS
      <4>2. t[n] \in DOMAIN KindOf
        <5>1. n \in 1 .. n /\ Parts(value, n)[n] # {}
          BY <1>3, <2>3, <4>1
        <5>2. Parts(value, n)[n] = UNION {ToSet(x[2]) : x \in {u \in Parts(value, n)[n - 1] : u[1] = "list"}}
          BY <1>3, <5>1, PartsRecursion
        <5>3. Parts(value, n)[n - 1] # {} /\ t[n] # "array"
          BY <2>2, <2>5, <4>1, <5>1, <5>2 DEF WritesArray
        <5>4. QED BY <2>2, <2>5, <5>3 DEF WritesArray
      <4>3. t[n] = "varbinary"
        BY <4>1, <4>2 DEF KindOf
      <4>4. QED BY <1>4, <2>4, <4>1, <4>3
    <3>2. QED BY <1>1, <1>4, <2>2, <2>3, <2>4, <2>5, <3>1 DEF ArraySent
  <2>8. ArraysThere(t, value, err, g)
    BY <1>6, <2>2, <2>4 DEF ArraysThere
  <2>9. PICK f : WriteArray(t, value, err) = f[0][value] /\ ArraySteps(t, value, err, f)
    BY <1>3, <2>2, ArrayRecursion
  <2>10. PartRead(b, "array", f[0][value], g[0][value])
    BY <2>7, <2>8, <2>9, ArrayRead
  <2>11. "array" \in DOMAIN Kinds /\ w = WriteByte(Kinds["array"]) \o f[0][value]
    BY <2>6, <2>9 DEF Kinds
  <2>12. /\ w \in Bytes /\ 1 <= Len(w)
         /\ \A at \in Nat : At(b, at, w) => ServerParameter(b)[at] = Cursor(at + Len(w), g[0][value])
    <3>1. Coded(b, "array", f[0][value], g[0][value], w)
      BY <2>10, <2>11 DEF Coded
    <3>2. QED BY <3>1, CodedAt
  <2>13. QED BY <1>5, <2>12 DEF w
<1>9. CASE type[1] # "array"
  <2> DEFINE kind == KindOf[type[1]]
  <2>1. n = 0
    <3>1. n \in Nat /\ \A k \in 1 .. n : type[k] = "array"
      BY <1>2, <1>3
    <3> HIDE DEF n
    <3>2. n >= 1 => 1 \in 1 .. n
      BY <3>1
    <3>3. QED BY <1>9, <3>1, <3>2
  <2>2. Last(type) = type[1]
    <3>1. n + 1 = 1
      BY <2>1
    <3> HIDE DEF n
    <3>2. QED BY <1>3, <3>1
  <2>3. g[0][value] = Seen(kind, value, err)
    <3> HIDE DEF n
    <3>1. g[0] = [v \in Parts(value, n)[0] |->
                    IF 0 = n THEN Seen(KindOf[Last(type)], v, err)
                    ELSE List([i \in 1 .. Len(v[2]) |-> g[0 + 1][v[2][i]]])]
      BY <1>3, <1>6
    <3>2. QED BY <1>7, <2>1, <2>2, <3>1
  <2>4. type[1] \in DOMAIN KindOf
    BY <1>1, <1>9 DEF CheckType
  <2>5. kind \in ValueKinds
    BY <2>4, KindsOfNames
  <2>6. IsValue(value) /\ WritesKind(kind, value) /\ (kind = "varbinary" => HasLength(value))
    <3>1. IsValue(value) /\ WritesKind(kind, value)
      BY <1>1, <1>3, <1>7, <1>9
    <3>2. kind = "varbinary" => type[1] = "varbinary"
      BY <2>4 DEF KindOf
    <3> HIDE DEF n, kind
    <3>3. QED BY <1>4, <1>7, <2>1, <2>2, <3>1, <3>2
  <2>7. w = WriteByte(Kinds[kind]) \o WriteKind(kind, value, err)
    BY <1>9 DEF WriteParameter, TypeCode
  <2> HIDE DEF kind, w
  <2>8. Sent(kind, value, err)
    BY <1>1, <2>5, <2>6 DEF Sent
  <2>9. PartRead(b, kind, WriteKind(kind, value, err), Seen(kind, value, err))
    BY <2>8, ValueRead
  <2>10. kind \in DOMAIN Kinds
    BY <2>5 DEF ValueKinds, Kinds
  <2>11. /\ w \in Bytes /\ 1 <= Len(w)
         /\ \A at \in Nat : At(b, at, w) =>
              ServerParameter(b)[at] = Cursor(at + Len(w), Seen(kind, value, err))
    <3>1. Coded(b, kind, WriteKind(kind, value, err), Seen(kind, value, err), w)
      BY <2>7, <2>9, <2>10 DEF Coded
    <3>2. QED BY <3>1, CodedAt
  <2>12. QED BY <1>5, <2>3, <2>11 DEF w
<1>10. QED BY <1>8, <1>9

\* A parameter that fits its type is seen as it was meant.
LEMMA FittingSeen ==
  ASSUME NEW type, NEW value, NEW err, ParameterSent(type, value, err), FitsType(type, value)
  PROVE  SeenParameter(type, value, err) = TypeAtServer(type, value)
<1> DEFINE kind == KindOf[Last(type)]
           n == Len(type) - 1
<1>1. /\ IsType(type) /\ CheckType(type, value) /\ ~Displaces(type, value) /\ err \in LogErrors
      /\ \A k \in 0 .. n : \A v \in Parts(value, n)[k] : IsValue(v)
      /\ IF type[1] = "array" THEN WritesArray(Tail(type), value)
         ELSE WritesKind(KindOf[type[1]], value)
  BY DEF ParameterSent
<1>2. type \in Seq(STRING) /\ Len(type) \in Nat \ {0} /\ \A k \in 1 .. Len(type) - 1 : type[k] = "array"
  BY <1>1, LenProperties, EmptySeq DEF IsType
<1>3. n \in Nat /\ Last(type) = type[n + 1] /\ 0 \in 0 .. n /\ n \in 0 .. n
  BY <1>2 DEF Last
<1>4. ASSUME NEW v \in Innermost(type, value)
      PROVE  Last(type) \in DOMAIN KindOf /\ WritesKind(kind, v)
  <2>1. v \in Parts(value, n)[n]
    BY <1>4 DEF Innermost
  <2>2. CASE type[1] = "array"
    <3> DEFINE t == Tail(type)
    <3>1. type # <<"array">> /\ WritesArray(t, value)
      BY <1>1, <2>2 DEF CheckType
    <3>2. IsType(t) /\ Len(t) = n
      BY <1>1, <2>2, <3>1, TailType
    <3>3. n >= 1
      BY <3>2, LenProperties, EmptySeq DEF IsType
    <3>4. t[n] = Last(type)
      <4>1. type # <<>> /\ n \in 1 .. Len(t)
        BY <1>1, <3>2, <3>3 DEF IsType
      <4>2. \A i \in 1 .. Len(t) : t[i] = type[i + 1]
        BY <1>2, <4>1, HeadTailProperties
      <4>3. QED BY <1>3, <4>1, <4>2
    <3> HIDE DEF t, n
    <3>5. /\ Parts(value, n)[n - 1] # {} => t[n] \in DOMAIN KindOf \cup {"array"}
          /\ \A x \in Parts(value, n)[n] : t[n] # "array" /\ WritesKind(KindOf[t[n]], x)
      BY <3>1, <3>2 DEF WritesArray
    <3>6. n \in 1 .. n
      BY <1>3, <3>3
    <3>7. Parts(value, n)[n] = UNION {ToSet(w[2]) : w \in {u \in Parts(value, n)[n - 1] : u[1] = "list"}}
      BY <1>3, <3>6, PartsRecursion
    <3>8. Parts(value, n)[n - 1] # {}
      BY <2>1, <3>7
    <3>9. QED BY <2>1, <3>4, <3>5, <3>8
  <2>3. CASE type[1] # "array"
    <3>1. n = 0
      <4>1. \A k \in 1 .. n : type[k] = "array"
        BY <1>2
      <4> HIDE DEF n
      <4>2. n >= 1 => 1 \in 1 .. n
        BY <1>3
      <4>3. QED BY <1>3, <2>3, <4>1, <4>2
    <3> HIDE DEF n
    <3>2. Last(type) = type[1]
      <4>1. n + 1 = 1
        BY <3>1
      <4>2. QED BY <1>3, <4>1
    <3>3. v = value
      BY <1>3, <2>1, <3>1, PartsRecursion
    <3>4. QED BY <1>1, <2>3, <3>2, <3>3 DEF CheckType
  <2>4. QED BY <2>2, <2>3
<1>5. ASSUME NEW v \in Innermost(type, value)
      PROVE  Seen(kind, v, err) = AtServer(kind, v)
  <2>1. Last(type) \in DOMAIN KindOf /\ WritesKind(kind, v)
    BY <1>4
  <2>2. kind \in ValueKinds
    BY <2>1, KindsOfNames
  <2>3. IsValue(v)
    BY <1>1, <1>3 DEF Innermost
  <2>4. kind = "varbinary" => HasLength(v)
    <3>1. kind = "varbinary" => Last(type) = "varbinary"
      BY <2>1 DEF KindOf
    <3>2. QED BY <1>1, <3>1 DEF Displaces
  <2>5. Fits(kind, v)
    BY DEF FitsType
  <2> HIDE DEF kind
  <2>6. Sent(kind, v, err)
    BY <1>1, <2>1, <2>2, <2>3, <2>4 DEF Sent
  <2>7. QED BY <2>5, <2>6, ValueSeen
<1>6. SeenParts(type, value, err) = [v \in Innermost(type, value) |-> AtServer(kind, v)]
  BY <1>5 DEF SeenParts
<1>7. QED BY <1>6 DEF SeenParameter, TypeAtServer

\* A query as the server reads it.
LEMMA QueryRead ==
  ASSUME NEW q, IsQuery(q), NEW err \in LogErrors, Sendable(q, err),
         \A i \in 1 .. Len(q.types) : ~Displaces(q.types[i], q.parameters[i])
  PROVE  /\ ServerReadQuery(ToBuffer(QueryBody(q, err)))
           = [form |-> "query", procName |-> q.procName, uid |-> q.uid,
              parameters |-> [i \in 1 .. Len(q.types) |->
                                SeenParameter(q.types[i], q.parameters[i], err)]]
         /\ \A i \in 1 .. Len(q.types) : ParameterSent(q.types[i], q.parameters[i], err)
<1> DEFINE body == QueryBody(q, err)
           b  == ToBuffer(body)
           ts == q.types
           vs == q.parameters
           n  == Len(vs)
           ss == [i \in 1 .. n |-> WriteParameter(ts[i], vs[i], err)]
           x  == [i \in 1 .. n |-> SeenParameter(ts[i], vs[i], err)]
           nm == WriteBytes(q.procName)
           u  == q.uid
           m  == Number(n)
           h  == WriteInteger("short", m)
           f  == FlattenSeq(ss)
<1>1. /\ WritesParameters(ts, vs) /\ Framable(body) /\ Countable("int", Len(q.procName[2]))
      /\ n \in Nat /\ Len(ts) = n
  BY LenProperties DEF IsQuery, Sendable, WritesParameters
<1>2. body \in Bytes
  BY <1>1, QueryBytes
<1>3. /\ b \in Bytes /\ Len(b) = IntWidth + (Len(body) + 1) /\ Len(body) \in Nat
      /\ AfterHeader(b) = Cursor(Header, Number(0)) /\ At(b, Header, body) /\ Header \in Nat
  <2> HIDE DEF body
  <2>1. QED BY <1>1, <1>2, HeaderSays, BodyFollows
<1>4. b \in Bytes /\ Len(b) \in Nat /\ Len(b) = Header + Len(body)
  <2>1. IntWidth \in Nat /\ Header = IntWidth + 1
    BY ValueConstants DEF Header
  <2> HIDE DEF b, body
  <2>2. QED BY <1>3, <2>1, LenProperties DEF Bytes
<1>5. q.procName \in Strings /\ q.procName # Null /\ q.procName[2] \in Bytes
  BY DEF IsQuery, Strings, Bytes, Null
<1>6. Len(q.procName[2]) <= Most("int") /\ nm \in Bytes
  <2>1. Len(q.procName[2]) \in Nat
    BY <1>5, LenProperties DEF Bytes
  <2>2. QED BY <1>1, <1>5, <2>1, CountableRange, CountedBytes
<1>7. u \in Bytes /\ Len(u) = UidWidth
  <2>1. UidWidth \in Nat /\ u \in [1 .. UidWidth -> Byte]
    BY MessageConstants DEF IsQuery
  <2>2. u \in Bytes
    BY <2>1, SeqDef DEF Bytes
  <2>3. DOMAIN u = 1 .. Len(u) /\ Len(u) \in Nat /\ DOMAIN u = 1 .. UidWidth
    BY <2>1, <2>2, LenProperties DEF Bytes
  <2>4. QED BY <2>1, <2>2, <2>3
<1>8. m \in Numbers("short") /\ Width["short"] \in Nat
  <2>1. Least("short") \in Int /\ Least("short") <= -8 /\ Most("short") \in Nat /\ Width["short"] \in Nat
    BY Widths
  <2>2. n <= Most("short")
    BY <1>1, CountableRange DEF WritesParameters
  <2> HIDE DEF n
  <2>3. QED BY <1>1, <2>1, <2>2 DEF Numbers, Number
<1>9. h \in Bytes
  <2> HIDE DEF m
  <2>1. QED BY <1>8, NumberBytes
<1>10. ASSUME NEW i \in 1 .. n
       PROVE  /\ ss[i] \in Bytes /\ 1 <= Len(ss[i])
              /\ \A at \in Nat : At(b, at, ss[i]) =>
                   ServerParameter(b)[at] = Cursor(at + Len(ss[i]), x[i])
              /\ ParameterSent(ts[i], vs[i], err)
  <2> DEFINE t == ts[i]
             v == vs[i]
  <2>1. IsType(t) /\ \A k \in 0 .. Len(t) - 1 : \A w \in Parts(v, Len(t) - 1)[k] : IsValue(w)
    BY <1>1 DEF IsQuery
  <2>2. /\ CheckType(t, v)
        /\ IF t[1] = "array" THEN WritesArray(Tail(t), v) ELSE WritesKind(KindOf[t[1]], v)
    BY <1>1 DEF WritesParameters
  <2>3. ~Displaces(t, v)
    BY <1>1
  <2>4. ss[i] = WriteParameter(t, v, err) /\ x[i] = SeenParameter(t, v, err)
    OBVIOUS
  <2> HIDE DEF t, v, ss, x, b
  <2>5. ParameterSent(t, v, err)
    BY <2>1, <2>2, <2>3 DEF ParameterSent
  <2>6. /\ WriteParameter(t, v, err) \in Bytes /\ 1 <= Len(WriteParameter(t, v, err))
        /\ \A at \in Nat : At(b, at, WriteParameter(t, v, err)) =>
             ServerParameter(b)[at]
               = Cursor(at + Len(WriteParameter(t, v, err)), SeenParameter(t, v, err))
    BY <1>4, <2>5, ParameterAt
  <2>7. ParameterSent(ts[i], vs[i], err)
    BY <2>5 DEF t, v
  <2>8. QED BY <2>4, <2>6, <2>7
<1>11. ss = [i \in 1 .. n |-> ss[i]] /\ x = [i \in 1 .. n |-> x[i]]
  OBVIOUS
<1>12. body = nm \o u \o Kept(h \o f)
  BY DEF QueryBody, WriteParameters
<1> HIDE DEF body, b, ss, x, n, nm, u, m, h, f
<1>13. f \in Bytes
  <2>1. \A i \in 1 .. n : ss[i] \in Seq(Byte)
    BY <1>10 DEF Bytes
  <2>2. QED BY <1>1, <1>11, <2>1, FlattenedFamily DEF Bytes, f
<1>14. nm \o u \in Bytes /\ h \o f \in Bytes /\ Len(nm \o u) = Len(nm) + Len(u)
       /\ Len(nm) \in Nat /\ Len(u) \in Nat
  BY <1>6, <1>7, <1>9, <1>13, Concatenated
<1>28. body = nm \o u \o (h \o f)
  <2>1. h \o f \in Marked
    BY <1>14, BytesMarked
  <2>2. Kept(h \o f) = h \o f
    BY <1>14, <2>1, KeptBytes
  <2>3. QED BY <1>12, <2>2
<1>15. Len(body) = Len(nm \o u) + Len(h \o f)
  BY <1>14, <1>28, Concatenated
<1>16. Len(h \o f) = Len(h) + Len(f) /\ Len(h) \in Nat /\ Len(f) \in Nat
  BY <1>9, <1>13, Concatenated
<1>17. At(b, Header, nm \o u) /\ At(b, Header + Len(nm \o u), h \o f)
  <2>1. At(b, Header, (nm \o u) \o (h \o f))
    BY <1>3, <1>28
  <2>2. QED BY <1>4, <1>14, <2>1, AtEach
<1>18. At(b, Header, nm) /\ At(b, Header + Len(nm), u)
  BY <1>4, <1>6, <1>7, <1>17, AtEach
<1> DEFINE k1 == Header + Len(nm)
           k2 == k1 + UidWidth
           k3 == k2 + Len(h)
<1>19. k2 = Header + Len(nm \o u)
  BY <1>3, <1>7, <1>14
<1>20. At(b, k2, h) /\ At(b, k3, f)
  <2>1. At(b, Header + Len(nm \o u), h) /\ At(b, Header + Len(nm \o u) + Len(h), f)
    BY <1>4, <1>9, <1>13, <1>17, AtEach
  <2> HIDE DEF k2
  <2>2. QED BY <1>19, <2>1
<1>21. k3 + Len(f) = Len(b)
  <2>1. UidWidth = Len(u)
    BY <1>7
  <2>2. QED BY <1>3, <1>4, <1>14, <1>15, <1>16, <2>1
<1>22. ReadString(b, AfterHeader(b)) = Cursor(k1, q.procName)
  <2>1. At(b, Header, WriteBytes(q.procName))
    BY <1>18 DEF nm
  <2>2. ReadString(b, Cursor(Header, Number(0))) = Cursor(Header + Len(WriteBytes(q.procName)), q.procName)
    BY <1>4, <1>5, <1>6, <2>1, StringAt
  <2>3. QED BY <1>3, <2>2 DEF nm
<1>23. Slice(b, Cursor(k1, q.procName), UidWidth, Binary) = Cursor(k2, Binary(u))
  <2> DEFINE c == Cursor(k1, q.procName)
  <2>1. At(b, k1, u)
    BY <1>18
  <2> HIDE DEF k1
  <2>2. SubSeq(b, k1 + 1, k1 + UidWidth) = u /\ ~(~c.ok \/ c.at + UidWidth > Len(b)) /\ c.at = k1 /\ c.ok
    BY <1>4, <1>7, <2>1, TakenAt
  <2> HIDE DEF c
  <2>3. QED BY <2>2 DEF Slice, c
<1>24. ReadInteger(b, Cursor(k2, Binary(u)), "short") = Cursor(k3, m)
  <2>1. At(b, k2, WriteInteger("short", m))
    BY <1>20 DEF h
  <2> HIDE DEF k2
  <2>2. /\ ReadInteger(b, Cursor(k2, Binary(u)), "short") = Cursor(k2 + Width["short"], m)
        /\ Len(WriteInteger("short", m)) = Width["short"]
    BY <1>4, <1>8, <2>1, IntegerAt
  <2>3. QED BY <2>2 DEF h
<1> HIDE DEF k1, k2, k3
<1>25. ReadMany(b, Cursor(k3, m), n, 1, ServerParameter(b)) = Cursor(Len(b), List(x))
  <2> DEFINE e == Each(n, ServerParameter(b))
  <2>1. Len(e) = n /\ \A i \in 1 .. n : e[i] = ServerParameter(b)
    BY <1>1 DEF Each
  <2>2. ss \in [1 .. n -> Bytes]
    BY <1>10, <1>11
  <2> HIDE DEF e
  <2>3. ReadsWhat(b, k3, ss, e, n, x)
    BY <1>1, <1>10, <1>11, <2>1, <2>2 DEF ReadsWhat
  <2>4. Elements(b, k3, ss, ServerParameter(b), n, x, 1)
    BY <1>10, <2>3 DEF Elements, e
  <2>5. At(b, k3, FlattenSeq(ss))
    BY <1>20 DEF f
  <2>6. ReadMany(b, Cursor(k3, m), n, 1, ServerParameter(b)) = Cursor(k3 + Len(FlattenSeq(ss)), List(x))
    BY <1>4, <2>4, <2>5, ManyAt
  <2>7. QED BY <1>21, <2>6 DEF f
<1>26. ServerReadQuery(b) = [form |-> "query", procName |-> q.procName, uid |-> u, parameters |-> x]
  <2> DEFINE c1 == Cursor(k1, q.procName)
             c2 == Cursor(k2, Binary(u))
             c3 == Cursor(k3, m)
             c4 == Cursor(Len(b), List(x))
  <2>1. c1.value = q.procName /\ c2.value[2] = u /\ c3.value = m /\ c3.ok
        /\ c4.ok /\ c4.at = Len(b) /\ c4.value[2] = x
    BY DEF Cursor, Binary, List
  <2>2. AsNumber(m) = n
    BY DEF AsNumber, m, Number, Null
  <2>3. /\ ReadString(b, AfterHeader(b)) = c1 /\ Slice(b, c1, UidWidth, Binary) = c2
        /\ ReadInteger(b, c2, "short") = c3 /\ ReadMany(b, c3, n, 1, ServerParameter(b)) = c4
    BY <1>22, <1>23, <1>24, <1>25
  <2> HIDE DEF c1, c2, c3, c4
  <2>4. ReadMany(b, c3, AsNumber(c3.value), 1, ServerParameter(b)) = c4
    BY <2>1, <2>2, <2>3
  <2>5. ServerReadQuery(b)
          = LET name   == ReadString(b, AfterHeader(b))
                uid    == Slice(b, name, UidWidth, Binary)
                count  == ReadInteger(b, uid, "short")
                values == ReadMany(b, count, AsNumber(count.value), 1, ServerParameter(b))
            IN  IF count.ok /\ values.ok /\ values.at = Len(b)
                  THEN [form |-> "query", procName |-> name.value, uid |-> uid.value[2],
                        parameters |-> values.value[2]]
                  ELSE Broken
    BY DEF ServerReadQuery, ServerParameter
  <2>6. QED BY <2>1, <2>3, <2>4, <2>5
<1>27. \A i \in 1 .. Len(q.types) : ParameterSent(q.types[i], q.parameters[i], err)
  BY <1>1, <1>10
<1>29. QED BY <1>1, <1>26, <1>27 DEF b, body, x, n, u

\* callProcedure, getMessage, writeParameterSet: whatever the types and the depth of
\* its parameters, the server reads each of them where the one before it ends, and
\* every one that fits its type as it was meant, null apart from all others; what
\* does not fit and is sent all the same spoils itself only, unless it is one of the
\* values that Displaces names.
THEOREM QueryArrives == MessagesSpec => []QueryAsMeant
<1>1. MessagesInvariant => QueryAsMeant
  <2>1. SUFFICES ASSUME MessagesInvariant, phase = "received", meant.form = "query",
                        \A i \in 1 .. Len(meant.types) :
                          ~Displaces(meant.types[i], meant.parameters[i])
                 PROVE  QueryAsMeant
    BY DEF QueryAsMeant
  <2>2. OnItsWay /\ GotIt
    BY <2>1 DEF MessagesInvariant
  <2>3. meant \in QueriesToSend
    BY <2>1, <2>2, Forms DEF OnItsWay
  <2>4. PICK err \in MathLogs : Sendable(meant, err) /\ wire = ToBuffer(QueryBody(meant, err))
    BY <2>1, <2>2, Forms DEF OnItsWay
  <2>5. got = ServerReadQuery(wire)
    BY <2>1, <2>2 DEF GotIt
  <2>6. IsQuery(meant) /\ err \in LogErrors
    BY <2>3, Forms, LogConstants
  <2> DEFINE n == Len(meant.types)
             x == [i \in 1 .. n |-> SeenParameter(meant.types[i], meant.parameters[i], err)]
  <2>7. /\ got = [form |-> "query", procName |-> meant.procName, uid |-> meant.uid, parameters |-> x]
        /\ \A i \in 1 .. n : ParameterSent(meant.types[i], meant.parameters[i], err)
    BY <2>1, <2>4, <2>5, <2>6, QueryRead
  <2>8. got # Broken /\ got.procName = meant.procName /\ got.uid = meant.uid /\ got.parameters = x
    BY <2>7 DEF Broken
  <2>9. Len(x) = n
    <3>1. n \in Nat
      BY <2>6, LenProperties DEF IsQuery
    <3> HIDE DEF n
    <3>2. QED BY <3>1
  <2>10. ASSUME NEW i \in 1 .. n, FitsType(meant.types[i], meant.parameters[i])
         PROVE  got.parameters[i] = TypeAtServer(meant.types[i], meant.parameters[i])
    <3>1. SeenParameter(meant.types[i], meant.parameters[i], err)
            = TypeAtServer(meant.types[i], meant.parameters[i])
      BY <2>7, <2>10, FittingSeen
    <3>2. QED BY <2>8, <3>1
  <2> HIDE DEF x
  <2>11. QED BY <2>8, <2>9, <2>10 DEF QueryAsMeant
<1>2. QED BY <1>1, InvariantHolds, PTL

-----------------------------------------------------------------------------
(* Cells *)

\* A buffer no longer than a message can be.
Bounded(b) == b \in Bytes /\ Len(b) <= IntWidth + Most("int")

\* In it, what has its length in front can be counted.
LEMMA CountedBound ==
  ASSUME NEW b, Bounded(b), NEW k, NEW x \in Bytes,
         At(b, k, WriteInteger("int", Number(Len(x))) \o x)
  PROVE  /\ Len(x) \in Nat /\ Len(x) <= Most("int") /\ Number(Len(x)) \in Numbers("int")
         /\ Len(WriteInteger("int", Number(Len(x))) \o x) = IntWidth + Len(x)
         /\ WriteInteger("int", Number(Len(x))) \o x \in Bytes
         /\ At(b, k + IntWidth, x) /\ At(b, k, WriteInteger("int", Number(Len(x))))
<1> DEFINE n == Len(x)
           m == Number(n)
           h == WriteInteger("int", m)
           w == h \o x
<1>1. n \in Nat /\ n \in Int /\ Width["int"] = IntWidth
  BY LenProperties DEF Bytes, Width
<1>2. h \in Bytes /\ Len(h) = IntWidth
  <2> HIDE DEF n
  <2>1. QED BY <1>1, CountBytes
<1>3. Len(b) \in Nat /\ b \in Bytes /\ Len(b) <= IntWidth + Most("int")
  BY LenProperties DEF Bounded, Bytes
<1>4. IntWidth \in Nat /\ Most("int") \in Nat /\ Least("int") \in Int /\ Least("int") <= -8
  BY <1>1, Widths
<1>5. At(b, k, w) /\ k \in Nat
  BY DEF At
<1> HIDE DEF n, m, h
<1>6. w \in Bytes /\ Len(w) = IntWidth + Len(x)
  BY <1>2, Concatenated
<1>7. At(b, k, h) /\ At(b, k + Len(h), x)
  BY <1>2, <1>3, <1>5, AtEach
<1> HIDE DEF w
<1>8. k + Len(w) <= Len(b)
  BY <1>5 DEF At
<1>9. Len(x) \in Nat /\ n = Len(x)
  BY <1>1 DEF n
<1>10. Len(x) <= Most("int")
  BY <1>3, <1>4, <1>5, <1>6, <1>8, <1>9
<1>11. m \in Numbers("int")
  <2>1. n \in Least("int") + 1 .. Most("int")
    BY <1>4, <1>9, <1>10
  <2>2. QED BY <2>1 DEF Numbers, Number, m
<1>12. QED BY <1>2, <1>6, <1>7, <1>9, <1>10, <1>11 DEF n, m, h, w

\* What the driver makes of a cell.
CellRead(kind, v) ==
  CASE kind = "decimal" -> IF v = Null THEN Null ELSE Pointed(Numeral(v[2]))
    [] kind = "date"    -> Moment(Thousandth(IF v = Null THEN Least("long") ELSE v[2]))
    [] OTHER            -> v

\* What the method of a kind does at a place.
LEMMA ScalarIs ==
  ASSUME NEW b \in Bytes, NEW kind \in DOMAIN Kinds \ {"array"}, NEW k \in Nat
  PROVE  TypesRead(b, Scalars(b))[kind][k] = ReadScalar(b, Cursor(k, Null), kind)
<1>1. DOMAIN Scalars(b) = DOMAIN Kinds \cup {"unknown"}
  BY DEF Scalars
<1>2. TypesRead(b, Scalars(b))[kind] = Scalars(b)[kind]
  BY <1>1, MethodsRead
<1>3. k \in Int /\ kind \in DOMAIN Kinds \cup {"unknown"}
  OBVIOUS
<1>4. Scalars(b)[kind][k] = ReadScalar(b, Cursor(k, Null), kind)
  BY <1>3 DEF Scalars
<1>5. QED BY <1>2, <1>4

\* Exact integers: the decimals and the dates of a table.
LEMMA ExactCellAt ==
  ASSUME NEW kind \in {"decimal", "date"}, NEW v, IsCell(kind, v),
         NEW b \in Bytes, NEW k \in Nat, At(b, k, Cell(kind, v))
  PROVE  /\ ReadScalar(b, Cursor(k, Null), kind) = Cursor(k + Len(Cell(kind, v)), CellRead(kind, v))
         /\ 1 <= Len(Cell(kind, v))
<1> DEFINE l == IF kind = "date" THEN "long" ELSE kind
           i == IF v = Null THEN Least(l) ELSE v[2]
           w == Cell(kind, v)
<1>1. l \in {"long", "decimal"} /\ Width[l] \in Nat \ {0} /\ Least(l) \in Int /\ Most(l) = -Least(l) - 1
      /\ Least(l) <= -8
  <2>1. l \in {"long", "decimal"}
    OBVIOUS
  <2> HIDE DEF l
  <2>2. QED BY <2>1, Widths DEF Most
<1>2. i \in Least(l) .. Most(l) /\ (v # Null => i = v[2] /\ i # Least(l))
  <2>1. v # Null => v \in {"unscaled", "micros"} \X (Least(l) + 1 .. Most(l))
    BY DEF IsCell
  <2> HIDE DEF l
  <2>2. v # Null => v[2] \in Least(l) + 1 .. Most(l)
    BY <2>1
  <2>3. QED BY <1>1, <2>2
<1>3. w = WriteSigned(i, Width[l])
  BY DEF Cell
<1>4. At(b, k, w)
  OBVIOUS
<1> HIDE DEF i, w
<1>5. /\ ReadSigned(SubSeq(b, k + 1, k + Width[l])) = i
      /\ Len(w) = Width[l]
      /\ ~(~Cursor(k, Null).ok \/ Cursor(k, Null).at + Width[l] > Len(b))
      /\ Cursor(k, Null).at = k
  <2> HIDE DEF l
  <2>1. l \in {"byte", "short", "int", "long", "decimal"}
    BY <1>1
  <2>2. i \in Least(l) .. Most(l) /\ At(b, k, WriteSigned(i, Width[l]))
    BY <1>2, <1>3, <1>4
  <2>3. /\ ReadSigned(SubSeq(b, k + 1, k + Width[l])) = i
        /\ Len(WriteSigned(i, Width[l])) = Width[l]
        /\ ~(~Cursor(k, Null).ok \/ Cursor(k, Null).at + Width[l] > Len(b))
        /\ Cursor(k, Null).ok /\ Cursor(k, Null).at = k
    BY <2>1, <2>2, SignedAt
  <2>4. QED BY <1>3, <2>3
<1>6. CASE kind = "date"
  <2>1. l = "long" /\ Width["long"] = LongWidth
    BY <1>6 DEF Width
  <2>2. ReadScalar(b, Cursor(k, Null), "date")
          = Cursor(k + LongWidth, Moment(Thousandth(ReadSigned(SubSeq(b, k + 1, k + LongWidth)))))
    BY <1>5, <2>1 DEF ReadScalar, ReadDate, Take
  <2>3. CellRead(kind, v) = Moment(Thousandth(i))
    BY <1>6, <2>1 DEF CellRead, i
  <2>4. QED BY <1>1, <1>5, <1>6, <2>1, <2>2, <2>3 DEF w
<1>7. CASE kind = "decimal"
  <2>1. l = "decimal" /\ Width["decimal"] = DecimalWidth
    BY <1>7 DEF Width
  <2>2. ReadScalar(b, Cursor(k, Null), "decimal")
          = Cursor(k + DecimalWidth,
                   LET n == ReadSigned(SubSeq(b, k + 1, k + DecimalWidth))
                   IN  IF n = Least("decimal") THEN Null
                       ELSE Pointed(IF n < 0 THEN <<Minus>> \o DigitsOf(-n) ELSE DigitsOf(n)))
    BY <1>5, <2>1 DEF ReadScalar, ReadDecimal, Take
  <2>3. ReadScalar(b, Cursor(k, Null), "decimal")
          = Cursor(k + DecimalWidth, IF i = Least("decimal") THEN Null ELSE Pointed(Numeral(i)))
    BY <1>5, <2>1, <2>2 DEF Numeral
  <2>4. CellRead(kind, v) = IF i = Least("decimal") THEN Null ELSE Pointed(Numeral(i))
    <3>1. CASE v = Null
      BY <1>7, <2>1, <3>1 DEF CellRead, i
    <3>2. CASE v # Null
      BY <1>2, <1>7, <2>1, <3>2 DEF CellRead
    <3>3. QED BY <3>1, <3>2
  <2>5. QED BY <1>1, <1>5, <1>7, <2>1, <2>3, <2>4 DEF w
<1>8. QED BY <1>6, <1>7

\* Bytes with their length.
LEMMA BytesCellAt ==
  ASSUME NEW kind \in {"string", "varbinary"}, NEW v, IsCell(kind, v),
         NEW b, Bounded(b), NEW k \in Nat, At(b, k, Cell(kind, v))
  PROVE  /\ ReadScalar(b, Cursor(k, Null), kind) = Cursor(k + Len(Cell(kind, v)), v)
         /\ 1 <= Len(Cell(kind, v))
<1>1. Cell(kind, v) = WriteBytes(v) /\ b \in Bytes
  <2>1. CASE kind = "string"
    BY <2>1 DEF Cell, WriteKind, Bounded
  <2>2. CASE kind = "varbinary"
    <3>1. Cell(kind, v) = WriteVarbinary(v)
      BY <2>2 DEF Cell, WriteKind
    <3>2. v # Null => v[1] = "bytes"
      BY <2>2 DEF IsCell
    <3>3. Null[1] = "null"
      BY DEF Null
    <3>4. HasLength(v) /\ BufferOf(v) = v
      BY <3>2, <3>3 DEF HasLength, BufferOf
    <3>5. QED BY <3>1, <3>4 DEF WriteVarbinary, Bounded
  <2>3. QED BY <2>1, <2>2
<1>2. At(b, k, WriteBytes(v))
  BY <1>1
<1>3. Width["int"] = IntWidth /\ IntWidth \in Nat \ {0}
  BY Widths DEF Width
<1>4. v # Null => v[2] \in Bytes
  BY DEF IsCell, Strings, Bytes, Byte
<1>5. (v # Null => Len(v[2]) <= Most("int")) /\ 1 <= Len(WriteBytes(v))
  <2>1. CASE v = Null
    <3>1. WriteBytes(v) = WriteInteger("int", Number(-1)) /\ -1 \in Int
      BY <2>1 DEF WriteBytes
    <3>2. Len(WriteInteger("int", Number(-1))) = Width["int"]
      BY <3>1, CountBytes
    <3>3. QED BY <1>3, <2>1, <3>1, <3>2
  <2>2. CASE v # Null
    <3>1. WriteBytes(v) = WriteInteger("int", Number(Len(v[2]))) \o v[2] /\ v[2] \in Bytes
      BY <1>4, <2>2 DEF WriteBytes
    <3>2. At(b, k, WriteInteger("int", Number(Len(v[2]))) \o v[2])
      BY <1>2, <3>1
    <3>3. Len(v[2]) \in Nat /\ Len(v[2]) <= Most("int")
          /\ Len(WriteInteger("int", Number(Len(v[2]))) \o v[2]) = IntWidth + Len(v[2])
      BY <3>1, <3>2, CountedBound
    <3> DEFINE x == v[2]
               z == WriteBytes(v)
    <3>4. z = WriteInteger("int", Number(Len(x))) \o x
      BY <3>1
    <3>5. Len(z) = IntWidth + Len(x) /\ Len(x) \in Nat /\ Len(x) <= Most("int")
      BY <3>3, <3>4
    <3> HIDE DEF x, z
    <3>6. 1 <= Len(z)
      BY <1>3, <3>5
    <3>7. QED BY <2>2, <3>5, <3>6 DEF x, z
  <2>3. QED BY <2>1, <2>2
<1>6. CASE kind = "string"
  <2>1. v \in Strings \cup {Null}
    BY <1>6 DEF IsCell
  <2>2. ReadString(b, Cursor(k, Null)) = Cursor(k + Len(WriteBytes(v)), v)
    BY <1>1, <1>2, <1>5, <2>1, StringAt
  <2>3. ReadScalar(b, Cursor(k, Null), "string") = ReadString(b, Cursor(k, Null))
    BY DEF ReadScalar
  <2>4. QED BY <1>1, <1>5, <1>6, <2>2, <2>3
<1>7. CASE kind = "varbinary"
  <2>1. v \in ({"bytes"} \X Bytes) \cup {Null}
    BY <1>7 DEF IsCell, Bytes, Byte
  <2>2. ReadVarbinary(b, Cursor(k, Null)) = Cursor(k + Len(WriteBytes(v)), v)
    BY <1>1, <1>2, <1>5, <2>1, VarbinaryAt
  <2>3. ReadScalar(b, Cursor(k, Null), "varbinary") = ReadVarbinary(b, Cursor(k, Null))
    BY DEF ReadScalar
  <2>4. QED BY <1>1, <1>5, <1>7, <2>2, <2>3
<1>8. QED BY <1>6, <1>7

\* Integers, null as the least.
LEMMA IntegerCellAt ==
  ASSUME NEW kind \in {"byte", "short", "int", "long"}, NEW v, IsCell(kind, v),
         NEW b \in Bytes, NEW k \in Nat, At(b, k, Cell(kind, v))
  PROVE  /\ ReadScalar(b, Cursor(k, Null), kind) = Cursor(k + Len(Cell(kind, v)), v)
         /\ 1 <= Len(Cell(kind, v))
<1>1. v \in {Null} \cup Numbers(kind)
  BY DEF IsCell
<1>2. Cell(kind, v) = WriteInteger(kind, v)
  BY DEF Cell, WriteInteger, NullOf
<1>3. At(b, k, WriteInteger(kind, v))
  BY <1>2
<1>4. /\ ReadInteger(b, Cursor(k, Null), kind) = Cursor(k + Width[kind], v)
      /\ Len(WriteInteger(kind, v)) = Width[kind]
  BY <1>1, <1>3, IntegerAt
<1>5. Width[kind] \in Nat \ {0}
  BY Widths
<1>6. ReadScalar(b, Cursor(k, Null), kind) = ReadInteger(b, Cursor(k, Null), kind)
  BY DEF ReadScalar
<1>7. QED BY <1>2, <1>4, <1>5, <1>6

\* Doubles, as the server writes them.
LEMMA DoubleCellAt ==
  ASSUME NEW v, IsCell("double", v), NEW b \in Bytes, NEW k \in Nat, At(b, k, Cell("double", v))
  PROVE  /\ ReadScalar(b, Cursor(k, Null), "double") = Cursor(k + Len(Cell("double", v)), v)
         /\ 1 <= Len(Cell("double", v))
<1>1. DoubleKept(v, NoError)
  <2>1. NoError \in LogErrors
    BY LogConstants DEF LogErrors, NoError
  <2>2. QED BY <2>1 DEF DoubleKept, IsCell
<1>2. Cell("double", v) = WriteKind("double", v, NoError)
  BY DEF Cell
<1>3. At(b, k, WriteKind("double", v, NoError))
  BY <1>2
<1>4. /\ ReadReal(b, Cursor(k, Null)) = Cursor(k + Len(WriteKind("double", v, NoError)), v)
      /\ Len(WriteKind("double", v, NoError)) = DoubleWidth
  BY <1>1, <1>3, DoubleAt
<1>5. DoubleWidth \in Nat \ {0}
  BY NumberConstants
<1>6. ReadScalar(b, Cursor(k, Null), "double") = ReadReal(b, Cursor(k, Null))
  BY DEF ReadScalar
<1>7. QED BY <1>2, <1>4, <1>5, <1>6

\* A cell of any kind.  Its length is that of the bytes themselves, wherever they are.
LEMMA CellAt ==
  ASSUME NEW kind \in DOMAIN Kinds \ {"array", "null"}, NEW v, IsCell(kind, v),
         NEW b, Bounded(b)
  PROVE  /\ Cell(kind, v) \in Bytes
         /\ \A k \in Nat : At(b, k, Cell(kind, v)) =>
              /\ TypesRead(b, Scalars(b))[kind][k] = Cursor(k + Len(Cell(kind, v)), CellRead(kind, v))
              /\ 1 <= Len(Cell(kind, v))
<1>1. Cell(kind, v) \in Bytes /\ b \in Bytes
  BY CellBytes DEF Bounded
<1>2. SUFFICES ASSUME NEW k \in Nat, At(b, k, Cell(kind, v))
               PROVE  /\ ReadScalar(b, Cursor(k, Null), kind)
                           = Cursor(k + Len(Cell(kind, v)), CellRead(kind, v))
                      /\ 1 <= Len(Cell(kind, v))
  <2>1. \A k \in Nat : TypesRead(b, Scalars(b))[kind][k] = ReadScalar(b, Cursor(k, Null), kind)
    BY <1>1, ScalarIs
  <2>2. QED BY <1>1, <2>1
<1>3. CASE kind \in {"decimal", "date"}
  BY <1>1, <1>2, <1>3, ExactCellAt
<1>4. CASE kind \in {"string", "varbinary"}
  <2>1. CellRead(kind, v) = v
    BY <1>4 DEF CellRead
  <2>2. QED BY <1>2, <1>4, <2>1, BytesCellAt
<1>5. CASE kind \in {"byte", "short", "int", "long"}
  <2>1. CellRead(kind, v) = v
    BY <1>5 DEF CellRead
  <2>2. QED BY <1>1, <1>2, <1>5, <2>1, IntegerCellAt
<1>6. CASE kind = "double"
  <2>1. CellRead(kind, v) = v
    BY <1>6 DEF CellRead
  <2>2. QED BY <1>1, <1>2, <1>6, <2>1, DoubleCellAt
<1>7. kind \in {"decimal", "date", "string", "varbinary", "byte", "short", "int", "long", "double"}
  BY DEF Kinds
<1>8. QED BY <1>3, <1>4, <1>5, <1>6, <1>7

-----------------------------------------------------------------------------
(* The rows of a table *)

\* What the driver makes of the cells of a row, and of a row.
CellsRead(t, i) == [j \in 1 .. Len(t.columnTypes) |-> CellRead(t.columnTypes[j], t.rows[i][j])]
\* A row, by the names of columns.
RowRead(t, i) ==
  [name \in ToSet(t.columnNames) |->
     CellsRead(t, i)[LastOf(t.columnNames, name)]]

\* The method for an int.
LEMMA IntMethodAt ==
  ASSUME NEW b \in Bytes, NEW v \in {Null} \cup Numbers("int"), NEW k, NEW x,
         At(b, k, WriteInteger("int", v))
  PROVE  /\ Call(TypesRead(b, Scalars(b))["int"], Cursor(k, x)) = Cursor(k + IntWidth, v)
         /\ TypesRead(b, Scalars(b))["int"][k] = Cursor(k + IntWidth, v)
<1>1. k \in Nat /\ Width["int"] = IntWidth
  BY DEF At, Width
<1>2. TypesRead(b, Scalars(b))["int"][k] = ReadScalar(b, Cursor(k, Null), "int")
  <2>1. "int" \in DOMAIN Kinds \ {"array"}
    BY DEF Kinds
  <2>2. QED BY <1>1, <2>1, ScalarIs
<1>3. ReadScalar(b, Cursor(k, Null), "int") = ReadInteger(b, Cursor(k, Null), "int")
  BY DEF ReadScalar
<1>4. ReadInteger(b, Cursor(k, Null), "int") = Cursor(k + Width["int"], v)
  BY IntegerAt
<1>5. Call(TypesRead(b, Scalars(b))["int"], Cursor(k, x)) = TypesRead(b, Scalars(b))["int"][k]
  BY DEF Call, Cursor
<1>6. QED BY <1>1, <1>2, <1>3, <1>4, <1>5

\* A row is read where it was written.
LEMMA RowAt ==
  ASSUME NEW t, NEW i, RowOf(t, i), NEW b, Bounded(b), NEW k,
         At(b, k, Counted("int", RowBytes(t, i)))
  PROVE  ReadRow(TypesRead(b, Scalars(b)), t.columnTypes, t.columnNames)[k]
           = Cursor(k + Len(Counted("int", RowBytes(t, i))), RowRead(t, i))
<1> DEFINE n  == Len(t.columnTypes)
           ss == [j \in 1 .. n |-> Cell(t.columnTypes[j], t.rows[i][j])]
           v  == CellsRead(t, i)
           z  == RowBytes(t, i)
           m  == Number(Len(z))
           ms == [j \in 1 .. n |-> TypesRead(b, Scalars(b))[t.columnTypes[j]]]
<1>1. n \in Nat /\ b \in Bytes
  BY DEF RowOf, Bounded
<1>2. ASSUME NEW j \in 1 .. n
      PROVE  /\ ss[j] \in Bytes
             /\ \A at \in Nat : At(b, at, ss[j]) => ms[j][at] = Cursor(at + Len(ss[j]), v[j])
  <2> DEFINE kind == t.columnTypes[j]
             cell == t.rows[i][j]
  <2>1. kind \in DOMAIN Kinds \ {"array", "null"} /\ IsCell(kind, cell)
    BY DEF RowOf
  <2>2. /\ ss[j] = Cell(kind, cell) /\ ms[j] = TypesRead(b, Scalars(b))[kind]
        /\ v[j] = CellRead(kind, cell)
    BY DEF CellsRead
  <2> HIDE DEF kind, cell, ss, ms, v
  <2>3. QED BY <2>1, <2>2, CellAt
<1>3. z = FlattenSeq(ss) /\ z \in Bytes
  <2>1. ss = [j \in 1 .. n |-> ss[j]] /\ \A j \in 1 .. n : ss[j] \in Seq(Byte)
    BY <1>2 DEF Bytes
  <2>2. z = FlattenSeq(ss)
    BY DEF RowBytes
  <2> HIDE DEF ss, n, z
  <2>3. FlattenSeq(ss) \in Seq(Byte)
    BY <1>1, <2>1, FlattenedFamily
  <2>4. QED BY <2>2, <2>3 DEF Bytes
<1>4. At(b, k, WriteInteger("int", Number(Len(z))) \o z) /\ k \in Nat
  BY DEF Counted, At
<1>5. v = [j \in 1 .. n |-> v[j]] /\ ss \in [1 .. n -> Bytes] /\ Len(ms) = n
  <2>1. v = [j \in 1 .. n |-> v[j]]
    BY DEF CellsRead
  <2>2. ss \in [1 .. n -> Bytes]
    BY <1>2
  <2> HIDE DEF n
  <2>3. Len(ms) = n
    BY <1>1
  <2>4. QED BY <2>1, <2>2, <2>3
<1> HIDE DEF ss, v, z, ms, n
<1>6. /\ m \in Numbers("int") /\ Len(z) \in Nat
      /\ Len(WriteInteger("int", m) \o z) = IntWidth + Len(z)
      /\ At(b, k + IntWidth, z) /\ At(b, k, WriteInteger("int", m))
  BY <1>3, <1>4, CountedBound
<1> HIDE DEF m
<1>7. Call(TypesRead(b, Scalars(b))["int"], Cursor(k, Null)) = Cursor(k + IntWidth, m)
  BY <1>1, <1>6, IntMethodAt
<1>8. ReadEach(Cursor(k + IntWidth, m), ms) = Cursor(k + IntWidth + Len(z), List(v))
  <2>1. ReadsWhat(b, k + IntWidth, ss, ms, n, v)
    BY <1>1, <1>2, <1>5 DEF ReadsWhat
  <2>2. At(b, k + IntWidth, FlattenSeq(ss))
    BY <1>3, <1>6
  <2>3. QED BY <1>1, <1>3, <2>1, <2>2, MethodsAt
<1> DEFINE c == Cursor(k + IntWidth + Len(z), List(v))
<1>9. c.ok /\ c.value[2] = v /\ Gives(c, RowRead(t, i)) = Cursor(k + IntWidth + Len(z), RowRead(t, i))
  BY DEF Cursor, List, Gives
<1>10. RowRead(t, i) = [name \in ToSet(t.columnNames) |-> v[LastOf(t.columnNames, name)]]
  BY DEF RowRead, v, n
<1>11. k + IntWidth + Len(z) = k + Len(Counted("int", z))
  <2>1. IntWidth \in Nat
    BY ValueConstants
  <2>2. Counted("int", z) = WriteInteger("int", m) \o z
    BY DEF Counted, m
  <2>3. QED BY <1>4, <1>6, <2>1, <2>2
<1>12. ReadRow(TypesRead(b, Scalars(b)), t.columnTypes, t.columnNames)[k]
         = LET cells == ReadEach(Call(TypesRead(b, Scalars(b))["int"], Cursor(k, Null)), ms)
           IN  IF cells.ok THEN Gives(cells, [name \in ToSet(t.columnNames) |->
                                         cells.value[2][LastOf(t.columnNames, name)]])
               ELSE cells
  <2>1. k \in Int
    BY <1>4
  <2>2. QED BY <2>1 DEF ReadRow, ms, n
<1>13. ReadEach(Call(TypesRead(b, Scalars(b))["int"], Cursor(k, Null)), ms) = c
  BY <1>7, <1>8
<1> HIDE DEF c
<1>14. ReadRow(TypesRead(b, Scalars(b)), t.columnTypes, t.columnNames)[k]
         = Gives(c, [name \in ToSet(t.columnNames) |-> c.value[2][LastOf(t.columnNames, name)]])
  BY <1>9, <1>12, <1>13
<1>15. [name \in ToSet(t.columnNames) |-> c.value[2][LastOf(t.columnNames, name)]] = RowRead(t, i)
  BY <1>9, <1>10
<1>16. QED BY <1>9, <1>11, <1>14, <1>15 DEF n, z

-----------------------------------------------------------------------------
(* Where the pieces of a table are *)

\* Each piece is behind the one before it.
PiecesAt(b, t, k2, k3, k4, k5, k6, k7) ==
  /\ At(b, k2, WriteInteger("byte", t.status))
  /\ At(b, k3, WriteInteger("short", Number(Len(t.columnTypes))))
  /\ At(b, k4, FlattenSeq(CodeSeq(t)))
  /\ At(b, k5, FlattenSeq(NameSeq(t)))
  /\ At(b, k6, WriteInteger("int", Number(Len(t.rows))))
  /\ At(b, k7, FlattenSeq(RowSeq(t)))

\* Four pieces behind each other.
LEMMA FourAt ==
  ASSUME NEW b \in Bytes, NEW k, NEW s1 \in Bytes, NEW s2 \in Bytes, NEW s3 \in Bytes, NEW s4 \in Bytes,
         At(b, k, s1 \o s2 \o s3 \o s4)
  PROVE  /\ At(b, k, s1) /\ At(b, k + Len(s1), s2) /\ At(b, k + Len(s1) + Len(s2), s3)
         /\ At(b, k + Len(s1) + Len(s2) + Len(s3), s4)
         /\ Len(s1 \o s2 \o s3 \o s4) = Len(s1) + Len(s2) + Len(s3) + Len(s4)
         /\ s1 \o s2 \o s3 \o s4 \in Bytes
<1>1. Len(b) \in Nat /\ k \in Nat
  BY LenProperties DEF Bytes, At
<1> DEFINE s12 == s1 \o s2
           s123 == s12 \o s3
<1>2. s12 \in Bytes /\ Len(s12) = Len(s1) + Len(s2) /\ Len(s1) \in Nat /\ Len(s2) \in Nat
  BY Concatenated
<1>3. At(b, k, s123 \o s4)
  OBVIOUS
<1> HIDE DEF s12
<1>4. s123 \in Bytes /\ Len(s123) = Len(s12) + Len(s3) /\ Len(s3) \in Nat
  BY <1>2, Concatenated
<1> HIDE DEF s123
<1>5. At(b, k, s123) /\ At(b, k + Len(s123), s4)
  BY <1>1, <1>3, <1>4, AtEach
<1>6. At(b, k, s12 \o s3)
  BY <1>5 DEF s123
<1>7. At(b, k, s12) /\ At(b, k + Len(s12), s3)
  BY <1>1, <1>2, <1>6, AtEach
<1>8. At(b, k, s1 \o s2)
  BY <1>7 DEF s12
<1>9. At(b, k, s1) /\ At(b, k + Len(s1), s2)
  BY <1>1, <1>8, AtEach
<1>10. s123 \o s4 \in Bytes /\ Len(s123 \o s4) = Len(s123) + Len(s4) /\ Len(s4) \in Nat
  BY <1>4, Concatenated
<1>11. s123 \o s4 = s1 \o s2 \o s3 \o s4
  BY DEF s123, s12
<1>12. Len(s12) = Len(s1) + Len(s2) /\ Len(s123) = Len(s1) + Len(s2) + Len(s3)
  BY <1>2, <1>4
<1>13. k + Len(s12) = k + Len(s1) + Len(s2) /\ k + Len(s123) = k + Len(s1) + Len(s2) + Len(s3)
  BY <1>1, <1>2, <1>4, <1>12
<1>14. At(b, k + Len(s1) + Len(s2), s3) /\ At(b, k + Len(s1) + Len(s2) + Len(s3), s4)
  BY <1>5, <1>7, <1>13
<1>15. Len(s123) + Len(s4) = Len(s1) + Len(s2) + Len(s3) + Len(s4)
  BY <1>12
<1>16. QED BY <1>9, <1>10, <1>11, <1>14, <1>15

\* The pieces of a table that is somewhere in a message.
LEMMA PiecesOfTable ==
  ASSUME NEW t, IsTable(t), NEW b, Bounded(b), NEW k, At(b, k, TableBytes(t)),
         NEW k2, k2 = k + IntWidth + IntWidth, NEW k3, k3 = k2 + 1, NEW k4, k4 = k3 + ShortWidth,
         NEW k5, k5 = k4 + Len(FlattenSeq(CodeSeq(t))), NEW k6, k6 = k5 + Len(FlattenSeq(NameSeq(t))),
         NEW k7, k7 = k6 + IntWidth
  PROVE  /\ PiecesAt(b, t, k2, k3, k4, k5, k6, k7)
         /\ k7 + Len(FlattenSeq(RowSeq(t))) = k + Len(TableBytes(t))
         /\ {k2, k3, k4, k5, k6, k7} \subseteq Nat /\ IntWidth <= k7
         /\ Number(Len(t.columnTypes)) \in Numbers("short")
         /\ \E u \in Numbers("int") : \E w \in Numbers("int") :
              At(b, k, WriteInteger("int", u)) /\ At(b, k + IntWidth, WriteInteger("int", w))
<1> DEFINE n == Len(t.columnTypes)
           m == Len(t.rows)
           a == WriteInteger("byte", t.status)
           s == WriteInteger("short", Number(n))
           C == FlattenSeq(CodeSeq(t))
           N == FlattenSeq(NameSeq(t))
           h == WriteInteger("int", Number(m))
           F == FlattenSeq(RowSeq(t))
           meta == a \o s \o C \o N
           rows == h \o F
           inner == WriteInteger("int", Number(Len(meta))) \o meta
           x     == inner \o rows
           table == WriteInteger("int", Number(Len(x))) \o x
<1>1. n \in Nat /\ m \in Nat /\ n <= Most("short") /\ t.status \in Numbers("byte")
  BY ColumnsOf
<1>2. C \in Bytes /\ N \in Bytes /\ F \in Bytes
  BY PiecesFilled, FilledBytes
<1>3. /\ b \in Bytes /\ Len(b) \in Nat /\ k \in Nat
      /\ Width["int"] = IntWidth /\ Width["short"] = ShortWidth /\ Width["byte"] = 1
      /\ IntWidth \in Nat \ {0} /\ ShortWidth \in Nat \ {0}
  <2>1. Width["int"] = IntWidth /\ Width["short"] = ShortWidth /\ Width["byte"] = 1
    BY DEF Width
  <2>2. Width["int"] \in Nat \ {0} /\ Width["short"] \in Nat \ {0}
    BY Widths
  <2>3. QED BY <2>1, <2>2, LenProperties DEF Bounded, Bytes, At
<1>4. Number(n) \in Numbers("short")
  <2>1. Least("short") \in Int /\ Least("short") <= -8 /\ Most("short") \in Nat
    BY Widths
  <2> HIDE DEF n
  <2>2. QED BY <1>1, <2>1 DEF Numbers, Number
<1>5. a \in Bytes /\ Len(a) = 1
  <2>1. t.status \in {Null} \cup {"number"} \X Int
    <3>1. Least("byte") \in Int /\ Most("byte") \in Nat
      BY Widths
    <3>2. QED BY <1>1, <3>1 DEF Numbers
  <2>2. QED BY <1>3, <2>1, IntegerBytes
<1>6. s \in Bytes /\ Len(s) = ShortWidth
  BY <1>1, <1>3, CountBytes
<1>7. h \in Bytes /\ Len(h) = IntWidth
  BY <1>1, <1>3, CountBytes
<1>8. table = TableBytes(t)
  BY DEF TableBytes, Counted, CodeSeq, NameSeq, RowSeq, RowBytes
<1> HIDE DEF a, s, C, N, h, F, n, m
<1>9. meta \in Bytes
  <2>1. a \o s \in Bytes
    BY <1>5, <1>6, Concatenated
  <2>2. a \o s \o C \in Bytes
    BY <1>2, <2>1, Concatenated
  <2>3. QED BY <1>2, <2>2, Concatenated
<1>10. rows \in Bytes /\ Len(rows) = IntWidth + Len(F) /\ Len(F) \in Nat
  BY <1>2, <1>7, Concatenated
<1>11. Len(meta) \in Int
  BY <1>9, LenProperties DEF Bytes
<1> HIDE DEF meta, rows
<1>12. inner \in Bytes
  <2>1. WriteInteger("int", Number(Len(meta))) \in Bytes
    BY <1>11, CountBytes
  <2>2. QED BY <1>9, <2>1, Concatenated
<1>13. At(b, k, table)
  BY <1>8
<1> HIDE DEF inner
<1>14. x \in Bytes /\ Len(x) = Len(inner) + Len(rows) /\ Len(inner) \in Nat
  BY <1>10, <1>12, Concatenated
<1> HIDE DEF x
<1>15. /\ Number(Len(x)) \in Numbers("int") /\ Len(table) = IntWidth + Len(x)
       /\ At(b, k + IntWidth, x) /\ At(b, k, WriteInteger("int", Number(Len(x))))
  BY <1>13, <1>14, CountedBound
<1>16. At(b, k + IntWidth, inner) /\ At(b, k + IntWidth + Len(inner), rows)
  <2>1. At(b, k + IntWidth, inner \o rows)
    BY <1>15 DEF x
  <2>2. QED BY <1>3, <1>10, <1>12, <2>1, AtEach
<1>17. /\ Number(Len(meta)) \in Numbers("int") /\ Len(inner) = IntWidth + Len(meta)
       /\ At(b, k + IntWidth + IntWidth, meta) /\ At(b, k + IntWidth, WriteInteger("int", Number(Len(meta))))
  <2>1. At(b, k + IntWidth, WriteInteger("int", Number(Len(meta))) \o meta)
    BY <1>16 DEF inner
  <2>2. QED BY <1>9, <2>1, CountedBound DEF inner
<1>18. /\ At(b, k2, a) /\ At(b, k2 + Len(a), s) /\ At(b, k2 + Len(a) + Len(s), C)
       /\ At(b, k2 + Len(a) + Len(s) + Len(C), N)
       /\ Len(meta) = Len(a) + Len(s) + Len(C) + Len(N)
  <2>1. At(b, k2, a \o s \o C \o N)
    BY <1>17 DEF meta
  <2>2. /\ At(b, k2, a) /\ At(b, k2 + Len(a), s) /\ At(b, k2 + Len(a) + Len(s), C)
        /\ At(b, k2 + Len(a) + Len(s) + Len(C), N)
        /\ Len(a \o s \o C \o N) = Len(a) + Len(s) + Len(C) + Len(N)
    <3>1. b \in Bytes /\ a \in Bytes /\ s \in Bytes /\ C \in Bytes /\ N \in Bytes
      BY <1>2, <1>3, <1>5, <1>6
    <3>2. QED BY <2>1, <3>1, FourAt
  <2>3. QED BY <2>2 DEF meta
<1>19. Len(C) \in Nat /\ Len(N) \in Nat
  BY <1>2, LenProperties DEF Bytes
<1>20. k5 = k4 + Len(C) /\ k6 = k5 + Len(N)
  BY DEF C, N
<1> DEFINE lC == Len(C)
           lN == Len(N)
           lM == Len(meta)
           lI == Len(inner)
           lx == Len(x)
           lF == Len(F)
           lR == Len(rows)
           lT == Len(table)
<1>21. /\ {k2, k3, k4, k5, k6, k7} \subseteq Nat /\ IntWidth <= k7
       /\ k2 + Len(a) = k3 /\ k2 + Len(a) + Len(s) = k4 /\ k2 + Len(a) + Len(s) + Len(C) = k5
       /\ k6 = k + IntWidth + Len(inner)
  <2>1. /\ k5 = k4 + lC /\ k6 = k5 + lN /\ lI = IntWidth + lM /\ lC \in Nat /\ lN \in Nat
        /\ lM = 1 + ShortWidth + lC + lN
    BY <1>5, <1>6, <1>17, <1>18, <1>19, <1>20
  <2> HIDE DEF lC, lN, lM, lI
  <2>2. k2 \in Nat /\ k3 \in Nat /\ k4 \in Nat /\ k5 \in Nat /\ k6 \in Nat /\ k7 \in Nat /\ IntWidth <= k7
    BY <1>3, <2>1
  <2>3. /\ k2 + 1 = k3 /\ k2 + 1 + ShortWidth = k4 /\ k2 + 1 + ShortWidth + lC = k5
        /\ k6 = k + IntWidth + lI
    BY <1>3, <2>1, <2>2
  <2>4. QED BY <1>5, <1>6, <2>2, <2>3 DEF lC, lI
<1>22. At(b, k6, h) /\ At(b, k6 + IntWidth, F)
  <2>1. At(b, k6, h \o F)
    BY <1>16, <1>21 DEF rows
  <2>2. QED BY <1>2, <1>3, <1>7, <2>1, AtEach
<1>23. k7 + Len(F) = k + Len(table)
  <2>1. /\ lx = lI + lR /\ lR = IntWidth + lF /\ lT = IntWidth + lx /\ lF \in Nat /\ lI \in Nat
        /\ k6 = k + IntWidth + lI
    BY <1>10, <1>14, <1>15, <1>21
  <2> HIDE DEF lx, lI, lR, lT, lF
  <2>2. k7 + lF = k + lT
    BY <1>3, <2>1
  <2>3. QED BY <2>2 DEF lF, lT
<1>24. PiecesAt(b, t, k2, k3, k4, k5, k6, k7)
  BY <1>18, <1>21, <1>22 DEF PiecesAt, a, s, C, N, h, F, n, m
<1>25. QED BY <1>4, <1>8, <1>15, <1>17, <1>21, <1>23, <1>24 DEF n, F

\* The method for an integer.
LEMMA IntegerMethodAt ==
  ASSUME NEW kind \in {"byte", "short", "int"}, NEW v \in Numbers(kind), NEW b \in Bytes, NEW k,
         At(b, k, WriteInteger(kind, v))
  PROVE  TypesRead(b, Scalars(b))[kind][k] = Cursor(k + Width[kind], v)
<1>1. k \in Nat
  BY DEF At
<1>2. TypesRead(b, Scalars(b))[kind][k] = ReadScalar(b, Cursor(k, Null), kind)
  <2>1. kind \in DOMAIN Kinds \ {"array"}
    BY DEF Kinds
  <2>2. QED BY <1>1, <2>1, ScalarIs
<1>3. ReadScalar(b, Cursor(k, Null), kind) = ReadInteger(b, Cursor(k, Null), kind)
  BY DEF ReadScalar
<1>4. ReadInteger(b, Cursor(k, Null), kind) = Cursor(k + Width[kind], v)
  BY IntegerAt
<1>5. QED BY <1>2, <1>3, <1>4

\* The four integers a table starts with.
HeadAt(b, k, k2, u, w, st, c) ==
  /\ u \in Numbers("int") /\ w \in Numbers("int") /\ st \in Numbers("byte") /\ c \in Numbers("short")
  /\ k2 = k + IntWidth + IntWidth
  /\ At(b, k, WriteInteger("int", u)) /\ At(b, k + IntWidth, WriteInteger("int", w))
  /\ At(b, k2, WriteInteger("byte", st)) /\ At(b, k2 + 1, WriteInteger("short", c))
\* They are read one after the other.
LEMMA HeadRead ==
  ASSUME NEW b \in Bytes, NEW k, NEW k2, NEW u, NEW w, NEW st, NEW c, NEW x,
         HeadAt(b, k, k2, u, w, st, c), NEW read, read = TypesRead(b, Scalars(b))
  PROVE  ReadEach(Cursor(k, x), <<read["int"], read["int"], read["byte"], read["short"]>>)
           = Cursor(k2 + 1 + ShortWidth, List(<<u, w, st, c>>))
<1> DEFINE p == [i \in 0 .. 4 |-> CASE i = 0 -> k [] i = 1 -> k + IntWidth [] i = 2 -> k2
                                    [] i = 3 -> k2 + 1 [] i = 4 -> k2 + 1 + ShortWidth]
           v == <<u, w, st, c>>
           ms == <<read["int"], read["int"], read["byte"], read["short"]>>
<1>1. Width["int"] = IntWidth /\ Width["short"] = ShortWidth /\ Width["byte"] = 1
  BY DEF Width
<1>2. /\ read["int"][k] = Cursor(k + IntWidth, u)
      /\ read["int"][k + IntWidth] = Cursor(k2, w)
  BY <1>1, IntegerMethodAt DEF HeadAt
<1>3. read["byte"][k2] = Cursor(k2 + 1, st)
  BY <1>1, IntegerMethodAt DEF HeadAt
<1>4. read["short"][k2 + 1] = Cursor(k2 + 1 + ShortWidth, c)
  BY <1>1, IntegerMethodAt DEF HeadAt
<1>5. /\ p[0] = k /\ p[1] = k + IntWidth /\ p[2] = k2 /\ p[3] = k2 + 1
      /\ p[4] = k2 + 1 + ShortWidth
  OBVIOUS
<1>6. v = [i \in 1 .. 4 |-> v[i]] /\ Len(ms) = 4 /\ 4 \in Nat
  OBVIOUS
<1>7. \A i \in 1 .. 4 : ms[i][p[i - 1]] = Cursor(p[i], v[i])
  <2>1. /\ ms[1] = read["int"] /\ ms[2] = read["int"] /\ ms[3] = read["byte"] /\ ms[4] = read["short"]
        /\ v[1] = u /\ v[2] = w /\ v[3] = st /\ v[4] = c
    OBVIOUS
  <2> HIDE DEF p, v, ms
  <2>2. /\ ms[1][p[1 - 1]] = Cursor(p[1], v[1]) /\ ms[2][p[2 - 1]] = Cursor(p[2], v[2])
        /\ ms[3][p[3 - 1]] = Cursor(p[3], v[3]) /\ ms[4][p[4 - 1]] = Cursor(p[4], v[4])
    BY <1>2, <1>3, <1>4, <1>5, <2>1
  <2>3. QED BY <2>2
<1> HIDE DEF p, v, ms
<1>8. Reading(ms, 4, p, v)
  BY <1>6, <1>7 DEF Reading
<1>9. ReadEach(Cursor(p[0], x), ms) = Cursor(p[4], List(v))
  BY <1>8, EachAt
<1>10. QED BY <1>5, <1>9 DEF v, ms

\* The codes of the columns are read as numbers.
LEMMA CodesRead ==
  ASSUME NEW t, IsTable(t), NEW b \in Bytes, NEW k, NEW x, At(b, k, FlattenSeq(CodeSeq(t)))
  PROVE  ReadMany(b, Cursor(k, x), Len(t.columnTypes), 1, TypesRead(b, Scalars(b))["byte"])
           = Cursor(k + Len(FlattenSeq(CodeSeq(t))),
                    List([j \in 1 .. Len(t.columnTypes) |-> Number(Kinds[t.columnTypes[j]])]))
<1> DEFINE n == Len(t.columnTypes)
           v == [j \in 1 .. n |-> Number(Kinds[t.columnTypes[j]])]
           ss == CodeSeq(t)
           method == TypesRead(b, Scalars(b))["byte"]
           ms == Each(n, method)
<1>1. n \in Nat /\ Filled(ss, n) /\ ss \in [1 .. n -> Bytes]
  BY ColumnsOf, PiecesFilled, FilledBytes
<1>2. ASSUME NEW j \in 1 .. n, NEW at \in Nat, At(b, at, ss[j])
      PROVE  method[at] = Cursor(at + Len(ss[j]), v[j])
  <2> DEFINE y == Number(Kinds[t.columnTypes[j]])
  <2>1. y \in Numbers("byte")
    <3>1. t.columnTypes[j] \in DOMAIN Kinds
      BY ColumnsOf
    <3>2. QED BY <3>1, CodeKnown
  <2>2. ss[j] = WriteInteger("byte", y) /\ v[j] = y
    BY DEF CodeSeq, WriteByte
  <2>3. Len(WriteInteger("byte", y)) = Width["byte"]
    <3> HIDE DEF y
    <3>1. At(b, at, WriteInteger("byte", y))
      BY <1>2, <2>2
    <3>2. QED BY <2>1, <3>1, IntegerAt
  <2> HIDE DEF y, v, ss
  <2>4. method[at] = Cursor(at + Width["byte"], y)
    BY <1>2, <2>1, <2>2, IntegerMethodAt
  <2>5. QED BY <2>2, <2>3, <2>4
<1>3. v = [j \in 1 .. n |-> v[j]] /\ Len(ms) = n /\ \A j \in 1 .. n : ms[j] = method
  <2> HIDE DEF n, method
  <2>1. QED BY <1>1 DEF Each
<1> HIDE DEF n, v, ss, method, ms
<1>4. ReadsWhat(b, k, ss, ms, n, v)
  BY <1>1, <1>2, <1>3 DEF ReadsWhat
<1>5. Elements(b, k, ss, method, n, v, 1)
  BY <1>1, <1>4 DEF Elements, ms, Filled
<1>6. At(b, k, FlattenSeq(ss))
  BY DEF ss
<1>7. ReadMany(b, Cursor(k, x), n, 1, method) = Cursor(k + Len(FlattenSeq(ss)), List(v))
  BY <1>5, <1>6, ManyAt
<1>8. QED BY <1>7 DEF n, v, ss, method

\* The names of the columns.
LEMMA NamesRead ==
  ASSUME NEW t, IsTable(t), NEW b, Bounded(b), NEW k, NEW x, At(b, k, FlattenSeq(NameSeq(t)))
  PROVE  ReadMany(b, Cursor(k, x), Len(t.columnTypes), 1, TypesRead(b, Scalars(b))["string"])
           = Cursor(k + Len(FlattenSeq(NameSeq(t))), List(t.columnNames))
<1> DEFINE n == Len(t.columnTypes)
           v == t.columnNames
           ss == NameSeq(t)
           method == TypesRead(b, Scalars(b))["string"]
           ms == Each(n, method)
<1>1. n \in Nat /\ Filled(ss, n) /\ ss \in [1 .. n -> Bytes] /\ b \in Bytes
  BY ColumnsOf, PiecesFilled, FilledBytes DEF Bounded
<1>2. ASSUME NEW j \in 1 .. n, NEW at \in Nat, At(b, at, ss[j])
      PROVE  method[at] = Cursor(at + Len(ss[j]), v[j])
  <2> DEFINE y == v[j]
             z == y[2]
  <2>1. y \in Strings
    BY ColumnsOf
  <2>2. z \in Bytes /\ y # Null
    BY <2>1 DEF Strings, Bytes, Null
  <2>3. ss[j] = WriteBytes(y)
    BY DEF NameSeq
  <2> HIDE DEF y, v, ss
  <2>4. WriteBytes(y) = WriteInteger("int", Number(Len(z))) \o z
    BY <2>2 DEF WriteBytes
  <2>5. At(b, at, WriteInteger("int", Number(Len(z))) \o z)
    BY <1>2, <2>3, <2>4
  <2>6. Len(z) <= Most("int")
    <3> HIDE DEF z
    <3>1. QED BY <2>2, <2>5, CountedBound
  <2>7. ReadString(b, Cursor(at, Null)) = Cursor(at + Len(WriteBytes(y)), y)
    <3>1. At(b, at, WriteBytes(y)) /\ (y # Null => Len(y[2]) <= Most("int")) /\ y \in Strings \cup {Null}
      BY <1>2, <2>1, <2>3, <2>6
    <3>2. QED BY <1>1, <3>1, StringAt
  <2>8. method[at] = ReadScalar(b, Cursor(at, Null), "string")
    <3>1. "string" \in DOMAIN Kinds \ {"array"}
      BY DEF Kinds
    <3>2. QED BY <1>1, <1>2, <3>1, ScalarIs
  <2>9. ReadScalar(b, Cursor(at, Null), "string") = ReadString(b, Cursor(at, Null))
    BY DEF ReadScalar
  <2>10. QED BY <2>3, <2>7, <2>8, <2>9 DEF y
<1>3. v = [j \in 1 .. n |-> v[j]]
  <2>1. v \in Seq(Strings) /\ Len(v) = n
    BY ColumnsOf DEF IsTable
  <2> HIDE DEF n, v
  <2>2. QED BY <2>1, LenProperties
<1>4. Len(ms) = n /\ \A j \in 1 .. n : ms[j] = method
  <2> HIDE DEF n, method
  <2>1. QED BY <1>1 DEF Each
<1> HIDE DEF n, v, ss, method, ms
<1>5. ReadsWhat(b, k, ss, ms, n, v)
  BY <1>1, <1>2, <1>3, <1>4 DEF ReadsWhat
<1>6. Elements(b, k, ss, method, n, v, 1)
  BY <1>1, <1>5 DEF Elements, ms, Filled
<1>7. At(b, k, FlattenSeq(ss))
  BY DEF ss
<1>8. ReadMany(b, Cursor(k, x), n, 1, method) = Cursor(k + Len(FlattenSeq(ss)), List(v))
  BY <1>1, <1>6, <1>7, ManyAt
<1>9. QED BY <1>8 DEF n, v, ss, method

\* The rows.
LEMMA RowsRead ==
  ASSUME NEW t, IsTable(t), NEW b, Bounded(b), NEW k, NEW x, At(b, k, FlattenSeq(RowSeq(t)))
  PROVE  ReadMany(b, Cursor(k, x), Len(t.rows), 1,
                  ReadRow(TypesRead(b, Scalars(b)), t.columnTypes, t.columnNames))
           = Cursor(k + Len(FlattenSeq(RowSeq(t))), List([i \in 1 .. Len(t.rows) |-> RowRead(t, i)]))
<1> DEFINE n == Len(t.rows)
           v == [i \in 1 .. n |-> RowRead(t, i)]
           ss == RowSeq(t)
           method == ReadRow(TypesRead(b, Scalars(b)), t.columnTypes, t.columnNames)
           ms == Each(n, method)
<1>1. n \in Nat /\ Filled(ss, n) /\ ss \in [1 .. n -> Bytes] /\ b \in Bytes
  BY ColumnsOf, PiecesFilled, FilledBytes DEF Bounded
<1>2. ASSUME NEW i \in 1 .. n, NEW at \in Nat, At(b, at, ss[i])
      PROVE  method[at] = Cursor(at + Len(ss[i]), v[i])
  <2>1. RowOf(t, i)
    BY ColumnsOf
  <2>2. ss[i] = Counted("int", RowBytes(t, i)) /\ v[i] = RowRead(t, i)
    BY DEF RowSeq
  <2>3. At(b, at, Counted("int", RowBytes(t, i)))
    BY <1>2, <2>2
  <2>4. method[at] = Cursor(at + Len(Counted("int", RowBytes(t, i))), RowRead(t, i))
    BY <2>1, <2>3, RowAt
  <2>5. QED BY <2>2, <2>4
<1>3. v = [i \in 1 .. n |-> v[i]] /\ Len(ms) = n /\ \A i \in 1 .. n : ms[i] = method
  <2> HIDE DEF n, method
  <2>1. QED BY <1>1 DEF Each
<1> HIDE DEF n, v, ss, method, ms
<1>4. ReadsWhat(b, k, ss, ms, n, v)
  BY <1>1, <1>2, <1>3 DEF ReadsWhat
<1>5. Elements(b, k, ss, method, n, v, 1)
  BY <1>1, <1>4 DEF Elements, ms, Filled
<1>6. At(b, k, FlattenSeq(ss))
  BY DEF ss
<1>7. ReadMany(b, Cursor(k, x), n, 1, method) = Cursor(k + Len(FlattenSeq(ss)), List(v))
  BY <1>1, <1>5, <1>6, ManyAt
<1>8. QED BY <1>7 DEF n, v, ss, method

\* What the driver makes of a table.
TableRead(t) ==
  <<"table", [status |-> t.status, columnNames |-> t.columnNames, columnTypes |-> t.columnTypes,
              rows |-> [i \in 1 .. Len(t.rows) |-> RowRead(t, i)]]>>
\* readVoltTable: a table is read where it was written, whatever its columns and rows.
THEOREM TableIsRead ==
  ASSUME NEW t, IsTable(t), NEW b, Bounded(b), NEW k, NEW x, At(b, k, TableBytes(t))
  PROVE  ReadTable(b, Cursor(k, x)) = Cursor(k + Len(TableBytes(t)), TableRead(t))
<1> DEFINE c      == Cursor(k, x)
           read   == TypesRead(b, Scalars(b))
           head   == ReadEach(c, <<read["int"], read["int"], read["byte"], read["short"]>>)
           count  == AsNumber(head.value[2][4])
           codes  == ReadMany(b, head, count, 1, read["byte"])
           types  == [j \in 1 .. count |-> KindCoded(codes.value[2][j])]
           named  == ReadMany(b, codes, count, 1, read["string"])
           names  == named.value[2]
           size   == Call(read["int"], named)
           rows   == ReadMany(b, size, AsNumber(size.value), 1, ReadRow(read, types, names))
<1>1. ReadTable(b, c)
        = IF ~size.ok THEN size ELSE IF ~rows.ok THEN rows
          ELSE Gives(rows, <<"table", [status |-> head.value[2][3], columnNames |-> names,
                                       columnTypes |-> types, rows |-> rows.value[2]]>>)
  BY DEF ReadTable
<1> DEFINE n  == Len(t.columnTypes)
           m  == Len(t.rows)
           C  == FlattenSeq(CodeSeq(t))
           N  == FlattenSeq(NameSeq(t))
           F  == FlattenSeq(RowSeq(t))
           k2 == k + IntWidth + IntWidth
           k3 == k2 + 1
           k4 == k3 + ShortWidth
           k5 == k4 + Len(C)
           k6 == k5 + Len(N)
           k7 == k6 + IntWidth
           cs == [j \in 1 .. n |-> Number(Kinds[t.columnTypes[j]])]
           rs == [i \in 1 .. m |-> RowRead(t, i)]
<1>2. n \in Nat /\ m \in Nat /\ b \in Bytes /\ t.status \in Numbers("byte")
  BY ColumnsOf DEF Bounded
<1>3. /\ PiecesAt(b, t, k2, k3, k4, k5, k6, k7)
      /\ k7 + Len(F) = k + Len(TableBytes(t))
      /\ {k2, k3, k4, k5, k6, k7} \subseteq Nat /\ IntWidth <= k7
      /\ Number(n) \in Numbers("short")
      /\ \E u \in Numbers("int") : \E w \in Numbers("int") :
           At(b, k, WriteInteger("int", u)) /\ At(b, k + IntWidth, WriteInteger("int", w))
  <2> HIDE DEF c, read, head, count, codes, types, named, names, size, rows
  <2>1. QED BY PiecesOfTable
<1>4. PICK u \in Numbers("int"), w \in Numbers("int") :
        At(b, k, WriteInteger("int", u)) /\ At(b, k + IntWidth, WriteInteger("int", w))
  BY <1>3
<1> DEFINE hv == <<u, w, t.status, Number(n)>>
<1> HIDE DEF c, read, head, count, codes, types, named, names, size, rows, cs, rs, C, N, F
<1>5. head = Cursor(k4, List(hv))
  <2>1. HeadAt(b, k, k2, u, w, t.status, Number(n))
    <3> HIDE DEF n
    <3>1. QED BY <1>2, <1>3, <1>4 DEF HeadAt, PiecesAt, n
  <2>2. read = TypesRead(b, Scalars(b))
    BY DEF read
  <2> HIDE DEF k2, n
  <2>3. ReadEach(Cursor(k, x), <<read["int"], read["int"], read["byte"], read["short"]>>)
          = Cursor(k2 + 1 + ShortWidth, List(<<u, w, t.status, Number(n)>>))
    BY <1>2, <2>1, <2>2, HeadRead
  <2>4. QED BY <2>3 DEF head, c
<1>6. count = n /\ head.value[2][3] = t.status
  <2>1. head.value[2] = hv
    BY <1>5 DEF Cursor, List
  <2>2. hv[4] = Number(n) /\ hv[3] = t.status
    OBVIOUS
  <2>3. AsNumber(Number(n)) = n
    BY DEF AsNumber, Number, Null
  <2> HIDE DEF hv, n
  <2>4. QED BY <2>1, <2>2, <2>3 DEF count
<1> HIDE DEF k2, k3, k4, k5, k6, k7, hv, n
<1>7. codes = Cursor(k5, List(cs))
  <2>1. At(b, k4, FlattenSeq(CodeSeq(t)))
    BY <1>3 DEF PiecesAt
  <2>2. ReadMany(b, Cursor(k4, List(hv)), Len(t.columnTypes), 1, TypesRead(b, Scalars(b))["byte"])
          = Cursor(k4 + Len(FlattenSeq(CodeSeq(t))),
                   List([j \in 1 .. Len(t.columnTypes) |-> Number(Kinds[t.columnTypes[j]])]))
    BY <1>2, <2>1, CodesRead
  <2>3. QED BY <1>5, <1>6, <2>2 DEF codes, read, n, C, k5, cs
<1>8. types = t.columnTypes
  <2>1. codes.value[2] = cs
    BY <1>7 DEF Cursor, List
  <2>2. \A j \in 1 .. n : KindCoded(cs[j]) = t.columnTypes[j]
    <3>1. TAKE j \in 1 .. n
    <3>2. t.columnTypes[j] \in DOMAIN Kinds
      BY ColumnsOf DEF n
    <3>3. cs[j] = Number(Kinds[t.columnTypes[j]])
      BY DEF cs
    <3>4. QED BY <3>2, <3>3, CodeKnown
  <2>3. types = [j \in 1 .. n |-> KindCoded(cs[j])]
    BY <1>6, <2>1 DEF types
  <2>4. t.columnTypes = [j \in 1 .. n |-> t.columnTypes[j]]
    <3>1. t.columnTypes \in Seq(DOMAIN Kinds \ {"array", "null"})
      BY DEF IsTable
    <3>2. QED BY <3>1, LenProperties DEF n
  <2>5. QED BY <2>2, <2>3, <2>4
<1>9. named = Cursor(k6, List(t.columnNames)) /\ names = t.columnNames
  <2>1. At(b, k5, FlattenSeq(NameSeq(t)))
    BY <1>3 DEF PiecesAt
  <2>2. ReadMany(b, Cursor(k5, List(cs)), Len(t.columnTypes), 1, TypesRead(b, Scalars(b))["string"])
          = Cursor(k5 + Len(FlattenSeq(NameSeq(t))), List(t.columnNames))
    BY <2>1, NamesRead
  <2>3. named = Cursor(k6, List(t.columnNames))
    BY <1>6, <1>7, <2>2 DEF named, read, n, N, k6
  <2>4. QED BY <2>3 DEF names, Cursor, List
<1>10. F \in Bytes /\ m <= Len(F) /\ Len(F) \in Nat
  BY PiecesFilled, FilledBytes DEF F
<1>11. Number(m) \in Numbers("int")
  <2>1. At(b, k7, F)
    BY <1>3 DEF PiecesAt, F
  <2>2. k7 + Len(F) <= Len(b) /\ Len(b) <= IntWidth + Most("int") /\ Len(b) \in Nat
    BY <2>1, LenProperties DEF At, Bounded, Bytes
  <2>3. Least("int") \in Int /\ Least("int") <= -8 /\ Most("int") \in Nat /\ IntWidth \in Nat
    <3>1. IntWidth \in Nat
      BY ValueConstants
    <3>2. QED BY <3>1, Widths
  <2> DEFINE l == Len(F)
  <2>4. l \in Nat /\ m <= l /\ k7 + l <= Len(b) /\ k7 \in Nat /\ IntWidth <= k7 /\ m \in Nat
    BY <1>2, <1>3, <1>10, <2>2
  <2> HIDE DEF l, m
  <2>5. m <= Most("int")
    BY <2>2, <2>3, <2>4
  <2>6. QED BY <2>3, <2>4, <2>5 DEF Numbers, Number
<1>12. size = Cursor(k7, Number(m))
  <2>1. At(b, k6, WriteInteger("int", Number(m)))
    BY <1>3 DEF PiecesAt
  <2> HIDE DEF m
  <2>2. Call(TypesRead(b, Scalars(b))["int"], Cursor(k6, List(t.columnNames))) = Cursor(k6 + IntWidth, Number(m))
    BY <1>2, <1>11, <2>1, IntMethodAt
  <2>3. QED BY <1>9, <2>2 DEF size, read, k7
<1>13. rows = Cursor(k7 + Len(F), List(rs))
  <2>1. At(b, k7, FlattenSeq(RowSeq(t)))
    BY <1>3 DEF PiecesAt
  <2>2. ReadMany(b, Cursor(k7, Number(m)), Len(t.rows), 1,
                 ReadRow(TypesRead(b, Scalars(b)), t.columnTypes, t.columnNames))
          = Cursor(k7 + Len(FlattenSeq(RowSeq(t))), List([i \in 1 .. Len(t.rows) |-> RowRead(t, i)]))
    BY <2>1, RowsRead
  <2>3. AsNumber(size.value) = m
    BY <1>12 DEF AsNumber, Number, Null, Cursor
  <2>4. QED BY <1>8, <1>9, <1>12, <2>2, <2>3 DEF rows, read, F, rs
<1>14. size.ok /\ rows.ok /\ rows.value[2] = rs
  BY <1>12, <1>13 DEF Cursor, List
<1>15. ReadTable(b, c) = Gives(rows, TableRead(t))
  <2>1. TableRead(t) = <<"table", [status |-> t.status, columnNames |-> t.columnNames,
                                   columnTypes |-> t.columnTypes, rows |-> rs]>>
    BY DEF TableRead, rs
  <2>2. QED BY <1>1, <1>6, <1>8, <1>9, <1>14, <2>1
<1>16. Gives(rows, TableRead(t)) = Cursor(k7 + Len(F), TableRead(t))
  BY <1>13 DEF Gives, Cursor
<1>17. QED BY <1>3, <1>15, <1>16 DEF c

-----------------------------------------------------------------------------
(* What a documented table has become *)

\* A cell that is read well agrees with what was sent.
LEMMA CellKept ==
  ASSUME NEW kind \in DOMAIN Kinds \ {"array", "null"}, NEW v, IsCell(kind, v), ReadWell(kind, v)
  PROVE  CellAgrees(kind, v, CellRead(kind, v))
<1>1. CASE kind = "decimal" /\ v # Null
  <2> DEFINE i == v[2]
             r == Pointed(Numeral(i))
  <2>1. v \in {"unscaled"} \X (Least("decimal") + 1 .. Most("decimal"))
    BY <1>1 DEF IsCell
  <2>2. Least("decimal") \in Int /\ Most("decimal") \in Nat
    BY Widths
  <2>3. i \in Int
    BY <2>1, <2>2
  <2>4. i >= 0 \/ i <= -Power(10, DecimalPlaces - 1)
    BY <1>1 DEF ReadWell
  <2>5. CellRead(kind, v) = r
    BY <1>1 DEF CellRead
  <2> HIDE DEF i
  <2>6. /\ r[1] = "text" /\ r[2] # <<>> /\ Len(r[3]) = DecimalPlaces
        /\ \A j \in 1 .. Len(r[2]) : r[2][j] = Minus => j = 1
        /\ \A j \in 1 .. Len(r[3]) : r[3][j] # Minus
        /\ Spelt(r[2] \o r[3]) = i
    BY <2>3, <2>4, PointedSays
  <2> HIDE DEF r
  <2>7. QED BY <1>1, <2>5, <2>6 DEF CellAgrees, i
<1>2. CASE kind = "decimal" /\ v = Null
  BY <1>2 DEF CellAgrees, CellRead
<1>3. CASE kind = "date"
  BY <1>3 DEF CellAgrees, CellRead, ReadWell
<1>4. CASE kind \notin {"decimal", "date"}
  BY <1>4 DEF CellAgrees, CellRead
<1>5. QED BY <1>1, <1>2, <1>3, <1>4

\* The last column of a name is the one no later column has the name of.
LEMMA LastIs ==
  ASSUME NEW names, Len(names) \in Nat, NEW j \in 1 .. Len(names),
         names[j] \notin {names[k] : k \in j + 1 .. Len(names)}
  PROVE  LastOf(names, names[j]) = j
<1> DEFINE n == Len(names)
           P(i) == names[i] = names[j] /\ \A k \in i + 1 .. n : names[k] # names[j]
<1>1. P(j)
  OBVIOUS
<1>2. ASSUME NEW i \in 1 .. n, P(i) PROVE i = j
  <2>1. ~(j \in i + 1 .. n) /\ ~(i \in j + 1 .. n)
    BY <1>2
  <2>2. QED BY <2>1
<1>3. LastOf(names, names[j]) = CHOOSE i \in 1 .. n : P(i)
  BY DEF LastOf
<1>4. j \in 1 .. n
  OBVIOUS
<1> HIDE DEF P, n
<1>5. QED BY <1>1, <1>2, <1>3, <1>4

\* So does a table.
LEMMA TableKept ==
  ASSUME NEW t, IsTable(t)
  PROVE  TableAgrees(t, TableRead(t))
<1> DEFINE r == TableRead(t)
           n == Len(t.columnTypes)
<1>1. /\ r[1] = "table" /\ r[2].status = t.status
      /\ r[2].columnNames = t.columnNames /\ r[2].columnTypes = t.columnTypes
      /\ r[2].rows = [i \in 1 .. Len(t.rows) |-> RowRead(t, i)]
  BY DEF TableRead
<1>2. Len(t.rows) \in Nat /\ Len(t.columnNames) = n /\ n \in Nat
  BY ColumnsOf
<1> HIDE DEF r
<1>3. Len(r[2].rows) = Len(t.rows)
  <2> DEFINE m == Len(t.rows)
             f == [i \in 1 .. m |-> RowRead(t, i)]
  <2>1. m \in Nat /\ r[2].rows = f
    BY <1>1, <1>2
  <2> HIDE DEF m
  <2>2. Len(f) = m
    BY <2>1
  <2>3. QED BY <2>1, <2>2 DEF m
<1>4. ASSUME NEW i \in 1 .. Len(t.rows), NEW j \in 1 .. Len(t.columnNames),
             ReadWell(t.columnTypes[j], t.rows[i][j]),
             t.columnNames[j] \notin {t.columnNames[k] : k \in j + 1 .. Len(t.columnNames)}
      PROVE  CellAgrees(t.columnTypes[j], t.rows[i][j], r[2].rows[i][t.columnNames[j]])
  <2> DEFINE names == t.columnNames
             name == names[j]
             kind == t.columnTypes[j]
             cell == t.rows[i][j]
  <2>1. LastOf(names, name) = j
    BY <1>2, <1>4, LastIs
  <2>2. name \in ToSet(names)
    <3>1. names \in Seq(Strings)
      BY DEF IsTable
    <3>2. QED BY <3>1 DEF ToSet
  <2>3. RowRead(t, i)[name] = CellRead(kind, cell)
    <3>1. RowRead(t, i)[name] = CellsRead(t, i)[LastOf(names, name)]
      BY <2>2 DEF RowRead
    <3>2. CellsRead(t, i)[j] = CellRead(kind, cell)
      BY <1>2 DEF CellsRead
    <3>3. QED BY <2>1, <3>1, <3>2
  <2>4. r[2].rows[i] = RowRead(t, i)
    BY <1>1
  <2>5. kind \in DOMAIN Kinds \ {"array", "null"} /\ IsCell(kind, cell) /\ ReadWell(kind, cell)
    <3>1. RowOf(t, i) /\ j \in 1 .. n
      BY <1>2, ColumnsOf
    <3>2. QED BY <1>4, <3>1 DEF RowOf
  <2>6. CellAgrees(kind, cell, CellRead(kind, cell))
    <3> HIDE DEF kind, cell
    <3>1. QED BY <2>5, CellKept
  <2>7. QED BY <2>3, <2>4, <2>6
<1>5. QED BY <1>1, <1>3, <1>4 DEF TableAgrees, r

-----------------------------------------------------------------------------
(* A response *)

\* The byte of the fields there are, as it is read: with a sign.
LEMMA BitsRead ==
  ASSUME NEW r, IsResponse(r), FieldsOf(r) # {"appStatus"},
         NEW b \in Bytes, NEW k, NEW x, At(b, k, <<BitsOf(r)>>)
  PROVE  \E y : /\ ReadInteger(b, Cursor(k, x), "byte") = Cursor(k + 1, y)
                /\ \A f \in {"status", "exception", "appStatus"} : Announces(y, f) <=> f \in FieldsOf(r)
<1> DEFINE sum == BitsOf(r)
           n == IF sum < 128 THEN sum ELSE sum - 256
           y == Number(n)
           one == "status" \in FieldsOf(r)
           two == "exception" \in FieldsOf(r)
           three == "appStatus" \in FieldsOf(r)
<1>1. sum = (IF one THEN 32 ELSE 0) + (IF two THEN 64 ELSE 0) + (IF three THEN 128 ELSE 0)
  BY DEF BitsOf, Present
<1>2. ~(three /\ ~one /\ ~two)
  BY FieldsIn
<1>3. Width["byte"] = 1 /\ Capacity(1) = 256 /\ Base = 256
  <2>1. Base = 256 /\ Base \in Nat \ {0}
    BY ValueConstants
  <2>2. Power(Base, 0) = 1 /\ Power(Base, 0 + 1) = Base * Power(Base, 0)
    <3>1. 0 \in Nat
      OBVIOUS
    <3>2. QED BY <3>1, PowerRecursion
  <2>3. QED BY <2>1, <2>2 DEF Width, Capacity
<1>4. Least("byte") = -128 /\ Most("byte") = 127
  BY <1>3 DEF Least, Most
<1> HIDE DEF one, two, three, sum
<1>5. sum \in 0 .. 255 /\ sum # 128 /\ n \in -127 .. 127
  BY <1>1, <1>2
<1>6. y \in Numbers("byte")
  <2> HIDE DEF n
  <2>1. QED BY <1>4, <1>5 DEF Numbers, Number
<1>7. WriteInteger("byte", y) = <<sum>>
  <2>1. UnsignedOf(n, 256) = sum
    BY <1>5 DEF UnsignedOf
  <2>2. y # Null /\ y[2] = n
    BY DEF Number, Null
  <2> HIDE DEF n, y
  <2>3. WriteInteger("byte", y) = Digits(256, sum, 1)
    BY <1>3, <2>1, <2>2 DEF WriteInteger, WriteSigned, WriteUnsigned
  <2>4. Power(256, 0) = 1
    BY PowerRecursion
  <2>5. \A i \in 1 .. 1 : Digits(256, sum, 1)[i] = sum
    <3>1. TAKE i \in 1 .. 1
    <3>2. i = 1 /\ 1 - i = 0
      OBVIOUS
    <3>3. Digits(256, sum, 1)[i] = (sum \div Power(256, 0)) % 256
      BY <3>2 DEF Digits
    <3>4. QED BY <1>5, <2>4, <3>3
  <2>6. Digits(256, sum, 1) = [i \in 1 .. 1 |-> Digits(256, sum, 1)[i]]
    BY DEF Digits
  <2>7. QED BY <2>3, <2>5, <2>6
<1>8. ReadInteger(b, Cursor(k, x), "byte") = Cursor(k + 1, y)
  <2>1. At(b, k, WriteInteger("byte", y))
    BY <1>7 DEF sum
  <2> HIDE DEF y
  <2>2. QED BY <1>3, <1>6, <2>1, IntegerAt
<1>9. AsNumber(y) % 256 = sum
  <2>1. AsNumber(y) = n
    BY DEF AsNumber, Number, Null
  <2>2. n % 256 = sum
    BY <1>5
  <2>3. QED BY <2>1, <2>2
<1>10. /\ (sum \div 32) % 2 = 1 <=> one
       /\ (sum \div 64) % 2 = 1 <=> two
       /\ (sum \div 128) % 2 = 1 <=> three
  BY <1>1
<1> HIDE DEF y
<1>11. /\ Announces(y, "status") <=> one
       /\ Announces(y, "exception") <=> two
       /\ Announces(y, "appStatus") <=> three
  BY <1>3, <1>9, <1>10 DEF Announces, HasBit, Present
<1>12. QED BY <1>8, <1>11 DEF one, two, three

\* Where the pieces of a response are.
ResponseAt(b, r, k1, k2, k3, k4, k5, k6) ==
  /\ {k1, k2, k3, k4, k5, k6} \subseteq Nat
  /\ k1 = Header + UidWidth /\ k2 = k1 + 1 /\ k3 = k2 + 1
  /\ k4 = k3 + Len(OptionalBytes(r.statusString)) /\ k5 = k4 + 1
  /\ k6 = k5 + Len(OptionalBytes(r.appStatusString))
  /\ At(b, Header, r.uid) /\ At(b, k1, <<BitsOf(r)>>)
  /\ At(b, k2, WriteInteger("byte", r.status)) /\ At(b, k3, OptionalBytes(r.statusString))
  /\ At(b, k4, WriteInteger("byte", r.appStatus)) /\ At(b, k5, OptionalBytes(r.appStatusString))
  /\ At(b, k6, OutcomeBytes(r))

\* A response that is somewhere has its pieces there.
LEMMA PiecesOfResponse ==
  ASSUME NEW r, IsResponse(r), NEW b \in Bytes, At(b, Header, ResponseBody(r))
  PROVE  \E k1, k2, k3, k4, k5, k6 : ResponseAt(b, r, k1, k2, k3, k4, k5, k6)
<1> DEFINE s1 == r.uid
           s2 == <<BitsOf(r)>>
           s3 == WriteInteger("byte", r.status)
           s4 == OptionalBytes(r.statusString)
           s5 == WriteInteger("byte", r.appStatus)
           s6 == OptionalBytes(r.appStatusString)
           s7 == OutcomeBytes(r)
           front == s1 \o s2 \o s3 \o s4
           k1 == Header + UidWidth
           k2 == k1 + 1
           k3 == k2 + 1
           k4 == k3 + Len(s4)
           k5 == k4 + 1
           k6 == k5 + Len(s6)
<1>1. /\ s1 \in Bytes /\ s2 \in Bytes /\ s3 \in Bytes /\ s4 \in Bytes /\ s5 \in Bytes /\ s6 \in Bytes
      /\ s7 \in Bytes /\ Len(s1) = UidWidth /\ Len(s2) = 1 /\ Len(s3) = 1 /\ Len(s5) = 1
      /\ UidWidth \in Nat
      /\ ResponseBody(r) = s1 \o s2 \o s3 \o s4 \o s5 \o s6 \o s7
  BY ResponsePieces
<1>2. Header \in Nat
  BY ValueConstants DEF Header
<1> HIDE DEF s1, s2, s3, s4, s5, s6, s7
<1>3. front \in Bytes
  <2>1. s1 \o s2 \in Bytes
    BY <1>1, Concatenated
  <2>2. s1 \o s2 \o s3 \in Bytes
    BY <1>1, <2>1, Concatenated
  <2>3. QED BY <1>1, <2>2, Concatenated
<1>4. At(b, Header, front \o s5 \o s6 \o s7)
  BY <1>1
<1> HIDE DEF front
<1>5. /\ At(b, Header, front) /\ At(b, Header + Len(front), s5)
      /\ At(b, Header + Len(front) + Len(s5), s6)
      /\ At(b, Header + Len(front) + Len(s5) + Len(s6), s7)
  <2>1. b \in Bytes /\ front \in Bytes /\ s5 \in Bytes /\ s6 \in Bytes /\ s7 \in Bytes
    BY <1>1, <1>3
  <2>2. QED BY <1>4, <2>1, FourAt
<1>6. /\ At(b, Header, s1) /\ At(b, Header + Len(s1), s2)
      /\ At(b, Header + Len(s1) + Len(s2), s3)
      /\ At(b, Header + Len(s1) + Len(s2) + Len(s3), s4)
      /\ Len(front) = Len(s1) + Len(s2) + Len(s3) + Len(s4)
  <2>1. b \in Bytes /\ s1 \in Bytes /\ s2 \in Bytes /\ s3 \in Bytes /\ s4 \in Bytes
    BY <1>1
  <2>2. At(b, Header, s1 \o s2 \o s3 \o s4)
    BY <1>5 DEF front
  <2>3. /\ At(b, Header, s1) /\ At(b, Header + Len(s1), s2)
        /\ At(b, Header + Len(s1) + Len(s2), s3)
        /\ At(b, Header + Len(s1) + Len(s2) + Len(s3), s4)
        /\ Len(s1 \o s2 \o s3 \o s4) = Len(s1) + Len(s2) + Len(s3) + Len(s4)
    BY <2>1, <2>2, FourAt
  <2>4. QED BY <2>3 DEF front
<1>7. Len(s4) \in Nat /\ Len(s6) \in Nat
  BY <1>1, LenProperties DEF Bytes
<1> DEFINE l4 == Len(s4)
           l6 == Len(s6)
           lf == Len(front)
<1>8. /\ Header + Len(s1) = k1 /\ Header + Len(s1) + Len(s2) = k2
      /\ Header + Len(s1) + Len(s2) + Len(s3) = k3
      /\ Header + Len(front) = k4 /\ Header + Len(front) + Len(s5) = k5
      /\ Header + Len(front) + Len(s5) + Len(s6) = k6
      /\ {k1, k2, k3, k4, k5, k6} \subseteq Nat
  <2>1. l4 \in Nat /\ l6 \in Nat /\ lf = UidWidth + 1 + 1 + l4 /\ UidWidth \in Nat
    BY <1>1, <1>6, <1>7
  <2>2. k4 = k3 + l4 /\ k6 = k5 + l6
    OBVIOUS
  <2> HIDE DEF l4, l6, lf
  <2>3. /\ Header + UidWidth = k1 /\ Header + UidWidth + 1 = k2 /\ Header + UidWidth + 1 + 1 = k3
        /\ Header + lf = k4 /\ Header + lf + 1 = k5 /\ Header + lf + 1 + l6 = k6
        /\ k1 \in Nat /\ k2 \in Nat /\ k3 \in Nat /\ k4 \in Nat /\ k5 \in Nat /\ k6 \in Nat
    BY <1>2, <2>1, <2>2
  <2>4. QED BY <1>1, <2>3 DEF l4, l6, lf
<1> HIDE DEF k1, k2, k3, k4, k5, k6
<1>9. /\ At(b, Header, s1) /\ At(b, k1, s2) /\ At(b, k2, s3) /\ At(b, k3, s4) /\ At(b, k4, s5)
      /\ At(b, k5, s6) /\ At(b, k6, s7)
  BY <1>5, <1>6, <1>8
<1>10. ResponseAt(b, r, k1, k2, k3, k4, k5, k6)
  BY <1>8, <1>9 DEF ResponseAt, s1, s2, s3, s4, s5, s6, s7, k1, k2, k3, k4, k5, k6
<1>11. QED BY <1>10

\* A string that is read only when it is announced.
OptionalThere(b, k, v) ==
  Bounded(b) /\ k \in Nat /\ v \in Strings \cup {Null} /\ At(b, k, OptionalBytes(v))
\* What is read and what it is, with something in the place of a string that is not there.
OptionalRead(b, c, v, d) == IF v # Null THEN ReadString(b, c) ELSE Gives(c, d)
OptionalValue(v, d) == IF v # Null THEN v ELSE d
\* The string is read if it is there.
LEMMA OptionalAt ==
  ASSUME NEW b, NEW k, NEW v, NEW x, NEW d, OptionalThere(b, k, v)
  PROVE  OptionalRead(b, Cursor(k, x), v, d) = Cursor(k + Len(OptionalBytes(v)), OptionalValue(v, d))
<1> USE DEF OptionalThere, OptionalRead, OptionalValue
<1>1. b \in Bytes
  BY DEF Bounded
<1>2. CASE v = Null
  <2>1. OptionalBytes(v) = <<>> /\ Len(<<>>) = 0
    BY <1>2 DEF OptionalBytes
  <2>2. QED BY <1>2, <2>1 DEF Gives, Cursor
<1>3. CASE v # Null
  <2> DEFINE z == v[2]
  <2>1. z \in Bytes /\ OptionalBytes(v) = WriteBytes(v)
    BY <1>3 DEF Strings, Bytes, OptionalBytes
  <2>2. WriteBytes(v) = WriteInteger("int", Number(Len(z))) \o z
    BY <1>3 DEF WriteBytes
  <2>3. At(b, k, WriteInteger("int", Number(Len(z))) \o z)
    BY <2>1, <2>2
  <2>4. Len(z) <= Most("int")
    <3> HIDE DEF z
    <3>1. QED BY <2>1, <2>3, CountedBound
  <2>5. At(b, k, WriteBytes(v)) /\ (v # Null => Len(v[2]) <= Most("int"))
    BY <2>1, <2>4
  <2>6. ReadString(b, Cursor(k, x)) = Cursor(k + Len(WriteBytes(v)), v)
    BY <1>1, <2>5, StringAt
  <2>7. QED BY <1>3, <2>1, <2>6
<1>4. QED BY <1>2, <1>3

\* What comes after the application's status: an exception, or tables.
OutcomeAt(b, k, r) ==
  IsResponse(r) /\ Bounded(b) /\ k \in Nat /\ At(b, k, OutcomeBytes(r))
\* An exception is read behind its length.
ExceptionIs(b, k, x, e) ==
  \E y : /\ ReadInteger(b, Cursor(k, x), "int") = Cursor(k + IntWidth, y)
         /\ ReadInteger(b, Cursor(k + IntWidth, y), "byte") = Cursor(k + IntWidth + 1, e)
\* So it is where there is one.
LEMMA ExceptionRead ==
  ASSUME NEW r, NEW b, NEW k, NEW x, OutcomeAt(b, k, r), r.exception # Null
  PROVE  ExceptionIs(b, k, x, r.exception)
<1> DEFINE w == WriteInteger("byte", r.exception)
           y == Number(Len(w))
<1> USE DEF OutcomeAt
<1>1. r.exception \in Numbers("byte") /\ b \in Bytes
  BY DEF IsResponse, Bounded
<1>2. w \in Bytes
  BY <1>1, NumberBytes
<1>3. At(b, k, WriteInteger("int", Number(Len(w))) \o w)
  BY DEF OutcomeBytes, Counted
<1>4. y \in Numbers("int") /\ At(b, k + IntWidth, w) /\ At(b, k, WriteInteger("int", y))
  <2> HIDE DEF w
  <2>1. QED BY <1>2, <1>3, CountedBound
<1>5. Width["int"] = IntWidth /\ Width["byte"] = 1
  BY DEF Width
<1>6. ReadInteger(b, Cursor(k + IntWidth, y), "byte") = Cursor(k + IntWidth + 1, r.exception)
  <2>1. At(b, k + IntWidth, WriteInteger("byte", r.exception))
    BY <1>4
  <2> HIDE DEF y
  <2>2. QED BY <1>1, <1>5, <2>1, IntegerAt
<1> HIDE DEF y
<1>7. ReadInteger(b, Cursor(k, x), "int") = Cursor(k + IntWidth, y)
  BY <1>1, <1>4, <1>5, IntegerAt
<1>8. QED BY <1>6, <1>7 DEF ExceptionIs

\* Tables are read behind their number, by the method for one.
TableMethod(b) == [at \in Int |-> ReadTable(b, Cursor(at, Null))]
TablesAre(b, k, x, n, v) ==
  \E y, z, at : /\ ReadInteger(b, Cursor(k, x), "int") = Cursor(k + IntWidth, y)
                /\ ReadInteger(b, Cursor(k + IntWidth, y), "short") = Cursor(z, Number(n))
                /\ ReadMany(b, Cursor(z, Number(n)), n, 1, TableMethod(b)) = Cursor(at, List(v))
TablesMade(r) == [i \in 1 .. Len(r.tables) |-> TableRead(r.tables[i])]
\* So they are where there is no exception.
LEMMA TablesRead ==
  ASSUME NEW r, NEW b, NEW k, NEW x, OutcomeAt(b, k, r), r.exception = Null
  PROVE  TablesAre(b, k, x, Len(r.tables), TablesMade(r))
<1> DEFINE n  == Len(r.tables)
           ss == TableSeq(r)
           f  == FlattenSeq(ss)
           v  == [i \in 1 .. n |-> TableRead(r.tables[i])]
           y  == Number(0)
           h  == WriteInteger("int", y)
           c  == Number(n)
           g  == WriteInteger("short", c)
           method == TableMethod(b)
           ms == Each(n, method)
           k2 == k + IntWidth
           z  == k2 + ShortWidth
<1> USE DEF OutcomeAt
<1>1. n \in Nat /\ n <= Most("short") /\ Filled(ss, n) /\ f \in Bytes /\ b \in Bytes /\ Len(b) \in Nat
  BY ResponsePieces, LenProperties DEF Bounded, Bytes
<1>2. Width["int"] = IntWidth /\ Width["short"] = ShortWidth
  BY DEF Width
<1>3. y \in Numbers("int") /\ c \in Numbers("short")
  <2>1. /\ Least("int") \in Int /\ Least("int") <= -8 /\ Most("int") \in Nat
        /\ Least("short") \in Int /\ Least("short") <= -8 /\ Most("short") \in Nat
    BY Widths
  <2> HIDE DEF n
  <2>2. QED BY <1>1, <2>1 DEF Numbers, Number
<1>4. h \in Bytes /\ Len(h) = IntWidth /\ g \in Bytes /\ Len(g) = ShortWidth
  BY <1>1, <1>2, CountBytes
<1>5. At(b, k, h \o g \o f)
  BY DEF OutcomeBytes
<1>6. ASSUME NEW i \in 1 .. n, NEW at \in Nat, At(b, at, ss[i])
      PROVE  method[at] = Cursor(at + Len(ss[i]), v[i])
  <2>1. IsTable(r.tables[i])
    BY DEF IsResponse
  <2>2. ss[i] = TableBytes(r.tables[i]) /\ v[i] = TableRead(r.tables[i])
    BY DEF TableSeq
  <2>3. At(b, at, TableBytes(r.tables[i]))
    BY <1>6, <2>2
  <2>4. ReadTable(b, Cursor(at, Null)) = Cursor(at + Len(TableBytes(r.tables[i])), TableRead(r.tables[i]))
    BY <2>1, <2>3, TableIsRead
  <2>5. method[at] = ReadTable(b, Cursor(at, Null))
    BY DEF TableMethod
  <2>6. QED BY <2>2, <2>4, <2>5
<1>7. v = [i \in 1 .. n |-> v[i]] /\ Len(ms) = n /\ \A i \in 1 .. n : ms[i] = method
  <2> HIDE DEF n, method
  <2>1. QED BY <1>1 DEF Each
<1> HIDE DEF n, ss, f, v, h, g, method, ms
<1>8. h \o g \in Bytes /\ Len(h \o g) = IntWidth + ShortWidth
  BY <1>4, Concatenated
<1>9. At(b, k, h \o g) /\ At(b, k + Len(h \o g), f)
  BY <1>1, <1>5, <1>8, AtEach
<1>10. At(b, k, h) /\ At(b, k + Len(h), g)
  BY <1>1, <1>4, <1>9, AtEach
<1>11. At(b, k2, g) /\ At(b, z, f)
  <2>1. IntWidth \in Nat /\ ShortWidth \in Nat
    BY ValueConstants
  <2>2. k + Len(h \o g) = z /\ k + Len(h) = k2
    BY <1>4, <1>8, <2>1
  <2>3. QED BY <1>9, <1>10, <2>2
<1> HIDE DEF z, y, c, k2
<1>12. ReadInteger(b, Cursor(k, x), "int") = Cursor(k2, y)
  <2>1. At(b, k, WriteInteger("int", y))
    BY <1>10 DEF h
  <2>2. ReadInteger(b, Cursor(k, x), "int") = Cursor(k + Width["int"], y)
    BY <1>1, <1>3, <2>1, IntegerAt
  <2>3. QED BY <1>2, <2>2 DEF k2
<1>13. ReadInteger(b, Cursor(k2, y), "short") = Cursor(z, c)
  <2>1. At(b, k2, WriteInteger("short", c))
    BY <1>11 DEF g
  <2>2. ReadInteger(b, Cursor(k2, y), "short") = Cursor(k2 + Width["short"], c)
    BY <1>1, <1>3, <2>1, IntegerAt
  <2>3. QED BY <1>2, <2>2 DEF z
<1>14. ReadMany(b, Cursor(z, c), n, 1, method) = Cursor(z + Len(f), List(v))
  <2>1. ss \in [1 .. n -> Bytes]
    BY <1>1, FilledBytes
  <2>2. ReadsWhat(b, z, ss, ms, n, v)
    BY <1>1, <1>6, <1>7, <2>1 DEF ReadsWhat
  <2>3. Elements(b, z, ss, method, n, v, 1)
    BY <1>1, <2>2 DEF Elements, ms, Filled
  <2>4. At(b, z, FlattenSeq(ss))
    BY <1>11 DEF f
  <2>5. ReadMany(b, Cursor(z, c), n, 1, method) = Cursor(z + Len(FlattenSeq(ss)), List(v))
    BY <1>1, <2>3, <2>4, ManyAt
  <2>6. QED BY <2>5 DEF f
<1>15. /\ ReadInteger(b, Cursor(k, x), "int") = Cursor(k + IntWidth, y)
       /\ ReadInteger(b, Cursor(k + IntWidth, y), "short") = Cursor(z, Number(Len(r.tables)))
       /\ ReadMany(b, Cursor(z, Number(Len(r.tables))), Len(r.tables), 1, TableMethod(b))
            = Cursor(z + Len(f), List(TablesMade(r)))
  BY <1>12, <1>13, <1>14 DEF n, v, method, k2, c, TablesMade
<1>16. QED BY <1>15 DEF TablesAre

\* What the driver makes of a response.
ResponseMade(r) ==
  [form |-> "response", uid |-> r.uid, status |-> r.status,
   statusString |-> IF r.statusString # Null THEN r.statusString ELSE <<"standard", r.status>>,
   appStatus |-> r.appStatus,
   appStatusString |-> IF r.appStatusString # Null THEN r.appStatusString ELSE Chars(<<>>),
   exception |-> r.exception,
   tables |-> IF r.exception # Null THEN <<>>
              ELSE TablesMade(r)]

\* The constructor QueryMessage makes of the bytes what was meant.
LEMMA ResponseRead ==
  ASSUME NEW r, IsResponse(r), Framable(ResponseBody(r)), FieldsOf(r) # {"appStatus"}
  PROVE  ReadResponse(ToBuffer(ResponseBody(r))) = ResponseMade(r)
<1> DEFINE body == ResponseBody(r)
           b == ToBuffer(body)
           uid    == Slice(b, AfterHeader(b), UidWidth, Binary)
           fields == ReadInteger(b, uid, "byte")
           status == ReadInteger(b, fields, "byte")
           statusString == IF Announces(fields.value, "status") THEN ReadString(b, status)
                           ELSE Gives(status, <<"standard", status.value>>)
           appStatus    == ReadInteger(b, statusString, "byte")
           appString    == IF Announces(fields.value, "appStatus") THEN ReadString(b, appStatus)
                           ELSE Gives(appStatus, Chars(<<>>))
           exceptionLength == ReadInteger(b, appString, "int")
           exception == ReadInteger(b, exceptionLength, "byte")
           count  == ReadInteger(b, exceptionLength, "short")
           tables == ReadMany(b, count, AsNumber(count.value), 1, TableMethod(b))
           Response(exc, tabs) ==
             [form |-> "response", uid |-> uid.value[2], status |-> status.value,
              statusString |-> statusString.value, appStatus |-> appStatus.value,
              appStatusString |-> appString.value, exception |-> exc, tables |-> tabs]
<1>1. ReadResponse(b)
        = IF ~exceptionLength.ok THEN Broken
          ELSE IF Announces(fields.value, "exception")
            THEN IF ~exception.ok THEN Broken ELSE Response(exception.value, <<>>)
          ELSE IF ~count.ok \/ ~tables.ok THEN Broken
          ELSE Response(Null, tables.value[2])
  BY DEF ReadResponse, TableMethod
<1>2. body \in Bytes
  BY ResponseBytes
<1>3. /\ b \in Bytes /\ Len(b) = IntWidth + (Len(body) + 1) /\ Len(body) \in Nat
      /\ AfterHeader(b) = Cursor(Header, Number(0)) /\ At(b, Header, body) /\ Header \in Nat
  <2> HIDE DEF body, uid, fields, status, statusString, appStatus, appString, exceptionLength,
               exception, count, tables
  <2>1. Framable(body)
    BY DEF body
  <2>2. QED BY <1>2, <2>1, HeaderSays, BodyFollows
<1> HIDE DEF b, uid, fields, status, statusString, appStatus, appString, exceptionLength,
             exception, count, tables
<1>4. Bounded(b)
  <2>1. IntWidth \in Nat /\ Most("int") \in Nat
    BY ValueConstants, Widths
  <2>2. LengthOf(body) = Len(body) + 1
    <3> HIDE DEF body
    <3>1. QED BY <1>3, <2>1 DEF LengthOf, Header
  <2>3. Len(body) + 1 <= Most("int")
    <3> DEFINE l == Len(body) + 1
    <3>1. l \in Nat /\ Countable("int", l)
      BY <1>3, <2>2 DEF Framable
    <3> HIDE DEF l
    <3>2. l <= Most("int")
      BY <3>1, CountableRange
    <3>3. QED BY <3>2 DEF l
  <2> HIDE DEF body
  <2>4. QED BY <1>3, <2>1, <2>3 DEF Bounded
<1>5. PICK k1, k2, k3, k4, k5, k6 : ResponseAt(b, r, k1, k2, k3, k4, k5, k6)
  <2>1. At(b, Header, ResponseBody(r))
    BY <1>3
  <2>2. QED BY <1>3, <2>1, PiecesOfResponse
<1> HIDE DEF body
<1>6. /\ {r.statusString, r.appStatusString} \subseteq Strings \cup {Null}
      /\ r.status \in Numbers("byte") /\ r.appStatus \in {Null} \cup Numbers("byte")
      /\ r.uid \in Bytes /\ Len(r.uid) = UidWidth
      /\ Width["byte"] = 1
  BY ResponsePieces DEF IsResponse, Width
<1>7. /\ k1 \in Nat /\ k2 \in Nat /\ k3 \in Nat /\ k4 \in Nat /\ k5 \in Nat /\ k6 \in Nat
      /\ k1 = Header + UidWidth /\ k2 = k1 + 1 /\ k3 = k2 + 1
      /\ k4 = k3 + Len(OptionalBytes(r.statusString)) /\ k5 = k4 + 1
      /\ k6 = k5 + Len(OptionalBytes(r.appStatusString))
  BY <1>5 DEF ResponseAt
<1>8. uid = Cursor(k1, Binary(r.uid))
  <2> DEFINE c == Cursor(Header, Number(0))
             u == r.uid
  <2>1. At(b, Header, u) /\ u \in Bytes /\ Len(u) = UidWidth
    BY <1>5, <1>6 DEF ResponseAt
  <2> HIDE DEF u
  <2>2. SubSeq(b, Header + 1, Header + UidWidth) = u /\ ~(~c.ok \/ c.at + UidWidth > Len(b))
        /\ c.at = Header /\ c.ok
    BY <1>3, <2>1, TakenAt
  <2> HIDE DEF c
  <2>3. uid = Slice(b, c, UidWidth, Binary)
    BY <1>3 DEF uid, c
  <2>4. QED BY <1>7, <2>2, <2>3 DEF Slice, u
<1>9. PICK y : /\ fields = Cursor(k2, y)
               /\ \A f \in {"status", "exception", "appStatus"} : Announces(y, f) <=> f \in FieldsOf(r)
  <2>1. At(b, k1, <<BitsOf(r)>>)
    BY <1>5 DEF ResponseAt
  <2>2. PICK y : /\ ReadInteger(b, Cursor(k1, Binary(r.uid)), "byte") = Cursor(k1 + 1, y)
                 /\ \A f \in {"status", "exception", "appStatus"} : Announces(y, f) <=> f \in FieldsOf(r)
    BY <1>3, <2>1, BitsRead
  <2>3. fields = Cursor(k2, y)
    BY <1>7, <1>8, <2>2 DEF fields
  <2>4. QED BY <2>2, <2>3
<1>10. fields.value = y
  BY <1>9 DEF Cursor
<1>11. /\ Announces(fields.value, "status") <=> r.statusString # Null
       /\ Announces(fields.value, "appStatus") <=> r.appStatusString # Null
       /\ Announces(fields.value, "exception") <=> r.exception # Null
  BY <1>9, <1>10, FieldsIn
<1>12. status = Cursor(k3, r.status)
  <2>1. At(b, k2, WriteInteger("byte", r.status)) /\ r.status \in {Null} \cup Numbers("byte")
    BY <1>5, <1>6 DEF ResponseAt
  <2>2. ReadInteger(b, Cursor(k2, y), "byte") = Cursor(k2 + Width["byte"], r.status)
    BY <1>3, <2>1, IntegerAt
  <2>3. QED BY <1>6, <1>7, <1>9, <2>2 DEF status
<1> DEFINE ss == IF r.statusString # Null THEN r.statusString ELSE <<"standard", r.status>>
           as == IF r.appStatusString # Null THEN r.appStatusString ELSE Chars(<<>>)
<1>13. statusString = Cursor(k4, ss)
  <2> DEFINE d == <<"standard", r.status>>
  <2>1. At(b, k3, OptionalBytes(r.statusString)) /\ r.statusString \in Strings \cup {Null}
    BY <1>5, <1>6 DEF ResponseAt
  <2>2. statusString = IF r.statusString # Null THEN ReadString(b, Cursor(k3, r.status))
                       ELSE Gives(Cursor(k3, r.status), d)
    <3>1. status.value = r.status
      BY <1>12 DEF Cursor
    <3>2. QED BY <1>11, <1>12, <3>1 DEF statusString
  <2>3. OptionalThere(b, k3, r.statusString)
    BY <1>4, <1>7, <2>1 DEF OptionalThere
  <2> HIDE DEF d
  <2>4. OptionalRead(b, Cursor(k3, r.status), r.statusString, d)
          = Cursor(k3 + Len(OptionalBytes(r.statusString)), OptionalValue(r.statusString, d))
    BY <2>3, OptionalAt
  <2>5. QED BY <1>7, <2>2, <2>4 DEF d, OptionalRead, OptionalValue
<1>14. appStatus = Cursor(k5, r.appStatus)
  <2>1. At(b, k4, WriteInteger("byte", r.appStatus))
    BY <1>5 DEF ResponseAt
  <2> HIDE DEF ss
  <2>2. ReadInteger(b, Cursor(k4, ss), "byte") = Cursor(k4 + Width["byte"], r.appStatus)
    BY <1>3, <1>6, <2>1, IntegerAt
  <2>3. QED BY <1>6, <1>7, <1>13, <2>2 DEF appStatus
<1>15. appString = Cursor(k6, as)
  <2> DEFINE d == Chars(<<>>)
  <2>1. At(b, k5, OptionalBytes(r.appStatusString)) /\ r.appStatusString \in Strings \cup {Null}
    BY <1>5, <1>6 DEF ResponseAt
  <2>2. appString = IF r.appStatusString # Null THEN ReadString(b, Cursor(k5, r.appStatus))
                    ELSE Gives(Cursor(k5, r.appStatus), d)
    BY <1>11, <1>14 DEF appString
  <2>3. OptionalThere(b, k5, r.appStatusString)
    BY <1>4, <1>7, <2>1 DEF OptionalThere
  <2> HIDE DEF d
  <2>4. OptionalRead(b, Cursor(k5, r.appStatus), r.appStatusString, d)
          = Cursor(k5 + Len(OptionalBytes(r.appStatusString)), OptionalValue(r.appStatusString, d))
    BY <2>3, OptionalAt
  <2>5. QED BY <1>7, <2>2, <2>4 DEF d, OptionalRead, OptionalValue
<1>16. OutcomeAt(b, k6, r)
  BY <1>4, <1>5, <1>7 DEF ResponseAt, OutcomeAt
<1>17. /\ uid.value[2] = r.uid /\ status.value = r.status /\ statusString.value = ss
       /\ appStatus.value = r.appStatus /\ appString.value = as
  BY <1>8, <1>12, <1>13, <1>14, <1>15 DEF Cursor, Binary
<1> HIDE DEF ss, as
<1>18. CASE r.exception # Null
  <2>1. PICK z : /\ ReadInteger(b, Cursor(k6, as), "int") = Cursor(k6 + IntWidth, z)
                 /\ ReadInteger(b, Cursor(k6 + IntWidth, z), "byte") = Cursor(k6 + IntWidth + 1, r.exception)
    <3>1. ExceptionIs(b, k6, as, r.exception)
      BY <1>16, <1>18, ExceptionRead
    <3>2. QED BY <3>1 DEF ExceptionIs
  <2>2. exceptionLength = Cursor(k6 + IntWidth, z) /\ exception = Cursor(k6 + IntWidth + 1, r.exception)
    BY <1>15, <2>1 DEF exceptionLength, exception
  <2>3. exceptionLength.ok /\ exception.ok /\ exception.value = r.exception
    BY <2>2 DEF Cursor
  <2>4. ReadResponse(b) = Response(r.exception, <<>>)
    BY <1>1, <1>11, <1>18, <2>3
  <2>5. QED BY <1>17, <1>18, <2>4 DEF ResponseMade, ss, as, b, body
<1>19. CASE r.exception = Null
  <2>1. PICK z, q, at :
           /\ ReadInteger(b, Cursor(k6, as), "int") = Cursor(k6 + IntWidth, z)
           /\ ReadInteger(b, Cursor(k6 + IntWidth, z), "short") = Cursor(q, Number(Len(r.tables)))
           /\ ReadMany(b, Cursor(q, Number(Len(r.tables))), Len(r.tables), 1, TableMethod(b))
                = Cursor(at, List(TablesMade(r)))
    <3>1. TablesAre(b, k6, as, Len(r.tables), TablesMade(r))
      BY <1>16, <1>19, TablesRead
    <3>2. QED BY <3>1 DEF TablesAre
  <2>2. exceptionLength = Cursor(k6 + IntWidth, z) /\ count = Cursor(q, Number(Len(r.tables)))
    BY <1>15, <2>1 DEF exceptionLength, count
  <2>3. AsNumber(count.value) = Len(r.tables)
    BY <2>2 DEF Cursor, AsNumber, Number, Null
  <2>4. tables = Cursor(at, List(TablesMade(r)))
    BY <2>1, <2>2, <2>3 DEF tables
  <2>5. exceptionLength.ok /\ count.ok /\ tables.ok
        /\ tables.value[2] = TablesMade(r)
    BY <2>2, <2>4 DEF Cursor, List
  <2>6. ReadResponse(b) = Response(Null, tables.value[2])
    BY <1>1, <1>11, <1>19, <2>5
  <2>7. QED BY <1>17, <1>19, <2>5, <2>6 DEF ResponseMade, ss, as, b, body
<1>20. QED BY <1>18, <1>19

\* QueryMessage, readVoltTable: the driver reads a response as the server sent it,
\* fields by the bits that announce them and tables cell by cell, whatever their
\* number and their columns.
THEOREM ResponseArrives == MessagesSpec => []ResponseAsMeant
<1>1. MessagesInvariant => ResponseAsMeant
  <2>1. SUFFICES ASSUME MessagesInvariant, phase = "received", meant.form = "response",
                        FieldsOf(meant) # {"appStatus"}
                 PROVE  ResponseAsMeant
    BY DEF ResponseAsMeant
  <2>2. OnItsWay /\ GotIt
    BY <2>1 DEF MessagesInvariant
  <2>3. IsResponse(meant) /\ Framable(ResponseBody(meant)) /\ wire = ToBuffer(ResponseBody(meant))
    BY <2>1, <2>2, Forms DEF OnItsWay
  <2>4. got = ReadResponse(wire)
    BY <2>1, <2>2 DEF GotIt
  <2>5. got = ResponseMade(meant)
    BY <2>1, <2>3, <2>4, ResponseRead
  <2>6. got # Broken
    BY <2>5 DEF ResponseMade, Broken
  <2>7. meant.exception = Null => 
          /\ Len(got.tables) = Len(meant.tables)
          /\ \A t \in 1 .. Len(meant.tables) : TableAgrees(meant.tables[t], got.tables[t])
    <3>1. SUFFICES ASSUME meant.exception = Null
                   PROVE  /\ Len(got.tables) = Len(meant.tables)
                          /\ \A t \in 1 .. Len(meant.tables) : TableAgrees(meant.tables[t], got.tables[t])
      OBVIOUS
    <3> DEFINE n == Len(meant.tables)
               ts == [i \in 1 .. n |-> TableRead(meant.tables[i])]
    <3>2. got.tables = ts
      BY <2>5, <3>1 DEF ResponseMade, TablesMade
    <3>3. n \in Nat /\ \A t \in 1 .. n : IsTable(meant.tables[t])
      BY <2>3, LenProperties DEF IsResponse
    <3>4. \A t \in 1 .. n : TableAgrees(meant.tables[t], ts[t])
      BY <3>3, TableKept
    <3>5. Len(ts) = n
      <4> HIDE DEF n
      <4>1. QED BY <3>3
    <3>6. QED BY <3>2, <3>4, <3>5
  <2>8. /\ got.uid = meant.uid /\ got.status = meant.status /\ got.appStatus = meant.appStatus
        /\ got.exception = meant.exception
        /\ got.statusString = IF meant.statusString # Null THEN meant.statusString
                              ELSE <<"standard", meant.status>>
        /\ got.appStatusString = IF meant.appStatusString # Null THEN meant.appStatusString
                                 ELSE Chars(<<>>)
    BY <2>5 DEF ResponseMade
  <2>9. QED BY <2>6, <2>7, <2>8, FieldsIn DEF ResponseAsMeant
<1>2. QED BY <1>1, InvariantHolds, PTL
=============================================================================
