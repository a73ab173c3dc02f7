--------------------------- MODULE MessagesProofs ---------------------------
(***************************************************************************)
(* The messages of lib/message.js and lib/query.js, whatever is sent and   *)
(* however wide the integers are.  First what the bodies are made of, then *)
(* what the two header fields say of them, what the readers of logins make *)
(* of the bytes, and why a documented query is accepted.  The invariant    *)
(* ties the bytes on the wire to the message they were written from; the   *)
(* theorems follow from it without looking at another step.                *)
(***************************************************************************)
EXTENDS MessagesProps, CodecProofs

-----------------------------------------------------------------------------
(* The bodies of messages *)

\* A query that is accepted has a body of bytes.
LEMMA QueryBytes ==
  ASSUME NEW q, IsQuery(q), NEW err \in LogErrors, WritesParameters(q.types, q.parameters)
  PROVE  QueryBody(q, err) \in Bytes
<1> DEFINE ts == q.types
           vs == q.parameters
           n  == Len(vs)
           ss == [i \in 1 .. n |-> WriteParameter(ts[i], vs[i], err)]
           nm == WriteBytes(q.procName)
           u  == q.uid
           h  == WriteInteger("short", Number(n))
           f  == FlattenSeq(ss)
<1>1. n \in Nat /\ Len(ts) = n
  BY LenProperties DEF IsQuery, WritesParameters
<1>2. ASSUME NEW i \in 1 .. n PROVE ss[i] \in Marked
  <2>1. IsType(ts[i])
    BY <1>1 DEF IsQuery
  <2>2. \A k \in 0 .. Len(ts[i]) - 1 : \A v \in Parts(vs[i], Len(ts[i]) - 1)[k] : IsValue(v)
    BY <1>1 DEF IsQuery
  <2>3. /\ CheckType(ts[i], vs[i])
        /\ IF ts[i][1] = "array" THEN WritesArray(Tail(ts[i]), vs[i])
           ELSE WritesKind(KindOf[ts[i][1]], vs[i])
    BY DEF WritesParameters
  <2> DEFINE t == ts[i]
             v == vs[i]
  <2>4. ss[i] = WriteParameter(t, v, err)
    OBVIOUS
  <2>5. WriteParameter(t, v, err) \in Marked
    <3> HIDE DEF t, v
    <3>1. IsType(t)
      BY <2>1 DEF t
    <3>2. \A k \in 0 .. Len(t) - 1 : \A x \in Parts(v, Len(t) - 1)[k] : IsValue(x)
      BY <2>2 DEF t, v
    <3>3. CheckType(t, v)
      BY <2>3 DEF t, v
    <3>4. IF t[1] = "array" THEN WritesArray(Tail(t), v) ELSE WritesKind(KindOf[t[1]], v)
      BY <2>3 DEF t, v
    <3>5. QED BY <3>1, <3>2, <3>3, <3>4, ParameterBytes
  <2>6. QED BY <2>4, <2>5
<1>3. f \in Marked
  <2>1. ss = [i \in 1 .. n |-> ss[i]]
    OBVIOUS
  <2> HIDE DEF ss, n
  <2>2. \A i \in 1 .. n : ss[i] \in Seq(Byte \cup {Lost})
    BY <1>2 DEF Marked
  <2>3. QED BY <1>1, <2>1, <2>2, FlattenedFamily DEF Marked
<1>4. h \in Marked
  <2>1. n \in Int
    BY <1>1
  <2> HIDE DEF n
  <2>2. h \in Bytes
    BY <2>1, CountBytes
  <2>3. QED BY <2>2, BytesMarked
<1>5. nm \in Bytes
  <2>1. q.procName[2] \in Bytes
    BY DEF IsQuery, Strings, Bytes
  <2>2. QED BY <2>1, CountedBytes
<1>6. u \in Bytes
  BY SeqDef, MessageConstants DEF IsQuery, Bytes
<1>7. QueryBody(q, err) = nm \o u \o Kept(h \o f)
  BY DEF QueryBody, WriteParameters
<1> HIDE DEF nm, u, h, f
<1>8. nm \o u \in Bytes
  BY <1>5, <1>6, Concatenated
<1>9. h \o f \in Marked
  BY <1>3, <1>4, ConcatProperties DEF Marked
<1>10. Kept(h \o f) \in Bytes
  BY <1>9, KeptBytes
<1>11. QED BY <1>7, <1>8, <1>10, Concatenated

\* The login has a body of bytes, longer than its digest.
LEMMA LoginBytes ==
  ASSUME NEW l \in Login
  PROVE  /\ WriteBytes(l.service) \in Bytes /\ WriteBytes(l.username) \in Bytes
         /\ l.password \in Bytes /\ LoginBody(l) \in Bytes
<1> DEFINE s == WriteBytes(l.service)
           u == WriteBytes(l.username)
           p == l.password
<1>1. l.service[2] \in Bytes /\ l.username[2] \in Bytes /\ p \in Bytes
  BY DEF Login, Strings, Bytes
<1>2. s \in Bytes /\ u \in Bytes
  BY <1>1, CountedBytes
<1>3. LoginBody(l) = s \o u \o p
  BY DEF LoginBody
<1> HIDE DEF s, u, p
<1>4. s \o u \in Bytes
  BY <1>2, Concatenated
<1>5. QED BY <1>1, <1>2, <1>3, <1>4, Concatenated DEF s, u, p

-----------------------------------------------------------------------------
(* The header *)

\* The number a message begins with is that of the bytes behind it.
LEMMA HeaderSays ==
  ASSUME NEW body \in Bytes, Framable(body)
  PROVE  /\ ToBuffer(body) \in Bytes /\ Len(ToBuffer(body)) = IntWidth + (Len(body) + 1)
         /\ Len(body) \in Nat
         /\ ReadSigned(SubSeq(ToBuffer(body), 1, IntWidth)) = Len(body) + 1
<1> DEFINE n == Len(body) + 1
           h == WriteInteger("int", Number(n))
           p == WriteByte(0)
           w == ToBuffer(body)
<1>1. Len(body) \in Nat /\ n \in Nat /\ IntWidth \in Nat \ {0} /\ Width["int"] = IntWidth
  BY LenProperties, ValueConstants DEF Bytes, Width
<1>2. LengthOf(body) = n
  BY <1>1 DEF LengthOf, Header
<1>3. w = (h \o p) \o body
  BY <1>2 DEF ToBuffer, HeaderFor
<1> HIDE DEF n, w
<1>4. h \in Bytes /\ Len(h) = IntWidth /\ p \in Bytes /\ Len(p) = 1
  BY <1>1, CountBytes, ByteBytes
<1>5. ReadSigned(h) = n
  <2>1. Countable("int", n)
    BY <1>2 DEF Framable
  <2> DEFINE c == Capacity(IntWidth)
  <2>2. n \in -(c \div 2) .. c \div 2 - 1
    BY <1>1, <2>1, CountableRange
  <2>3. ReadSigned(WriteSigned(n, IntWidth)) = n
    BY <1>1, <2>2, SignedRoundTrip
  <2>4. h = WriteSigned(n, IntWidth)
    BY <1>1 DEF WriteInteger, Number, Null
  <2>5. QED BY <2>3, <2>4
<1> HIDE DEF h, p
<1>6. h \o p \in Bytes /\ Len(h \o p) = IntWidth + 1
  BY <1>4, Concatenated
<1>7. w \in Bytes /\ Len(w) = IntWidth + 1 + Len(body)
  BY <1>3, <1>6, Concatenated
<1>8. SubSeq(w, 1, IntWidth) = h
  <2>1. h \o p \in Seq(Byte) /\ body \in Seq(Byte) /\ h \in Seq(Byte) /\ p \in Seq(Byte)
    BY <1>4, <1>6 DEF Bytes
  <2>2. \A i \in 1 .. IntWidth : w[i] = h[i]
    <3>1. TAKE i \in 1 .. IntWidth
    <3>2. i \in 1 .. Len(h \o p) + Len(body) /\ i <= Len(h \o p) /\ i \in 1 .. Len(h) + Len(p) /\ i <= Len(h)
      BY <1>1, <1>4, <1>6
    <3>3. w[i] = (h \o p)[i]
      BY <1>3, <2>1, <3>2, ConcatProperties
    <3>4. (h \o p)[i] = h[i]
      BY <2>1, <3>2, ConcatProperties
    <3>5. QED BY <3>3, <3>4
  <2> DEFINE s == SubSeq(w, 1, IntWidth)
  <2>3. s \in Seq(Byte) /\ Len(s) = IntWidth /\ \A i \in 1 .. IntWidth : s[i] = w[i]
    BY <1>1, <1>7 DEF Bytes
  <2> HIDE DEF s
  <2>4. s = h
    BY <1>4, <2>1, <2>2, <2>3, SeqEqual
  <2>5. QED BY <2>4 DEF s
<1>9. IntWidth + 1 + Len(body) = IntWidth + (Len(body) + 1)
  BY <1>1
<1>10. QED BY <1>1, <1>5, <1>7, <1>8, <1>9 DEF w, n

-----------------------------------------------------------------------------
(* What the server writes *)

\* Bytes behind their count.
LEMMA CountedType ==
  ASSUME NEW kind \in {"byte", "short", "int"}, NEW bytes \in Bytes
  PROVE  Counted(kind, bytes) \in Bytes /\ 1 <= Len(Counted(kind, bytes))
<1> DEFINE h == WriteInteger(kind, Number(Len(bytes)))
<1>1. Len(bytes) \in Int
  BY LenProperties DEF Bytes
<1>2. h \in Bytes /\ Len(h) = Width[kind] /\ Width[kind] \in Nat \ {0}
  BY <1>1, CountBytes, Widths
<1>3. Counted(kind, bytes) = h \o bytes
  BY DEF Counted
<1> HIDE DEF h
<1>4. h \o bytes \in Bytes /\ Len(h \o bytes) = Len(h) + Len(bytes) /\ Len(bytes) \in Nat
  BY <1>2, Concatenated
<1>5. QED BY <1>2, <1>3, <1>4

\* The result of a login.
LEMMA ResultBytes ==
  ASSUME NEW r \in LoginResult
  PROVE  ResultBody(r) \in Bytes
<1> DEFINE s == WriteInteger("byte", r.status)
<1>1. s \in Bytes
  <2>1. Number(0) \in Numbers("byte")
    BY Widths DEF Numbers, Number
  <2>2. r.status \in Numbers("byte")
    BY <2>1 DEF LoginResult
  <2>3. QED BY <2>2, NumberBytes
<1>2. CASE r.status # Number(0)
  <2>1. ResultBody(r) = s \o <<>> /\ <<>> \in Bytes
    BY <1>2, EmptySeq DEF ResultBody, Bytes
  <2> HIDE DEF s
  <2>2. QED BY <1>1, <2>1, Concatenated
<1>3. CASE r.status = Number(0)
  <2> DEFINE i == WriteInteger("int", r.serverId)
             c == WriteInteger("long", r.connectionId)
             t == WriteInteger("long", r.clusterStartTimestamp)
             p == r.leaderIP
             b == WriteBytes(r.build)
  <2>1. /\ r.serverId \in Numbers("int") /\ r.connectionId \in Numbers("long")
        /\ r.clusterStartTimestamp \in Numbers("long") \cup {Null}
        /\ p \in [1 .. 4 -> Byte] /\ r.build \in Strings \cup {Null}
    BY <1>3 DEF LoginResult
  <2>2. i \in Bytes /\ c \in Bytes /\ t \in Bytes
    BY <2>1, NumberBytes
  <2>3. p \in Bytes
    <3>1. 4 \in Nat
      OBVIOUS
    <3>2. QED BY <2>1, <3>1, SeqDef DEF Bytes
  <2>4. b \in Bytes
    <3>1. r.build = Null \/ r.build[2] \in Bytes
      BY <2>1 DEF Strings, Bytes
    <3>2. QED BY <3>1, CountedBytes
  <2>5. ResultBody(r) = s \o (i \o c \o t \o p \o b)
    BY <1>3 DEF ResultBody
  <2> HIDE DEF s, i, c, t, p, b
  <2>6. i \o c \in Bytes
    BY <2>2, Concatenated
  <2>7. i \o c \o t \in Bytes
    BY <2>2, <2>6, Concatenated
  <2>8. i \o c \o t \o p \in Bytes
    BY <2>3, <2>7, Concatenated
  <2>9. i \o c \o t \o p \o b \in Bytes
    BY <2>4, <2>8, Concatenated
  <2>10. QED BY <1>1, <2>5, <2>9, Concatenated
<1>4. QED BY <1>2, <1>3

\* A cell of a table.
LEMMA CellBytes ==
  ASSUME NEW kind \in DOMAIN Kinds \ {"array", "null"}, NEW v, IsCell(kind, v)
  PROVE  Cell(kind, v) \in Bytes
<1>1. CASE kind \in {"byte", "short", "int", "long", "decimal", "date"}
  <2> DEFINE k == IF kind = "date" THEN "long" ELSE kind
             i == IF v = Null THEN Least(k) ELSE v[2]
  <2>1. k \in {"byte", "short", "int", "long", "decimal"}
    BY <1>1
  <2>2. v = Null \/ v[2] \in Int
    <3>1. v = Null \/ v \in {"number", "unscaled", "micros"} \X (Least(k) + 1 .. Most(k))
      BY <1>1 DEF IsCell, Numbers
    <3>2. Least(k) \in Int /\ Most(k) \in Int
      BY <2>1, Widths
    <3> HIDE DEF k
    <3>3. QED BY <3>1, <3>2
  <2>3. Cell(kind, v) = WriteSigned(i, Width[k])
    BY <1>1 DEF Cell
  <2> HIDE DEF k
  <2>4. Width[k] \in Nat \ {0} /\ Least(k) \in Int
    BY <2>1, Widths
  <2>5. i \in Int
    BY <2>2, <2>4
  <2> HIDE DEF i
  <2>6. WriteSigned(i, Width[k]) \in Seq(0 .. Base - 1)
    BY <2>4, <2>5, SignedType
  <2>7. QED BY <2>3, <2>6 DEF Bytes, Byte
<1>2. CASE kind = "double"
  <2>1. IsValue(v) /\ WritesKind("double", v)
    <3>1. CASE v = Null
      <4>1. IsValue(v)
        BY <3>1 DEF IsValue
      <4>2. WritesKind("double", v)
        BY <3>1 DEF WritesKind
      <4>3. QED BY <4>1, <4>2
    <3>2. CASE v # Null
      <4>1. v \in Doubles
        BY <1>2, <3>2 DEF IsCell
      <4>2. v[1] \in {"real", "infinity", "nan"}
        BY <4>1 DEF Doubles, PlusInfinity, MinusInfinity, NotANumber
      <4>3. QED BY <4>1, <4>2 DEF IsValue, WritesKind
    <3>3. QED BY <3>1, <3>2
  <2>2. NoError \in LogErrors /\ "double" \in ValueKinds
    BY LogConstants DEF LogErrors, NoError, ValueKinds
  <2>3. WriteKind("double", v, NoError) \in Bytes
    BY <2>1, <2>2, KindBytes
  <2>4. QED BY <1>2, <2>3 DEF Cell
<1>3. CASE kind \in {"string", "varbinary"}
  <2>1. v = Null \/ v[2] \in Bytes
    BY <1>3 DEF IsCell, Strings, Bytes
  <2>2. WriteBytes(v) \in Bytes
    BY <2>1, CountedBytes
  <2>3. kind = "varbinary" => HasLength(v) /\ BufferOf(v) = v
    BY DEF IsCell, HasLength, BufferOf, Null
  <2>4. QED BY <1>3, <2>2, <2>3 DEF Cell, WriteKind, WriteVarbinary
<1>4. QED BY <1>1, <1>2, <1>3 DEF Kinds

-----------------------------------------------------------------------------
(* The pieces of a table *)

\* A row's bytes: its cells.
RowBytes(t, i) ==
  FlattenSeq([j \in 1 .. Len(t.columnTypes) |-> Cell(t.columnTypes[j], t.rows[i][j])])

\* A row of a table, and the types of its columns.
RowOf(t, i) ==
  /\ Len(t.columnTypes) \in Nat /\ i \in Nat
  /\ \A j \in 1 .. Len(t.columnTypes) :
       /\ t.columnTypes[j] \in DOMAIN Kinds \ {"array", "null"}
       /\ IsCell(t.columnTypes[j], t.rows[i][j])

\* What there is of each column, and the rows with their lengths.
CodeSeq(t) == [j \in 1 .. Len(t.columnTypes) |-> WriteByte(Kinds[t.columnTypes[j]])]
NameSeq(t) == [j \in 1 .. Len(t.columnTypes) |-> WriteBytes(t.columnNames[j])]
RowSeq(t)  == [i \in 1 .. Len(t.rows) |-> Counted("int", RowBytes(t, i))]

\* So many sequences of bytes, none of them empty.
Filled(ss, n) ==
  /\ n \in Nat /\ ss = [i \in 1 .. n |-> ss[i]]
  /\ \A i \in 1 .. n : ss[i] \in Bytes /\ 1 <= Len(ss[i])

\* They are no more than their bytes.
LEMMA FilledBytes ==
  ASSUME NEW ss, NEW n, Filled(ss, n)
  PROVE  /\ n \in Nat /\ ss \in [1 .. n -> Bytes] /\ FlattenSeq(ss) \in Bytes
         /\ n <= Len(FlattenSeq(ss)) /\ Len(FlattenSeq(ss)) \in Nat
<1> DEFINE w == FlattenSeq(ss)
<1>1. n \in Nat /\ ss \in [1 .. n -> Bytes]
  BY DEF Filled
<1>2. w \in Bytes
  <2>1. \A i \in 1 .. n : ss[i] \in Seq(Byte)
    BY DEF Filled, Bytes
  <2>2. QED BY <1>1, <2>1, FlattenedFamily DEF Bytes, Filled
<1>3. At(w, 0, w) /\ Len(w) \in Nat
  <2> HIDE DEF w
  <2>1. QED BY <1>2, AtStart, LenProperties DEF Bytes
<1>4. PICK p : /\ p \in [0 .. n -> Nat]
               /\ p[0] = 0 /\ p[n] = 0 + Len(w) /\ Places(w, ss, n, p)
  BY <1>1, <1>2, <1>3, PlacesOf
<1>5. ASSUME NEW i \in 1 .. n PROVE p[i - 1] + 1 <= p[i]
  <2>1. i - 1 \in 0 .. n /\ i \in 0 .. n
    BY <1>1
  <2>2. Len(ss[i]) \in Nat
    BY <1>1, LenProperties DEF Bytes
  <2>3. p[i] = p[i - 1] + Len(ss[i]) /\ 1 <= Len(ss[i])
    BY <1>4 DEF Places, Filled
  <2>4. p[i] \in Nat /\ p[i - 1] \in Nat
    BY <1>4, <2>1
  <2>5. QED BY <2>2, <2>3, <2>4
<1>6. p[0] + n * 1 <= p[n]
  <2>1. 1 \in Nat
    OBVIOUS
  <2>2. QED BY <1>1, <1>4, <1>5, <2>1, AtLeastSoMany
<1>7. QED BY <1>1, <1>2, <1>3, <1>4, <1>6

\* As many names as types, and cells of the types in each row.
LEMMA ColumnsOf ==
  ASSUME NEW t, IsTable(t)
  PROVE  /\ Len(t.columnTypes) \in Nat /\ Len(t.rows) \in Nat
         /\ Len(t.columnNames) = Len(t.columnTypes) /\ Len(t.columnTypes) <= Most("short")
         /\ t.status \in Numbers("byte")
         /\ \A j \in 1 .. Len(t.columnTypes) : /\ t.columnTypes[j] \in DOMAIN Kinds \ {"array", "null"}
                                               /\ t.columnNames[j] \in Strings
         /\ \A i \in 1 .. Len(t.rows) : RowOf(t, i)
<1>1. /\ Len(t.columnTypes) \in Nat /\ Len(t.rows) \in Nat
      /\ Len(t.columnNames) = Len(t.columnTypes) /\ Len(t.columnTypes) <= Most("short")
      /\ t.status \in Numbers("byte")
      /\ \A j \in 1 .. Len(t.columnTypes) : /\ t.columnTypes[j] \in DOMAIN Kinds \ {"array", "null"}
                                            /\ t.columnNames[j] \in Strings
  BY LenProperties, ElementOfSeq DEF IsTable
<1>2. \A i \in 1 .. Len(t.rows) : RowOf(t, i)
  BY <1>1 DEF IsTable, RowOf
<1>3. QED BY <1>1, <1>2

\* None of the pieces is empty.
LEMMA PiecesFilled ==
  ASSUME NEW t, IsTable(t)
  PROVE  /\ Filled(CodeSeq(t), Len(t.columnTypes)) /\ Filled(NameSeq(t), Len(t.columnTypes))
         /\ Filled(RowSeq(t), Len(t.rows))
<1> DEFINE n == Len(t.columnTypes)
           m == Len(t.rows)
<1>1. n \in Nat /\ m \in Nat
  BY ColumnsOf
<1>2. Width["int"] \in Nat \ {0}
  BY Widths
<1>3. ASSUME NEW j \in 1 .. n PROVE CodeSeq(t)[j] \in Bytes /\ 1 <= Len(CodeSeq(t)[j])
  <2> DEFINE k == Kinds[t.columnTypes[j]]
  <2>1. k \in Int
    <3>1. t.columnTypes[j] \in DOMAIN Kinds
      BY ColumnsOf
    <3>2. QED BY <3>1 DEF Kinds
  <2>2. CodeSeq(t)[j] = WriteByte(k)
    BY DEF CodeSeq
  <2> HIDE DEF k
  <2>3. WriteByte(k) \in Bytes /\ Len(WriteByte(k)) = 1
    BY <2>1, ByteBytes
  <2>4. QED BY <2>2, <2>3
<1>4. ASSUME NEW j \in 1 .. n PROVE NameSeq(t)[j] \in Bytes /\ 1 <= Len(NameSeq(t)[j])
  <2> DEFINE x == t.columnNames[j][2]
             h == WriteInteger("int", Number(Len(x)))
  <2>1. t.columnNames[j] \in Strings
    BY ColumnsOf
  <2>2. x \in Bytes /\ t.columnNames[j] # Null
    BY <2>1 DEF Strings, Bytes, Null
  <2>3. NameSeq(t)[j] = h \o x
    BY <2>2 DEF NameSeq, WriteBytes
  <2> HIDE DEF x
  <2>4. Len(x) \in Int
    BY <2>2, LenProperties DEF Bytes
  <2>5. h \in Bytes /\ Len(h) = Width["int"]
    BY <2>4, CountBytes
  <2> HIDE DEF h
  <2>6. h \o x \in Bytes /\ Len(h \o x) = Len(h) + Len(x) /\ Len(x) \in Nat
    BY <2>2, <2>5, Concatenated
  <2>7. QED BY <1>2, <2>3, <2>5, <2>6
<1>5. ASSUME NEW i \in 1 .. m PROVE RowSeq(t)[i] \in Bytes /\ 1 <= Len(RowSeq(t)[i])
  <2> DEFINE x == RowBytes(t, i)
             cells == [j \in 1 .. n |-> Cell(t.columnTypes[j], t.rows[i][j])]
  <2>1. RowOf(t, i)
    BY ColumnsOf
  <2>2. \A j \in 1 .. n : cells[j] \in Seq(Byte)
    <3>1. TAKE j \in 1 .. n
    <3>2. t.columnTypes[j] \in DOMAIN Kinds \ {"array", "null"} /\ IsCell(t.columnTypes[j], t.rows[i][j])
      BY <2>1 DEF RowOf
    <3>3. Cell(t.columnTypes[j], t.rows[i][j]) \in Bytes
      BY <3>2, CellBytes
    <3>4. QED BY <3>3 DEF Bytes
  <2>3. cells = [j \in 1 .. n |-> cells[j]] /\ x = FlattenSeq(cells)
    BY DEF RowBytes
  <2>4. x \in Bytes
    <3> HIDE DEF cells, n, x
    <3>1. QED BY <1>1, <2>2, <2>3, FlattenedFamily DEF Bytes
  <2>5. RowSeq(t)[i] = Counted("int", x)
    BY DEF RowSeq
  <2> HIDE DEF x
  <2>6. QED BY <2>4, <2>5, CountedType
<1>6. /\ CodeSeq(t) = [j \in 1 .. n |-> CodeSeq(t)[j]] /\ NameSeq(t) = [j \in 1 .. n |-> NameSeq(t)[j]]
      /\ RowSeq(t) = [i \in 1 .. m |-> RowSeq(t)[i]]
  BY DEF CodeSeq, NameSeq, RowSeq
<1> HIDE DEF n, m
<1>7. Filled(CodeSeq(t), n) /\ Filled(NameSeq(t), n) /\ Filled(RowSeq(t), m)
  BY <1>1, <1>3, <1>4, <1>5, <1>6 DEF Filled
<1>8. QED BY <1>7 DEF n, m

\* A table of the server.
LEMMA TableType ==
  ASSUME NEW t, IsTable(t)
  PROVE  TableBytes(t) \in Bytes /\ 1 <= Len(TableBytes(t))
<1> DEFINE a == WriteInteger("byte", t.status)
           s == WriteInteger("short", Number(Len(t.columnTypes)))
           c == FlattenSeq(CodeSeq(t))
           d == FlattenSeq(NameSeq(t))
           h == WriteInteger("int", Number(Len(t.rows)))
           f == FlattenSeq(RowSeq(t))
           meta == a \o s \o c \o d
           rows == h \o f
<1>1. a \in Bytes /\ s \in Bytes /\ h \in Bytes
  BY ColumnsOf, NumberBytes, CountBytes
<1>2. c \in Bytes /\ d \in Bytes /\ f \in Bytes
  BY PiecesFilled, FilledBytes
<1>3. TableBytes(t) = Counted("int", Counted("int", meta) \o rows)
  BY DEF TableBytes, CodeSeq, NameSeq, RowSeq, RowBytes
<1> HIDE DEF a, s, c, d, h, f
<1>4. a \o s \in Bytes
  BY <1>1, Concatenated
<1>5. a \o s \o c \in Bytes
  BY <1>2, <1>4, Concatenated
<1>6. meta \in Bytes /\ rows \in Bytes
  BY <1>1, <1>2, <1>5, Concatenated
<1> HIDE DEF meta, rows
<1>7. Counted("int", meta) \in Bytes
  BY <1>6, CountedType
<1>8. Counted("int", meta) \o rows \in Bytes
  BY <1>6, <1>7, Concatenated
<1>9. QED BY <1>3, <1>8, CountedType

-----------------------------------------------------------------------------
(* The pieces of a response *)

\* The byte of the fields there are, a string where there is one, the tables, and what
\* comes after the statuses.
BitsOf(r) ==
  LET Bit(f) == IF f \in FieldsOf(r) THEN Present[f] ELSE 0
  IN  Bit("status") + Bit("exception") + Bit("appStatus")
OptionalBytes(v) == IF v # Null THEN WriteBytes(v) ELSE <<>>
TableSeq(r) == [i \in 1 .. Len(r.tables) |-> TableBytes(r.tables[i])]
OutcomeBytes(r) ==
  IF r.exception # Null THEN Counted("int", WriteInteger("byte", r.exception))
  ELSE WriteInteger("int", Number(0)) \o WriteInteger("short", Number(Len(r.tables)))
         \o FlattenSeq(TableSeq(r))

\* The fields a response has.
LEMMA FieldsIn ==
  ASSUME NEW r
  PROVE  /\ "status" \in FieldsOf(r) <=> r.statusString # Null
         /\ "appStatus" \in FieldsOf(r) <=> r.appStatusString # Null
         /\ "exception" \in FieldsOf(r) <=> r.exception # Null
         /\ FieldsOf(r) \subseteq {"status", "exception", "appStatus"}
BY DEF FieldsOf, Present

\* A response is its pieces, one behind the other.
LEMMA ResponsePieces ==
  ASSUME NEW r, IsResponse(r)
  PROVE  /\ ResponseBody(r)
              = r.uid \o <<BitsOf(r)>> \o WriteInteger("byte", r.status) \o OptionalBytes(r.statusString)
                  \o WriteInteger("byte", r.appStatus) \o OptionalBytes(r.appStatusString)
                  \o OutcomeBytes(r)
         /\ r.uid \in Bytes /\ Len(r.uid) = UidWidth /\ UidWidth \in Nat
         /\ BitsOf(r) \in 0 .. 255 /\ <<BitsOf(r)>> \in Bytes /\ Len(<<BitsOf(r)>>) = 1
         /\ WriteInteger("byte", r.status) \in Bytes /\ WriteInteger("byte", r.appStatus) \in Bytes
         /\ Len(WriteInteger("byte", r.status)) = 1 /\ Len(WriteInteger("byte", r.appStatus)) = 1
         /\ OptionalBytes(r.statusString) \in Bytes /\ OptionalBytes(r.appStatusString) \in Bytes
         /\ Filled(TableSeq(r), Len(r.tables)) /\ FlattenSeq(TableSeq(r)) \in Bytes
         /\ Len(r.tables) \in Nat /\ Len(r.tables) <= Most("short")
         /\ OutcomeBytes(r) \in Bytes
<1> DEFINE n == Len(r.tables)
           ts == TableSeq(r)
           sum == BitsOf(r)
<1>1. n \in Nat /\ n <= Most("short")
  BY LenProperties DEF IsResponse
<1>2. r.uid \in Bytes /\ UidWidth \in Nat /\ Len(r.uid) = UidWidth
  <2>1. UidWidth \in Nat /\ r.uid \in [1 .. UidWidth -> Byte]
    BY MessageConstants DEF IsResponse
  <2>2. r.uid \in Bytes
    BY <2>1, SeqDef DEF Bytes
  <2>3. DOMAIN r.uid = 1 .. Len(r.uid) /\ Len(r.uid) \in Nat /\ DOMAIN r.uid = 1 .. UidWidth
    BY <2>1, <2>2, LenProperties DEF Bytes
  <2>4. QED BY <2>1, <2>2, <2>3
<1>3. sum \in 0 .. 255
  <2> DEFINE Bit(f) == IF f \in FieldsOf(r) THEN Present[f] ELSE 0
  <2>1. Bit("status") \in {0, 32} /\ Bit("exception") \in {0, 64} /\ Bit("appStatus") \in {0, 128}
    BY DEF Present
  <2>2. sum = Bit("status") + Bit("exception") + Bit("appStatus")
    BY DEF BitsOf
  <2> HIDE DEF Bit, sum
  <2>3. QED BY <2>1, <2>2
<1>4. <<sum>> \in Bytes /\ Len(<<sum>>) = 1
  <2> HIDE DEF sum
  <2>1. sum \in Byte
    BY <1>3, ValueConstants DEF Byte
  <2>2. QED BY <2>1 DEF Bytes
<1>5. /\ WriteInteger("byte", r.status) \in Bytes /\ Len(WriteInteger("byte", r.status)) = 1
      /\ WriteInteger("byte", r.appStatus) \in Bytes /\ Len(WriteInteger("byte", r.appStatus)) = 1
  <2>1. r.status \in {Null} \cup {"number"} \X Int /\ r.appStatus \in {Null} \cup {"number"} \X Int
    <3>1. Least("byte") \in Int /\ Most("byte") \in Nat
      BY Widths
    <3>2. QED BY <3>1 DEF IsResponse, Numbers
  <2>2. Width["byte"] = 1
    BY DEF Width
  <2>3. QED BY <2>1, <2>2, IntegerBytes
<1>6. <<>> \in Bytes
  BY EmptySeq DEF Bytes
<1>7. ASSUME NEW v \in Strings \cup {Null} PROVE OptionalBytes(v) \in Bytes
  <2>1. v = Null \/ v[2] \in Bytes
    BY DEF Strings, Bytes
  <2>2. QED BY <1>6, <2>1, CountedBytes DEF OptionalBytes
<1>8. OptionalBytes(r.statusString) \in Bytes /\ OptionalBytes(r.appStatusString) \in Bytes
  BY <1>7 DEF IsResponse
<1>9. Filled(ts, n)
  <2>1. \A i \in 1 .. n : ts[i] \in Bytes /\ 1 <= Len(ts[i])
    BY TableType DEF IsResponse, TableSeq
  <2>2. ts = [i \in 1 .. n |-> ts[i]]
    BY DEF TableSeq
  <2> HIDE DEF ts, n
  <2>3. QED BY <1>1, <2>1, <2>2 DEF Filled
<1>10. FlattenSeq(ts) \in Bytes
  BY <1>9, FilledBytes
<1>11. OutcomeBytes(r) \in Bytes
  <2>1. CASE r.exception # Null
    <3> DEFINE w == WriteInteger("byte", r.exception)
    <3>1. w \in Bytes
      BY NumberBytes DEF IsResponse
    <3>2. OutcomeBytes(r) = Counted("int", w)
      BY <2>1 DEF OutcomeBytes
    <3> HIDE DEF w
    <3>3. QED BY <3>1, <3>2, CountedType
  <2>2. CASE r.exception = Null
    <3> DEFINE y == WriteInteger("int", Number(0))
               z == WriteInteger("short", Number(n))
               f == FlattenSeq(ts)
    <3>1. y \in Bytes /\ z \in Bytes /\ f \in Bytes
      BY <1>1, <1>10, CountBytes
    <3>2. OutcomeBytes(r) = y \o z \o f
      BY <2>2 DEF OutcomeBytes
    <3> HIDE DEF y, z, f
    <3>3. y \o z \in Bytes
      BY <3>1, Concatenated
    <3>4. QED BY <3>1, <3>2, <3>3, Concatenated
  <2>3. QED BY <2>1, <2>2
<1>12. ResponseBody(r)
              = r.uid \o <<BitsOf(r)>> \o WriteInteger("byte", r.status) \o OptionalBytes(r.statusString)
                  \o WriteInteger("byte", r.appStatus) \o OptionalBytes(r.appStatusString)
                  \o OutcomeBytes(r)
  BY FieldsIn DEF ResponseBody, BitsOf, OptionalBytes, OutcomeBytes, TableSeq
<1>13. QED BY <1>1, <1>2, <1>3, <1>4, <1>5, <1>8, <1>9, <1>10, <1>11, <1>12

\* A response: the bits that announce its fields add up to a byte.
LEMMA ResponseBytes ==
  ASSUME NEW r, IsResponse(r)
  PROVE  ResponseBody(r) \in Bytes
<1> DEFINE a == r.uid
           b == <<BitsOf(r)>>
           c == WriteInteger("byte", r.status)
           d == OptionalBytes(r.statusString)
           e == WriteInteger("byte", r.appStatus)
           g == OptionalBytes(r.appStatusString)
           rest == OutcomeBytes(r)
<1>1. /\ a \in Bytes /\ b \in Bytes /\ c \in Bytes /\ d \in Bytes /\ e \in Bytes /\ g \in Bytes
      /\ rest \in Bytes
  BY ResponsePieces
<1>2. ResponseBody(r) = a \o b \o c \o d \o e \o g \o rest
  BY ResponsePieces
<1> HIDE DEF a, b, c, d, e, g, rest
<1>3. a \o b \in Bytes
  BY <1>1, Concatenated
<1>4. a \o b \o c \in Bytes
  BY <1>1, <1>3, Concatenated
<1>5. a \o b \o c \o d \in Bytes
  BY <1>1, <1>4, Concatenated
<1>6. a \o b \o c \o d \o e \in Bytes
  BY <1>1, <1>5, Concatenated
<1>7. a \o b \o c \o d \o e \o g \in Bytes
  BY <1>1, <1>6, Concatenated
<1>8. QED BY <1>1, <1>2, <1>7, Concatenated

-----------------------------------------------------------------------------
(* What is read behind the header *)

\* The header is read, and the body follows it.
LEMMA BodyFollows ==
  ASSUME NEW body \in Bytes, Framable(body)
  PROVE  /\ AfterHeader(ToBuffer(body)) = Cursor(Header, Number(0))
         /\ At(ToBuffer(body), Header, body) /\ Header \in Nat
<1> DEFINE b == ToBuffer(body)
           m == Number(LengthOf(body))
           z == Number(0)
           h == WriteInteger("int", m)
           p == WriteInteger("byte", z)
<1>1. b \in Bytes /\ Len(b) \in Nat /\ Len(body) \in Nat
  BY HeaderSays, LenProperties DEF Bytes
<1>2. Width["int"] = IntWidth /\ Width["byte"] = 1 /\ IntWidth \in Nat /\ Header = IntWidth + 1
  BY ValueConstants DEF Width, Header
<1>3. LengthOf(body) \in Nat /\ LengthOf(body) <= Most("int")
  <2>1. LengthOf(body) \in Nat
    BY <1>1, <1>2 DEF LengthOf
  <2>2. QED BY <2>1, CountableRange DEF Framable
<1>4. m \in Numbers("int") /\ z \in Numbers("byte")
  <2>1. Least("int") \in Int /\ Least("int") <= -8 /\ Most("int") \in Nat
    BY Widths
  <2>2. Least("byte") \in Int /\ Least("byte") <= -8 /\ Most("byte") \in Nat
    BY Widths
  <2>3. QED BY <1>3, <2>1, <2>2 DEF Numbers, Number
<1>5. b = (h \o p) \o body
  BY DEF ToBuffer, HeaderFor, WriteByte
<1> HIDE DEF b, m, z
<1>6. h \in Bytes /\ p \in Bytes
  BY <1>4, NumberBytes
<1> HIDE DEF h, p
<1>7. h \o p \in Bytes
  BY <1>6, Concatenated
<1>8. At(b, 0, (h \o p) \o body)
  BY <1>1, <1>5, AtStart
<1>9. At(b, 0, h \o p) /\ At(b, 0 + Len(h \o p), body)
  BY <1>1, <1>7, <1>8, AtEach
<1>10. At(b, 0, h) /\ At(b, 0 + Len(h), p)
  BY <1>1, <1>6, <1>9, AtEach
<1>11. ReadInteger(b, Cursor(0, Null), "int") = Cursor(0 + IntWidth, m) /\ Len(h) = IntWidth
  <2>1. At(b, 0, WriteInteger("int", m))
    BY <1>10 DEF h
  <2>2. QED BY <1>1, <1>2, <1>4, <2>1, IntegerAt DEF h
<1>12. ReadInteger(b, Cursor(IntWidth, m), "byte") = Cursor(IntWidth + 1, z) /\ Len(p) = 1
  <2>1. 0 + Len(h) = IntWidth
    BY <1>2, <1>11
  <2>2. At(b, IntWidth, WriteInteger("byte", z))
    BY <1>10, <2>1 DEF p
  <2>3. /\ ReadInteger(b, Cursor(IntWidth, m), "byte") = Cursor(IntWidth + Width["byte"], z)
        /\ Len(WriteInteger("byte", z)) = Width["byte"]
    BY <1>1, <1>4, <2>2, IntegerAt
  <2>4. QED BY <1>2, <2>3 DEF p
<1>13. AfterHeader(b) = Cursor(Header, z)
  <2>1. 0 + IntWidth = IntWidth
    BY <1>2
  <2>2. QED BY <1>2, <1>11, <1>12, <2>1 DEF AfterHeader, Start
<1>14. 0 + Len(h \o p) = Header
  <2>1. Len(h \o p) = Len(h) + Len(p)
    BY <1>6, Concatenated
  <2>2. QED BY <1>2, <1>11, <1>12, <2>1
<1>15. QED BY <1>2, <1>9, <1>13, <1>14 DEF b, z

\* The login as the server reads it.
LEMMA LoginRead ==
  ASSUME NEW l \in Login, Framable(LoginBody(l))
  PROVE  ServerReadLogin(ToBuffer(LoginBody(l))) = l
<1> DEFINE body == LoginBody(l)
           b == ToBuffer(body)
           s == WriteBytes(l.service)
           u == WriteBytes(l.username)
           p == l.password
<1>1. s \in Bytes /\ u \in Bytes /\ p \in Bytes /\ body \in Bytes /\ body = (s \o u) \o p
  BY LoginBytes DEF LoginBody
<1>2. s \o u \in Bytes
  <2> HIDE DEF s, u
  <2>1. QED BY <1>1, Concatenated
<1>3. b \in Bytes /\ Len(b) = IntWidth + (Len(body) + 1) /\ Len(body) \in Nat
      /\ AfterHeader(b) = Cursor(Header, Number(0)) /\ At(b, Header, body) /\ Header \in Nat
  <2> HIDE DEF body
  <2>1. body \in Bytes /\ Framable(body)
    BY <1>1 DEF body
  <2>2. QED BY <2>1, HeaderSays, BodyFollows
<1>4. l.service \in Strings /\ l.username \in Strings /\ l.form = "login"
  BY DEF Login
<1>5. Len(l.service[2]) <= Most("int") /\ Len(l.username[2]) <= Most("int")
  <2> DEFINE x == l.service[2]
             y == l.username[2]
             hx == WriteInteger("int", Number(Len(x)))
             hy == WriteInteger("int", Number(Len(y)))
  <2>1. x \in Bytes /\ y \in Bytes /\ Len(x) \in Nat /\ Len(y) \in Nat /\ Len(x) \in Int /\ Len(y) \in Int
    BY <1>4, LenProperties DEF Strings, Bytes
  <2>2. s = hx \o x /\ u = hy \o y
    <3>1. l.service # Null /\ l.username # Null
      BY <1>4 DEF Strings, Null
    <3>2. QED BY <3>1 DEF WriteBytes
  <2> HIDE DEF s, u, x, y
  <2>3. hx \in Bytes /\ hy \in Bytes
    BY <2>1, CountBytes
  <2> HIDE DEF hx, hy
  <2>4. Len(s) = Len(hx) + Len(x) /\ Len(u) = Len(hy) + Len(y) /\ Len(hx) \in Nat /\ Len(hy) \in Nat
    BY <2>1, <2>2, <2>3, Concatenated
  <2>5. Len(s \o u) = Len(s) + Len(u)
    BY <1>1, Concatenated
  <2>6. Len((s \o u) \o p) = Len(s \o u) + Len(p) /\ Len(p) \in Nat
    BY <1>1, <1>2, Concatenated
  <2>7. Len(body) = Len(s) + Len(u) + Len(p)
    BY <1>1, <2>5, <2>6
  <2> HIDE DEF body
  <2>8. LengthOf(body) = Len(body) + 1
    BY <1>3, ValueConstants DEF LengthOf, Header
  <2>9. Countable("int", LengthOf(body))
    BY DEF Framable, body
  <2>10. LengthOf(body) \in Nat
    BY <1>3, <2>8
  <2>11. LengthOf(body) <= Most("int") /\ Most("int") \in Int
    BY <2>9, <2>10, CountableRange, Widths
  <2> HIDE DEF p
  <2>12. Len(x) <= LengthOf(body) /\ Len(y) <= LengthOf(body)
    BY <1>3, <2>1, <2>4, <2>6, <2>7, <2>8
  <2>13. Len(x) <= Most("int") /\ Len(y) <= Most("int")
    BY <2>1, <2>10, <2>11, <2>12
  <2>14. QED BY <2>13 DEF x, y
<1> HIDE DEF b, body
<1>6. Len(b) \in Nat /\ At(b, Header, (s \o u) \o p)
  BY <1>1, <1>3, LenProperties DEF Bytes
<1> HIDE DEF s, u, p
<1>7. At(b, Header, s \o u) /\ At(b, Header + Len(s \o u), p)
  BY <1>1, <1>2, <1>6, AtEach
<1>8. At(b, Header, s) /\ At(b, Header + Len(s), u)
  BY <1>1, <1>6, <1>7, AtEach
<1> DEFINE k == Header + Len(s)
           at == k + Len(u)
<1>9. ReadString(b, Cursor(Header, Number(0))) = Cursor(k, l.service)
  BY <1>3, <1>4, <1>5, <1>8, StringAt DEF s
<1>10. ReadString(b, Cursor(k, l.service)) = Cursor(at, l.username)
  <2>1. At(b, k, WriteBytes(l.username))
    BY <1>8 DEF u
  <2>2. QED BY <1>3, <1>4, <1>5, <2>1, StringAt DEF u
<1>11. SubSeq(b, at + 1, Len(b)) = p
  <2>1. /\ Len(s \o u) = Len(s) + Len(u) /\ Len(s) \in Nat /\ Len(u) \in Nat
        /\ Len(body) = Len(s \o u) + Len(p) /\ Len(p) \in Nat
    BY <1>1, <1>2, Concatenated
  <2>2. Header + Len(s \o u) = at /\ Len(b) = at + Len(p)
    <3>1. IntWidth \in Nat /\ Header = IntWidth + 1
      BY ValueConstants DEF Header
    <3>2. QED BY <1>3, <2>1, <3>1
  <2>3. SubSeq(b, at + 1, at + Len(p)) = p
    BY <1>1, <1>3, <1>7, <2>2, AtSlice
  <2>4. QED BY <2>2, <2>3
<1> HIDE DEF at, k
<1>12. ServerReadLogin(b) = [form |-> "login", service |-> l.service, username |-> l.username,
                             password |-> p]
  <2> DEFINE c == Cursor(k, l.service)
             d == Cursor(at, l.username)
  <2>1. c.value = l.service /\ d.value = l.username /\ d.at = at /\ d.ok
    BY DEF Cursor
  <2>2. ReadString(b, AfterHeader(b)) = c /\ ReadString(b, c) = d
    BY <1>3, <1>9, <1>10
  <2> HIDE DEF c, d
  <2>3. QED BY <1>11, <2>1, <2>2 DEF ServerReadLogin
<1>13. l = [form |-> l.form, service |-> l.service, username |-> l.username, password |-> l.password]
  BY DEF Login
<1>14. QED BY <1>4, <1>12, <1>13 DEF b, body, p

\* The result of a login as the driver reads it.
LEMMA ResultRead ==
  ASSUME NEW r \in LoginResult, Framable(ResultBody(r))
  PROVE  IF r.status # Number(0)
         THEN ReadLoginResult(ToBuffer(ResultBody(r))) = [form |-> "loginResult", status |-> r.status]
         ELSE (\A i \in 1 .. 4 : r.leaderIP[i] < Base \div 2) /\ r.clusterStartTimestamp # Null =>
              ReadLoginResult(ToBuffer(ResultBody(r)))
                = [r EXCEPT !.leaderIP = [i \in 1 .. 4 |-> Number(@[i])],
                            !.clusterStartTimestamp = Moment(@[2])]
<1> DEFINE body == ResultBody(r)
           b == ToBuffer(body)
           s == WriteInteger("byte", r.status)
           k == Header
<1>1. body \in Bytes
  BY ResultBytes
<1>2. b \in Bytes /\ AfterHeader(b) = Cursor(k, Number(0)) /\ At(b, k, body) /\ k \in Nat
      /\ Len(b) = IntWidth + (Len(body) + 1) /\ Len(body) \in Nat
  <2> HIDE DEF body
  <2>1. body \in Bytes /\ Framable(body)
    BY <1>1 DEF body
  <2>2. QED BY <2>1, HeaderSays, BodyFollows
<1>3. r.status \in Numbers("byte")
  <2>1. Number(0) \in Numbers("byte")
    BY Widths DEF Numbers, Number
  <2>2. QED BY <2>1 DEF LoginResult
<1>4. s \in Bytes
  BY <1>3, NumberBytes
<1>5. Width["byte"] = 1 /\ Width["int"] = IntWidth /\ Width["long"] = LongWidth
      /\ IntWidth \in Nat /\ LongWidth \in Nat
  BY ValueConstants DEF Width
<1>6. Len(b) \in Nat
  BY <1>2, LenProperties DEF Bytes
<1> HIDE DEF b, k
<1>7. At(b, k, s) => ReadInteger(b, Cursor(k, Number(0)), "byte") = Cursor(k + 1, r.status) /\ Len(s) = 1
  <2>1. SUFFICES ASSUME At(b, k, s)
                 PROVE  ReadInteger(b, Cursor(k, Number(0)), "byte") = Cursor(k + 1, r.status) /\ Len(s) = 1
    OBVIOUS
  <2>2. /\ ReadInteger(b, Cursor(k, Number(0)), "byte") = Cursor(k + Width["byte"], r.status)
        /\ Len(s) = Width["byte"]
    BY <1>2, <1>3, <2>1, IntegerAt
  <2>3. QED BY <1>5, <2>2
<1>8. CASE r.status # Number(0)
  <2>1. body = s \o <<>> /\ <<>> \in Bytes
    BY <1>8, EmptySeq DEF ResultBody, Bytes
  <2> HIDE DEF s, body
  <2>2. At(b, k, s)
    <3>1. At(b, k, s \o <<>>)
      BY <1>2, <2>1
    <3>2. QED BY <1>4, <1>6, <2>1, <3>1, AtEach
  <2> DEFINE c == Cursor(k + 1, r.status)
  <2>3. c.ok /\ c.value = r.status
    BY DEF Cursor
  <2>4. ReadInteger(b, AfterHeader(b), "byte") = c
    BY <1>2, <1>7, <2>2
  <2> HIDE DEF c
  <2>5. ReadLoginResult(b) = [form |-> "loginResult", status |-> r.status]
    BY <1>8, <2>3, <2>4 DEF ReadLoginResult
  <2>6. QED BY <1>8, <2>5 DEF b, body
<1>9. CASE r.status = Number(0)
  <2>1. SUFFICES ASSUME \A i \in 1 .. 4 : r.leaderIP[i] < Base \div 2, r.clusterStartTimestamp # Null
                 PROVE  ReadLoginResult(b)
                          = [r EXCEPT !.leaderIP = [i \in 1 .. 4 |-> Number(@[i])],
                                      !.clusterStartTimestamp = Moment(@[2])]
    BY <1>9 DEF b, body
  <2> DEFINE i == WriteInteger("int", r.serverId)
             n == WriteInteger("long", r.connectionId)
             t == WriteInteger("long", r.clusterStartTimestamp)
             p == r.leaderIP
             u == WriteBytes(r.build)
             time == r.clusterStartTimestamp
  <2>2. /\ r.form = "loginResult" /\ r.serverId \in Numbers("int") /\ r.connectionId \in Numbers("long")
        /\ r.clusterStartTimestamp \in Numbers("long")
        /\ p \in [1 .. 4 -> Byte] /\ r.build \in Strings \cup {Null}
    BY <1>9, <2>1 DEF LoginResult
  <2>3. i \in Bytes /\ n \in Bytes /\ t \in Bytes
    BY <2>2, NumberBytes
  <2>4. p \in Bytes /\ Len(p) = 4
    <3>1. 4 \in Nat
      OBVIOUS
    <3>2. p \in Bytes
      BY <2>2, <3>1, SeqDef DEF Bytes
    <3>3. p = [j \in 1 .. 4 |-> p[j]]
      BY <2>2
    <3>4. Len([j \in 1 .. 4 |-> p[j]]) = 4
      OBVIOUS
    <3>5. QED BY <3>2, <3>3, <3>4
  <2>5. u \in Bytes
    <3>1. r.build = Null \/ r.build[2] \in Bytes
      BY <2>2 DEF Strings, Bytes
    <3>2. QED BY <3>1, CountedBytes
  <2>6. body = s \o ((((i \o n) \o t) \o p) \o u)
    BY <1>9 DEF ResultBody
  <2>7. r.build # Null => Len(r.build[2]) <= Most("int")
    <3>1. SUFFICES ASSUME r.build # Null PROVE Len(r.build[2]) <= Most("int")
      OBVIOUS
    <3> DEFINE x == r.build[2]
               h == WriteInteger("int", Number(Len(x)))
               a == ((i \o n) \o t) \o p
    <3>2. x \in Bytes /\ Len(x) \in Nat /\ Len(x) \in Int
      BY <2>2, <3>1, LenProperties DEF Strings, Bytes
    <3>3. u = h \o x
      BY <3>1 DEF WriteBytes
    <3> HIDE DEF i, n, t, p, u, s, x
    <3>4. h \in Bytes
      BY <3>2, CountBytes
    <3> HIDE DEF h
    <3>5. Len(u) = Len(h) + Len(x) /\ Len(h) \in Nat
      BY <3>2, <3>3, <3>4, Concatenated
    <3>6. i \o n \in Bytes
      BY <2>3, Concatenated
    <3>7. (i \o n) \o t \in Bytes
      BY <2>3, <3>6, Concatenated
    <3>8. a \in Bytes
      BY <2>4, <3>7, Concatenated
    <3> HIDE DEF a
    <3>9. a \o u \in Bytes /\ Len(a \o u) = Len(a) + Len(u) /\ Len(a) \in Nat
      BY <2>5, <3>8, Concatenated
    <3>10. body = s \o (a \o u)
      BY <2>6 DEF a
    <3>11. Len(s \o (a \o u)) = Len(s) + Len(a \o u) /\ Len(s) \in Nat
      BY <1>4, <3>9, Concatenated
    <3> HIDE DEF body
    <3>12. Len(body) = Len(s) + (Len(a) + (Len(h) + Len(x)))
      BY <3>5, <3>9, <3>10, <3>11
    <3>13. LengthOf(body) = Len(body) + 1
      BY <1>2, <1>5 DEF LengthOf, Header
    <3>14. LengthOf(body) \in Nat /\ Countable("int", LengthOf(body))
      BY <1>2, <3>13 DEF Framable, body
    <3>15. LengthOf(body) <= Most("int") /\ Most("int") \in Int
      BY <3>14, CountableRange, Widths
    <3>16. Len(x) <= LengthOf(body)
      BY <3>2, <3>5, <3>9, <3>11, <3>12, <3>13
    <3>17. Len(x) <= Most("int")
      BY <3>2, <3>14, <3>15, <3>16
    <3>18. QED BY <3>17 DEF x
  <2> HIDE DEF i, n, t, p, u, s, time
  <2>8. i \o n \in Bytes
    BY <2>3, Concatenated
  <2>9. (i \o n) \o t \in Bytes
    BY <2>3, <2>8, Concatenated
  <2>10. ((i \o n) \o t) \o p \in Bytes
    BY <2>4, <2>9, Concatenated
  <2>11. (((i \o n) \o t) \o p) \o u \in Bytes
    BY <2>5, <2>10, Concatenated
  <2>12. At(b, k, s \o ((((i \o n) \o t) \o p) \o u))
    <3> HIDE DEF body
    <3>1. QED BY <1>2, <2>6
  <2>13. At(b, k, s) /\ At(b, k + Len(s), (((i \o n) \o t) \o p) \o u)
    BY <1>4, <1>6, <2>11, <2>12, AtEach
  <2>14. At(b, k + 1, (((i \o n) \o t) \o p) \o u)
    BY <1>7, <2>13
  <2>15. At(b, k + 1, ((i \o n) \o t) \o p)
         /\ At(b, k + 1 + Len(((i \o n) \o t) \o p), u)
    BY <1>6, <2>5, <2>10, <2>14, AtEach
  <2>16. At(b, k + 1, (i \o n) \o t) /\ At(b, k + 1 + Len((i \o n) \o t), p)
    BY <1>6, <2>4, <2>9, <2>15, AtEach
  <2>17. At(b, k + 1, i \o n) /\ At(b, k + 1 + Len(i \o n), t)
    BY <1>6, <2>3, <2>8, <2>16, AtEach
  <2>18. At(b, k + 1, i) /\ At(b, k + 1 + Len(i), n)
    BY <1>6, <2>3, <2>17, AtEach
  <2> DEFINE k1 == k + 1
             k2 == k1 + IntWidth
             k3 == k2 + LongWidth
             k4 == k3 + LongWidth
             k5 == k4 + 1
             k6 == k5 + 1
             k7 == k6 + 1
             k8 == k7 + 1
             c0 == Cursor(k1, r.status)
             c1 == Cursor(k2, r.serverId)
             c2 == Cursor(k3, r.connectionId)
             c3 == Cursor(k4, time)
             c4 == Cursor(k5, Number(p[1]))
             c5 == Cursor(k6, Number(p[2]))
             c6 == Cursor(k7, Number(p[3]))
             c7 == Cursor(k8, Number(p[4]))
             c8 == Cursor(k8 + Len(u), r.build)
  <2>19. ReadInteger(b, AfterHeader(b), "byte") = c0
    BY <1>2, <1>7, <2>13
  <2>20. ReadInteger(b, c0, "int") = c1 /\ Len(i) = IntWidth
    <3>1. /\ ReadInteger(b, Cursor(k + 1, r.status), "int") = Cursor(k + 1 + Width["int"], r.serverId)
          /\ Len(WriteInteger("int", r.serverId)) = Width["int"]
      <4>1. At(b, k + 1, WriteInteger("int", r.serverId))
        BY <2>18 DEF i
      <4>2. QED BY <1>2, <2>2, <4>1, IntegerAt
    <3>2. QED BY <1>5, <3>1 DEF i
  <2>21. ReadInteger(b, c1, "long") = c2 /\ Len(n) = LongWidth
    <3>1. /\ ReadInteger(b, Cursor(k2, r.serverId), "long") = Cursor(k2 + Width["long"], r.connectionId)
          /\ Len(WriteInteger("long", r.connectionId)) = Width["long"]
      <4>1. At(b, k2, WriteInteger("long", r.connectionId))
        BY <2>18, <2>20 DEF n
      <4> HIDE DEF k2
      <4>2. QED BY <1>2, <2>2, <4>1, IntegerAt
    <3>2. QED BY <1>5, <3>1 DEF n
  <2>22. Len(i \o n) = IntWidth + LongWidth
    BY <2>3, <2>20, <2>21, Concatenated
  <2>23. ReadInteger(b, c2, "long") = c3 /\ Len(t) = LongWidth
    <3>1. k + 1 + Len(i \o n) = k3
      BY <1>2, <1>5, <2>22
    <3>2. /\ ReadInteger(b, Cursor(k3, r.connectionId), "long") = Cursor(k3 + Width["long"], time)
          /\ Len(WriteInteger("long", time)) = Width["long"]
      <4>1. At(b, k3, WriteInteger("long", time)) /\ time \in Numbers("long")
        BY <2>2, <2>17, <3>1 DEF t, time
      <4> HIDE DEF k3
      <4>2. QED BY <1>2, <4>1, IntegerAt
    <3>3. QED BY <1>5, <3>2 DEF t, time
  <2>24. k + 1 + Len((i \o n) \o t) = k4
    <3>1. Len((i \o n) \o t) = Len(i \o n) + Len(t)
      BY <2>3, <2>8, Concatenated
    <3>2. QED BY <1>2, <1>5, <2>22, <2>23, <3>1
  <2>25. k + 1 + Len(((i \o n) \o t) \o p) = k8
    <3>1. Len((i \o n) \o t) = Len(i \o n) + Len(t)
      BY <2>3, <2>8, Concatenated
    <3>2. Len(((i \o n) \o t) \o p) = Len((i \o n) \o t) + Len(p)
      BY <2>4, <2>9, Concatenated
    <3>3. QED BY <1>2, <1>5, <2>4, <2>22, <2>23, <3>1, <3>2
  <2>26. /\ k4 \in Nat /\ k4 + 4 <= Len(b)
         /\ b[k4 + 1] = p[1] /\ b[k4 + 2] = p[2] /\ b[k4 + 3] = p[3] /\ b[k4 + 4] = p[4]
    <3>1. At(b, k4, p)
      BY <2>16, <2>24
    <3> HIDE DEF k4
    <3>2. QED BY <2>4, <3>1 DEF At
  <2>27. \A j \in 1 .. 4 : p[j] \in Nat /\ p[j] < Base \div 2
    <3>1. Base \in Nat
      BY NumberConstants
    <3>2. QED BY <2>1, <2>2, <3>1 DEF Byte, p
  <2> HIDE DEF k4
  <2>28. k4 + 1 = k5 /\ k4 + 2 = k6 /\ k4 + 3 = k7 /\ k4 + 4 = k8
         /\ k5 \in Nat /\ k6 \in Nat /\ k7 \in Nat
         /\ k5 <= Len(b) /\ k6 <= Len(b) /\ k7 <= Len(b) /\ k8 <= Len(b)
    BY <1>6, <2>26
  <2>29. ReadInteger(b, c3, "byte") = c4
    BY <1>2, <2>26, <2>27, <2>28, PlainByteAt
  <2> HIDE DEF k5
  <2>30. ReadInteger(b, c4, "byte") = c5
    BY <1>2, <2>26, <2>27, <2>28, PlainByteAt
  <2> HIDE DEF k6
  <2>31. ReadInteger(b, c5, "byte") = c6
    BY <1>2, <2>26, <2>27, <2>28, PlainByteAt
  <2> HIDE DEF k7
  <2>32. ReadInteger(b, c6, "byte") = c7
    BY <1>2, <2>26, <2>27, <2>28, PlainByteAt
  <2> HIDE DEF k8
  <2>33. ReadString(b, c7) = c8
    <3>1. At(b, k8, WriteBytes(r.build))
      BY <2>15, <2>25 DEF u
    <3>2. QED BY <1>2, <2>2, <2>7, <3>1, StringAt DEF u
  <2>34. /\ c0.ok /\ c0.value = r.status /\ c1.value = r.serverId /\ c2.value = r.connectionId
         /\ c3.value = time /\ c4.value = Number(p[1]) /\ c5.value = Number(p[2])
         /\ c6.value = Number(p[3]) /\ c7.value = Number(p[4]) /\ c8.value = r.build /\ c8.ok
    BY DEF Cursor
  <2> HIDE DEF c0, c1, c2, c3, c4, c5, c6, c7, c8
  <2>35. ReadLoginResult(b) = [form |-> "loginResult", status |-> r.status,
            serverId |-> r.serverId, connectionId |-> r.connectionId,
            clusterStartTimestamp |-> Moment(time[2]),
            leaderIP |-> <<Number(p[1]), Number(p[2]), Number(p[3]), Number(p[4])>>,
            build |-> r.build]
    <3>1. time # Null
      BY <2>1 DEF time
    <3>2. QED BY <1>9, <2>19, <2>20, <2>21, <2>23, <2>29, <2>30, <2>31, <2>32, <2>33, <2>34, <3>1
            DEF ReadLoginResult
  <2>36. <<Number(p[1]), Number(p[2]), Number(p[3]), Number(p[4])>> = [j \in 1 .. 4 |-> Number(p[j])]
    OBVIOUS
  <2>37. r = [form |-> "loginResult", status |-> r.status,
              serverId |-> r.serverId, connectionId |-> r.connectionId,
              clusterStartTimestamp |-> time, leaderIP |-> p, build |-> r.build]
    BY <1>9 DEF LoginResult, time, p
  <2> DEFINE plain == [j \in 1 .. 4 |-> Number(p[j])]
             ms == Moment(time[2])
             there == [r EXCEPT !.leaderIP = plain]
  <2> HIDE DEF plain, ms
  <2>38. there = [form |-> "loginResult", status |-> r.status,
              serverId |-> r.serverId, connectionId |-> r.connectionId,
              clusterStartTimestamp |-> time, leaderIP |-> plain, build |-> r.build]
    BY <2>37
  <2> HIDE DEF there
  <2>39. [there EXCEPT !.clusterStartTimestamp = ms] = ReadLoginResult(b)
    BY <2>35, <2>36, <2>38 DEF plain, ms
  <2>40. [there EXCEPT !.clusterStartTimestamp = ms]
           = [r EXCEPT !.leaderIP = plain, !.clusterStartTimestamp = ms]
    BY DEF there
  <2>41. plain = [j \in 1 .. 4 |-> Number(r.leaderIP[j])] /\ ms = Moment(r.clusterStartTimestamp[2])
    BY DEF plain, ms, p, time
  <2>42. QED BY <2>39, <2>40, <2>41
<1>10. QED BY <1>8, <1>9

-----------------------------------------------------------------------------
(* What is refused *)

\* A number below a power has no more digits than that.
LEMMA CountBound ==
  ASSUME NEW m \in Nat, NEW d \in Nat, d >= 1, m < Power(10, d)
  PROVE  Count(m) \in Nat /\ Count(m) <= d
<1> DEFINE c == Count(m)
<1>1. c \in Nat /\ c >= 1 /\ (c = 1 \/ m >= Power(10, c - 1))
  <2>1. c \in 1 .. m + 1 /\ (c = 1 \/ m >= Power(10, c - 1))
    BY CountExists
  <2> HIDE DEF c
  <2>2. QED BY <2>1
<1> HIDE DEF c
<1>2. SUFFICES ASSUME ~(c <= d) PROVE FALSE
  BY <1>1 DEF c
<1> DEFINE j == c - 1
<1>3. j \in Nat /\ d <= j /\ c # 1 /\ 10 \in Nat \ {0}
  BY <1>1, <1>2
<1>4. m >= Power(10, j)
  BY <1>1, <1>3
<1> HIDE DEF j
<1>5. Power(10, d) <= Power(10, j)
  BY <1>3, PowerMonotone
<1>6. Power(10, d) \in Nat /\ Power(10, j) \in Nat
  BY <1>3, PowerType
<1>7. QED BY <1>4, <1>5, <1>6

\* A documented decimal, unless it cannot be written, is not too long.
LEMMA WritableIsShort ==
  ASSUME NEW type, IsType(type), KindOf[type[1]] = "decimal", NEW value, IsValue(value), value # Null,
         Documented(type, value), ~UnwritableDecimal(type, value)
  PROVE  value[1] \in {"number", "fraction"} /\ Plain(value) /\ ~TooLong(TextOf(value))
<1>0. MaxIntDigits \in Nat /\ MaxIntDigits >= 1 /\ DecimalPlaces \in Nat /\ 10 \in Nat \ {0}
  BY ValueConstants
<1>1. type = <<"decimal">>
  <2>1. type \in Seq(STRING) /\ Len(type) = 1 /\ type[1] \in DOMAIN KindOf
    BY DEF IsType, Documented
  <2>2. type[1] = "decimal"
    BY <2>1 DEF KindOf
  <2> DEFINE name == type[1]
  <2>3. name \in STRING
    BY <2>1, ElementOfSeq
  <2> HIDE DEF name
  <2>4. <<name>> \in Seq(STRING) /\ Len(<<name>>) = 1 /\ <<name>>[1] = name
    BY <2>3
  <2> DEFINE single == <<name>>
  <2> HIDE DEF single
  <2>5. type = single
    BY <2>1, <2>4, SeqEqual DEF single, name
  <2>6. QED BY <2>2, <2>5 DEF single, name
<1>2. /\ \/ value[1] = "number" /\ Magnitude(value[2]) < Power(10, MaxIntDigits)
         \/ /\ value[1] = "fraction"
            /\ Magnitude(value[2]) < Power(10, MaxIntDigits + value[3])
      /\ Plain(value) /\ (value[1] = "fraction" => ~(value[3] > DecimalPlaces))
  BY <1>1 DEF Documented, UnwritableDecimal
<1>3. CASE value[1] = "number"
  <2> DEFINE n == value[2]
             m == Magnitude(n)
             t == TextOf(value)
  <2>1. n \in Int /\ m < Power(10, MaxIntDigits)
    BY <1>2, <1>3, ValueContents
  <2>2. m \in Nat /\ Unsigned(Numeral(n)) = DigitsOf(m)
    BY <2>1, NumeralType
  <2>3. t[2] = Numeral(n) /\ t[3] = <<>>
    BY <1>3 DEF TextOf, Text
  <2> HIDE DEF m, n, t
  <2>4. Len(DigitsOf(m)) = Count(m)
    BY <2>2, DigitsOfType
  <2>5. Count(m) \in Nat /\ Count(m) <= MaxIntDigits
    BY <1>0, <2>1, <2>2, CountBound
  <2>6. Len(Unsigned(t[2])) = Count(m) /\ Len(t[3]) = 0
    BY <2>2, <2>3, <2>4
  <2>7. ~TooLong(t)
    BY <1>0, <2>5, <2>6 DEF TooLong
  <2>8. QED BY <1>2, <1>3, <2>7 DEF t
<1>4. CASE value[1] = "fraction"
  <2> DEFINE n == value[2]
             p == value[3]
             m == Magnitude(n)
             q == m \div Power(10, p)
             w == IF n < 0 THEN <<Minus>> \o DigitsOf(q) ELSE DigitsOf(q)
             f == Digits(10, m, p)
             t == TextOf(value)
  <2>1. n \in Int /\ p \in Nat /\ m < Power(10, MaxIntDigits + p) /\ ~(p > DecimalPlaces)
    BY <1>2, <1>4, ValueContents
  <2>2. t = Text(w, f)
    BY <1>4 DEF TextOf
  <2>3. t[2] = w /\ t[3] = f
    BY <2>2 DEF Text
  <2>4. m \in Nat
    BY <2>1 DEF Magnitude
  <2>5. Len(f) = p /\ Unsigned(w) = DigitsOf(q) /\ q \in Nat
    <3>1. PartsOfText(n, p, q, w, f)
      BY <2>1 DEF PartsOfText
    <3> HIDE DEF n, p, q, w, f
    <3>2. QED BY <3>1, FractionSpelt
  <2> HIDE DEF n, p, m, w, f, t
  <2>6. q < Power(10, MaxIntDigits)
    <3> DEFINE x == Power(10, p)
               y == Power(10, MaxIntDigits)
    <3>1. Power(10, MaxIntDigits + p) = y * x
      BY <1>0, <2>1, PowerSum
    <3>2. x \in Nat \ {0} /\ y \in Nat
      BY <1>0, <2>1, PowerType
    <3> HIDE DEF x, y
    <3>3. m = x * (m \div x) + (m % x) /\ m \div x \in Nat /\ m % x \in 0 .. x - 1
      BY <2>4, <3>2, Division
    <3>4. m < y * x
      BY <2>1, <3>1
    <3> DEFINE z == m \div x
    <3>5. z \in Nat /\ x * z <= m
      BY <3>2, <3>3
    <3> HIDE DEF z
    <3>6. z < y
      <4>1. SUFFICES ASSUME z >= y PROVE FALSE
        BY <3>2, <3>5
      <4>2. x * z >= x * y
        BY <3>2, <3>5, <4>1
      <4>3. QED BY <2>4, <3>2, <3>4, <3>5, <4>2
    <3>7. QED BY <3>6 DEF z, x, y, q
  <2> HIDE DEF q
  <2>7. Len(DigitsOf(q)) = Count(q)
    BY <2>5, DigitsOfType
  <2>8. Count(q) \in Nat /\ Count(q) <= MaxIntDigits
    BY <1>0, <2>5, <2>6, CountBound
  <2>9. Len(Unsigned(t[2])) = Count(q) /\ Len(t[3]) = p
    BY <2>3, <2>5, <2>7
  <2>10. ~TooLong(t)
    BY <1>0, <2>1, <2>8, <2>9 DEF TooLong
  <2>11. QED BY <1>2, <1>4, <2>10 DEF t
<1>5. QED BY <1>2, <1>3, <1>4

\* A documented value of a documented type passes checkType and its writer.
LEMMA DocumentedAccepted ==
  ASSUME NEW type, IsType(type), NEW value, IsValue(value), Documented(type, value),
         ~UnwritableDecimal(type, value)
  PROVE  /\ CheckType(type, value) /\ type[1] # "array"
         /\ WritesKind(KindOf[type[1]], value)
<1> DEFINE kind == KindOf[type[1]]
<1>1. Len(type) = 1 /\ type[1] \in DOMAIN KindOf /\ type[1] # "array" /\ type # <<"array">>
  <2>1. Len(type) = 1 /\ type[1] \in DOMAIN KindOf
    BY DEF Documented
  <2>2. type[1] # "array"
    BY <2>1 DEF KindOf
  <2>3. QED BY <2>1, <2>2
<1>2. CASE value = Null
  <2>1. value[1] = "null"
    BY <1>2 DEF Null
  <2>2. QED BY <1>1, <1>2, <2>1 DEF CheckType, WritesKind
<1>3. CASE value # Null
  <2>1. kind \in ValueKinds
    BY <1>1, KindsOfNames
  <2>2. /\ kind = "string" => type[1] = "string"
        /\ kind = "decimal" => type[1] = "decimal"
    BY <1>1 DEF KindOf
  <2>3. CASE kind \in {"byte", "short", "int"}
    <3>1. value[1] = "number" /\ Fits(kind, value)
      BY <1>3, <2>3 DEF Documented
    <3>2. Least(kind) < value[2] /\ value[2] <= Most(kind) /\ value[2] \in Int
      BY <1>3, <2>3, <3>1, ValueContents DEF Fits
    <3> DEFINE c == Capacity(Width[kind])
               v == value[2]
    <3>3. c \in Nat \ {0} /\ c % 16 = 0 /\ Least(kind) = -(c \div 2) /\ Most(kind) = -(-(c \div 2)) - 1
          /\ c \div 2 \in Nat
      BY <2>3, Widths DEF Least, Most
    <3> HIDE DEF c, v, kind
    <3>4. IsCapacity(c) /\ v \in Int /\ v \in -(c \div 2) .. c \div 2 - 1
      BY <3>2, <3>3 DEF IsCapacity, v
    <3>5. Prepared(v, c)
      BY <3>4, PatternRoundTrip
    <3>6. WritesKind(kind, value)
      BY <1>3, <2>3, <3>1, <3>5 DEF WritesKind, c, v
    <3>7. CheckType(type, value)
      BY <1>1, <3>1 DEF CheckType
    <3>8. QED BY <1>1, <3>6, <3>7 DEF kind
  <2>4. CASE kind \in {"long", "date"}
    <3>1. value[1] = "number"
      BY <1>3, <2>4 DEF Documented
    <3>2. CheckType(type, value)
      BY <1>1, <3>1 DEF CheckType
    <3>3. WritesKind(kind, value)
      BY <1>3, <2>4, <3>1 DEF WritesKind
    <3>4. QED BY <1>1, <3>2, <3>3
  <2>5. CASE kind = "decimal"
    <3>1. value[1] \in {"number", "fraction"} /\ Plain(value) /\ ~TooLong(TextOf(value))
      BY <1>3, <2>5, WritableIsShort
    <3>4. WritesKind("decimal", value)
      BY <1>3, <3>1 DEF WritesKind
    <3>5. CheckType(type, value)
      BY <1>1, <3>1 DEF CheckType
    <3>6. QED BY <1>1, <2>5, <3>4, <3>5
  <2>6. CASE kind = "double"
    <3>1. value[1] \in {"real", "infinity", "nan"}
      BY <1>3, <2>6 DEF Documented
    <3>2. CheckType(type, value)
      BY <1>1, <3>1 DEF CheckType
    <3>3. WritesKind("double", value)
      BY <1>3, <3>1 DEF WritesKind
    <3>4. QED BY <1>1, <2>6, <3>2, <3>3
  <2>7. CASE kind = "string"
    <3>1. value[1] = "string" /\ Len(value[2]) <= Most("int")
      BY <1>3, <2>7 DEF Documented
    <3>2. Countable("int", Len(value[2]))
      <4>1. Len(value[2]) \in Nat
        BY <3>1, ValueContents, LenProperties DEF Bytes
      <4>2. QED BY <3>1, <4>1, CountableRange
    <3>3. WritesKind("string", value)
      BY <1>3, <3>1, <3>2 DEF WritesKind
    <3>4. CheckType(type, value)
      BY <1>1, <2>2, <2>7, <3>1 DEF CheckType
    <3>5. QED BY <1>1, <2>7, <3>3, <3>4
  <2>8. CASE kind = "varbinary"
    <3>1. value[1] = "bytes" /\ Len(value[2]) <= Most("int")
      BY <1>3, <2>8 DEF Documented
    <3>2. Countable("int", Len(value[2]))
      <4>1. Len(value[2]) \in Nat
        BY <3>1, ValueContents, LenProperties DEF Bytes
      <4>2. QED BY <3>1, <4>1, CountableRange
    <3>3. WritesKind("varbinary", value)
      BY <1>3, <3>1, <3>2 DEF WritesKind, BufferOf
    <3>4. CheckType(type, value)
      BY <1>1, <3>1 DEF CheckType
    <3>5. QED BY <1>1, <2>8, <3>3, <3>4
  <2>9. CASE kind = "null"
    BY <1>3, <2>9 DEF Documented
  <2>10. QED BY <2>1, <2>3, <2>4, <2>5, <2>6, <2>7, <2>8, <2>9 DEF ValueKinds
<1>4. QED BY <1>2, <1>3

\* So is a query of such values that the protocol's integers can count.
LEMMA DocumentedSendable ==
  ASSUME NEW q, IsQuery(q), Len(q.types) = Len(q.parameters),
         \A i \in 1 .. Len(q.types) : /\ Documented(q.types[i], q.parameters[i])
                                     /\ ~UnwritableDecimal(q.types[i], q.parameters[i]),
         ~(Len(q.parameters) > Most("short")), ~(Len(q.procName[2]) > Most("int")),
         NEW err \in LogErrors, ~(LengthOf(QueryBody(q, err)) > Most("int"))
  PROVE  Sendable(q, err)
<1>1. Len(q.parameters) \in Nat /\ Len(q.procName[2]) \in Nat
  BY LenProperties DEF IsQuery, Strings
<1>2. Countable("short", Len(q.parameters)) /\ Countable("int", Len(q.procName[2]))
  <2>1. Most("short") \in Int /\ Most("int") \in Int
    BY Widths
  <2>2. Len(q.parameters) <= Most("short") /\ Len(q.procName[2]) <= Most("int")
    BY <1>1, <2>1
  <2>3. QED BY <1>1, <2>2, CountableRange
<1>3. ASSUME NEW i \in 1 .. Len(q.parameters)
      PROVE  /\ CheckType(q.types[i], q.parameters[i]) /\ q.types[i][1] # "array"
             /\ WritesKind(KindOf[q.types[i][1]], q.parameters[i])
  <2> DEFINE t == q.types[i]
             v == q.parameters[i]
  <2>1. /\ Documented(t, v) /\ ~UnwritableDecimal(t, v)
        /\ i \in 1 .. Len(q.types) /\ i <= Len(q.parameters)
    BY <1>1
  <2>2. Len(t) = 1
    BY <2>1 DEF Documented
  <2>3. IsType(t) /\ \A k \in 0 .. Len(t) - 1 : \A x \in Parts(v, Len(t) - 1)[k] : IsValue(x)
    BY <2>1 DEF IsQuery
  <2> HIDE DEF t, v
  <2>4. Len(t) - 1 = 0 /\ 0 \in 0 .. 0
    BY <2>2
  <2>5. \A x \in Parts(v, 0)[0] : IsValue(x)
    BY <2>3, <2>4
  <2>6. Parts(v, 0)[0] = {v}
    <3>1. 0 \in Nat
      OBVIOUS
    <3>2. QED BY <3>1, PartsRecursion
  <2>7. IsValue(v)
    BY <2>5, <2>6
  <2>8. CheckType(t, v) /\ t[1] # "array" /\ WritesKind(KindOf[t[1]], v)
    BY <2>1, <2>3, <2>7, DocumentedAccepted
  <2>9. QED BY <2>8 DEF t, v
<1>4. WritesParameters(q.types, q.parameters)
  BY <1>2, <1>3 DEF WritesParameters
<1>5. QueryBody(q, err) \in Bytes
  BY <1>4, QueryBytes
<1> DEFINE body == QueryBody(q, err)
<1> HIDE DEF body
<1>6. LengthOf(body) \in Nat
  <2>1. Len(body) \in Nat
    BY <1>5, LenProperties DEF Bytes, body
  <2>2. QED BY <2>1, ValueConstants DEF LengthOf, Header
<1>7. Framable(body)
  <2>1. ~(LengthOf(body) > Most("int")) /\ Most("int") \in Int
    BY Widths DEF body
  <2>2. LengthOf(body) <= Most("int")
    BY <1>6, <2>1
  <2>3. QED BY <1>6, <2>2, CountableRange DEF Framable
<1>8. QED BY <1>2, <1>4, <1>7 DEF Sendable, body

-----------------------------------------------------------------------------
(* The invariant *)

\* The message on its way, and its bytes.
OnItsWay ==
  \/ meant \in QueriesToSend /\ \E err \in MathLogs :
       Sendable(meant, err) /\ wire = ToBuffer(QueryBody(meant, err))
  \/ meant \in LoginsToSend /\ Framable(LoginBody(meant)) /\ wire = ToBuffer(LoginBody(meant))
  \/ meant \in ResultsToSend /\ Framable(ResultBody(meant)) /\ wire = ToBuffer(ResultBody(meant))
  \/ meant \in ResponsesToSend /\ Framable(ResponseBody(meant))
       /\ wire = ToBuffer(ResponseBody(meant))

\* What its receiver makes of it.
GotIt ==
  /\ meant.form = "query"       => got = ServerReadQuery(wire)
  /\ meant.form = "login"       => got = ServerReadLogin(wire)
  /\ meant.form = "loginResult" => got = ReadLoginResult(wire)
  /\ meant.form = "response"    => got = ReadResponse(wire)

\* The bytes of a message are those of what was meant until the next one, which
\* is also what has been refused.
MessagesInvariant ==
  /\ phase \in {"idle", "sent", "received", "refused"}
  /\ phase = "idle" => meant = Nothing /\ wire = <<>> /\ got = Nothing
  /\ phase = "sent" => OnItsWay /\ got = Nothing
  /\ phase = "received" => OnItsWay /\ GotIt
  /\ phase = "refused" => /\ meant \in QueriesToSend /\ wire = <<>> /\ got = Nothing
                          /\ \E err \in MathLogs : ~Sendable(meant, err)

\* The forms of what is sent.
LEMMA Forms ==
  /\ \A q \in QueriesToSend : IsQuery(q) /\ q.form = "query"
  /\ \A l \in LoginsToSend : l \in Login /\ l.form = "login"
  /\ \A r \in ResultsToSend : r \in LoginResult /\ r.form = "loginResult"
  /\ \A r \in ResponsesToSend : IsResponse(r) /\ r.form = "response"
BY MessageConstants DEF IsQuery, Login, LoginResult, IsResponse

\* A step gives the message its bytes, hands them to the reader of its form, or
\* leaves both alone.
LEMMA MessagesStep ==
  ASSUME MessagesInvariant, [MessagesNext]_vars
  PROVE  MessagesInvariant'
<1>1. ASSUME NEW q \in QueriesToSend, SendQuery(q) PROVE MessagesInvariant'
  <2>1. PICK err \in MathLogs : Sendable(q, err) /\ Send(q, QueryBody(q, err))
    BY <1>1 DEF SendQuery
  <2>2. phase' = "sent" /\ meant' = q /\ wire' = ToBuffer(QueryBody(q, err)) /\ got' = Nothing
    BY <2>1 DEF Send, MessagesInvariant
  <2>3. OnItsWay'
    BY <2>1, <2>2 DEF OnItsWay
  <2>4. QED BY <2>2, <2>3 DEF MessagesInvariant
<1>2. ASSUME NEW q \in QueriesToSend, RefuseQuery(q) PROVE MessagesInvariant'
  BY <1>2 DEF RefuseQuery, MessagesInvariant
<1>3. ASSUME NEW m, NEW body, Send(m, body),
             \/ m \in LoginsToSend /\ body = LoginBody(m)
             \/ m \in ResultsToSend /\ body = ResultBody(m)
             \/ m \in ResponsesToSend /\ body = ResponseBody(m)
      PROVE  MessagesInvariant'
  <2>1. phase' = "sent" /\ meant' = m /\ wire' = ToBuffer(body) /\ got' = Nothing /\ Framable(body)
    BY <1>3 DEF Send, MessagesInvariant
  <2>2. OnItsWay'
    BY <1>3, <2>1 DEF OnItsWay
  <2>3. QED BY <2>1, <2>2 DEF MessagesInvariant
<1>4. ASSUME NEW l \in LoginsToSend, SendLogin(l) PROVE MessagesInvariant'
  BY <1>3, <1>4 DEF SendLogin
<1>5. ASSUME NEW r \in ResultsToSend, SendResult(r) PROVE MessagesInvariant'
  BY <1>3, <1>5 DEF SendResult
<1>6. ASSUME NEW r \in ResponsesToSend, SendResponse(r) PROVE MessagesInvariant'
  BY <1>3, <1>6 DEF SendResponse
<1>7. CASE ServerGetsQuery \/ ServerGetsLogin \/ GetLoginResult \/ GetResponse
  <2>1. phase = "sent" /\ OnItsWay /\ phase' = "received" /\ meant' = meant /\ wire' = wire
    BY <1>7 DEF ServerGetsQuery, ServerGetsLogin, GetLoginResult, GetResponse, Receive, MessagesInvariant
  <2>2. OnItsWay'
    BY <2>1 DEF OnItsWay
  <2>3. GotIt'
    BY <1>7 DEF ServerGetsQuery, ServerGetsLogin, GetLoginResult, GetResponse, Receive, GotIt
  <2>4. QED BY <2>1, <2>2, <2>3 DEF MessagesInvariant
<1>8. CASE Forget
  BY <1>8 DEF Forget, MessagesInvariant
<1>9. CASE UNCHANGED vars
  <2>1. phase' = phase /\ meant' = meant /\ wire' = wire /\ got' = got
    BY <1>9 DEF vars
  <2>2. (OnItsWay' <=> OnItsWay) /\ (GotIt' <=> GotIt)
    BY <2>1 DEF OnItsWay, GotIt
  <2>3. QED BY <2>1, <2>2 DEF MessagesInvariant
<1>10. QED BY <1>1, <1>2, <1>4, <1>5, <1>6, <1>7, <1>8, <1>9 DEF MessagesNext

\* The whole way of a message, lib/message.js and lib/query.js: what is on the wire
\* is what was meant, in bytes, until the next message, and what its receiver holds
\* is what its reader makes of exactly these bytes.
THEOREM InvariantHolds == MessagesSpec => []MessagesInvariant
<1>1. MessagesInit => MessagesInvariant
  BY DEF MessagesInit, MessagesInvariant
<1>2. MessagesInvariant /\ [MessagesNext]_vars => MessagesInvariant'
  BY MessagesStep
<1>3. QED BY <1>1, <1>2, PTL DEF MessagesSpec

\* On its way a message is bytes, and says how many.
LEMMA Framed ==
  ASSUME OnItsWay
  PROVE  /\ wire \in Bytes /\ meant # Nothing
         /\ meant.form \in {"query", "login", "loginResult", "response"}
         /\ \E n \in Nat : /\ Len(wire) = IntWidth + (n + 1)
                            /\ ReadSigned(SubSeq(wire, 1, IntWidth)) = n + 1
<1>1. PICK body \in Bytes : Framable(body) /\ wire = ToBuffer(body)
  <2>1. CASE meant \in QueriesToSend /\ \E err \in MathLogs :
               Sendable(meant, err) /\ wire = ToBuffer(QueryBody(meant, err))
    <3>1. PICK err \in MathLogs : Sendable(meant, err) /\ wire = ToBuffer(QueryBody(meant, err))
      BY <2>1
    <3>2. IsQuery(meant) /\ WritesParameters(meant.types, meant.parameters)
          /\ Framable(QueryBody(meant, err))
      BY <2>1, <3>1, Forms DEF Sendable
    <3>3. err \in LogErrors
      BY LogConstants
    <3>4. QueryBody(meant, err) \in Bytes
      BY <3>2, <3>3, QueryBytes
    <3>5. QED BY <3>1, <3>2, <3>4
  <2>2. CASE meant \in LoginsToSend /\ Framable(LoginBody(meant)) /\ wire = ToBuffer(LoginBody(meant))
    BY <2>2, Forms, LoginBytes
  <2>3. CASE meant \in ResultsToSend /\ Framable(ResultBody(meant)) /\ wire = ToBuffer(ResultBody(meant))
    BY <2>3, Forms, ResultBytes
  <2>4. CASE meant \in ResponsesToSend /\ Framable(ResponseBody(meant))
             /\ wire = ToBuffer(ResponseBody(meant))
    BY <2>4, Forms, ResponseBytes
  <2>5. QED BY <2>1, <2>2, <2>3, <2>4 DEF OnItsWay
<1>2. meant.form \in {"query", "login", "loginResult", "response"}
  BY Forms DEF OnItsWay
<1>3. meant # Nothing
  BY <1>2 DEF Nothing
<1>4. QED BY <1>1, <1>2, <1>3, HeaderSays

\* What a reader makes of bytes is of the form it reads, or broken.
LEMMA ReadForms ==
  ASSUME NEW b
  PROVE  /\ ServerReadQuery(b).form \in {"broken", "query"}
         /\ ServerReadLogin(b).form \in {"broken", "login"}
         /\ ReadLoginResult(b).form \in {"broken", "loginResult"}
         /\ ReadResponse(b).form \in {"broken", "response"}
<1>1. Broken.form = "broken"
  BY DEF Broken
<1>2. ServerReadQuery(b).form \in {"broken", "query"}
  BY <1>1 DEF ServerReadQuery
<1>3. ServerReadLogin(b).form \in {"broken", "login"}
  BY <1>1 DEF ServerReadLogin
<1>4. ReadLoginResult(b).form \in {"broken", "loginResult"}
  BY <1>1 DEF ReadLoginResult
<1>5. ReadResponse(b).form \in {"broken", "response"}
  BY <1>1 DEF ReadResponse
<1>6. QED BY <1>2, <1>3, <1>4, <1>5

-----------------------------------------------------------------------------
(* The theorems *)

\* lib/message.js, lib/query.js, lib/parser.js: every message that leaves is a
\* buffer of bytes, whatever its parameters, its tables and their depth, and what
\* a reader makes of one is of the form its sender gave it, or it threw.
THEOREM MessagesTypeCorrect == MessagesSpec => []MessagesTypeOK
<1>1. MessagesInvariant => MessagesTypeOK
  <2>1. SUFFICES ASSUME MessagesInvariant PROVE MessagesTypeOK
    OBVIOUS
  <2>2. CASE phase = "idle"
    <3>1. meant = Nothing /\ wire = <<>> /\ got = Nothing
      BY <2>1, <2>2 DEF MessagesInvariant
    <3>2. IsBytes(wire)
      BY <3>1 DEF IsBytes
    <3>3. meant.form = "nothing" /\ got.form = "nothing"
      BY <3>1 DEF Nothing
    <3>4. QED BY <2>2, <3>1, <3>2, <3>3 DEF MessagesTypeOK
  <2>3. ASSUME OnItsWay PROVE IsBytes(wire) /\ meant # Nothing
          /\ meant.form \in {"query", "login", "loginResult", "response"}
    <3>1. wire \in Seq(Byte) /\ meant # Nothing
          /\ meant.form \in {"query", "login", "loginResult", "response"}
      BY <2>3, Framed DEF Bytes
    <3>2. \A i \in 1 .. Len(wire) : wire[i] \in Byte
      BY <3>1, ElementOfSeq
    <3>3. QED BY <3>1, <3>2 DEF IsBytes, Byte
  <2>4. CASE phase = "sent"
    <3>1. OnItsWay /\ got = Nothing
      BY <2>1, <2>4 DEF MessagesInvariant
    <3>2. got.form = "nothing"
      BY <3>1 DEF Nothing
    <3>3. QED BY <2>3, <2>4, <3>1, <3>2 DEF MessagesTypeOK
  <2>5. CASE phase = "received"
    <3>1. OnItsWay /\ GotIt
      BY <2>1, <2>5 DEF MessagesInvariant
    <3>2. meant.form \in {"query", "login", "loginResult", "response"}
      BY <2>3, <3>1
    <3>3. got.form \in {"broken", meant.form}
      BY <3>1, <3>2, ReadForms DEF GotIt
    <3>4. got # Nothing
      BY <3>2, <3>3 DEF Nothing
    <3>5. QED BY <2>3, <2>5, <3>1, <3>3, <3>4 DEF MessagesTypeOK
  <2>6. CASE phase = "refused"
    <3>1. meant \in QueriesToSend /\ wire = <<>> /\ got = Nothing
      BY <2>1, <2>6 DEF MessagesInvariant
    <3>2. IsBytes(wire)
      BY <3>1 DEF IsBytes
    <3>3. meant.form = "query" /\ got.form = "nothing"
      BY <3>1, Forms DEF Nothing
    <3>4. meant # Nothing
      BY <3>3 DEF Nothing
    <3>5. QED BY <2>6, <3>1, <3>2, <3>3, <3>4 DEF MessagesTypeOK
  <2>7. QED BY <2>1, <2>2, <2>4, <2>5, <2>6 DEF MessagesInvariant
<1>2. QED BY <1>1, InvariantHolds, PTL

\* writeHeader: the number in front of a message is that of the bytes behind it,
\* which is what the framing of the other side cuts the stream by.
THEOREM MessagesFrameThemselves == MessagesSpec => []MessageFramesItself
<1>1. MessagesInvariant => MessageFramesItself
  <2>1. SUFFICES ASSUME MessagesInvariant, phase = "sent"
                 PROVE  LET length == ReadSigned(SubSeq(wire, 1, IntWidth))
                        IN  length > 0 /\ Len(wire) = IntWidth + length
    BY DEF MessageFramesItself
  <2>2. PICK n \in Nat : Len(wire) = IntWidth + (n + 1) /\ ReadSigned(SubSeq(wire, 1, IntWidth)) = n + 1
    BY <2>1, Framed DEF MessagesInvariant
  <2>3. QED BY <2>2
<1>2. QED BY <1>1, InvariantHolds, PTL

\* callProcedure, getMessage, writeParameterSet: documented values of documented
\* types are never refused, but for the numbers that no decimal can be written of
\* (1e21, 1e-7, more than twelve places), and for more bytes or parameters than the
\* protocol's integers count.
THEOREM DocumentedIsNotRefused == MessagesSpec => []DocumentedIsSent
<1>1. MessagesInvariant => DocumentedIsSent
  <2>1. SUFFICES ASSUME MessagesInvariant, phase = "refused", ~DocumentedIsSent
                 PROVE  FALSE
    BY DEF DocumentedIsSent
  <2>2. meant \in QueriesToSend
    BY <2>1 DEF MessagesInvariant
  <2>3. PICK err \in MathLogs : ~Sendable(meant, err)
    BY <2>1 DEF MessagesInvariant
  <2>4. /\ Len(meant.types) = Len(meant.parameters)
        /\ \A i \in 1 .. Len(meant.types) :
             /\ Documented(meant.types[i], meant.parameters[i])
             /\ ~UnwritableDecimal(meant.types[i], meant.parameters[i])
        /\ ~(Len(meant.parameters) > Most("short")) /\ ~(Len(meant.procName[2]) > Most("int"))
        /\ ~(LengthOf(QueryBody(meant, err)) > Most("int"))
    BY <2>1 DEF DocumentedIsSent
  <2>5. IsQuery(meant) /\ err \in LogErrors
    BY <2>2, Forms, LogConstants
  <2>6. QED BY <2>3, <2>4, <2>5, DocumentedSendable
<1>2. QED BY <1>1, InvariantHolds, PTL

\* _getLoginMessage and the constructor LoginMessage: a login arrives as it was
\* meant, and its result too, with the exceptions that LoginAsMeant names.
THEOREM LoginArrives == MessagesSpec => []LoginAsMeant
<1>1. MessagesInvariant => LoginAsMeant
  <2>1. SUFFICES ASSUME MessagesInvariant, phase = "received" PROVE LoginAsMeant
    BY DEF LoginAsMeant
  <2>2. OnItsWay /\ GotIt
    BY <2>1 DEF MessagesInvariant
  <2>3. CASE meant.form = "login"
    <3>1. meant \in Login /\ Framable(LoginBody(meant)) /\ wire = ToBuffer(LoginBody(meant))
      BY <2>2, <2>3, Forms DEF OnItsWay
    <3>2. got = meant
      BY <2>2, <2>3, <3>1, LoginRead DEF GotIt
    <3>3. QED BY <2>3, <3>2 DEF LoginAsMeant
  <2>4. CASE meant.form = "loginResult"
    <3>1. meant \in LoginResult /\ Framable(ResultBody(meant)) /\ wire = ToBuffer(ResultBody(meant))
      BY <2>2, <2>4, Forms DEF OnItsWay
    <3>2. got = ReadLoginResult(ToBuffer(ResultBody(meant)))
      BY <2>2, <2>4, <3>1 DEF GotIt
    <3>3. QED BY <2>4, <3>1, <3>2, ResultRead DEF LoginAsMeant
  <2>5. QED BY <2>3, <2>4 DEF LoginAsMeant
<1>2. QED BY <1>1, InvariantHolds, PTL
=============================================================================
