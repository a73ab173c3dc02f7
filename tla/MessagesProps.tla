--------------------------- MODULE MessagesProps ---------------------------
(* What the two sides of a connection may expect of each other's bytes. *)
EXTENDS Messages

IsBytes(s) == \A i \in 1 .. Len(s) : s[i] \in 0 .. Base - 1

MessagesTypeOK ==
  /\ phase \in {"idle", "sent", "received", "refused"}
  /\ meant.form \in {"nothing", "query", "login", "loginResult", "response"}
  /\ got.form \in {"nothing", "broken", meant.form}
  /\ IsBytes(wire)
  /\ meant = Nothing <=> phase = "idle"
  /\ got # Nothing <=> phase = "received"

-----------------------------------------------------------------------------
(* Which parameters can be sent without change *)

\* The values that a kind is for, neither its null sentinel nor beyond it, and no
\* double that the logarithm may misjudge.
Fits(kind, value) ==
  value # Null =>
    CASE kind \in {"byte", "short", "int", "long"} ->
           Least(kind) < value[2] /\ value[2] <= Most(kind)
      [] kind = "date"   -> Least("long") < 1000 * value[2] /\ 1000 * value[2] <= Most("long")
      [] kind = "double" ->
           /\ value[1] \in {"real", "infinity", "nan"}
           /\ value[1] = "real" => value[2] # NullDouble /\ FarFromPower(Magnitude(value[2]))
      [] kind = "varbinary" -> value[1] = "bytes"
      [] OTHER              -> TRUE

\* The innermost values of a parameter: those of an array, or itself.
Innermost(type, value) == Parts(value, Len(type) - 1)[Len(type) - 1]
FitsType(type, value) == \A v \in Innermost(type, value) : Fits(KindOf[Last(type)], v)

\* What the driver sends without a word and shifts, or loses, all that is behind it:
\* an array of bytes under the name tinyint, whose length is read as an int, and a
\* varbinary of what has no length.
Displaces(type, value) ==
  \/ Len(type) > 1 /\ Last(type) = "tinyint"
  \/ Last(type) = "varbinary" /\ \E v \in Innermost(type, value) : ~HasLength(v)

\* What the server should get for a value of a kind.
AtServer(kind, value) ==
  IF value = Null \/ kind = "null" THEN Null
  ELSE CASE kind = "date"    -> <<"micros", 1000 * value[2]>>
         [] kind = "decimal" -> <<"unscaled",
              CASE value[1] = "number"   -> value[2] * Power(10, DecimalPlaces)
                [] value[1] = "fraction" -> value[2] * Power(10, DecimalPlaces - value[3])
                [] OTHER -> Spelt(value[2] \o value[3]) * Power(10, DecimalPlaces - Len(value[3]))>>
         [] kind = "string"  -> Chars(value[2])
         [] kind = "long"    -> Number(value[2])
         [] OTHER            -> value

\* An array of what becomes of its innermost values, at any depth.
Outwards(type, value, becomes) ==
  LET depth == Len(type) - 1
      there[k \in 0 .. depth] ==
        [v \in Parts(value, depth)[k] |->
           IF k = depth THEN becomes[v]
           ELSE List([i \in 1 .. Len(v[2]) |-> there[k + 1][v[2][i]]])]
  IN  there[0][value]
TypeAtServer(type, value) ==
  Outwards(type, value, [v \in Innermost(type, value) |-> AtServer(KindOf[Last(type)], v)])

\* What is documented for a type (README, Data Types), in the type's range, and
\* null.  Decimals are numbers there; text is accepted too.
Documented(type, value) ==
  LET kind == KindOf[type[1]]
  IN  /\ Len(type) = 1 /\ type[1] \in DOMAIN KindOf
      /\ value # Null =>
         CASE kind \in {"byte", "short", "int", "long", "date"} ->
                value[1] = "number" /\ Fits(kind, value)
           [] kind = "decimal" ->
                \/ value[1] = "number" /\ Magnitude(value[2]) < Power(10, MaxIntDigits)
                \/ /\ value[1] = "fraction"
                   /\ Magnitude(value[2]) < Power(10, MaxIntDigits + value[3])
           [] kind = "double"    -> value[1] \in {"real", "infinity", "nan"}
           [] kind = "string"    -> value[1] = "string" /\ Len(value[2]) <= Most("int")
           [] kind = "varbinary" -> value[1] = "bytes" /\ Len(value[2]) <= Most("int")
           [] kind = "null"      -> FALSE

\* The documented numbers that no decimal can be written of: JavaScript gives their
\* text an exponent, or more places than a decimal has.
UnwritableDecimal(type, value) ==
  /\ type = <<"decimal">> /\ value # Null
  /\ ~Plain(value) \/ (value[1] = "fraction" /\ value[3] > DecimalPlaces)

-----------------------------------------------------------------------------
(* The properties *)

\* A message from the driver says how long it is, and something follows: this is
\* what the other side's framing needs to cut it out of the stream.
MessageFramesItself ==
  phase = "sent" /\ meant.form \in {"query", "login"} =>
    LET length == ReadSigned(SubSeq(wire, 1, IntWidth))
    IN  length > 0 /\ Len(wire) = IntWidth + length

\* A query arrives with its name, its uid and as many parameters as were meant, each
\* that fits its type as its caller meant it, null apart from every value, whatever
\* the others are: a value that is sent though it is beyond its type's range, null's
\* own number, a double beside a power of two or what JavaScript makes a number of
\* spoils no parameter but its own.  What Displaces says is the exception: then the
\* parameters behind it do not arrive, and the query may not either.
QueryAsMeant ==
  phase = "received" /\ meant.form = "query"
  /\ (\A i \in 1 .. Len(meant.types) : ~Displaces(meant.types[i], meant.parameters[i])) =>
    /\ got # Broken
    /\ got.procName = meant.procName /\ got.uid = meant.uid
    /\ Len(got.parameters) = Len(meant.types)
    /\ \A i \in 1 .. Len(meant.types) :
         FitsType(meant.types[i], meant.parameters[i]) =>
           got.parameters[i] = TypeAtServer(meant.types[i], meant.parameters[i])

\* A query is refused for a reason: with as many parameters as types, all of them
\* as documented or null, it is sent, unless one is a number that no decimal can be
\* written of, or its name, the list of its parameters or the whole of it is longer
\* than the integers of the protocol can say.
DocumentedIsSent ==
  phase = "refused" =>
    \/ Len(meant.types) # Len(meant.parameters)
    \/ \E i \in 1 .. Len(meant.types) :
         \/ ~Documented(meant.types[i], meant.parameters[i])
         \/ UnwritableDecimal(meant.types[i], meant.parameters[i])
    \/ Len(meant.parameters) > Most("short") \/ Len(meant.procName[2]) > Most("int")
    \/ \E err \in MathLogs : LengthOf(QueryBody(meant, err)) > Most("int")

\* The login request arrives as it was meant.
\* The result of a login is read as the server sent it, except a leader's
\* address above 127, which is read with a sign, and a null start time.
LoginAsMeant ==
  phase = "received" =>
    /\ meant.form = "login" => got = meant
    /\ meant.form = "loginResult" =>
         IF meant.status # Number(0) THEN got = [form |-> "loginResult", status |-> meant.status]
         ELSE (\A i \in 1 .. 4 : meant.leaderIP[i] < Base \div 2)
                /\ meant.clusterStartTimestamp # Null =>
              got = [meant EXCEPT !.leaderIP = [i \in 1 .. 4 |-> Number(@[i])],
                                  !.clusterStartTimestamp = Moment(@[2])]

\* A cell of a table, and what the driver makes of it.
CellAgrees(kind, sent, read) ==
  CASE kind = "decimal" /\ sent # Null ->
         /\ read[1] = "text" /\ read[2] # <<>> /\ Len(read[3]) = DecimalPlaces
         /\ \A i \in 1 .. Len(read[2]) : read[2][i] = Minus => i = 1
         /\ \A i \in 1 .. Len(read[3]) : read[3][i] # Minus
         /\ Spelt(read[2] \o read[3]) = sent[2]
    [] kind = "date" -> sent # Null /\ read = Moment(Thousandth(sent[2]))
    [] OTHER         -> read = sent

\* The cells that are misread: a null date, and a decimal between -1 and 0 with
\* fewer digits than places.
ReadWell(kind, value) ==
  /\ kind = "date" => value # Null
  /\ kind = "decimal" /\ value # Null =>
       value[2] >= 0 \/ value[2] <= -Power(10, DecimalPlaces - 1)

TableAgrees(sent, read) ==
  /\ read[1] = "table"
  /\ read[2].status = sent.status
  /\ read[2].columnNames = sent.columnNames /\ read[2].columnTypes = sent.columnTypes
  /\ Len(read[2].rows) = Len(sent.rows)
  /\ \A i \in 1 .. Len(sent.rows) : \A j \in 1 .. Len(sent.columnNames) :
       ReadWell(sent.columnTypes[j], sent.rows[i][j]) /\ sent.columnNames[j]
         \notin {sent.columnNames[k] : k \in j + 1 .. Len(sent.columnNames)}
       => CellAgrees(sent.columnTypes[j], sent.rows[i][j],
                     read[2].rows[i][sent.columnNames[j]])

\* A response is read as the server sent it: fields by the bits that announce
\* them, tables cell by cell.  One cell misread, or hidden by a later column of
\* the same name, leaves the others right.
ResponseAsMeant ==
  phase = "received" /\ meant.form = "response" /\ FieldsOf(meant) # {"appStatus"} =>
    /\ got # Broken
    /\ got.uid = meant.uid /\ got.status = meant.status /\ got.appStatus = meant.appStatus
    /\ got.statusString = IF "status" \in FieldsOf(meant) THEN meant.statusString
                          ELSE <<"standard", meant.status>>
    /\ got.appStatusString = IF "appStatus" \in FieldsOf(meant) THEN meant.appStatusString
                             ELSE Chars(<<>>)
    /\ got.exception = meant.exception
    /\ meant.exception = Null =>
         /\ Len(got.tables) = Len(meant.tables)
         /\ \A t \in 1 .. Len(meant.tables) : TableAgrees(meant.tables[t], got.tables[t])

\* lib/message.js: the byte of the fields present is a "bitfield, use PRESENT
\* values to check": a string that is announced is read.
BitsAnnounceFields ==
  phase = "received" /\ meant.form = "response" /\ "appStatus" \in FieldsOf(meant) =>
    got # Broken /\ got.appStatusString = meant.appStatusString
=============================================================================
