------------------------------ MODULE Messages ------------------------------
(***************************************************************************)
(* The messages of a connection: the login and the queries it writes, the  *)
(* login result and the responses it reads (lib/message.js, lib/query.js   *)
(* and _getLoginMessage of lib/connection.js).  One message at a time goes *)
(* from the side that means something to the side that makes something of  *)
(* its bytes.  The server's side is external: it writes and reads what     *)
(* the other half of the driver's code expects.                            *)
(***************************************************************************)
EXTENDS ValueCodec

CONSTANTS
  UidWidth,      \* bytes of a uid, 8
  QueriesToSend, \* what applications ask, a set of queries
  LoginsToSend, ResultsToSend, ResponsesToSend

-----------------------------------------------------------------------------
(* What can be meant *)

IsQuery(q) ==
  /\ q.form = "query" /\ q.procName \in Strings /\ q.uid \in [1 .. UidWidth -> Byte]
  /\ q.types \in Seq(ToSet(q.types)) /\ q.parameters \in Seq(ToSet(q.parameters))
  /\ \A i \in 1 .. Len(q.types) : IsType(q.types[i])
  /\ \A i \in 1 .. Len(q.types) : i <= Len(q.parameters) =>
       LET depth == Len(q.types[i]) - 1
           part  == Parts(q.parameters[i], depth)
       IN  /\ \A k \in 0 .. depth : \A v \in part[k] : IsValue(v)
           /\ Last(q.types[i]) \in DOMAIN KindOf =>
                \A v \in part[depth] : HasNotation(KindOf[Last(q.types[i])], v)

Login == [form : {"login"}, service : Strings, username : Strings, password : Seq(Byte)]
LoginResult ==
  [form : {"loginResult"}, status : Numbers("byte") \ {Number(0)}]
  \cup [form : {"loginResult"}, status : {Number(0)},
        serverId : Numbers("int"), connectionId : Numbers("long"),
        clusterStartTimestamp : Numbers("long") \cup {Null},
        leaderIP : [1 .. 4 -> Byte], build : Strings \cup {Null}]

\* A table of the server has a cell of its column's kind in each place.
IsCell(kind, v) ==
  \/ v = Null
  \/ CASE kind \in {"byte", "short", "int", "long"} -> v \in Numbers(kind)
       [] kind = "decimal"   -> v \in {"unscaled"} \X (Least(kind) + 1 .. Most(kind))
       [] kind = "date"      -> v \in {"micros"} \X (Least("long") + 1 .. Most("long"))
       [] kind = "double"    -> v \in Doubles \ {Real(NullDouble)}
       [] kind = "string"    -> v \in Strings
       [] kind = "varbinary" -> v \in {"bytes"} \X Seq(Byte)
IsTable(t) ==
  /\ t.status \in Numbers("byte")
  /\ t.columnTypes \in Seq(DOMAIN Kinds \ {"array", "null"}) /\ t.columnNames \in Seq(Strings)
  /\ Len(t.columnNames) = Len(t.columnTypes) /\ Len(t.columnTypes) <= Most("short")
  /\ t.rows \in Seq(ToSet(t.rows))
  /\ \A i \in 1 .. Len(t.rows) : \A j \in 1 .. Len(t.columnTypes) :
       IsCell(t.columnTypes[j], t.rows[i][j])
IsResponse(r) ==
  /\ r.form = "response" /\ r.uid \in [1 .. UidWidth -> Byte]
  /\ r.status \in Numbers("byte") /\ r.appStatus \in Numbers("byte") \cup {Null}
  /\ {r.statusString, r.appStatusString} \subseteq Strings \cup {Null}
  /\ r.exception \in Numbers("byte") \cup {Null}
  /\ r.tables \in Seq(ToSet(r.tables)) /\ Len(r.tables) <= Most("short")
  /\ \A i \in 1 .. Len(r.tables) : IsTable(r.tables[i])

ASSUME MessageConstants ==
  /\ UidWidth \in Nat
  /\ \A q \in QueriesToSend : IsQuery(q)
  /\ LoginsToSend \subseteq Login /\ ResultsToSend \subseteq LoginResult
  /\ \A r \in ResponsesToSend : IsResponse(r)

VARIABLES
  phase,   \* of the one message: "idle", "sent", "received", "refused"
  meant,   \* what its sender meant
  wire,    \* its bytes
  got      \* what its receiver made of it

vars == <<phase, meant, wire, got>>

Nothing == [form |-> "nothing"]
Broken  == [form |-> "broken"]   \* the reader threw

-----------------------------------------------------------------------------
(* Layout *)

Header == IntWidth + 1

\* Mutant of HeaderFor: the length counts itself.
HeaderOfAll(body) == WriteInteger("int", Number(Header + Len(body))) \o WriteByte(0)
\* writeHeader: the length of what follows it, and the protocol version.
LengthOf(body)  == Header + Len(body) - IntWidth
HeaderFor(body) == WriteInteger("int", Number(LengthOf(body))) \o WriteByte(0)

\* toBuffer of a message with this body.
ToBuffer(body) == HeaderFor(body) \o body

\* readHeader.
AfterHeader(b) == ReadInteger(b, ReadInteger(b, Start, "int"), "byte")

\* getMessage.
QueryBody(q, err) ==
  WriteBytes(q.procName) \o q.uid \o WriteParameters(q.types, q.parameters, err)

\* Mutant of LoginBody: the digest has a length, as a varbinary has.
LoginBodyCounted(l) ==
  WriteBytes(l.service) \o WriteBytes(l.username) \o WriteBytes(Binary(l.password))
\* _getLoginMessage: the digest of the password has no length of its own.
LoginBody(l) == WriteBytes(l.service) \o WriteBytes(l.username) \o l.password

\* PRESENT, and a bit of a byte that was read with its sign, or as null.
Present == [status |-> 32, exception |-> 64, appStatus |-> 128]
HasBit(value, bit) == ((AsNumber(value) % Base) \div bit) % 2 = 1

\* Mutant of Announces: the application's string is never read.
AnnouncesLess(value, field) == field # "appStatus" /\ HasBit(value, Present[field])
Announces(value, field) == HasBit(value, Present[field])

\* The constructor QueryMessage.  A response with an exception ends there for it.
ReadResponse(b) ==
  LET uid    == Slice(b, AfterHeader(b), UidWidth, Binary)
      fields == ReadInteger(b, uid, "byte")
      status == ReadInteger(b, fields, "byte")
      statusString == IF Announces(fields.value, "status") THEN ReadString(b, status)
                      ELSE Gives(status, <<"standard", status.value>>)
      appStatus    == ReadInteger(b, statusString, "byte")
      appString    == IF Announces(fields.value, "appStatus") THEN ReadString(b, appStatus)
                      ELSE Gives(appStatus, Chars(<<>>))
      exceptionLength == ReadInteger(b, appString, "int")
      exception == ReadInteger(b, exceptionLength, "byte")
      count  == ReadInteger(b, exceptionLength, "short")
      tables == ReadMany(b, count, AsNumber(count.value), 1,
                         [at \in Int |-> ReadTable(b, Cursor(at, Null))])
      Response(exc, tabs) ==
        [form |-> "response", uid |-> uid.value[2], status |-> status.value,
         statusString |-> statusString.value, appStatus |-> appStatus.value,
         appStatusString |-> appString.value, exception |-> exc, tables |-> tabs]
  IN  IF ~exceptionLength.ok THEN Broken
      ELSE IF Announces(fields.value, "exception")
        THEN IF ~exception.ok THEN Broken ELSE Response(exception.value, <<>>)
      ELSE IF ~count.ok \/ ~tables.ok THEN Broken
      ELSE Response(Null, tables.value[2])

\* The constructor LoginMessage.  A null timestamp has no toString.
ReadLoginResult(b) ==
  LET status == ReadInteger(b, AfterHeader(b), "byte")
      server == ReadInteger(b, status, "int")
      id     == ReadInteger(b, server, "long")
      time   == ReadInteger(b, id, "long")
      ip1    == ReadInteger(b, time, "byte")
      ip2    == ReadInteger(b, ip1, "byte")
      ip3    == ReadInteger(b, ip2, "byte")
      ip4    == ReadInteger(b, ip3, "byte")
      build  == ReadString(b, ip4)
  IN  IF ~status.ok THEN Broken
      ELSE IF status.value # Number(0) THEN [form |-> "loginResult", status |-> status.value]
      ELSE IF ~build.ok \/ time.value = Null THEN Broken
      ELSE [form |-> "loginResult", status |-> status.value,
            serverId |-> server.value, connectionId |-> id.value,
            clusterStartTimestamp |-> Moment(time.value[2]),
            leaderIP |-> <<ip1.value, ip2.value, ip3.value, ip4.value>>, build |-> build.value]

-----------------------------------------------------------------------------
(* The server, external *)

\* What it reads as a parameter: it knows decimals as integers, and microseconds.
ServerReadScalar(b, c, kind) ==
  LET Unscaled(bytes) == IF ReadSigned(bytes) = Least("decimal") THEN Null
                         ELSE <<"unscaled", ReadSigned(bytes)>>
      Micros(bytes)   == IF ReadSigned(bytes) = Least("long") THEN Null
                         ELSE <<"micros", ReadSigned(bytes)>>
  IN  CASE kind = "decimal" -> Take(b, c, DecimalWidth, Unscaled)
        [] kind = "date"    -> Take(b, c, LongWidth, Micros)
        [] OTHER            -> ReadScalar(b, c, kind)
ServerScalars(b) ==
  [kind \in DOMAIN Kinds \cup {"unknown"} |->
     [at \in Int |-> ServerReadScalar(b, Cursor(at, Null), kind)]]

ServerReadQuery(b) ==
  LET name   == ReadString(b, AfterHeader(b))
      uid    == Slice(b, name, UidWidth, Binary)
      count  == ReadInteger(b, uid, "short")
      parameter == [at \in Int |->
        LET type == ReadInteger(b, Cursor(at, Null), "byte")
        IN  Call(TypesRead(b, ServerScalars(b))[KindCoded(type.value)], type)]
      values == ReadMany(b, count, AsNumber(count.value), 1, parameter)
  IN  IF count.ok /\ values.ok /\ values.at = Len(b)
        THEN [form |-> "query", procName |-> name.value, uid |-> uid.value[2],
              parameters |-> values.value[2]]
        ELSE Broken

ServerReadLogin(b) ==
  LET service  == ReadString(b, AfterHeader(b))
      username == ReadString(b, service)
  IN  IF username.ok THEN [form |-> "login", service |-> service.value,
                           username |-> username.value,
                           password |-> SubSeq(b, username.at + 1, Len(b))]
      ELSE Broken

\* The bytes of a cell: exact integers and doubles, null by the sentinels.
Cell(kind, value) ==
  CASE kind \in {"decimal", "date"} ->
         WriteSigned(IF value = Null THEN Least(IF kind = "date" THEN "long" ELSE kind)
                     ELSE value[2],
                     Width[IF kind = "date" THEN "long" ELSE kind])
    [] kind \in {"byte", "short", "int", "long"} ->
         WriteSigned(IF value = Null THEN Least(kind) ELSE value[2], Width[kind])
    [] OTHER -> WriteKind(kind, value, NoError)

Counted(kind, bytes) == WriteInteger(kind, Number(Len(bytes))) \o bytes
TableBytes(t) ==
  LET count == Len(t.columnTypes)
      meta  == WriteInteger("byte", t.status) \o WriteInteger("short", Number(count))
                 \o FlattenSeq([j \in 1 .. count |-> WriteByte(Kinds[t.columnTypes[j]])])
                 \o FlattenSeq([j \in 1 .. count |-> WriteBytes(t.columnNames[j])])
      Row(row) == FlattenSeq([j \in 1 .. count |-> Cell(t.columnTypes[j], row[j])])
      rows  == WriteInteger("int", Number(Len(t.rows)))
                 \o FlattenSeq([i \in 1 .. Len(t.rows) |-> Counted("int", Row(t.rows[i]))])
  IN  Counted("int", Counted("int", meta) \o rows)

\* The fields that are there are announced, by a sum of bits.
FieldsOf(r) ==
  {f \in DOMAIN Present : CASE f = "status"    -> r.statusString # Null
                             [] f = "appStatus" -> r.appStatusString # Null
                             [] f = "exception" -> r.exception # Null}
ResponseBody(r) ==
  LET Field(f, bytes) == IF f \in FieldsOf(r) THEN bytes ELSE <<>>
      Bit(f)          == IF f \in FieldsOf(r) THEN Present[f] ELSE 0
  IN  r.uid
        \o <<Bit("status") + Bit("exception") + Bit("appStatus")>>
        \o WriteInteger("byte", r.status)
        \o Field("status", WriteBytes(r.statusString))
        \o WriteInteger("byte", r.appStatus)
        \o Field("appStatus", WriteBytes(r.appStatusString))
        \o (IF r.exception # Null
              THEN Counted("int", WriteInteger("byte", r.exception))
              ELSE WriteInteger("int", Number(0))
                     \o WriteInteger("short", Number(Len(r.tables)))
                     \o FlattenSeq([i \in 1 .. Len(r.tables) |-> TableBytes(r.tables[i])]))

ResultBody(r) ==
  WriteInteger("byte", r.status)
    \o (IF r.status # Number(0) THEN <<>>
        ELSE WriteInteger("int", r.serverId) \o WriteInteger("long", r.connectionId)
               \o WriteInteger("long", r.clusterStartTimestamp)
               \o r.leaderIP \o WriteBytes(r.build))

-----------------------------------------------------------------------------
(* One message and its way *)

MessagesInit ==
  phase = "idle" /\ meant = Nothing /\ wire = <<>> /\ got = Nothing

\* A message that its length can be said of.
Framable(body) == Countable("int", LengthOf(body))

Send(message, body) ==
  /\ phase = "idle" /\ Framable(body)
  /\ phase' = "sent" /\ meant' = message /\ wire' = ToBuffer(body)
  /\ UNCHANGED got

\* callProcedure: neither getMessage nor toBuffer throws.
Sendable(q, err) ==
  /\ Countable("int", Len(q.procName[2])) /\ WritesParameters(q.types, q.parameters)
  /\ Framable(QueryBody(q, err))
SendQuery(q) ==
  /\ phase = "idle"
  /\ \E err \in MathLogs : Sendable(q, err) /\ Send(q, QueryBody(q, err))

\* One of them throws.
RefuseQuery(q) ==
  /\ phase = "idle"
  /\ \E err \in MathLogs : ~Sendable(q, err)
  /\ phase' = "refused" /\ meant' = q
  /\ UNCHANGED <<wire, got>>

SendLogin(l)      == Send(l, LoginBody(l))
SendResult(r)     == Send(r, ResultBody(r))
SendResponse(r)   == Send(r, ResponseBody(r))

Receive(form, Read(_)) ==
  /\ phase = "sent" /\ meant.form = form
  /\ phase' = "received" /\ got' = Read(wire)
  /\ UNCHANGED <<meant, wire>>

ServerGetsQuery == Receive("query", ServerReadQuery)
ServerGetsLogin == Receive("login", ServerReadLogin)
GetLoginResult  == Receive("loginResult", ReadLoginResult)
GetResponse     == Receive("response", ReadResponse)

\* The next message.
Forget ==
  /\ phase \in {"received", "refused"}
  /\ phase' = "idle" /\ meant' = Nothing /\ wire' = <<>> /\ got' = Nothing

MessagesNext ==
  \/ \E q \in QueriesToSend : SendQuery(q) \/ RefuseQuery(q)
  \/ \E l \in LoginsToSend : SendLogin(l)
  \/ \E r \in ResultsToSend : SendResult(r)
  \/ \E r \in ResponsesToSend : SendResponse(r)
  \/ ServerGetsQuery \/ ServerGetsLogin \/ GetLoginResult \/ GetResponse
  \/ Forget

MessagesSpec == MessagesInit /\ [][MessagesNext]_vars
=============================================================================
