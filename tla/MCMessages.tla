----------------------------- MODULE MCMessages -----------------------------
(* Shorts of one byte, ints, longs and decimals of three, doubles of a sign,  *)
(* three bits of exponent and twelve of mantissa.  Values sit on both sides of *)
(* every boundary of their types.                                              *)
EXTENDS MessagesProps

Words == {Chars(<<>>), Chars(<<104>>), Chars(<<206, 169>>)}

\* Just inside and outside each range, around zero, and null's own number.
AroundRange(kind) ==
  {Number(n) : n \in {Least(kind) - 1, Least(kind), Least(kind) + 1, -1, 0, 1,
                      Most(kind), Most(kind) + 1,
                      -(Capacity(Width[kind]) - Capacity(Width[kind]) \div 16) - 1}}
MCNullDouble == -(GreatestReal - 5 * 32)
\* Logarithms that never misjudge, and that misjudge as many doubles as they may, on
\* one side of a power or the other.
MCMathLogs ==
  {NoError, [e \in 1 .. MaxExponent |-> IF e % 2 = 0 THEN LogReach ELSE -LogReach],
            [e \in 1 .. MaxExponent |-> IF e % 2 = 0 THEN -LogReach ELSE LogReach]}
\* On both sides of powers of two, next to them and out of the logarithm's reach.
MCDoubles ==
  {Real(s * v) : s \in {-1, 1},
     v \in {0, 1, 77, LeastNormal - 1, LeastNormal, LeastNormal + 1, LeastNormal + 2,
            3 * LeastNormal, 8 * LeastNormal - 12, 8 * LeastNormal - 8, 8 * LeastNormal - 4,
            8 * LeastNormal, 8 * LeastNormal + 8, 16 * LeastNormal - 8, 16 * LeastNormal + 16,
            GreatestReal, GreatestReal - 32, GreatestReal - 64}}
  \cup {Real(MCNullDouble), PlusInfinity, MinusInfinity, NotANumber}
\* What is no number, and the numbers that JavaScript makes of some of it.
NoNumbers == {Chars(<<49>>), Binary(<<49>>), Truth, Object, Moment(5), Big(3), List(<<>>)}
MCToNumber == (Chars(<<49>>) :> Real(LeastNormal)) @@ (Binary(<<49>>) :> Real(LeastNormal))
                @@ (Truth :> Real(LeastNormal)) @@ (List(<<>>) :> Real(0))
\* Numbers with a point: as many places as a decimal has, more, and next to zero.
Fractions == {Fraction(n, p) : n \in {5, -5, 123, -9999, 1000001}, p \in 1 .. 4}
Numerals ==
  {Text(w, f) : w \in {<<>>, <<7>>, <<Minus, 0>>, <<Minus, 1, 2>>, <<9, 9, 9, 9>>, <<1, 0, 0, 0, 0>>},
                f \in {<<>>, <<5>>, <<0, 9>>, <<1, 2, 3>>}}

Accepted(kind) ==
  {Null} \cup
  CASE kind \in {"byte", "short", "int", "long"} -> AroundRange(kind) \cup {Chars(<<49>>), Object, Truth, Big(5), Big(Most(kind) + 1)}
                                             \cup (IF kind = "long" THEN {} ELSE {Fraction(5, 1)})
    [] kind = "date"      -> {Number(n) : n \in {-8388, -1, 0, 1, 1234, 8388, 8389}}
                               \cup {Moment(5), Truth}
    [] kind = "double"    -> MCDoubles \cup NoNumbers
    [] kind = "decimal"   -> Numerals \cup Fractions \cup {Chars(<<120>>), Big(1), Truth}
                               \cup {Number(n) : n \in {-9999, -999, 0, 12, 999, 1000, 9999, 10000}}
    [] kind = "string"    -> Words \cup {Binary(<<0, 255>>), Number(3), Object, Truth}
    [] kind = "varbinary" -> {Binary(<<>>), Binary(<<0, 128, 255>>), Chars(<<>>), Chars(<<1>>),
                              Chars(<<55, 206, 169>>), Number(5), Number(0), Truth, Object}
    [] kind = "null"      -> {}

Typed(type, values) == {[type |-> type, value |-> v] : v \in values}
Singles == UNION {Typed(<<name>>, Accepted(KindOf[name])) : name \in DOMAIN KindOf}
Lists(name) ==
  {List(s) : s \in {<<>>} \cup {<<v>> : v \in Accepted(KindOf[name])}
                   \cup {<<v, Null>> : v \in Accepted(KindOf[name])}}
Arrays == UNION {Typed(<<"array", name>>, Lists(name)) : name \in DOMAIN KindOf \ {"null"}}
Nested == {[type |-> <<"array", "array", "int">>, value |-> List(<<List(<<Number(3)>>), List(<<>>)>>)],
           [type |-> <<"array", "array", "byte">>, value |-> List(<<List(<<Number(3)>>), Null>>)],
           [type |-> <<"array", "array", "array", "string">>,
            value |-> List(<<List(<<>>), List(<<List(<<Null>>), List(<<Chars(<<104>>)>>)>>)>>)],
           [type |-> <<"array", "null">>, value |-> List(<<Null, Null>>)]}
Ill == {[type |-> <<"array">>, value |-> List(<<>>)], [type |-> <<"uuid">>, value |-> Number(1)],
        [type |-> <<"array", "uuid">>, value |-> List(<<Number(1)>>)],
        [type |-> <<"int">>, value |-> List(<<Number(1)>>)],
        [type |-> <<"array", "int">>, value |-> Number(1)],
        [type |-> <<"array", "int">>, value |-> Null],
        [type |-> <<"array", "array", "uuid">>, value |-> List(<<>>)],
        [type |-> <<"array", "array">>, value |-> List(<<>>)],
        [type |-> <<"array", "array">>, value |-> List(<<List(<<>>)>>)],
        [type |-> <<"array", "null">>, value |-> List([i \in 1 .. Most("short") + 1 |-> Null])]}
Parameters == Singles \cup Arrays \cup Nested \cup Ill

Query(params, values) ==
  [form |-> "query", procName |-> Chars(<<86>>), uid |-> <<48, 49>>,
   types |-> [i \in 1 .. Len(params) |-> params[i].type], parameters |-> values]
ValuesOf(params) == [i \in 1 .. Len(params) |-> params[i].value]

\* Each parameter alone, behind one whose bytes it must not disturb, and counts
\* that do not match.
Guards == {[type |-> <<"string">>, value |-> Chars(<<104>>)],
           [type |-> <<"array", "byte">>, value |-> List(<<Number(1), Number(2)>>)]}
MCQueries ==
  {Query(<<p>>, ValuesOf(<<p>>)) : p \in Parameters}
  \cup {Query(<<p, g>>, ValuesOf(<<p, g>>)) : p \in Parameters, g \in Guards}
  \cup {Query(<<>>, <<>>)}
  \cup {Query(<<g>>, <<>>) : g \in Guards}

MCLogins ==
  {[form |-> "login", service |-> s, username |-> u, password |-> <<0, 200, 7>>] :
     s \in Words, u \in Words}

MCResults ==
  {[form |-> "loginResult", status |-> Number(s)] : s \in {1, 2, -1}}
  \cup {[form |-> "loginResult", status |-> Number(0), serverId |-> i, connectionId |-> c,
         clusterStartTimestamp |-> t, leaderIP |-> ip, build |-> b] :
          i \in {Number(0), Number(7)}, c \in {Number(-1), Number(Most("long"))},
          t \in {Number(1000), Null}, ip \in {<<127, 0, 0, 1>>, <<10, 128, 200, 5>>},
          b \in Words \cup {Null}}

Cells(kind) ==
  {Null} \cup
  CASE kind \in {"byte", "short", "int", "long"} ->
         {Number(n) : n \in {Least(kind) + 1, -1, 0, Most(kind)}}
    [] kind = "double"    -> MCDoubles \ {Real(MCNullDouble)}
    [] kind = "decimal"   -> {<<"unscaled", n>> : n \in {-999999, -100, -10, -9, -1, 0, 5, 10, 99, 100,
                                                        123456}}
    [] kind = "date"      -> {<<"micros", n>> : n \in {-1500, 0, 999, 1000, Most("long")}}
    [] kind = "string"    -> Words
    [] kind = "varbinary" -> {Binary(<<>>), Binary(<<255, 0>>)}

Table(types, names, rows) ==
  [status |-> Number(0), columnTypes |-> types,
   columnNames |-> [i \in 1 .. Len(names) |-> Chars(names[i])], rows |-> rows]
Columns == {"byte", "short", "int", "long", "double", "decimal", "date", "string", "varbinary"}
Tables ==
  UNION {{Table(<<k, "short">>, <<<<65>>, <<66>>>>, <<<<v, Number(3)>>, <<Null, Number(4)>>>>) :
            v \in Cells(k)} : k \in Columns}
  \cup {Table(<<>>, <<>>, <<>>), Table(<<"int">>, <<<<65>>>>, <<>>),
        Table(<<"int", "string">>, <<<<65>>, <<65>>>>, <<<<Number(1), Chars(<<104>>)>>>>)}

Response(fields) == [form |-> "response", uid |-> <<48, 49>>] @@ fields
MCResponses ==
  {Response([status |-> Number(s), statusString |-> ss, appStatus |-> a,
             appStatusString |-> as, exception |-> e, tables |-> <<>>]) :
     s \in {1, -3}, ss \in Words \cup {Null}, a \in {Null, Number(5)}, as \in Words \cup {Null},
     e \in {Null, Number(1), Number(3)}}
  \cup {Response([status |-> Number(1), statusString |-> Null, appStatus |-> Null,
                  appStatusString |-> Null, exception |-> Null, tables |-> ts]) :
          ts \in {<<t>> : t \in Tables}
                 \cup {<<t, Table(<<"int">>, <<<<65>>>>, <<<<Number(9)>>>>)>> : t \in Tables}}
=============================================================================
