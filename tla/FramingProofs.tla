---------------------------- MODULE FramingProofs ----------------------------
(***************************************************************************)
(* The framing of onRead, for any number and size of messages, any length  *)
(* of the header and any way the stream is cut.                            *)
(***************************************************************************)
EXTENDS Framing, DataLemmas

Places == Nat \ {0}

-----------------------------------------------------------------------------
(* Runs of bytes *)

\* A run of places is as long as its ends are apart.
LEMMA RunType ==
  ASSUME NEW a \in Nat, NEW b \in Nat, a <= b
  PROVE  /\ Run(a, b) \in Seq(Places)
         /\ Len(Run(a, b)) = b - a
         /\ \A i \in 1 .. b - a : Run(a, b)[i] = a + i
<1>1. b - a \in Nat /\ \A i \in 1 .. b - a : a + i \in Places
  BY DEF Places
<1>2. Run(a, b) \in [1 .. b - a -> Places]
  BY <1>1 DEF Run
<1>3. Run(a, b) \in Seq(Places)
  BY <1>1, <1>2, SeqDef
<1>4. Len(Run(a, b)) = b - a
  <2>1. DOMAIN Run(a, b) = 1 .. b - a
    BY DEF Run
  <2>2. QED BY <1>1, <1>3, <2>1, LenProperties
<1>5. QED BY <1>3, <1>4 DEF Run

\* The i-th byte of a run behind a, up to b, and one behind c.
Spliced(a, b, c, i) == IF i <= b - a THEN a + i ELSE c + (i - (b - a))

\* The ends of two runs, and what is the two of them.
Cuts(a, b, c, d) == a \in Nat /\ b \in Nat /\ c \in Nat /\ d \in Nat /\ a <= b /\ c <= d
Joined(s, a, b, c, d) ==
  /\ s \in Seq(Places) /\ Len(s) = (b - a) + (d - c)
  /\ \A i \in 1 .. (b - a) + (d - c) : s[i] = Spliced(a, b, c, i)

\* Two runs, one behind the other.
LEMMA SpliceType ==
  ASSUME NEW a, NEW b, NEW c, NEW d, Cuts(a, b, c, d)
  PROVE  Joined(Splice(a, b, c, d), a, b, c, d)
<1> USE DEF Cuts
<1> DEFINE x == Run(a, b)
           y == Run(c, d)
           s == x \o y
<1>1. x \in Seq(Places) /\ y \in Seq(Places) /\ Len(x) = b - a /\ Len(y) = d - c
  BY RunType
<1>2. s \in Seq(Places) /\ Len(s) = (b - a) + (d - c)
  <2> HIDE DEF x, y
  <2>1. QED BY <1>1, ConcatProperties
<1>3. \A i \in 1 .. (b - a) + (d - c) : s[i] = IF i <= b - a THEN x[i] ELSE y[i - (b - a)]
  <2> HIDE DEF x, y
  <2>1. QED BY <1>1, ConcatProperties
<1>4. ASSUME NEW i \in 1 .. (b - a) + (d - c)
      PROVE  s[i] = IF i <= b - a THEN a + i ELSE c + (i - (b - a))
  <2>1. CASE i <= b - a
    <3>1. i \in 1 .. b - a
      BY <2>1
    <3>2. QED BY <1>3, <2>1, <3>1, RunType
  <2>2. CASE ~(i <= b - a)
    <3>1. i - (b - a) \in 1 .. d - c
      BY <2>2
    <3>2. QED BY <1>3, <2>2, <3>1, RunType
  <2>3. QED BY <2>1, <2>2
<1>5. Splice(a, b, c, d) = s
  BY DEF Splice
<1> HIDE DEF s
<1>6. QED BY <1>2, <1>4, <1>5 DEF Spliced, Joined

\* Nothing else is.
LEMMA JoinedIsSplice ==
  ASSUME NEW s, NEW a, NEW b, NEW c, NEW d, Cuts(a, b, c, d), Joined(s, a, b, c, d)
  PROVE  s = Splice(a, b, c, d)
<1> DEFINE t == Splice(a, b, c, d)
<1>1. Joined(t, a, b, c, d)
  BY SpliceType
<1> HIDE DEF t
<1>2. /\ s \in Seq(Places) /\ t \in Seq(Places) /\ Len(s) = Len(t)
      /\ \A i \in 1 .. Len(s) : s[i] = t[i]
  BY <1>1 DEF Joined
<1>3. s = t
  BY <1>2, SeqEqual
<1>4. QED BY <1>3 DEF t

\* A run that ends where the next begins is one run with it.
LEMMA SpliceJoin ==
  ASSUME NEW a \in Nat, NEW b \in Nat, a <= b, NEW d \in Nat, b <= d
  PROVE  Splice(a, b, b, d) = Run(a, d)
<1> DEFINE s == Splice(a, b, b, d)
           t == Run(a, d)
<1>1. a <= d /\ (b - a) + (d - b) = d - a
  OBVIOUS
<1>2. /\ s \in Seq(Places) /\ Len(s) = (b - a) + (d - b)
      /\ \A i \in 1 .. (b - a) + (d - b) : s[i] = Spliced(a, b, b, i)
  <2>1. Cuts(a, b, b, d)
    BY DEF Cuts
  <2>2. Joined(s, a, b, b, d)
    BY <2>1, SpliceType
  <2> HIDE DEF s
  <2>3. QED BY <2>2 DEF Joined
<1>3. t \in Seq(Places) /\ Len(t) = d - a /\ \A i \in 1 .. d - a : t[i] = a + i
  BY <1>1, RunType
<1> HIDE DEF s, t
<1>4. \A i \in 1 .. d - a : s[i] = a + i
  BY <1>1, <1>2 DEF Spliced
<1>5. s = t
  BY <1>1, <1>2, <1>3, <1>4, SeqEqual
<1>6. QED BY <1>5 DEF s, t

\* A run that ends where it begins.
LEMMA RunEmpty ==
  ASSUME NEW a \in Nat
  PROVE  Run(a, a) = <<>>
<1>1. Run(a, a) \in Seq(Places) /\ Len(Run(a, a)) = 0
  BY RunType
<1>2. QED BY <1>1, EmptySeq

\* An empty run in front is none.
LEMMA SpliceAlone ==
  ASSUME NEW a \in Nat, NEW c \in Nat, NEW d \in Nat, c <= d
  PROVE  Splice(a, a, c, d) = Run(c, d)
BY RunEmpty, RunType, ConcatEmptySeq DEF Splice

\* What two runs leave behind their first n bytes.
LEMMA CutElements ==
  ASSUME NEW s, NEW L \in Nat, s \in Seq(Places), Len(s) = L, NEW n \in 0 .. L
  PROVE  /\ SubSeq(s, n + 1, L) \in Seq(Places) /\ Len(SubSeq(s, n + 1, L)) = L - n
         /\ \A i \in 1 .. L - n : SubSeq(s, n + 1, L)[i] = s[n + i]
<1> DEFINE r == SubSeq(s, n + 1, L)
<1>1. \A i \in n + 1 .. L : s[i] \in Places
  BY ElementOfSeq
<1>2. n + 1 \in Int /\ L \in Int
  OBVIOUS
<1>3. /\ r \in Seq(Places) /\ Len(r) = (IF n + 1 <= L THEN L - (n + 1) + 1 ELSE 0)
      /\ \A i \in 1 .. L - (n + 1) + 1 : r[i] = s[n + 1 + i - 1]
  BY <1>1, <1>2, SubSeqProperties
<1> HIDE DEF r
<1>4. L - (n + 1) + 1 = L - n /\ \A i \in 1 .. L - n : n + 1 + i - 1 = n + i
  OBVIOUS
<1>5. r \in Seq(Places) /\ Len(r) = L - n /\ \A i \in 1 .. L - n : r[i] = s[n + i]
  BY <1>3, <1>4
<1>6. QED BY <1>5 DEF r

\* The first elements are those of the whole.
LEMMA HeadElements ==
  ASSUME NEW s, NEW L \in Nat, s \in Seq(Places), Len(s) = L, NEW n \in 0 .. L
  PROVE  /\ SubSeq(s, 1, n) \in Seq(Places) /\ Len(SubSeq(s, 1, n)) = n
         /\ \A i \in 1 .. n : SubSeq(s, 1, n)[i] = s[i]
<1> DEFINE r == SubSeq(s, 1, n)
<1>1. \A i \in 1 .. n : s[i] \in Places
  BY ElementOfSeq
<1>2. 1 \in Int /\ n \in Int
  OBVIOUS
<1>3. /\ r \in Seq(Places) /\ Len(r) = (IF 1 <= n THEN n - 1 + 1 ELSE 0)
      /\ \A i \in 1 .. n - 1 + 1 : r[i] = s[1 + i - 1]
  BY <1>1, <1>2, SubSeqProperties
<1> HIDE DEF r
<1>4. n - 1 + 1 = n /\ \A i \in 1 .. n : 1 + i - 1 = i
  OBVIOUS
<1>5. r \in Seq(Places) /\ Len(r) = n /\ \A i \in 1 .. n : r[i] = s[i]
  BY <1>3, <1>4
<1>6. QED BY <1>5 DEF r

\* Cutting within the first run.
LEMMA CutStale ==
  ASSUME NEW s, NEW a, NEW b, NEW c, NEW d, Cuts(a, b, c, d), Joined(s, a, b, c, d),
         NEW n \in 0 .. b - a
  PROVE  SubSeq(s, n + 1, Len(s)) = Splice(a + n, b, c, d)
<1> DEFINE L == (b - a) + (d - c)
           r == SubSeq(s, n + 1, L)
           an == a + n
<1>1. L \in Nat /\ s \in Seq(Places) /\ Len(s) = L /\ n \in 0 .. L
  BY DEF Cuts, Joined
<1>2. r \in Seq(Places) /\ Len(r) = L - n /\ \A i \in 1 .. L - n : r[i] = s[n + i]
  <2> HIDE DEF L
  <2>1. QED BY <1>1, CutElements
<1>3. Cuts(an, b, c, d) /\ L - n = (b - an) + (d - c)
  BY DEF Cuts
<1>4. ASSUME NEW i \in 1 .. L - n PROVE r[i] = Spliced(an, b, c, i)
  <2>1. n + i \in 1 .. L
    BY <1>1
  <2>2. s[n + i] = Spliced(a, b, c, n + i)
    BY <2>1 DEF Joined
  <2>3. Spliced(a, b, c, n + i) = Spliced(an, b, c, i)
    BY <2>1 DEF Spliced, Cuts
  <2> HIDE DEF r, L, an
  <2>4. QED BY <1>2, <2>2, <2>3
<1>5. Joined(r, an, b, c, d)
  <2> HIDE DEF r, L, an
  <2>1. QED BY <1>2, <1>3, <1>4 DEF Joined
<1> HIDE DEF r, L, an
<1>6. r = Splice(an, b, c, d)
  BY <1>3, <1>5, JoinedIsSplice
<1>7. QED BY <1>1, <1>6 DEF r, an

\* Cutting within the second run.
LEMMA CutFresh ==
  ASSUME NEW s, NEW a, NEW b, NEW c, NEW d, Cuts(a, b, c, d), Joined(s, a, b, c, d),
         NEW n \in Nat, b - a <= n, n <= (b - a) + (d - c)
  PROVE  SubSeq(s, n + 1, Len(s)) = Run(c + (n - (b - a)), d)
<1> DEFINE L == (b - a) + (d - c)
           r == SubSeq(s, n + 1, L)
           cn == c + (n - (b - a))
           t == Run(cn, d)
<1>1. L \in Nat /\ s \in Seq(Places) /\ Len(s) = L /\ n \in 0 .. L
  BY DEF Cuts, Joined
<1>2. r \in Seq(Places) /\ Len(r) = L - n /\ \A i \in 1 .. L - n : r[i] = s[n + i]
  <2> HIDE DEF L
  <2>1. QED BY <1>1, CutElements
<1>3. cn \in Nat /\ d \in Nat /\ cn <= d /\ d - cn = L - n
  BY DEF Cuts
<1>4. ASSUME NEW i \in 1 .. L - n PROVE r[i] = cn + i
  <2>1. n + i \in 1 .. L
    BY <1>1
  <2>2. s[n + i] = Spliced(a, b, c, n + i)
    BY <2>1 DEF Joined
  <2>3. Spliced(a, b, c, n + i) = cn + i
    BY <2>1 DEF Spliced, Cuts
  <2> HIDE DEF r, L, cn
  <2>4. QED BY <1>2, <2>2, <2>3
<1>5. t \in Seq(Places) /\ Len(t) = d - cn /\ \A i \in 1 .. d - cn : t[i] = cn + i
  <2> HIDE DEF cn
  <2>1. QED BY <1>3, RunType
<1> HIDE DEF r, L, t, cn
<1>6. /\ r \in Seq(Places) /\ t \in Seq(Places) /\ Len(r) = Len(t)
      /\ \A i \in 1 .. Len(r) : r[i] = t[i]
  BY <1>2, <1>3, <1>4, <1>5
<1>7. r = t
  BY <1>6, SeqEqual
<1>8. QED BY <1>1, <1>7 DEF r, t, cn

-----------------------------------------------------------------------------
(* Where messages end *)

\* Every message has a header and something behind it.
LEMMA Sizes ==
  ASSUME end \in Layouts
  PROVE  /\ Responses \in Nat \ {0} /\ Header \in Nat \ {0}
         /\ \A m \in Messages : /\ end[m] \in Nat /\ Start(m) \in Nat
                              /\ Start(m) + Header < end[m] /\ Size(m) \in Nat
         /\ Total \in Nat
<1>1. Responses \in Nat \ {0} /\ Header \in Nat \ {0} /\ LoginFixed \in Nat /\ MaxBuild \in Nat
      /\ LoginFixed > Header /\ MaxBody \in Nat
  BY FramingConstants
<1>2. \A m \in Messages : end[m] \in Nat
  BY DEF Layouts
<1>3. end[0] \in LoginFixed .. LoginFixed + MaxBuild
  BY DEF Layouts
<1>4. \A m \in Numbers : end[m] - end[m - 1] \in Header + 1 .. Header + MaxBody
  BY DEF Layouts
<1>5. ASSUME NEW m \in Messages
      PROVE  Start(m) \in Nat /\ Start(m) + Header < end[m] /\ Size(m) \in Nat
  <2>1. CASE m = 0
    BY <1>1, <1>3, <2>1 DEF Start, Size
  <2>2. CASE m # 0
    <3>1. m \in Numbers /\ m - 1 \in Messages
      BY <1>1, <2>2 DEF Messages, Numbers
    <3>2. end[m - 1] \in Nat /\ end[m] \in Nat /\ end[m] - end[m - 1] > Header
      BY <1>1, <1>2, <1>4, <3>1
    <3>3. QED BY <1>1, <2>2, <3>2 DEF Start, Size
  <2>3. QED BY <2>1, <2>2
<1>6. Responses \in Messages
  BY <1>1 DEF Messages
<1>7. QED BY <1>1, <1>2, <1>5, <1>6 DEF Total

\* A message ends before a later one starts.
LEMMA EndsGrow ==
  ASSUME end \in Layouts, NEW m \in Messages, NEW j \in Messages, j < m
  PROVE  end[j] <= Start(m)
<1> DEFINE S == {n \in Nat : \A k, i \in Messages : i < k /\ k <= n => end[i] <= Start(k)}
<1>1. 0 \in S
  <2>1. \A k, i \in Messages : ~(i < k /\ k <= 0)
    BY DEF Messages
  <2>2. QED BY <2>1
<1>2. ASSUME NEW n \in S PROVE n + 1 \in S
  <2> SUFFICES ASSUME NEW k \in Messages, NEW i \in Messages, i < k, k <= n + 1
               PROVE  end[i] <= Start(k)
    OBVIOUS
  <2>1. k \in Nat /\ i \in Nat /\ n \in Nat
    BY DEF Messages
  <2>2. CASE k <= n
    BY <1>2, <2>2
  <2>3. CASE k = n + 1
    <3>1. Start(k) = end[n] /\ n \in Messages /\ end[n] \in Nat
      <4>1. k # 0 /\ k - 1 = n /\ n \in 0 .. Responses
        BY <2>1, <2>3, Sizes DEF Messages
      <4>2. QED BY <4>1, Sizes DEF Start, Messages
    <3>2. CASE i = n
      BY <3>1, <3>2
    <3>3. CASE i < n
      <4>1. end[i] <= Start(n)
        BY <2>1, <3>1, <3>3
      <4>2. end[i] \in Nat /\ Start(n) \in Nat /\ Header \in Nat /\ Start(n) + Header < end[n]
        BY <3>1, Sizes
      <4>3. QED BY <3>1, <4>1, <4>2
    <3>4. QED BY <2>1, <2>3, <3>2, <3>3
  <2>4. QED BY <2>1, <2>2, <2>3
<1>3. S = Nat
  <2>1. S \in SUBSET Nat
    OBVIOUS
  <2> HIDE DEF S
  <2>2. QED BY <1>1, <1>2, <2>1, SetInduction
<1>4. m \in S /\ m <= m
  BY <1>3 DEF Messages
<1>5. QED BY <1>4

\* A message that ends no later than another starts is an earlier one.
LEMMA EarlierEnds ==
  ASSUME end \in Layouts, NEW m \in Messages, NEW j \in Messages, end[j] <= Start(m)
  PROVE  j < m
<1>1. m \in Nat /\ j \in Nat /\ Header \in Nat
  BY Sizes DEF Messages
<1>2. /\ end[j] \in Nat /\ end[m] \in Nat /\ Start(m) \in Nat /\ Start(j) \in Nat
      /\ Start(m) + Header < end[m] /\ Start(j) + Header < end[j]
  BY Sizes
<1>3. CASE j = m
  BY <1>1, <1>2, <1>3
<1>4. CASE m < j
  <2>1. end[m] <= Start(j)
    BY <1>4, EndsGrow
  <2>2. QED BY <1>1, <1>2, <2>1
<1>5. QED BY <1>1, <1>3, <1>4

\* No two messages start at one place, and all end within the stream.
LEMMA StartsDiffer ==
  ASSUME end \in Layouts, NEW m \in Messages, NEW j \in Messages, Start(j) = Start(m)
  PROVE  j = m
<1>1. m \in Nat /\ j \in Nat /\ Header \in Nat
  BY Sizes DEF Messages
<1>2. /\ end[j] \in Nat /\ end[m] \in Nat /\ Start(m) \in Nat /\ Start(j) \in Nat
      /\ Start(m) + Header < end[m] /\ Start(j) + Header < end[j]
  BY Sizes
<1>3. CASE j < m
  <2>1. end[j] <= Start(m)
    BY <1>3, EndsGrow
  <2>2. QED BY <1>1, <1>2, <2>1
<1>4. CASE m < j
  <2>1. end[m] <= Start(j)
    BY <1>4, EndsGrow
  <2>2. QED BY <1>1, <1>2, <2>1
<1>5. QED BY <1>1, <1>3, <1>4

\* Messages end within the stream, and only the last with it.
LEMMA EndsWithin ==
  ASSUME end \in Layouts, NEW m \in Messages
  PROVE  end[m] <= Total /\ (end[m] = Total => m = Responses)
<1>1. m \in Nat /\ Responses \in Messages /\ m <= Responses /\ Header \in Nat /\ Responses \in Nat
  BY Sizes DEF Messages
<1>2. /\ end[m] \in Nat /\ Total \in Nat /\ Start(Responses) \in Nat
      /\ Start(Responses) + Header < Total
  BY <1>1, Sizes DEF Total
<1>3. CASE m = Responses
  BY <1>2, <1>3 DEF Total
<1>4. CASE m < Responses
  <2>1. end[m] <= Start(Responses)
    BY <1>1, <1>4, EndsGrow
  <2>2. QED BY <1>1, <1>2, <2>1
<1>5. QED BY <1>1, <1>3, <1>4

-----------------------------------------------------------------------------
(* Cutting a slice off what is held *)

\* A stale part that cannot be decoded, then a run up to d.
Held(s, a, b, c, d) ==
  Cuts(a, b, c, d) /\ s = Splice(a, b, c, d) /\ NoEnd(a, b) /\ (a < b => b < c)

\* What is held is a sequence of places.
LEMMA HeldJoined ==
  ASSUME NEW s, NEW a, NEW b, NEW c, NEW d, Held(s, a, b, c, d)
  PROVE  /\ Joined(s, a, b, c, d) /\ Cuts(a, b, c, d)
         /\ s \in Seq(Places) /\ Len(s) = (b - a) + (d - c) /\ Len(s) \in Nat
<1>1. Cuts(a, b, c, d) /\ Joined(s, a, b, c, d)
  BY SpliceType DEF Held
<1>2. s \in Seq(Places) /\ Len(s) = (b - a) + (d - c)
  BY <1>1 DEF Joined
<1>3. QED BY <1>1, <1>2, LenProperties

\* A slice that is a response begins behind the stale part, where that response does.
LEMMA SliceIsFresh ==
  ASSUME end \in Layouts, NEW a, NEW b, NEW c, NEW d, NEW s, Held(s, a, b, c, d),
         NEW n \in 1 .. Len(s), NEW m \in Numbers, SubSeq(s, 1, n) = Bytes(m)
  PROVE  /\ a = b /\ c = Start(m) /\ end[m] <= d
         /\ SubSeq(s, n + 1, Len(s)) = Run(end[m], d)
<1> DEFINE x == SubSeq(s, 1, n)
           st == Start(m)
           en == end[m]
<1>1. /\ a \in Nat /\ b \in Nat /\ c \in Nat /\ d \in Nat /\ a <= b /\ c <= d
      /\ (a < b => b < c) /\ Len(s) = (b - a) + (d - c)
      /\ s \in Seq(Places) /\ Len(s) \in Nat
      /\ \A i \in 1 .. (b - a) + (d - c) : s[i] = Spliced(a, b, c, i)
  <2>1. /\ Joined(s, a, b, c, d) /\ Cuts(a, b, c, d)
        /\ s \in Seq(Places) /\ Len(s) = (b - a) + (d - c) /\ Len(s) \in Nat
    BY HeldJoined
  <2>2. a < b => b < c
    BY DEF Held
  <2>3. QED BY <2>1, <2>2 DEF Cuts, Joined
<1>2. n \in 0 .. (b - a) + (d - c) /\ n \in Nat /\ 1 <= n
  BY <1>1
<1>3. Len(x) = n /\ \A i \in 1 .. n : x[i] = s[i]
  BY <1>1, HeadElements
<1>4. \A i \in 1 .. n : x[i] = Spliced(a, b, c, i)
  <2>1. \A i \in 1 .. n : i \in 1 .. (b - a) + (d - c)
    BY <1>1, <1>2
  <2> HIDE DEF x
  <2>2. QED BY <1>1, <1>3, <2>1
<1>5. st \in Nat /\ en \in Nat /\ st < en /\ m \in Messages
  <2>1. m \in Messages
    BY DEF Numbers, Messages
  <2>2. QED BY <2>1, Sizes
<1>6. n = en - st /\ \A i \in 1 .. n : x[i] = st + i
  <2>1. Len(Run(st, en)) = en - st /\ \A i \in 1 .. en - st : Run(st, en)[i] = st + i
    <3> HIDE DEF st, en
    <3>1. st <= en
      BY <1>5
    <3>2. QED BY <1>5, <3>1, RunType
  <2>2. x = Run(st, en)
    BY DEF Bytes
  <2> HIDE DEF st, en, x
  <2>3. QED BY <1>3, <2>1, <2>2
<1>7. ~(a < en /\ en <= b)
  BY <1>5 DEF Held, NoEnd
<1> HIDE DEF x, st, en
<1>8. Spliced(a, b, c, 1) = st + 1
  BY <1>2, <1>4, <1>6
<1>9. a = b
  <2> SUFFICES ASSUME a < b PROVE FALSE
    BY <1>1
  <2>1. a = st
    BY <1>1, <1>5, <1>8 DEF Spliced
  <2>2. b < en /\ b - a + 1 \in 1 .. n
    BY <1>1, <1>2, <1>5, <1>6, <1>7, <2>1
  <2>3. Spliced(a, b, c, b - a + 1) = st + (b - a + 1)
    BY <1>4, <1>6, <2>2
  <2>4. c + 1 = b + 1
    BY <1>1, <1>5, <2>1, <2>3 DEF Spliced
  <2>5. QED BY <1>1, <2>4
<1>10. c = st
  BY <1>1, <1>5, <1>8, <1>9 DEF Spliced
<1>11. en <= d /\ c + (n - (b - a)) = en /\ n >= b - a
  BY <1>1, <1>2, <1>5, <1>6, <1>9, <1>10
<1>12. SubSeq(s, n + 1, Len(s)) = Run(c + (n - (b - a)), d)
  <2>1. b - a <= n /\ n <= (b - a) + (d - c)
    BY <1>1, <1>2, <1>11
  <2>2. QED BY <1>2, <2>1, HeldJoined, CutFresh
<1>13. QED BY <1>9, <1>10, <1>11, <1>12 DEF st, en

\* Any slice leaves a part of what was stale, or of the run.
LEMMA SliceLeaves ==
  ASSUME end \in Layouts, NEW a, NEW b, NEW c, NEW d, NEW s, Held(s, a, b, c, d),
         NEW n \in 0 .. Len(s)
  PROVE  \E a2, b2, c2 \in 0 .. d :
           Held(SubSeq(s, n + 1, Len(s)), a2, b2, c2, d) /\ c <= c2
<1>1. /\ a \in Nat /\ b \in Nat /\ c \in Nat /\ d \in Nat /\ a <= b /\ c <= d
      /\ NoEnd(a, b) /\ (a < b => b < c) /\ Len(s) = (b - a) + (d - c)
  <2>1. Cuts(a, b, c, d) /\ Len(s) = (b - a) + (d - c)
    BY HeldJoined
  <2>2. QED BY <2>1 DEF Held, Cuts
<1>2. n \in 0 .. (b - a) + (d - c) /\ n \in Nat
  BY <1>1
<1>3. CASE n < b - a
  <2> DEFINE an == a + n
  <2>1. an \in 0 .. d /\ b \in 0 .. d /\ c \in 0 .. d /\ an <= b /\ n <= b - a /\ a <= an /\ (an < b => b < c)
    BY <1>1, <1>2, <1>3
  <2>2. SubSeq(s, n + 1, Len(s)) = Splice(an, b, c, d)
    <3>1. n \in 0 .. b - a
      BY <1>1, <1>2, <1>3
    <3>2. QED BY <3>1, HeldJoined, CutStale
  <2> HIDE DEF an
  <2>3. NoEnd(an, b)
    <3> SUFFICES ASSUME NEW m \in Messages PROVE ~(an < end[m] /\ end[m] <= b)
      BY DEF NoEnd
    <3>1. end[m] \in Nat /\ ~(a < end[m] /\ end[m] <= b)
      BY <1>1, Sizes DEF NoEnd
    <3>2. QED BY <1>1, <2>1, <3>1
  <2>4. Held(SubSeq(s, n + 1, Len(s)), an, b, c, d) /\ c <= c
    BY <1>1, <2>1, <2>2, <2>3 DEF Held, Cuts
  <2>5. QED BY <2>1, <2>4
<1>4. CASE ~(n < b - a)
  <2> DEFINE cn == c + (n - (b - a))
  <2>1. cn \in 0 .. d /\ c <= cn /\ n >= b - a /\ 0 \in 0 .. d
    BY <1>1, <1>2, <1>4
  <2>2. SubSeq(s, n + 1, Len(s)) = Run(cn, d)
    <3>1. b - a <= n /\ n <= (b - a) + (d - c)
      BY <1>1, <1>2, <2>1
    <3>2. QED BY <1>2, <3>1, HeldJoined, CutFresh
  <2> HIDE DEF cn
  <2>3. Run(cn, d) = Splice(0, 0, cn, d)
    BY <1>1, <2>1, SpliceAlone
  <2>4. NoEnd(0, 0)
    BY Sizes DEF NoEnd
  <2>5. Held(SubSeq(s, n + 1, Len(s)), 0, 0, cn, d)
    BY <1>1, <2>1, <2>2, <2>3, <2>4 DEF Held, Cuts
  <2>6. QED BY <2>1, <2>5
<1>5. QED BY <1>3, <1>4

\* The front of a run is a run.
LEMMA RunHead ==
  ASSUME NEW a \in Nat, NEW b \in Nat, a <= b, NEW n \in 0 .. b - a
  PROVE  SubSeq(Run(a, b), 1, n) = Run(a, a + n)
<1> DEFINE s == Run(a, b)
           r == SubSeq(s, 1, n)
           an == a + n
           t == Run(a, an)
           L == b - a
<1>1. L \in Nat /\ n \in 0 .. L /\ an \in Nat /\ a <= an /\ an - a = n
  OBVIOUS
<1>2. s \in Seq(Places) /\ Len(s) = L /\ \A i \in 1 .. L : s[i] = a + i
  BY RunType
<1>3. t \in Seq(Places) /\ Len(t) = an - a /\ \A i \in 1 .. an - a : t[i] = a + i
  <2> HIDE DEF an
  <2>1. QED BY <1>1, RunType
<1>4. r \in Seq(Places) /\ Len(r) = n /\ \A i \in 1 .. n : r[i] = s[i]
  <2> HIDE DEF s, L
  <2>1. QED BY <1>1, <1>2, HeadElements
<1> HIDE DEF s, r, an, t, L
<1>5. \A i \in 1 .. n : i \in 1 .. L
  BY <1>1
<1>6. \A i \in 1 .. n : r[i] = t[i]
  BY <1>1, <1>2, <1>3, <1>4, <1>5
<1>7. r = t
  BY <1>1, <1>3, <1>4, <1>6, SeqEqual
<1>8. QED BY <1>7 DEF s, r, an, t

-----------------------------------------------------------------------------
(* The lengths readInt may find *)

\* Whatever readInt finds is positive.
LEMMA LengthsType ==
  ASSUME end \in Layouts, NEW length \in Lengths
  PROVE  length \in Nat \ {0}
<1> DEFINE leading == {m \in Messages : Leads(m)}
<1>1. CASE leading = {}
  BY <1>1 DEF Lengths
<1>2. CASE leading # {}
  <2>1. PICK m \in Messages : length = Size(m)
    BY <1>2, Zenon DEF Lengths
  <2>2. Start(m) \in Nat /\ end[m] \in Nat /\ Start(m) + Header < end[m] /\ Header \in Nat
    BY Sizes
  <2>3. QED BY <2>1, <2>2 DEF Size
<1>3. QED BY <1>1, <1>2

\* Where data begins with a message, its length is found.
LEMMA LengthFound ==
  ASSUME end \in Layouts, NEW m \in Messages, NEW b \in Nat, Start(m) <= b,
         data = Run(Start(m), b), Len(data) > Header
  PROVE  Lengths = {Size(m)}
<1> DEFINE leading == {j \in Messages : Leads(j)}
           st == Start(m)
<1>1. Header \in Nat /\ 1 <= Header /\ st \in Nat /\ b \in Nat /\ st <= b
  BY Sizes, FramingConstants
<1>2. Len(data) = b - st /\ \A i \in 1 .. b - st : data[i] = st + i
  <2>1. Len(Run(st, b)) = b - st /\ \A i \in 1 .. b - st : Run(st, b)[i] = st + i
    <3> HIDE DEF st
    <3>1. QED BY <1>1, RunType
  <2> HIDE DEF st
  <2>2. data = Run(st, b)
    BY DEF st
  <2>3. QED BY <2>1, <2>2
<1>3. Leads(m)
  BY <1>1, <1>2 DEF Leads
<1>4. ASSUME NEW j \in Messages, Leads(j) PROVE j = m
  <2>1. data[1] = Start(j) + 1 /\ data[1] = st + 1
    BY <1>1, <1>2, <1>4 DEF Leads
  <2>2. Start(j) \in Nat
    BY Sizes
  <2>3. Start(j) = Start(m)
    BY <1>1, <2>1, <2>2
  <2>4. QED BY <2>3, StartsDiffer
<1>5. leading = {m}
  BY <1>3, <1>4
<1>6. QED BY <1>5, Zenon DEF Lengths

-----------------------------------------------------------------------------
(* The types *)

\* A step keeps the types.
LEMMA TypeStep ==
  ASSUME FramingTypeOK, BeforeLogin, [FramingNext]_vars
  PROVE  FramingTypeOK'
<1>1. /\ Total \in Nat /\ MaxThrows \in Nat /\ Total' = end'[Responses]
      /\ received \in 0 .. Total /\ end \in Layouts
  BY Sizes, FramingConstants DEF FramingTypeOK, Total
<1>2. ASSUME NEW m \in Numbers PROVE Append(decoded, m) \in Seq(Numbers)
  BY AppendProperties DEF FramingTypeOK
<1>3. ASSUME NEW slice, Decodes(slice) PROVE decoded' \in Seq(Numbers)
  BY <1>2, <1>3 DEF Decodes, FramingTypeOK
<1>4. ASSUME end' = end PROVE end' \in Layouts /\ Total' = Total
  BY <1>1, <1>4 DEF Total
<1>5. ASSUME at # "crashed", Throw
      PROVE  /\ {overflow', data'} \subseteq Seq(Nat \ {0})
             /\ at' \in {"idle", "loop", "crashed"} /\ throws' \in 0 .. MaxThrows + 1
  <2>1. data' \in Seq(Nat \ {0}) /\ overflow' \in Seq(Nat \ {0})
    BY <1>5, EmptySeq DEF Throw, FramingTypeOK
  <2>2. throws' \in 0 .. MaxThrows + 1
    BY <1>1, <1>5 DEF Throw, FramingTypeOK, BeforeLogin
  <2>3. QED BY <1>5, <2>1, <2>2 DEF Throw
<1>6. ASSUME NEW n \in 1 .. Total - received, ReadLogin(n)
      PROVE  FramingTypeOK'
  <2>1. /\ received + n \in 0 .. Total /\ n \in 0 .. Total
        /\ received' = received + n /\ end' = end /\ decoded' = decoded
    BY <1>1, <1>6 DEF ReadLogin
  <2>2. CASE Throw /\ UNCHANGED <<isLoggedIn, loginRead>>
    BY <1>4, <1>5, <1>6, <2>1, <2>2 DEF ReadLogin, FramingTypeOK
  <2>3. CASE /\ isLoggedIn' = TRUE /\ loginRead' = n
             /\ UNCHANGED <<overflow, data, at, throws>>
    BY <1>4, <2>1, <2>3 DEF FramingTypeOK
  <2>4. QED BY <1>6, <2>2, <2>3 DEF ReadLogin
<1>7. ASSUME NEW n \in 1 .. Total - received, ReadChunk(n)
      PROVE  FramingTypeOK'
  <2>1. /\ received + n \in 0 .. Total /\ received \in Nat /\ received + n \in Nat
        /\ received <= received + n
    BY <1>1
  <2>2. Run(received, received + n) \in Seq(Nat \ {0})
    <3> DEFINE b == received + n
    <3>1. b \in Nat /\ received <= b /\ received \in Nat
      BY <2>1
    <3> HIDE DEF b
    <3>2. Run(received, b) \in Seq(Nat \ {0})
      BY <3>1, RunType DEF Places
    <3>3. QED BY <3>2 DEF b
  <2>3. overflow \o Run(received, received + n) \in Seq(Nat \ {0})
    BY <2>2, ConcatProperties DEF FramingTypeOK
  <2>4. QED BY <1>4, <1>7, <2>1, <2>3 DEF ReadChunk, FramingTypeOK
<1>8. CASE ReadMessage
  <2>1. PICK length \in Lengths : /\ Complete(length)
                                  /\ Decodes(SubSeq(data, 1, length))
                                  /\ Consume(length)
    BY <1>8 DEF ReadMessage
  <2>2. length \in Nat \ {0} /\ data \in Seq(Places) /\ Len(data) \in Nat
    BY <1>1, LengthsType, LenProperties DEF FramingTypeOK, Places
  <2>3. length <= Len(data)
    BY <2>1 DEF Complete
  <2>4. data' \in Seq(Nat \ {0})
    <3>1. SubSeq(data, length + 1, Len(data)) \in Seq(Places)
      BY <2>2, <2>3, CutElements
    <3>2. QED BY <2>1, <3>1 DEF Consume, Places
  <2>5. QED BY <1>3, <1>4, <1>8, <2>1, <2>4 DEF ReadMessage, FramingTypeOK
<1>9. CASE ReadThrows
  <2>1. decoded' \in Seq(Numbers)
    BY <1>3, <1>9 DEF ReadThrows
  <2>2. QED BY <1>4, <1>5, <1>9, <2>1 DEF ReadThrows, FramingTypeOK
<1>10. CASE EndRead
  <2>1. <<>> \in Seq(Nat \ {0})
    BY EmptySeq
  <2>2. QED BY <1>4, <1>10, <2>1 DEF EndRead, SaveOverflow, FramingTypeOK
<1>11. CASE UNCHANGED vars
  BY <1>4, <1>11 DEF vars, FramingTypeOK
<1>12. QED BY <1>6, <1>7, <1>8, <1>9, <1>10, <1>11 DEF FramingNext

\* Before the login nothing is decoded and nothing kept.
LEMMA BeforeLoginStep ==
  ASSUME FramingTypeOK, BeforeLogin, [FramingNext]_vars
  PROVE  BeforeLogin'
<1> USE DEF BeforeLogin
<1>1. /\ Total \in Nat /\ MaxThrows \in Nat /\ received \in Nat /\ throws \in Nat
      /\ isLoggedIn \in BOOLEAN
  BY Sizes, FramingConstants DEF FramingTypeOK
<1>2. ASSUME at # "crashed", Throw
      PROVE  (at' # "crashed" => throws' <= MaxThrows) /\ at' # "loop" /\ throws' # 0
             /\ overflow' = overflow
  BY <1>1, <1>2 DEF Throw
<1>3. ASSUME NEW n \in 1 .. Total - received, ReadLogin(n)
      PROVE  BeforeLogin'
  <2>1. CASE Throw /\ UNCHANGED <<isLoggedIn, loginRead>>
    BY <1>2, <1>3, <2>1 DEF ReadLogin
  <2>2. CASE /\ isLoggedIn' = TRUE /\ loginRead' = n
             /\ UNCHANGED <<overflow, data, at, throws>>
    BY <1>3, <2>2 DEF ReadLogin
  <2>3. QED BY <1>3, <2>1, <2>2 DEF ReadLogin
<1>4. ASSUME NEW n \in 1 .. Total - received, ReadChunk(n)
      PROVE  BeforeLogin'
  BY <1>4 DEF ReadChunk
<1>5. CASE ReadMessage
  BY <1>5 DEF ReadMessage
<1>6. CASE ReadThrows
  BY <1>2, <1>6 DEF ReadThrows
<1>7. CASE EndRead
  BY <1>7 DEF EndRead
<1>8. CASE UNCHANGED vars
  BY <1>8 DEF vars
<1>9. QED BY <1>3, <1>4, <1>5, <1>6, <1>7, <1>8 DEF FramingNext

-----------------------------------------------------------------------------
(* Nothing is lost or repeated *)

\* The message that the chunk of the login result ended with is the only one that
\* ends there.
LEMMA DroppedIs ==
  ASSUME end \in Layouts, NEW m \in Messages, NEW n, n = end[m]
  PROVE  (CHOOSE j \in Messages : n = end[j]) = m
<1>1. ASSUME NEW j \in Messages, n = end[j] PROVE j = m
  <2>1. j \in Nat /\ m \in Nat
    BY Sizes DEF Messages
  <2>2. /\ end[j] \in Nat /\ Start(m) \in Nat /\ Start(m) + Header < end[m]
        /\ Start(j) \in Nat /\ Start(j) + Header < end[j] /\ Header \in Nat
    BY Sizes
  <2>3. CASE j < m
    <3>1. end[j] <= Start(m)
      BY <2>3, EndsGrow
    <3>2. QED BY <1>1, <2>2, <3>1
  <2>4. CASE m < j
    <3>1. end[m] <= Start(j)
      BY <2>4, EndsGrow
    <3>2. QED BY <1>1, <2>2, <3>1
  <2>5. QED BY <2>1, <2>3, <2>4
<1>2. QED BY <1>1

\* In a clean connection it is a message.
LEMMA DroppedType ==
  ASSUME Clean
  PROVE  Dropped \in Messages /\ loginRead = end[Dropped]
BY DEF Clean, Dropped

\* In a clean connection the next message of data is the one behind those decoded,
\* and nothing else can be decoded.
LEMMA NextMessage ==
  ASSUME FramingTypeOK, BeforeLogin, NothingLostOrRepeated, Clean,
         at = "loop", Len(data) > Header
  PROVE  LET m == Done + 1
         IN  /\ m \in Numbers /\ Start(m) = end[Done] /\ Lengths = {Size(m)}
             /\ data = Run(Start(m), received) /\ Start(m) <= received
<1> DEFINE k == Done
           m == k + 1
<1>1. /\ k \in Messages /\ end[k] <= received /\ data = Run(end[k], received)
      /\ end \in Layouts /\ received \in Nat /\ received <= Total
  <2>1. Total \in Nat
    BY Sizes DEF FramingTypeOK
  <2>2. QED BY <2>1, Sizes DEF NothingLostOrRepeated, Waiting, FramingTypeOK
<1>2. end[k] \in Nat /\ Responses \in Nat /\ Header \in Nat /\ k \in Nat /\ k <= Responses
  BY <1>1, Sizes DEF Messages
<1>3. received - end[k] > Header
  <2>1. Len(Run(end[k], received)) = received - end[k]
    BY <1>1, <1>2, RunType
  <2> HIDE DEF k
  <2>2. QED BY <1>1, <2>1
<1>4. k # Responses
  BY <1>1, <1>2, <1>3 DEF Total
<1>5. m \in Numbers /\ m \in Messages /\ m # 0 /\ m - 1 = k
  BY <1>2, <1>4 DEF Numbers, Messages
<1>6. Start(m) = end[k]
  BY <1>5 DEF Start
<1> HIDE DEF k, m
<1>7. Lengths = {Size(m)}
  BY <1>1, <1>5, <1>6, LengthFound
<1>8. QED BY <1>1, <1>5, <1>6, <1>7 DEF k, m

\* A run as what is held.
LEMMA RunHeld ==
  ASSUME end \in Layouts, NEW a \in Nat, NEW d \in Nat, a <= d
  PROVE  Held(Run(a, d), 0, 0, a, d)
<1>1. Run(a, d) = Splice(0, 0, a, d)
  BY SpliceAlone
<1>2. NoEnd(0, 0)
  BY Sizes DEF NoEnd
<1>3. QED BY <1>1, <1>2 DEF Held, Cuts

\* The next message of a clean connection is decoded and the bytes behind it are left.
DecodesNext ==
  LET m == Done + 1
  IN  /\ m \in Numbers /\ m \in Messages /\ Done' = m
      /\ end[m] <= received /\ Waiting' = Run(end[m], received)
      /\ UNCHANGED <<end, received>> /\ at = "loop"
      /\ Dropped' = Dropped /\ \A i \in 1 .. Len(decoded') : decoded'[i] = Dropped + i

\* An iteration of the loop of a clean connection does just that.
LEMMA ReadDecodesNext ==
  ASSUME FramingTypeOK, BeforeLogin, NothingLostOrRepeated, Clean, ReadMessage
  PROVE  DecodesNext
<1> DEFINE k == Done
           m == k + 1
<1>0. /\ received \in Nat /\ end \in Layouts /\ decoded \in Seq(Numbers)
      /\ \A i \in 1 .. Len(decoded) : decoded[i] = Dropped + i
  BY Sizes DEF FramingTypeOK, NothingLostOrRepeated
<1>1. /\ Clean /\ at = "loop" /\ Len(data) > Header /\ Waiting = data /\ Waiting' = data'
      /\ received' = received /\ end' = end /\ Dropped' = Dropped
      /\ Dropped \in Nat /\ Len(decoded) \in Nat /\ k = Dropped + Len(decoded)
  BY <1>0, DroppedType, LenProperties DEF ReadMessage, Clean, Waiting, Dropped, Done, Messages
<1>2. /\ m \in Numbers /\ m \in Messages /\ Start(m) = end[k] /\ Lengths = {Size(m)}
      /\ data = Run(Start(m), received) /\ Start(m) <= received
  BY <1>1, NextMessage DEF Numbers, Messages
<1>3. /\ Start(m) \in Nat /\ end[m] \in Nat /\ Start(m) + Header < end[m]
      /\ Size(m) = end[m] - Start(m) /\ Header \in Nat
  BY <1>0, <1>2, Sizes DEF Size
<1> HIDE DEF m
<1>4. /\ Complete(Size(m)) /\ Decodes(SubSeq(data, 1, Size(m))) /\ Consume(Size(m))
  BY <1>2 DEF ReadMessage
<1>5. Held(data, 0, 0, Start(m), received)
  BY <1>0, <1>2, <1>3, RunHeld
<1>6. Len(data) = received - Start(m)
  <2>1. Len(data) = (0 - 0) + (received - Start(m))
    BY <1>5, HeldJoined
  <2>2. QED BY <1>0, <1>3, <2>1
<1>7. Size(m) \in 1 .. Len(data) /\ Size(m) \in 0 .. received - Start(m)
      /\ Start(m) + Size(m) = end[m]
  BY <1>0, <1>3, <1>4, <1>6 DEF Complete
<1>8. SubSeq(data, 1, Size(m)) = Bytes(m)
  <2>1. SubSeq(Run(Start(m), received), 1, Size(m)) = Run(Start(m), Start(m) + Size(m))
    BY <1>0, <1>2, <1>3, <1>7, RunHead
  <2>2. SubSeq(data, 1, Size(m)) = SubSeq(Run(Start(m), received), 1, Size(m))
    BY <1>2
  <2>3. QED BY <1>7, <2>1, <2>2 DEF Bytes
<1>9. end[m] <= received /\ SubSeq(data, Size(m) + 1, Len(data)) = Run(end[m], received)
  <2> DEFINE n == Size(m)
  <2>1. n \in 1 .. Len(data) /\ SubSeq(data, 1, n) = Bytes(m) /\ m \in Numbers
    BY <1>2, <1>7, <1>8
  <2> HIDE DEF n
  <2>2. end[m] <= received /\ SubSeq(data, n + 1, Len(data)) = Run(end[m], received)
    BY <1>0, <1>5, <2>1, SliceIsFresh
  <2>3. QED BY <2>2 DEF n
<1>10. ASSUME NEW j \in Numbers, SubSeq(data, 1, Size(m)) = Bytes(j) PROVE j = m
  <2>1. Start(m) = Start(j)
    BY <1>0, <1>5, <1>7, <1>10, SliceIsFresh
  <2>2. j \in Messages
    BY DEF Numbers, Messages
  <2>3. QED BY <1>0, <1>2, <2>1, <2>2, StartsDiffer
<1>11. decoded' = Append(decoded, m)
  BY <1>2, <1>4, <1>8, <1>10 DEF Decodes
<1>12. data' = Run(end[m], received)
  BY <1>4, <1>9 DEF Consume
<1>13. Done' = m /\ \A i \in 1 .. Len(decoded') : decoded'[i] = Dropped + i
  <2>1. /\ Len(Append(decoded, m)) = Len(decoded) + 1
        /\ \A i \in 1 .. Len(decoded) : Append(decoded, m)[i] = decoded[i]
        /\ Append(decoded, m)[Len(decoded) + 1] = m
    BY <1>0, <1>2, AppendProperties
  <2>2. \A i \in 1 .. Len(decoded') : i \in 1 .. Len(decoded) \/ i = Len(decoded) + 1
    BY <1>1, <1>11, <2>1
  <2>3. m = Dropped + (Len(decoded) + 1)
    BY <1>1 DEF m
  <2>4. Done' = m
    BY <1>1, <1>11, <2>1, <2>3 DEF Done
  <2>5. \A i \in 1 .. Len(decoded) : decoded[i] = Dropped + i
    BY <1>0, <1>1
  <2>6. QED BY <1>11, <2>1, <2>2, <2>3, <2>4, <2>5
<1>14. QED BY <1>1, <1>2, <1>9, <1>12, <1>13 DEF DecodesNext, m

\* A step moves bytes from what is held to what is decoded, or adds to its end.
LEMMA NothingLostStep ==
  ASSUME FramingTypeOK, BeforeLogin, NothingLostOrRepeated, [FramingNext]_vars
  PROVE  NothingLostOrRepeated'
<1> SUFFICES ASSUME Clean' PROVE NothingLostOrRepeated'
  BY DEF NothingLostOrRepeated
<1>1. /\ Total \in Nat /\ received \in Nat /\ received <= Total /\ throws \in Nat
      /\ end \in Layouts /\ decoded \in Seq(Numbers)
  BY Sizes DEF FramingTypeOK
<1> DEFINE k == Done
<1>2. ASSUME Throw PROVE FALSE
  BY <1>1, <1>2 DEF Throw, Clean
<1>3. ASSUME Clean
      PROVE  /\ k \in Messages /\ (\A i \in 1 .. Len(decoded) : decoded[i] = Dropped + i)
             /\ end[k] \in Nat /\ end[k] <= received /\ Waiting = Run(end[k], received)
  BY <1>1, <1>3, Sizes DEF NothingLostOrRepeated
<1>4. ASSUME NEW n \in 1 .. Total - received, ReadLogin(n)
      PROVE  NothingLostOrRepeated'
  <2>1. /\ isLoggedIn' = TRUE /\ loginRead' = n /\ UNCHANGED <<overflow, data, at, throws>>
        /\ received' = received + n /\ end' = end /\ decoded' = decoded /\ at = "idle"
        /\ ~isLoggedIn
    BY <1>2, <1>4 DEF ReadLogin
  <2>2. received = 0 /\ overflow = <<>> /\ decoded = <<>>
    BY <2>1 DEF Clean, BeforeLogin
  <2>3. PICK m \in Messages : n = end[m]
    <3>1. \E m \in Messages : loginRead' = end'[m]
      BY DEF Clean, Messages
    <3>2. QED BY <2>1, <3>1
  <2>4. Len(decoded') = 0 /\ received' = end[m] /\ Waiting' = <<>> /\ m \in Nat
    BY <2>1, <2>2, <2>3, EmptySeq DEF Waiting, Messages
  <2>5. Dropped' = m
    <3>1. (CHOOSE j \in Messages : n = end[j]) = m
      BY <1>1, <2>3, DroppedIs
    <3>2. QED BY <2>1, <3>1 DEF Dropped, Messages
  <2>6. Done' = m
    BY <2>4, <2>5 DEF Done
  <2>7. Run(end[m], end[m]) = <<>> /\ end[m] \in Nat
    BY <1>1, <2>3, Sizes, RunEmpty
  <2>8. (Run(end[Done], received))' = <<>>
    BY <2>1, <2>4, <2>6, <2>7 DEF Run
  <2>9. QED BY <2>1, <2>4, <2>6, <2>7, <2>8 DEF NothingLostOrRepeated, Run, Messages
<1>5. ASSUME NEW n \in 1 .. Total - received, ReadChunk(n)
      PROVE  NothingLostOrRepeated'
  <2> DEFINE d == received + n
  <2>1. /\ Clean /\ at = "idle" /\ Waiting = overflow /\ received' = d
        /\ data' = overflow \o Run(received, d) /\ Waiting' = data'
        /\ end' = end /\ decoded' = decoded /\ Dropped' = Dropped /\ Done' = k
    BY <1>5 DEF ReadChunk, Clean, Waiting, Dropped, Done, Messages
  <2>2. d \in Nat /\ received <= d
    BY <1>1
  <2> HIDE DEF d
  <2>3. data' = Splice(end[k], received, received, d)
    BY <1>3, <2>1 DEF Splice
  <2>4. data' = Run(end[k], d)
    BY <1>1, <1>3, <2>1, <2>2, <2>3, SpliceJoin
  <2>5. (Run(end[k], received))' = Run(end[k], d)
    BY <2>1 DEF Run
  <2>6. end[k] <= d
    BY <1>1, <1>3, <2>1, <2>2
  <2>7. QED BY <1>3, <2>1, <2>4, <2>5, <2>6 DEF NothingLostOrRepeated, Messages
<1>6. CASE ReadMessage
  <2>1. Clean
    BY <1>6 DEF ReadMessage, Clean
  <2>2. DecodesNext
    BY <1>6, <2>1, ReadDecodesNext
  <2>3. QED BY <2>2 DEF DecodesNext, NothingLostOrRepeated, Messages, Run
<1>7. CASE ReadThrows
  BY <1>2, <1>7 DEF ReadThrows
<1>8. CASE EndRead
  <2>1. /\ Clean /\ at = "loop" /\ Waiting' = Waiting /\ UNCHANGED <<end, received, decoded>>
        /\ Dropped' = Dropped /\ Done' = k
    BY <1>8 DEF EndRead, SaveOverflow, Clean, Waiting, Dropped, Done, Messages
  <2>2. QED BY <1>3, <2>1 DEF NothingLostOrRepeated, Messages, Run
<1>9. CASE UNCHANGED vars
  <2>1. /\ Clean /\ Waiting' = Waiting /\ UNCHANGED <<end, received, decoded>>
        /\ Dropped' = Dropped /\ Done' = k
    BY <1>9 DEF vars, Clean, Waiting, Dropped, Done, Messages
  <2>2. QED BY <1>3, <2>1 DEF NothingLostOrRepeated, Messages, Run
<1>10. QED BY <1>4, <1>5, <1>6, <1>7, <1>8, <1>9 DEF FramingNext

-----------------------------------------------------------------------------
(* What _overflow holds *)

\* _overflow is a part of one message.
Incomplete(a, b) ==
  /\ a \in 0 .. received /\ b \in 0 .. received
  /\ a <= b /\ overflow = Run(a, b) /\ NoEnd(a, b)
  /\ at = "loop" => b < received

\* The loop of a clean connection ends when no message of those received is left.
LEMMA EndReadNoEnd ==
  ASSUME FramingTypeOK, BeforeLogin, NothingLostOrRepeated, Clean, EndRead
  PROVE  NoEnd(end[Done], received)
<1> DEFINE k == Done
<1>0. received \in Nat /\ end \in Layouts
  BY Sizes DEF FramingTypeOK
<1>1. /\ Clean /\ at = "loop" /\ at' = "idle" /\ overflow' = data
      /\ UNCHANGED <<end, received>>
  BY DEF EndRead, SaveOverflow
<1>2. /\ k \in Messages /\ end[k] \in Nat /\ end[k] <= received
      /\ data = Run(end[k], received)
  BY <1>0, <1>1, Sizes DEF NothingLostOrRepeated, Waiting
<1>3. Len(data) = received - end[k]
  <2> DEFINE a == end[k]
  <2>1. a \in Nat /\ a <= received
    BY <1>2
  <2> HIDE DEF a
  <2>2. Len(Run(a, received)) = received - a
    BY <1>0, <2>1, RunType
  <2>3. QED BY <1>2, <2>2 DEF a
<1>4. ASSUME NEW m \in Messages, end[k] < end[m], end[m] <= received PROVE FALSE
  <2> DEFINE next == k + 1
  <2>1. /\ m \in Nat /\ k \in Nat /\ end[m] \in Nat /\ Header \in Nat /\ Responses \in Nat
        /\ m <= Responses
    BY <1>0, <1>2, Sizes DEF Messages
  <2>2. k < m
    <3>1. CASE m = k
      BY <1>4, <2>1, <3>1
    <3>2. CASE m < k
      <4>1. end[m] <= Start(k) /\ Start(k) \in Nat /\ Start(k) + Header < end[k]
        BY <1>0, <1>2, <3>2, EndsGrow, Sizes
      <4>2. QED BY <1>2, <1>4, <2>1, <4>1
    <3>3. QED BY <2>1, <3>1, <3>2
  <2>3. next \in Messages /\ Start(next) = end[k] /\ (next = m \/ next < m)
    BY <2>1, <2>2 DEF Messages, Start
  <2> HIDE DEF next
  <2>4. /\ Start(next) + Header < end[next] /\ end[next] \in Nat
        /\ Start(m) \in Nat /\ Start(m) + Header < end[m]
    BY <1>0, <2>3, Sizes
  <2>5. end[next] <= received
    <3>1. CASE next = m
      BY <1>4, <3>1
    <3>2. CASE next < m
      <4>1. end[next] <= Start(m)
        BY <1>0, <2>3, <3>2, EndsGrow
      <4>2. QED BY <1>0, <1>4, <2>1, <2>4, <4>1
    <3>3. QED BY <2>3, <3>1, <3>2
  <2>6. Len(data) > Header
    BY <1>0, <1>2, <1>3, <2>1, <2>3, <2>4, <2>5
  <2>7. Lengths = {Size(next)}
    BY <1>1, <2>6, NextMessage DEF next
  <2>8. ~Complete(Size(next))
    BY <2>6, <2>7 DEF EndRead
  <2>9. QED BY <1>0, <1>2, <1>3, <2>1, <2>3, <2>4, <2>5, <2>6, <2>8 DEF Complete, Size
<1>5. QED BY <1>4 DEF NoEnd

\* What is put by at the end of the loop is an incomplete message.
LEMMA OverflowStep ==
  ASSUME FramingTypeOK, BeforeLogin, NothingLostOrRepeated, OverflowIncomplete,
         [FramingNext]_vars
  PROVE  OverflowIncomplete'
<1> SUFFICES ASSUME Clean' PROVE \E a, b : Incomplete(a, b)'
  BY DEF OverflowIncomplete, Incomplete
<1>1. /\ Total \in Nat /\ received \in Nat /\ throws \in Nat /\ end \in Layouts
  BY Sizes DEF FramingTypeOK
<1>2. ASSUME Throw PROVE FALSE
  BY <1>1, <1>2 DEF Throw, Clean
<1>3. ASSUME Clean PROVE \E a, b : Incomplete(a, b)
  BY <1>3 DEF OverflowIncomplete, Incomplete
<1>4. ASSUME NEW n \in 1 .. Total - received, ReadLogin(n)
      PROVE  \E a, b : Incomplete(a, b)'
  <2>1. /\ UNCHANGED <<overflow, at, end>> /\ at = "idle" /\ received' = received + n
        /\ overflow = <<>>
    BY <1>2, <1>4 DEF ReadLogin, BeforeLogin
  <2>2. overflow' = Run(0, 0) /\ 0 \in 0 .. received'
    BY <1>1, <2>1, RunEmpty
  <2>3. NoEnd(0, 0)'
    BY <1>1, <2>1, Sizes DEF NoEnd
  <2>4. Incomplete(0, 0)'
    BY <2>1, <2>2, <2>3 DEF Incomplete, Run
  <2>5. QED BY <2>4
<1>5. ASSUME NEW n \in 1 .. Total - received, ReadChunk(n)
      PROVE  \E a, b : Incomplete(a, b)'
  <2>1. Clean /\ UNCHANGED <<end, overflow>> /\ received' = received + n
    BY <1>5 DEF ReadChunk, Clean
  <2>2. PICK a, b : Incomplete(a, b)
    BY <1>3, <2>1
  <2>3. a \in 0 .. received' /\ b \in 0 .. received' /\ b < received'
    BY <1>1, <2>1, <2>2 DEF Incomplete
  <2>4. Incomplete(a, b)'
    BY <2>1, <2>2, <2>3 DEF Incomplete, NoEnd, Run
  <2>5. QED BY <2>4
<1>6. CASE ReadMessage
  <2>1. Clean /\ UNCHANGED <<end, overflow, received, at>>
    BY <1>6 DEF ReadMessage, Clean
  <2>2. PICK a, b : Incomplete(a, b)
    BY <1>3, <2>1
  <2>3. Incomplete(a, b)'
    BY <2>1, <2>2 DEF Incomplete, NoEnd, Run
  <2>4. QED BY <2>3
<1>7. CASE ReadThrows
  BY <1>2, <1>7 DEF ReadThrows
<1>8. CASE EndRead
  <2> DEFINE a == end[Done]
  <2>1. /\ Clean /\ at = "loop" /\ at' = "idle" /\ overflow' = data
        /\ UNCHANGED <<end, received>>
    BY <1>8 DEF EndRead, SaveOverflow, Clean
  <2>2. a \in Nat /\ a <= received /\ data = Run(a, received)
    BY <1>1, <2>1, Sizes DEF NothingLostOrRepeated, Waiting
  <2>5. NoEnd(a, received)
    BY <1>8, <2>1, EndReadNoEnd
  <2>6. /\ a \in 0 .. received /\ received \in 0 .. received /\ a <= received
        /\ data = Run(a, received) /\ NoEnd(a, received)
    BY <1>1, <2>2, <2>5
  <2>7. QED
    <3> SUFFICES ASSUME NEW x, NEW y, x = a, y = received PROVE Incomplete(x, y)'
      OBVIOUS
    <3> HIDE DEF a
    <3>1. QED BY <2>1, <2>6 DEF Incomplete, NoEnd, Run
<1>9. CASE UNCHANGED vars
  <2>1. Clean /\ UNCHANGED <<end, overflow, received, at>>
    BY <1>9 DEF vars, Clean
  <2>2. PICK a, b : Incomplete(a, b)
    BY <1>3, <2>1
  <2>3. Incomplete(a, b)'
    BY <2>1, <2>2 DEF Incomplete, NoEnd, Run
  <2>4. QED BY <2>3
<1>10. QED BY <1>4, <1>5, <1>6, <1>7, <1>8, <1>9 DEF FramingNext

-----------------------------------------------------------------------------
(* No response is given out twice *)

\* What is held is a stale part and a run that begins behind all that was decoded.
Undecoded(a, b, c) ==
  /\ a \in 0 .. received /\ b \in 0 .. received /\ c \in 0 .. received
  /\ Held(Waiting, a, b, c, received)
  /\ \A i \in 1 .. Len(decoded) : end[decoded[i]] <= c

\* Before a second exception, what is held is a stale part and a fresh one.
LEMMA StaleMeans ==
  ASSUME FramingTypeOK, StaleThenFresh, InOrderYet
  PROVE  \E a, b, c : Undecoded(a, b, c)
<1>1. received \in Nat
  BY Sizes DEF FramingTypeOK
<1>2. PICK a \in 0 .. received, b \in 0 .. received, c \in 0 .. received :
        /\ a <= b /\ Waiting = Splice(a, b, c, received)
        /\ NoEnd(a, b) /\ (a < b => b < c)
        /\ \A i \in 1 .. Len(decoded) : end[decoded[i]] <= c
  BY Zenon DEF StaleThenFresh
<1>3. a \in Nat /\ b \in Nat /\ c \in Nat /\ c <= received
  BY <1>1
<1>4. Undecoded(a, b, c)
  BY <1>1, <1>2, <1>3, Zenon DEF Undecoded, Held, Cuts
<1>5. QED BY <1>4, Zenon

\* A slice of data that is decoded is the message where the fresh run begins.
LEMMA DecodedIsNew ==
  ASSUME FramingTypeOK, at = "loop", NEW a, NEW b, NEW c, Undecoded(a, b, c),
         NEW n \in 1 .. Len(data), NEW m \in Numbers, SubSeq(data, 1, n) = Bytes(m)
  PROVE  /\ c = Start(m) /\ c <= end[m] /\ end[m] \in 0 .. received
         /\ SubSeq(data, n + 1, Len(data)) = Run(end[m], received)
         /\ \A i \in 1 .. Len(decoded) : decoded[i] < m
<1>1. end \in Layouts /\ Held(data, a, b, c, received) /\ m \in Messages
  BY DEF FramingTypeOK, Undecoded, Waiting, Numbers, Messages
<1>2. /\ c = Start(m) /\ end[m] <= received
      /\ SubSeq(data, n + 1, Len(data)) = Run(end[m], received)
  BY <1>1, SliceIsFresh
<1>3. /\ end[m] \in Nat /\ Start(m) \in Nat /\ Start(m) + Header < end[m] /\ Header \in Nat
      /\ received \in Nat
  BY <1>1, Sizes DEF FramingTypeOK
<1>4. ASSUME NEW i \in 1 .. Len(decoded) PROVE decoded[i] < m
  <2>1. decoded[i] \in Messages
    <3>1. decoded \in Seq(Numbers)
      BY DEF FramingTypeOK
    <3>2. decoded[i] \in Numbers
      BY <3>1, ElementOfSeq
    <3>3. QED BY <3>2 DEF Numbers, Messages
  <2>2. end[decoded[i]] <= Start(m)
    BY <1>2 DEF Undecoded
  <2>3. QED BY <1>1, <2>1, <2>2, EarlierEnds
<1>5. QED BY <1>2, <1>3, <1>4

\* What decoding a slice does to the responses decoded.
LEMMA DecodeKeeps ==
  ASSUME FramingTypeOK, at = "loop", NEW a, NEW b, NEW c, Undecoded(a, b, c),
         NEW n \in 1 .. Len(data), Decodes(SubSeq(data, 1, n))
  PROVE  \/ UNCHANGED decoded
         \/ \E m \in Numbers :
              /\ SubSeq(data, 1, n) = Bytes(m) /\ decoded' = Append(decoded, m)
              /\ Len(decoded') = Len(decoded) + 1 /\ Len(decoded) \in Nat
              /\ \A i \in 1 .. Len(decoded) : decoded'[i] = decoded[i]
              /\ decoded'[Len(decoded) + 1] = m
<1> SUFFICES ASSUME NEW m \in Numbers, SubSeq(data, 1, n) = Bytes(m),
                    decoded' = Append(decoded, m)
             PROVE  /\ Len(decoded') = Len(decoded) + 1 /\ Len(decoded) \in Nat
                    /\ \A i \in 1 .. Len(decoded) : decoded'[i] = decoded[i]
                    /\ decoded'[Len(decoded) + 1] = m
  BY Zenon DEF Decodes
<1>1. QED BY AppendProperties, LenProperties DEF FramingTypeOK

\* The message decoded next is one not decoded yet.
LEMMA OnceInOrderStep ==
  ASSUME FramingTypeOK, BeforeLogin, StaleThenFresh, OnceInOrder, [FramingNext]_vars
  PROVE  OnceInOrder'
<1> SUFFICES ASSUME InOrderYet' PROVE OnceInOrder'
  BY DEF OnceInOrder
<1>1. /\ throws \in Nat /\ end \in Layouts /\ LoginFixed \in Nat /\ LoginFixed > 0
  BY FramingConstants DEF FramingTypeOK
<1>2. CASE UNCHANGED decoded
  <2>1. CASE InOrderYet
    BY <1>2, <2>1 DEF OnceInOrder
  <2>2. CASE ~InOrderYet
    <3>1. CASE \E n \in 1 .. Total - received : ReadLogin(n)
      <4>1. ~isLoggedIn
        BY <3>1 DEF ReadLogin
      <4>2. decoded = <<>>
        BY <4>1 DEF BeforeLogin
      <4>3. QED BY <1>2, <4>2, EmptySeq DEF OnceInOrder
    <3>2. CASE ~\E n \in 1 .. Total - received : ReadLogin(n)
      <4>1. UNCHANGED <<end, loginRead>> /\ (UNCHANGED throws \/ throws' = throws + 1)
        BY <3>2 DEF FramingNext, ReadChunk, ReadMessage, ReadThrows, EndRead, Throw, vars
      <4>2. QED BY <1>1, <2>2, <4>1 DEF InOrderYet
    <3>3. QED BY <3>1, <3>2
  <2>3. QED BY <2>1, <2>2
<1>3. CASE ~UNCHANGED decoded
  <2>1. ReadMessage \/ ReadThrows
    BY <1>3 DEF FramingNext, ReadLogin, ReadChunk, EndRead, vars
  <2>2. /\ at = "loop" /\ InOrderYet
    <3>1. CASE ReadMessage
      BY <3>1 DEF ReadMessage, InOrderYet
    <3>2. CASE ReadThrows
      <4>1. at = "loop" /\ throws' = throws + 1
        BY <3>2 DEF ReadThrows, Throw
      <4>2. QED BY <1>1, <4>1 DEF InOrderYet
    <3>3. QED BY <2>1, <3>1, <3>2
  <2>3. PICK length \in Lengths : Complete(length) /\ Decodes(SubSeq(data, 1, length))
    BY <2>1 DEF ReadMessage, ReadThrows
  <2>4. length \in 1 .. Len(data)
    <3>1. length \in Nat \ {0} /\ Len(data) \in Nat /\ length <= Len(data)
      BY <1>1, <2>3, LengthsType, LenProperties DEF FramingTypeOK, Complete
    <3>2. QED BY <3>1
  <2>5. PICK a, b, c : Undecoded(a, b, c)
    BY <2>2, StaleMeans
  <2>6. PICK m \in Numbers :
          /\ SubSeq(data, 1, length) = Bytes(m) /\ decoded' = Append(decoded, m)
          /\ Len(decoded') = Len(decoded) + 1 /\ Len(decoded) \in Nat
          /\ \A i \in 1 .. Len(decoded) : decoded'[i] = decoded[i]
          /\ decoded'[Len(decoded) + 1] = m
    BY <1>3, <2>2, <2>3, <2>4, <2>5, DecodeKeeps
  <2>7. \A i \in 1 .. Len(decoded) : decoded[i] < m
    BY <2>2, <2>4, <2>5, <2>6, DecodedIsNew
  <2>8. \A i, j \in 1 .. Len(decoded) : i < j => decoded[i] < decoded[j]
    BY <2>2 DEF OnceInOrder
  <2>9. ASSUME NEW i \in 1 .. Len(decoded'), NEW j \in 1 .. Len(decoded'), i < j
        PROVE  decoded'[i] < decoded'[j]
    <3>1. i \in 1 .. Len(decoded) /\ (j \in 1 .. Len(decoded) \/ j = Len(decoded) + 1)
      BY <2>6, <2>9
    <3>2. QED BY <2>6, <2>7, <2>8, <2>9, <3>1
  <2>10. QED BY <2>9 DEF OnceInOrder
<1>4. QED BY <1>2, <1>3

\* A chunk makes the fresh run longer.
LEMMA SpliceGrows ==
  ASSUME NEW a, NEW b, NEW c, NEW d, Cuts(a, b, c, d), NEW e \in Nat, d <= e
  PROVE  Splice(a, b, c, d) \o Run(d, e) = Splice(a, b, c, e)
<1>1. /\ Run(a, b) \in Seq(Places) /\ Run(c, d) \in Seq(Places) /\ Run(d, e) \in Seq(Places)
      /\ Splice(c, d, d, e) = Run(c, e)
  BY RunType, SpliceJoin DEF Cuts
<1>2. (Run(a, b) \o Run(c, d)) \o Run(d, e) = Run(a, b) \o (Run(c, d) \o Run(d, e))
  BY <1>1, ConcatAssociative
<1>3. QED BY <1>1, <1>2, Zenon DEF Splice

\* A step keeps the stale in front of the fresh.
LEMMA StaleStep ==
  ASSUME FramingTypeOK, BeforeLogin, OverflowIncomplete, StaleThenFresh, [FramingNext]_vars
  PROVE  StaleThenFresh'
<1>1. ASSUME NEW a, NEW b, NEW c, Undecoded(a, b, c)' PROVE StaleThenFresh'
  BY <1>1, Zenon DEF Undecoded, Held, Cuts, StaleThenFresh
<1> SUFFICES ASSUME InOrderYet' PROVE \E a, b, c : Undecoded(a, b, c)'
  BY <1>1 DEF StaleThenFresh
<1>2. /\ received \in Nat /\ throws \in Nat /\ end \in Layouts /\ decoded \in Seq(Numbers)
      /\ LoginFixed \in Nat /\ LoginFixed > 0 /\ end[0] # 0 /\ Len(decoded) \in Nat
  <2>1. end[0] # 0
    BY FramingConstants DEF FramingTypeOK, Layouts
  <2>2. QED BY <2>1, Sizes, FramingConstants, LenProperties DEF FramingTypeOK
<1>3. ASSUME InOrderYet PROVE \E a, b, c : Undecoded(a, b, c)
  BY <1>3, StaleMeans
<1>4. ASSUME NEW n \in 1 .. Total - received, ReadLogin(n)
      PROVE  \E a, b, c : Undecoded(a, b, c)'
  <2>1. /\ ~isLoggedIn /\ at # "loop" /\ overflow = <<>> /\ decoded = <<>> /\ loginRead = 0
        /\ received' = received + n /\ end' = end /\ decoded' = decoded
    BY <1>4 DEF ReadLogin, BeforeLogin
  <2>2. ~Throw
    <3> SUFFICES ASSUME Throw PROVE FALSE
      OBVIOUS
    <3>1. (throws' # 0 /\ loginRead' = 0) \/ UNCHANGED throws
      BY <1>2, <1>4, <2>1 DEF ReadLogin, Throw
    <3>2. throws' = throws + 1
      BY DEF Throw
    <3>3. QED BY <1>2, <2>1, <3>1, <3>2 DEF InOrderYet
  <2>3. UNCHANGED <<overflow, at>>
    BY <1>4, <2>2 DEF ReadLogin
  <2> DEFINE d == received + n
  <2>4. d \in Nat /\ 0 \in 0 .. d /\ d \in 0 .. d
    BY <1>2
  <2>5. Held(<<>>, 0, 0, d, d)
    <3> HIDE DEF d
    <3>1. Held(Run(d, d), 0, 0, d, d)
      BY <1>2, <2>4, RunHeld
    <3>2. QED BY <2>4, <3>1, RunEmpty
  <2>6. Waiting' = <<>>
    BY <2>1, <2>3 DEF Waiting
  <2>7. received' = d /\ Len(decoded') = 0
    BY <2>1, EmptySeq
  <2> HIDE DEF d
  <2>8. PICK x : x = d
    OBVIOUS
  <2>9. Undecoded(0, 0, x)'
    BY <2>1, <2>4, <2>5, <2>6, <2>7, <2>8 DEF Undecoded, Held, NoEnd, Splice, Run
  <2>10. QED BY <2>9
<1>5. ASSUME NEW n \in 1 .. Total - received, ReadChunk(n)
      PROVE  \E a, b, c : Undecoded(a, b, c)'
  <2> DEFINE d == received + n
  <2>1. /\ InOrderYet /\ Waiting = overflow /\ received' = d
        /\ data' = overflow \o Run(received, d) /\ Waiting' = data'
        /\ end' = end /\ decoded' = decoded
    BY <1>5 DEF ReadChunk, InOrderYet, Waiting
  <2>2. d \in Nat /\ received <= d
    BY <1>2
  <2>3. PICK a, b, c : Undecoded(a, b, c)
    BY <1>3, <2>1
  <2> HIDE DEF d
  <2>4. Cuts(a, b, c, received) /\ overflow = Splice(a, b, c, received)
    BY <2>1, <2>3 DEF Undecoded, Held
  <2>5. data' = Splice(a, b, c, d) /\ Cuts(a, b, c, d)
    <3>1. Cuts(a, b, c, d)
      BY <1>2, <2>2, <2>4 DEF Cuts
    <3>2. Splice(a, b, c, received) \o Run(received, d) = Splice(a, b, c, d)
      BY <2>2, <2>4, SpliceGrows
    <3>3. QED BY <2>1, <2>4, <3>1, <3>2
  <2>6. a \in 0 .. d /\ b \in 0 .. d /\ c \in 0 .. d
    BY <1>2, <2>2, <2>3 DEF Undecoded
  <2>7. Undecoded(a, b, c)'
    BY <2>1, <2>3, <2>5, <2>6 DEF Undecoded, Held, NoEnd, Splice, Run
  <2>8. QED BY <2>7
<1>6. CASE ReadMessage
  <2>1. /\ InOrderYet /\ at = "loop" /\ Waiting = data /\ Waiting' = data'
        /\ UNCHANGED <<end, received>>
    BY <1>6 DEF ReadMessage, InOrderYet, Waiting
  <2>2. PICK length \in Lengths :
          Complete(length) /\ Decodes(SubSeq(data, 1, length)) /\ Consume(length)
    BY <1>6 DEF ReadMessage
  <2>3. length \in 1 .. Len(data) /\ length \in 0 .. Len(data)
    <3>1. length \in Nat \ {0} /\ Len(data) \in Nat /\ length <= Len(data)
      BY <1>2, <2>2, LengthsType, LenProperties DEF FramingTypeOK, Complete
    <3>2. QED BY <3>1
  <2>4. PICK a, b, c : Undecoded(a, b, c)
    BY <1>3, <2>1
  <2>5. Held(data, a, b, c, received) /\ \A i \in 1 .. Len(decoded) : end[decoded[i]] <= c
    BY <2>1, <2>4 DEF Undecoded
  <2>6. CASE UNCHANGED decoded
    <3>1. PICK a2 \in 0 .. received, b2 \in 0 .. received, c2 \in 0 .. received :
            Held(SubSeq(data, length + 1, Len(data)), a2, b2, c2, received) /\ c <= c2
      BY <1>2, <2>3, <2>5, SliceLeaves
    <3>2. Held(data', a2, b2, c2, received)
      BY <2>2, <3>1 DEF Consume
    <3>3. ASSUME NEW i \in 1 .. Len(decoded) PROVE end[decoded[i]] <= c2
      <4>1. end[decoded[i]] <= c /\ c \in Nat /\ c2 \in Nat
        BY <1>2, <2>5, <3>1 DEF Held, Cuts
      <4>2. decoded[i] \in Messages
        <5>1. decoded[i] \in Numbers
          BY <1>2, ElementOfSeq
        <5>2. QED BY <5>1 DEF Numbers, Messages
      <4>3. end[decoded[i]] \in Nat
        BY <1>2, <4>2, Sizes
      <4>4. QED BY <3>1, <4>1, <4>3
    <3>4. Undecoded(a2, b2, c2)'
      BY <2>1, <2>6, <3>1, <3>2, <3>3 DEF Undecoded, Held, NoEnd, Splice, Run
    <3>5. QED BY <3>4
  <2>7. CASE ~UNCHANGED decoded
    <3>1. PICK m \in Numbers :
            /\ SubSeq(data, 1, length) = Bytes(m) /\ decoded' = Append(decoded, m)
            /\ Len(decoded') = Len(decoded) + 1 /\ Len(decoded) \in Nat
            /\ \A i \in 1 .. Len(decoded) : decoded'[i] = decoded[i]
            /\ decoded'[Len(decoded) + 1] = m
      BY <2>1, <2>2, <2>3, <2>4, <2>7, DecodeKeeps
    <3>2. /\ c <= end[m] /\ end[m] \in 0 .. received
          /\ SubSeq(data, length + 1, Len(data)) = Run(end[m], received)
      BY <2>1, <2>3, <2>4, <3>1, DecodedIsNew
    <3>3. Held(data', 0, 0, end[m], received)
      <4> DEFINE e == end[m]
      <4>1. e \in Nat /\ e <= received /\ data' = Run(e, received)
        BY <1>2, <2>2, <3>2 DEF Consume
      <4> HIDE DEF e
      <4>2. Held(Run(e, received), 0, 0, e, received)
        BY <1>2, <4>1, RunHeld
      <4>3. QED BY <4>1, <4>2 DEF e
    <3>4. ASSUME NEW i \in 1 .. Len(decoded') PROVE end[decoded'[i]] <= end[m]
      <4>1. CASE i \in 1 .. Len(decoded)
        <5>1. end[decoded[i]] <= c /\ c \in Nat /\ c <= end[m] /\ end[m] \in Nat
          BY <1>2, <2>5, <3>2, <4>1 DEF Held, Cuts
        <5>2. decoded[i] \in Messages
          <6>1. decoded[i] \in Numbers
            BY <1>2, <4>1, ElementOfSeq
          <6>2. QED BY <6>1 DEF Numbers, Messages
        <5>3. end[decoded[i]] \in Nat
          BY <1>2, <5>2, Sizes
        <5>4. end[decoded[i]] <= end[m]
          BY <5>1, <5>3
        <5>5. QED BY <3>1, <4>1, <5>4
      <4>2. CASE i = Len(decoded) + 1
        <5>1. end[m] \in Nat
          BY <1>2, <3>2
        <5>2. QED BY <3>1, <4>2, <5>1
      <4>3. QED BY <3>1, <4>1, <4>2
    <3>5. PICK x : x = end[m]
      OBVIOUS
    <3>6. 0 \in 0 .. received
      BY <1>2
    <3>7. Undecoded(0, 0, x)'
      BY <2>1, <3>2, <3>3, <3>4, <3>5, <3>6 DEF Undecoded, Held, NoEnd, Splice, Run
    <3>8. QED BY <3>7
  <2>8. QED BY <2>6, <2>7
<1>7. CASE ReadThrows
  <2>1. /\ at = "loop" /\ at' # "loop" /\ throws' = throws + 1
        /\ UNCHANGED <<end, received, overflow, isLoggedIn, loginRead>>
    BY <1>7 DEF ReadThrows, Throw
  <2>2. throws = 0 /\ loginRead = end[0] /\ InOrderYet
    BY <1>2, <2>1 DEF InOrderYet
  <2>3. Clean
    <3>1. 0 \in Messages
      BY Sizes, <1>2 DEF Messages
    <3>2. QED BY <1>2, <2>1, <2>2, <3>1 DEF Clean, BeforeLogin, FramingTypeOK
  <2>4. PICK a, b : Incomplete(a, b)
    BY <2>3 DEF OverflowIncomplete, Incomplete
  <2>5. /\ a \in 0 .. received /\ b \in 0 .. received /\ a <= b /\ b < received
        /\ overflow = Run(a, b) /\ NoEnd(a, b) /\ a \in Nat /\ b \in Nat
    BY <1>2, <2>1, <2>4 DEF Incomplete
  <2>6. overflow = Splice(a, b, received, received)
    <3>1. Run(a, b) \in Seq(Places) /\ Run(received, received) = <<>>
      BY <1>2, <2>5, RunType, RunEmpty
    <3>2. QED BY <2>5, <3>1, ConcatEmptySeq DEF Splice
  <2>7. Held(overflow, a, b, received, received) /\ Waiting' = overflow
    BY <1>2, <2>1, <2>5, <2>6 DEF Held, Cuts, Waiting
  <2>8. PICK length \in Lengths : Complete(length) /\ Decodes(SubSeq(data, 1, length))
    BY <1>7 DEF ReadThrows
  <2>9. length \in 1 .. Len(data)
    <3>1. length \in Nat \ {0} /\ Len(data) \in Nat /\ length <= Len(data)
      BY <1>2, <2>8, LengthsType, LenProperties DEF FramingTypeOK, Complete
    <3>2. QED BY <3>1
  <2>10. PICK p, q, c : Undecoded(p, q, c)
    BY <1>3, <2>2
  <2>11. ASSUME NEW i \in 1 .. Len(decoded) PROVE end[decoded[i]] <= received
    <3>1. end[decoded[i]] <= c /\ c \in 0 .. received
      BY <2>10 DEF Undecoded
    <3>2. decoded[i] \in Messages
      <4>1. decoded[i] \in Numbers
        BY <1>2, ElementOfSeq
      <4>2. QED BY <4>1 DEF Numbers, Messages
    <3>3. end[decoded[i]] \in Nat
      BY <1>2, <3>2, Sizes
    <3>4. QED BY <1>2, <3>1, <3>3
  <2>12. ASSUME NEW i \in 1 .. Len(decoded') PROVE end[decoded'[i]] <= received
    <3>1. CASE UNCHANGED decoded
      BY <2>11, <3>1
    <3>2. CASE ~UNCHANGED decoded
      <4>1. PICK m \in Numbers :
              /\ SubSeq(data, 1, length) = Bytes(m) /\ decoded' = Append(decoded, m)
              /\ Len(decoded') = Len(decoded) + 1 /\ Len(decoded) \in Nat
              /\ \A j \in 1 .. Len(decoded) : decoded'[j] = decoded[j]
              /\ decoded'[Len(decoded) + 1] = m
        BY <2>1, <2>8, <2>9, <2>10, <3>2, DecodeKeeps
      <4>2. end[m] \in 0 .. received
        BY <2>1, <2>9, <2>10, <4>1, DecodedIsNew
      <4>3. i \in 1 .. Len(decoded) \/ i = Len(decoded) + 1
        BY <4>1
      <4>4. QED BY <1>2, <2>11, <4>1, <4>2, <4>3
    <3>3. QED BY <3>1, <3>2
  <2>13. PICK x : x = received
    OBVIOUS
  <2>14. received \in 0 .. received
    BY <1>2
  <2>15. Undecoded(a, b, x)'
    BY <2>1, <2>5, <2>7, <2>12, <2>13, <2>14 DEF Undecoded, Held, NoEnd, Splice, Run
  <2>16. QED BY <2>15
<1>8. CASE EndRead \/ UNCHANGED vars
  <2>1. InOrderYet /\ Waiting' = Waiting /\ UNCHANGED <<end, received, decoded>>
    BY <1>8 DEF EndRead, SaveOverflow, InOrderYet, Waiting, vars
  <2>2. PICK a, b, c : Undecoded(a, b, c)
    BY <1>3, <2>1
  <2>3. Undecoded(a, b, c)'
    BY <2>1, <2>2 DEF Undecoded, Held, NoEnd, Splice, Run
  <2>4. QED BY <2>3
<1>9. QED BY <1>4, <1>5, <1>6, <1>7, <1>8 DEF FramingNext

-----------------------------------------------------------------------------
(* The theorems *)

\* The invariant holds before anything is received.
LEMMA FramingBegins ==
  ASSUME FramingInit
  PROVE  FramingInv
<1>1. /\ end \in Layouts /\ received = 0 /\ isLoggedIn = FALSE /\ overflow = <<>> /\ data = <<>>
      /\ at = "idle" /\ decoded = <<>> /\ loginRead = 0 /\ throws = 0
  BY DEF FramingInit
<1>2. Total \in Nat /\ MaxThrows \in Nat /\ end[0] # 0
  BY <1>1, Sizes, FramingConstants DEF Layouts
<1>3. FramingTypeOK
  <2>1. {overflow, data} \subseteq Seq(Nat \ {0}) /\ decoded \in Seq(Numbers)
    BY <1>1, EmptySeq
  <2>2. received \in 0 .. Total /\ loginRead \in 0 .. Total /\ throws \in 0 .. MaxThrows + 1
    BY <1>1, <1>2
  <2>3. QED BY <1>1, <2>1, <2>2 DEF FramingTypeOK
<1>4. BeforeLogin
  BY <1>1, <1>2 DEF BeforeLogin
<1>5. ~Clean
  BY <1>1 DEF Clean
<1>6. Splice(0, 0, 0, received) = <<>> /\ Len(decoded) = 0
  BY <1>1, RunEmpty, SpliceAlone, EmptySeq
<1>7. StaleThenFresh
  <2> DEFINE a == 0
             b == 0
             c == 0
  <2>1. /\ a \in 0 .. received /\ b \in 0 .. received /\ c \in 0 .. received
        /\ a <= b /\ Waiting = Splice(a, b, c, received)
        /\ NoEnd(a, b) /\ (a < b => b < c)
        /\ \A i \in 1 .. Len(decoded) : end[decoded[i]] <= c
    <3>1. NoEnd(0, 0)
      BY <1>1, Sizes DEF NoEnd
    <3>2. Waiting = <<>>
      BY <1>1 DEF Waiting
    <3>3. QED BY <1>1, <1>6, <3>1, <3>2
  <2> HIDE DEF a, b, c
  <2>2. QED BY <2>1 DEF StaleThenFresh
<1>8. OnceInOrder
  BY <1>6 DEF OnceInOrder
<1>9. QED BY <1>3, <1>4, <1>5, <1>7, <1>8
      DEF FramingInv, NothingLostOrRepeated, OverflowIncomplete

\* The framing keeps its inductive invariant, however the stream is cut and whatever throws.
THEOREM FramingInvariant == FramingSpec => []FramingInv
<1>1. FramingInit => FramingInv
  BY FramingBegins
<1>2. FramingInv /\ [FramingNext]_vars => FramingInv'
  BY TypeStep, BeforeLoginStep, NothingLostStep, OverflowStep, StaleStep, OnceInOrderStep
  DEF FramingInv
<1>3. QED BY <1>1, <1>2, PTL DEF FramingSpec

\* The variables of onRead keep their types, the exceptions among them their bound.
THEOREM FramingTypeCorrect == FramingSpec => []FramingTypeOK
<1>1. FramingInv => FramingTypeOK
  BY DEF FramingInv
<1>2. QED BY <1>1, FramingInvariant, PTL

\* In a connection whose login's chunk ended with a message, onRead decodes the first
\* messages behind it and holds every byte received behind them.
THEOREM NothingIsLostOrRepeated == FramingSpec => []NothingLostOrRepeated
<1>1. FramingInv => NothingLostOrRepeated
  BY DEF FramingInv
<1>2. QED BY <1>1, FramingInvariant, PTL

\* A response is given out at most once and in order, even behind a mangled login
\* result or after one exception.
THEOREM GivenOnceInOrder == FramingSpec => []OnceInOrder
<1>1. FramingInv => OnceInOrder
  BY DEF FramingInv
<1>2. QED BY <1>1, FramingInvariant, PTL

\* What is incomplete has no message in front.
LEMMA NonePrefix ==
  ASSUME FramingTypeOK, OverflowIncomplete
  PROVE  NoneKeptBack
<1> SUFFICES ASSUME Clean, NEW m \in Numbers, IsPrefix(Bytes(m), overflow) PROVE FALSE
  BY DEF NoneKeptBack
<1> DEFINE st == Start(m)
           en == end[m]
<1>1. end \in Layouts /\ m \in Messages /\ received \in Nat
  BY Sizes DEF FramingTypeOK, Numbers, Messages
<1>2. st \in Nat /\ en \in Nat /\ st < en
  BY <1>1, Sizes
<1>3. PICK a \in 0 .. received, b \in 0 .. received :
        a <= b /\ overflow = Run(a, b) /\ NoEnd(a, b)
  BY DEF OverflowIncomplete
<1>4. ~(a < en /\ en <= b)
  BY <1>1, <1>3 DEF NoEnd
<1> DEFINE x == Run(st, en)
           y == Run(a, b)
           n == en - st
<1>5. Len(x) <= Len(y) /\ SubSeq(x, 1, Len(x)) = SubSeq(y, 1, Len(x))
  BY <1>3 DEF IsPrefix, Bytes
<1> HIDE DEF st, en
<1>6. /\ x \in Seq(Places) /\ Len(x) = n /\ \A i \in 1 .. n : x[i] = st + i
  <2>1. st <= en
    BY <1>2
  <2>2. x \in Seq(Places) /\ Len(x) = en - st /\ \A i \in 1 .. en - st : x[i] = st + i
    BY <1>2, <2>1, RunType
  <2>3. QED BY <2>2
<1>7. /\ y \in Seq(Places) /\ Len(y) = b - a /\ \A i \in 1 .. b - a : y[i] = a + i
      /\ a \in Nat /\ b \in Nat
  <2>1. a \in Nat /\ b \in Nat /\ a <= b
    BY <1>1, <1>3
  <2>2. QED BY <2>1, RunType
<1>8. 1 \in 1 .. n /\ n \in Nat /\ n \in 0 .. b - a /\ 1 \in 1 .. b - a /\ b - a \in Nat
  <2> HIDE DEF x, y
  <2>1. QED BY <1>2, <1>3, <1>5, <1>6, <1>7
<1> HIDE DEF x, y, n
<1>9. SubSeq(x, 1, n)[1] = x[1]
  BY <1>6, <1>8, HeadElements
<1>10. SubSeq(y, 1, n)[1] = y[1]
  <2> DEFINE L == b - a
  <2>1. L \in Nat /\ n \in 0 .. L /\ y \in Seq(Places) /\ Len(y) = L
    BY <1>7, <1>8
  <2> HIDE DEF L
  <2>2. QED BY <1>8, <2>1, HeadElements
<1>11. st + 1 = a + 1
  BY <1>5, <1>6, <1>7, <1>8, <1>9, <1>10
<1>12. n = en - st
  BY DEF n
<1>13. QED BY <1>2, <1>4, <1>7, <1>8, <1>11, <1>12

\* Between chunks no complete message waits in _overflow.
THEOREM NoneIsKeptBack == FramingSpec => []NoneKeptBack
<1>1. FramingInv => NoneKeptBack
  BY NonePrefix DEF FramingInv
<1>2. QED BY <1>1, FramingInvariant, PTL

-----------------------------------------------------------------------------
(* The stream of responses *)

\* The last message that is complete in the first n bytes, 0 if there is none.
LastIn(k, n) ==
  /\ k \in Messages /\ (k = 0 \/ end[k] <= n)
  /\ \A j \in Messages : end[j] <= n => j <= k

\* There is only one.
LEMMA UptoIs ==
  ASSUME NEW k, NEW n, LastIn(k, n)
  PROVE  Upto(n) = k
<1>1. ASSUME NEW m \in Messages, m = 0 \/ end[m] <= n,
             \A j \in Messages : end[j] <= n => j <= m
      PROVE  m = k
  <2>1. m \in Nat /\ k \in Nat
    BY DEF Messages, LastIn
  <2>2. m <= k
    BY <1>1, <2>1 DEF LastIn
  <2>3. k <= m
    BY <1>1, <2>1 DEF LastIn
  <2>4. QED BY <2>1, <2>2, <2>3
<1>2. k \in Messages /\ (k = 0 \/ end[k] <= n) /\ \A j \in Messages : end[j] <= n => j <= k
  BY DEF LastIn
<1>3. QED BY <1>1, <1>2 DEF Upto

\* There is one.
LEMMA UptoType ==
  ASSUME end \in Layouts, NEW n \in Nat
  PROVE  LastIn(Upto(n), n)
<1> DEFINE S == {k \in Messages : \A j \in Messages : end[j] <= n => j <= k}
           x == CHOOSE k \in S : \A i \in S : k <= i
<1>1. Responses \in Nat /\ \A j \in Messages : j \in Nat /\ j <= Responses /\ end[j] \in Nat
  BY Sizes DEF Messages
<1>2. S \in SUBSET Nat /\ Responses \in S
  BY <1>1 DEF Messages
<1>3. x \in S /\ \A i \in S : x <= i
  <2> HIDE DEF S
  <2>1. S # {}
    BY <1>2
  <2>2. QED BY <1>2, <2>1, LeastChosen
<1> HIDE DEF x
<1>4. ASSUME x # 0, ~(end[x] <= n) PROVE FALSE
  <2>1. x \in Nat /\ x \in Messages /\ x - 1 \in Messages /\ x - 1 \in Nat
    BY <1>1, <1>3, <1>4 DEF Messages
  <2>2. ASSUME NEW j \in Messages, end[j] <= n PROVE j <= x - 1
    <3>1. j <= x /\ j # x /\ j \in Nat
      BY <1>1, <1>3, <1>4, <2>2
    <3>2. QED BY <2>1, <3>1
  <2>3. x - 1 \in S
    BY <2>1, <2>2
  <2>4. x <= x - 1
    BY <1>3, <2>3
  <2>5. QED BY <2>1, <2>4
<1>5. LastIn(x, n)
  BY <1>3, <1>4 DEF LastIn
<1>6. Upto(n) = x
  BY <1>5, UptoIs
<1>7. QED BY <1>5, <1>6

\* In no bytes there is none, in those up to the end of a message it is that message.
LEMMA UptoNothing ==
  ASSUME end \in Layouts
  PROVE  Upto(0) = 0
<1>1. 0 \in Messages /\ Header \in Nat
  BY Sizes DEF Messages
<1>2. ASSUME NEW j \in Messages, end[j] <= 0 PROVE FALSE
  <2>1. Start(j) \in Nat /\ end[j] \in Nat /\ Start(j) + Header < end[j]
    BY Sizes
  <2>2. QED BY <1>1, <1>2, <2>1
<1>3. LastIn(0, 0)
  BY <1>1, <1>2 DEF LastIn
<1>4. QED BY <1>3, UptoIs

\* Where no message ends behind message k, it is the last.
LEMMA UptoNoEnd ==
  ASSUME end \in Layouts, NEW k \in Messages, NEW n \in Nat, end[k] <= n, NoEnd(end[k], n)
  PROVE  Upto(n) = k
<1>1. ASSUME NEW j \in Messages, end[j] <= n PROVE j <= k
  <2>1. j \in Nat /\ k \in Nat /\ end[j] \in Nat /\ end[k] \in Nat /\ Header \in Nat
    BY Sizes DEF Messages
  <2>2. end[j] <= end[k]
    BY <1>1, <2>1 DEF NoEnd
  <2>3. CASE k < j
    <3>1. end[k] <= Start(j) /\ Start(j) \in Nat /\ Start(j) + Header < end[j]
      BY <2>3, EndsGrow, Sizes
    <3>2. QED BY <2>1, <2>2, <3>1
  <2>4. QED BY <2>1, <2>3
<1>2. LastIn(k, n)
  BY <1>1 DEF LastIn
<1>3. QED BY <1>2, UptoIs

\* It never goes back.
LEMMA UptoGrows ==
  ASSUME end \in Layouts, NEW n \in Nat, NEW d \in Nat, n <= d
  PROVE  Upto(n) <= Upto(d)
<1> DEFINE a == Upto(n)
           b == Upto(d)
<1>1. LastIn(a, n) /\ LastIn(b, d)
  BY UptoType
<1> HIDE DEF a, b
<1>2. a \in Nat /\ b \in Nat /\ a \in Messages /\ end[a] \in Nat
  BY <1>1, Sizes DEF LastIn, Messages
<1>3. ASSUME a = 0 PROVE a <= b
  BY <1>2, <1>3
<1>4. ASSUME a # 0 PROVE a <= b
  <2>1. end[a] <= d
    BY <1>1, <1>2, <1>4 DEF LastIn
  <2>2. QED BY <1>1, <1>2, <2>1 DEF LastIn
<1>5. a <= b
  BY <1>3, <1>4
<1>6. QED BY <1>5 DEF a, b

\* A run of responses.
LEMMA RunNumbers ==
  ASSUME NEW a \in Messages, NEW b \in Messages, a <= b
  PROVE  Run(a, b) \in Seq(Numbers)
<1>1. a \in Nat /\ b \in Nat /\ Responses \in Nat /\ b <= Responses
  BY FramingConstants DEF Messages
<1>2. b - a \in Nat /\ \A i \in 1 .. b - a : a + i \in Numbers
  BY <1>1 DEF Numbers
<1>3. Run(a, b) \in [1 .. b - a -> Numbers]
  BY <1>2 DEF Run
<1>4. QED BY <1>2, <1>3, SeqDef

\* What a run is without its first n.
LEMMA RunCut ==
  ASSUME NEW a \in Nat, NEW b \in Nat, a <= b, NEW n \in 0 .. b - a
  PROVE  SubSeq(Run(a, b), n + 1, Len(Run(a, b))) = Run(a + n, b)
<1> DEFINE s == Run(a, b)
<1>0. PICK z : z = 0
  OBVIOUS
<1>1. Cuts(z, z, a, b) /\ s = Splice(z, z, a, b)
  BY <1>0, SpliceAlone DEF Cuts
<1>2. Joined(s, z, z, a, b)
  BY <1>1, SpliceType
<1>3. n \in Nat /\ z - z <= n /\ n <= (z - z) + (b - a) /\ a + (n - (z - z)) = a + n
  BY <1>0
<1> HIDE DEF s
<1>4. SubSeq(s, n + 1, Len(s)) = Run(a + (n - (z - z)), b)
  BY <1>1, <1>2, <1>3, CutFresh
<1>5. QED BY <1>3, <1>4 DEF s

\* Without its first.
LEMMA RunTail ==
  ASSUME NEW a \in Nat, NEW b \in Nat, a < b
  PROVE  Run(a, b) # <<>> /\ Tail(Run(a, b)) = Run(a + 1, b)
<1> DEFINE s == Run(a, b)
           an == a + 1
           t == Run(an, b)
<1>1. s \in Seq(Places) /\ Len(s) = b - a /\ \A i \in 1 .. b - a : s[i] = a + i
  BY RunType
<1>2. an \in Nat /\ an <= b /\ b - an = b - a - 1 /\ b - a \in Nat /\ b - a # 0
  OBVIOUS
<1>3. t \in Seq(Places) /\ Len(t) = b - an /\ \A i \in 1 .. b - an : t[i] = an + i
  <2> HIDE DEF an
  <2>1. QED BY <1>2, RunType
<1> HIDE DEF s, t
<1>4. s # <<>>
  BY <1>1, <1>2, EmptySeq
<1>5. /\ Tail(s) \in Seq(Places) /\ Len(Tail(s)) = Len(s) - 1
      /\ \A i \in 1 .. Len(s) - 1 : Tail(s)[i] = s[i + 1]
  BY <1>1, <1>4, HeadTailProperties
<1>6. ASSUME NEW i \in 1 .. b - an PROVE Tail(s)[i] = t[i]
  <2>1. i + 1 \in 1 .. b - a /\ i \in 1 .. Len(s) - 1
    BY <1>1, <1>2
  <2>2. s[i + 1] = a + (i + 1)
    BY <1>1, <2>1
  <2>3. QED BY <1>3, <1>5, <2>1, <2>2 DEF an
<1>7. Tail(s) = t
  BY <1>1, <1>2, <1>3, <1>5, <1>6, SeqEqual
<1>8. QED BY <1>4, <1>7 DEF s, t, an

\* Outside the loop every message received is done with.
LEMMA AllDone ==
  ASSUME FramingTypeOK, NothingLostOrRepeated, OverflowIncomplete, Clean, at # "loop"
  PROVE  Done \in Messages /\ Upto(received) = Done
<1> DEFINE e == end[Done]
<1>1. /\ end \in Layouts /\ received \in Nat /\ Done \in Messages /\ e \in Nat /\ e <= received
      /\ overflow = Run(e, received)
  BY Sizes DEF FramingTypeOK, NothingLostOrRepeated, Waiting
<1>2. PICK a \in 0 .. received, b \in 0 .. received :
        a <= b /\ overflow = Run(a, b) /\ NoEnd(a, b)
  BY DEF OverflowIncomplete
<1>3. a \in Nat /\ b \in Nat /\ b <= received
  BY <1>1, <1>2
<1> HIDE DEF e
<1>4. Len(overflow) = b - a /\ \A i \in 1 .. b - a : overflow[i] = a + i
  BY <1>2, <1>3, RunType
<1>5. Len(overflow) = received - e /\ \A i \in 1 .. received - e : overflow[i] = e + i
  BY <1>1, RunType
<1>6. NoEnd(e, received)
  <2>1. ASSUME e # received PROVE a = e /\ b = received
    <3>1. 1 \in 1 .. b - a /\ 1 \in 1 .. received - e
      BY <1>1, <1>3, <1>4, <1>5, <2>1
    <3>2. a + 1 = e + 1
      BY <1>4, <1>5, <3>1
    <3>3. QED BY <1>1, <1>3, <1>4, <1>5, <3>2
  <2>2. ASSUME e = received PROVE NoEnd(e, received)
    <3>1. \A m \in Messages : end[m] \in Nat
      BY <1>1, Sizes
    <3>2. QED BY <1>1, <2>2, <3>1 DEF NoEnd
  <2>3. QED BY <1>2, <2>1, <2>2
<1>7. QED BY <1>1, <1>6, UptoNoEnd DEF e

\* The stream of a state: a clean connection's, which follows Done, and a lost one's.
LEMMA StreamOf ==
  /\ Phase = "login" <=> ~isLoggedIn /\ throws = 0
  /\ Phase = "open" <=> Clean
  /\ Phase \in {"login", "open", "lost"}
  /\ Phase # "lost" => Coming = Run(Upto(received), Responses)
  /\ Phase = "lost" => Coming = <<>>
  /\ ~(Phase = "open" /\ at = "loop") => InHand = <<>>
  /\ Phase = "open" /\ at = "loop" => InHand = Run(Done, Upto(received))
BY DEF Phase, Clean, Coming, InHand

\* The chunk of the login result makes a stream, or one that cannot be followed.
LEMMA LoginStreams ==
  ASSUME FramingInv, NEW n \in 1 .. Total - received, ReadLogin(n)
  PROVE  \/ \E k \in 0 .. Len(Coming) : Stream!LogIn(k)
         \/ Stream!Lose
         \/ UNCHANGED <<Phase, Coming, InHand>>
<1>1. /\ FramingTypeOK /\ BeforeLogin /\ ~isLoggedIn /\ at # "loop" /\ end \in Layouts
      /\ received \in Nat /\ throws \in Nat /\ Total \in Nat /\ ~Clean
      /\ received' = received + n /\ end' = end
  BY Sizes DEF FramingInv, FramingTypeOK, ReadLogin, BeforeLogin, Clean
<1>2. InHand = <<>>
  BY <1>1, StreamOf
<1>3. at' # "loop"
  BY <1>1 DEF ReadLogin, Throw
<1>4. InHand' = <<>>
  BY <1>3 DEF InHand
<1>5. CASE throws # 0
  <2>1. throws' # 0
    BY <1>1, <1>5 DEF ReadLogin, Throw
  <2>2. Phase = "lost" /\ Phase' = "lost"
    BY <1>1, <1>5, <2>1 DEF Phase, Clean
  <2>3. Coming = <<>> /\ Coming' = <<>>
    BY <2>2 DEF Coming
  <2>4. QED BY <1>2, <1>4, <2>2, <2>3
<1>6. CASE throws = 0 /\ ~Clean'
  <2>1. Phase = "login"
    BY <1>1, <1>6 DEF Phase
  <2>2. Phase' = "lost"
    <3>1. isLoggedIn' \/ throws' # 0
      BY <1>6 DEF ReadLogin, Throw
    <3>2. QED BY <1>6, <3>1 DEF Phase
  <2>3. Coming' = <<>>
    BY <2>2 DEF Coming
  <2>4. QED BY <1>4, <2>1, <2>2, <2>3 DEF Stream!Lose
<1>7. CASE throws = 0 /\ Clean'
  <2>1. Phase = "login" /\ Phase' = "open"
    BY <1>1, <1>7 DEF Phase, Clean
  <2>2. received = 0 /\ loginRead' = n /\ received' = n
    <3>1. received = 0
      BY <1>1, <1>7 DEF BeforeLogin
    <3>2. loginRead' = n
      BY <1>1, <1>7 DEF ReadLogin, Throw, Clean
    <3>3. QED BY <1>1, <3>1, <3>2
  <2>3. PICK m \in Messages : n = end[m]
    <3>1. \E m \in Messages : loginRead' = end'[m]
      BY <1>7 DEF Clean, Messages
    <3>2. QED BY <1>1, <2>2, <3>1
  <2>4. m \in Nat /\ m <= Responses /\ Responses \in Nat /\ 0 <= Responses /\ n \in Nat
    BY <1>1, Sizes DEF Messages
  <2>5. Upto(received) = 0
    BY <1>1, <2>2, UptoNothing
  <2>6. Upto(n) = m
    <3>1. end[m] \in Nat /\ NoEnd(end[m], n) /\ end[m] <= n
      <4>1. \A j \in Messages : end[j] \in Nat
        BY <1>1, Sizes
      <4>2. QED BY <2>3, <2>4, <4>1 DEF NoEnd
    <3>2. QED BY <1>1, <2>4, <3>1, UptoNoEnd
  <2>7. Upto(received)' = m
    <3>1. Upto(received)' = Upto(n)
      BY <1>1, <2>2 DEF Upto, Messages
    <3>2. QED BY <2>6, <3>1
  <2>8. Coming = Run(0, Responses) /\ Coming' = Run(m, Responses)
    BY <2>1, <2>5, <2>7 DEF Coming, Run
  <2>9. m \in 0 .. Len(Coming)
         /\ Run(m, Responses) = SubSeq(Coming, m + 1, Len(Coming))
    <3> DEFINE z == 0
    <3>1. z \in Nat /\ z <= Responses /\ m \in 0 .. Responses - z /\ z + m = m
      BY <2>4
    <3> HIDE DEF z
    <3>2. Len(Run(z, Responses)) = Responses - z
      BY <2>4, <3>1, RunType
    <3>3. SubSeq(Run(z, Responses), m + 1, Len(Run(z, Responses))) = Run(z + m, Responses)
      BY <2>4, <3>1, RunCut
    <3>4. Coming = Run(z, Responses)
      BY <2>8 DEF z
    <3>5. QED BY <3>1, <3>2, <3>3, <3>4
  <2>10. Stream!LogIn(m)
    BY <1>2, <1>4, <2>1, <2>8, <2>9 DEF Stream!LogIn
  <2>11. QED BY <2>9, <2>10
<1>8. QED BY <1>5, <1>6, <1>7

\* A later chunk hands over the responses it completes, if any.
LEMMA ChunkStreams ==
  ASSUME FramingInv, NEW n \in 1 .. Total - received, ReadChunk(n)
  PROVE  \/ \E k \in 1 .. Len(Coming) : Stream!Arrive(k)
         \/ UNCHANGED <<Phase, Coming, InHand>>
<1> DEFINE d == received + n
           u == Upto(received)
           v == Upto(d)
           k == v - u
<1>1. /\ FramingTypeOK /\ NothingLostOrRepeated /\ OverflowIncomplete /\ isLoggedIn
      /\ at # "loop" /\ at' = "loop" /\ end \in Layouts
      /\ received \in Nat /\ Total \in Nat
      /\ received' = d /\ UNCHANGED <<end, isLoggedIn, throws, loginRead, decoded>>
  BY Sizes DEF FramingInv, FramingTypeOK, ReadChunk
<1>2. d \in Nat /\ received <= d
  BY <1>1
<1>3. Clean' = Clean /\ Phase' = Phase /\ Done' = Done
  BY <1>1 DEF Clean, Phase, Done, Dropped, Messages
<1>4. InHand = <<>>
  BY <1>1, StreamOf
<1>5. CASE ~Clean
  <2>1. Phase = "lost" /\ Phase' = "lost"
    BY <1>1, <1>3, <1>5 DEF Phase
  <2>2. QED BY <1>3, <1>4, <2>1 DEF Coming, InHand
<1>6. CASE Clean
  <2>1. Phase = "open"
    BY <1>6, StreamOf
  <2>2. Done = u
    BY <1>1, <1>6, AllDone
  <2>3. Upto(received)' = v
    BY <1>1 DEF Upto, Messages
  <2>4. u \in Nat /\ v \in Nat /\ u \in Messages /\ v \in Messages /\ v <= Responses
        /\ Responses \in Nat /\ u <= v
    <3> HIDE DEF d
    <3>1. LastIn(u, received) /\ LastIn(v, d)
      BY <1>1, <1>2, UptoType
    <3>2. u <= v
      BY <1>1, <1>2, UptoGrows
    <3> HIDE DEF u, v
    <3>3. QED BY <1>1, <3>1, <3>2, Sizes DEF LastIn, Messages
  <2>5. /\ Coming = Run(u, Responses) /\ Coming' = Run(v, Responses)
        /\ InHand' = Run(u, v)
    <3>1. Phase' = "open" /\ Phase' # "lost"
      BY <1>3, <2>1
    <3>2. Coming' = Run(v, Responses)
      BY <2>3, <3>1 DEF Coming, Run
    <3>3. InHand' = Run(u, v)
      BY <1>1, <1>3, <2>2, <2>3, <3>1 DEF InHand, Run
    <3>4. QED BY <2>1, <3>2, <3>3 DEF Coming
  <2> HIDE DEF u, v, d
  <2>6. CASE k = 0
    <3>1. u = v
      BY <2>4, <2>6
    <3>2. InHand' = <<>>
      BY <2>4, <2>5, <3>1, RunEmpty
    <3>3. QED BY <1>3, <1>4, <2>5, <3>1, <3>2
  <2>7. CASE k # 0
    <3>1. k \in Nat /\ u <= Responses /\ k \in 0 .. Responses - u /\ u + k = v
          /\ k \in 1 .. Responses - u
      BY <2>4, <2>7
    <3> HIDE DEF k
    <3>2. Len(Coming) = Responses - u
      BY <2>4, <2>5, <3>1, RunType
    <3>3. InHand' = SubSeq(Coming, 1, k)
      BY <2>4, <2>5, <3>1, RunHead
    <3>4. Coming' = SubSeq(Coming, k + 1, Len(Coming))
      BY <2>4, <2>5, <3>1, RunCut
    <3>5. Stream!Arrive(k)
      BY <1>3, <1>4, <2>1, <3>3, <3>4 DEF Stream!Arrive
    <3>6. QED BY <3>1, <3>2, <3>5
  <2>8. QED BY <2>6, <2>7
<1>7. QED BY <1>5, <1>6

\* The loop takes the responses in hand one by one, and ends with the last.
LEMMA LoopStreams ==
  ASSUME FramingInv, ReadMessage \/ EndRead
  PROVE  Stream!Decode \/ UNCHANGED <<Phase, Coming, InHand>>
<1> DEFINE u == Upto(received)
<1>1. /\ FramingTypeOK /\ BeforeLogin /\ NothingLostOrRepeated /\ OverflowIncomplete
      /\ at = "loop" /\ isLoggedIn /\ end \in Layouts /\ received \in Nat
      /\ UNCHANGED <<end, received, isLoggedIn, throws, loginRead>>
  BY Sizes DEF FramingInv, FramingTypeOK, BeforeLogin, ReadMessage, EndRead
<1>2. Clean' = Clean /\ Phase' = Phase /\ Upto(received)' = u /\ Dropped' = Dropped
  BY <1>1 DEF Clean, Phase, Upto, Dropped, Messages
<1>3. Coming' = Coming
  BY <1>2 DEF Coming, Run
<1>4. CASE ~Clean
  <2>1. Phase # "open" /\ Phase' # "open"
    BY <1>2, <1>4, StreamOf
  <2>2. InHand = <<>> /\ InHand' = <<>>
    BY <2>1 DEF InHand
  <2>3. QED BY <1>2, <1>3, <2>2
<1>5. CASE Clean /\ ReadMessage
  <2> DEFINE k == Done
             m == k + 1
  <2>1. /\ m \in Messages /\ Done' = m /\ end[m] <= received /\ m \in Numbers
    BY <1>1, <1>5, ReadDecodesNext DEF DecodesNext
  <2>2. Phase = "open" /\ at' = "loop"
    BY <1>1, <1>5, StreamOf DEF ReadMessage
  <2>3. InHand = Run(k, u) /\ InHand' = Run(m, u)
    BY <1>1, <1>2, <2>1, <2>2 DEF InHand, Run
  <2>4. k \in Nat /\ u \in Nat /\ k < u
    <3>1. k \in Messages /\ LastIn(u, received)
      BY <1>1, <1>5, UptoType DEF NothingLostOrRepeated
    <3> HIDE DEF k, u
    <3>2. m <= u
      BY <2>1, <3>1 DEF LastIn
    <3>3. QED BY <3>1, <3>2 DEF LastIn, Messages
  <2> HIDE DEF k, u
  <2>5. Run(k, u) # <<>> /\ Tail(Run(k, u)) = Run(m, u)
    BY <2>4, RunTail
  <2>6. QED BY <1>2, <1>3, <2>3, <2>5 DEF Stream!Decode
<1>6. CASE Clean /\ EndRead
  <2> DEFINE k == Done
  <2>1. k \in Messages /\ end[k] <= received
    BY <1>5, <1>6 DEF FramingInv, NothingLostOrRepeated
  <2>2. NoEnd(end[k], received)
    BY <1>1, <1>6, EndReadNoEnd
  <2>3. u = k
    BY <1>1, <2>1, <2>2, UptoNoEnd
  <2>4. k \in Nat
    BY <2>1 DEF Messages
  <2>5. InHand = <<>>
    <3>1. InHand = Run(k, u)
      BY <1>1, <1>6, StreamOf
    <3>2. QED BY <2>3, <2>4, <3>1, RunEmpty
  <2>6. InHand' = <<>>
    BY <1>6 DEF EndRead, InHand
  <2>7. QED BY <1>2, <1>3, <2>5, <2>6
<1>7. QED BY <1>4, <1>5, <1>6

\* An exception loses the stream, unless it was lost before.
LEMMA ThrowStreams ==
  ASSUME FramingInv, ReadThrows
  PROVE  Stream!Lose \/ UNCHANGED <<Phase, Coming, InHand>>
<1>1. /\ isLoggedIn /\ isLoggedIn' /\ throws' # 0 /\ at' # "loop"
  <2>1. throws \in Nat /\ throws' = throws + 1
    BY DEF FramingInv, FramingTypeOK, ReadThrows, Throw
  <2>2. QED BY <2>1 DEF FramingInv, FramingTypeOK, BeforeLogin, ReadThrows, Throw
<1>2. Phase' = "lost" /\ Coming' = <<>> /\ InHand' = <<>>
  BY <1>1 DEF Phase, Clean, Coming, InHand
<1>3. CASE Phase = "lost"
  BY <1>2, <1>3, StreamOf
<1>4. CASE Phase # "lost"
  BY <1>2, <1>4 DEF Stream!Lose
<1>5. QED BY <1>3, <1>4

\* A step is one of the stream of responses, or none.
LEMMA StreamStep == FramingInv /\ [FramingNext]_vars => [Stream!StreamNext]_Stream!streamVars
<1> SUFFICES ASSUME FramingInv, [FramingNext]_vars
             PROVE  Stream!StreamNext \/ UNCHANGED <<Phase, Coming, InHand>>
  BY DEF Stream!streamVars
<1>1. CASE \E n \in 1 .. Total - received : ReadLogin(n)
  BY <1>1, LoginStreams DEF Stream!StreamNext
<1>2. CASE \E n \in 1 .. Total - received : ReadChunk(n)
  BY <1>2, ChunkStreams DEF Stream!StreamNext
<1>3. CASE ReadMessage \/ EndRead
  BY <1>3, LoopStreams DEF Stream!StreamNext
<1>4. CASE ReadThrows
  BY <1>4, ThrowStreams DEF Stream!StreamNext
<1>5. CASE UNCHANGED vars
  BY <1>5
  DEF vars, Phase, Clean, Coming, InHand, Upto, Done, Dropped, Messages, Run
<1>6. QED BY <1>1, <1>2, <1>3, <1>4, <1>5 DEF FramingNext

\* However the bytes are cut, onRead sees a stream of whole responses, each once and in
\* order, until an exception or a mangled login result loses it: what ResponseStream says
\* and VoltConnection implements.
THEOREM FramingImplementsStream == FramingSpec => ImplementsStream
<1>1. FramingInit => Stream!StreamInit
  <2> SUFFICES ASSUME FramingInit PROVE Stream!StreamInit
    OBVIOUS
  <2>1. FramingInv /\ received = 0 /\ end \in Layouts
    BY FramingBegins DEF FramingInit
  <2>2. Phase = "login" /\ InHand = <<>> /\ Coming = Run(Upto(received), Responses)
    BY DEF FramingInit, Phase, InHand, Coming
  <2>3. Coming \in Seq(Numbers)
    <3>1. Upto(received) = 0
      BY <2>1, UptoNothing
    <3>2. 0 \in Messages /\ Responses \in Messages /\ 0 <= Responses
      BY <2>1, Sizes DEF Messages
    <3>3. Run(0, Responses) \in Seq(Numbers)
      BY <3>2, RunNumbers
    <3>4. QED BY <2>2, <3>1, <3>3
  <2>4. QED BY <2>2, <2>3 DEF Stream!StreamInit
<1>2. QED
  BY <1>1, StreamStep, FramingInvariant, PTL
  DEF FramingSpec, ImplementsStream, Stream!StreamSpec

=============================================================================
