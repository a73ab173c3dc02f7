---------------------------- MODULE CodecProofs ----------------------------
(***************************************************************************)
(* Numbers and values as bytes, at any width.  The integers of lib/ctio.js *)
(* come first: the bytes that a writer puts on the wire are read back as   *)
(* the number written; and what becomes of a number the writers let        *)
(* through although it is out of range.  Then lib/parser.js: whatever it   *)
(* accepts becomes bytes, an array of any depth included, and integers,    *)
(* strings and null are read where they were written.  The recursive       *)
(* functions run over intervals, so that each lemma about them is an       *)
(* induction over a set of numbers.                                        *)
(***************************************************************************)
EXTENDS ValueCodec, DataLemmas

-----------------------------------------------------------------------------
(* Powers and division *)

\* A table of powers exists, and the one the module speaks of is it.
LEMMA PowersRecursion ==
  ASSUME NEW base, NEW n \in Nat
  PROVE  /\ Powers(base, n)[0] = 1
         /\ \A k \in 1 .. n : Powers(base, n)[k] = base * Powers(base, n)[k - 1]
<1> DEFINE R(m, f) == f = [k \in 0 .. m |-> IF k = 0 THEN 1 ELSE base * f[k - 1]]
           S == {m \in Nat : \E f : R(m, f)}
<1>1. 0 \in S
  <2>1. R(0, [k \in 0 .. 0 |-> 1])
    OBVIOUS
  <2>2. QED BY <2>1
<1>2. ASSUME NEW m \in S PROVE m + 1 \in S
  <2>1. PICK f : R(m, f)
    OBVIOUS
  <2> DEFINE g == [k \in 0 .. m + 1 |-> IF k = m + 1 THEN base * f[m] ELSE f[k]]
  <2>2. ASSUME NEW k \in 0 .. m + 1
        PROVE  g[k] = IF k = 0 THEN 1 ELSE base * g[k - 1]
    <3>1. CASE k = m + 1
      BY <3>1
    <3>2. CASE k # m + 1
      <4>1. k \in 0 .. m /\ g[k] = f[k]
        BY <3>2
      <4>2. f[k] = IF k = 0 THEN 1 ELSE base * f[k - 1]
        BY <2>1, <4>1
      <4>3. k # 0 => g[k - 1] = f[k - 1]
        BY <4>1
      <4>4. QED BY <4>1, <4>2, <4>3
    <3>3. QED BY <3>1, <3>2
  <2>3. R(m + 1, g)
    BY <2>2
  <2> HIDE DEF R
  <2>4. QED BY <2>3
<1>3. S = Nat
  <2>1. S \in SUBSET Nat
    OBVIOUS
  <2> HIDE DEF S
  <2>2. QED BY <1>1, <1>2, <2>1, SetInduction
<1>4. \E f : R(n, f)
  BY <1>3
<1>5. R(n, Powers(base, n))
  BY <1>4 DEF Powers
<1>6. QED BY <1>5

\* The powers of a number, each from the one before: tables of different lengths
\* agree.
LEMMA PowerRecursion ==
  ASSUME NEW base
  PROVE  /\ Power(base, 0) = 1
         /\ \A n \in Nat : Power(base, n + 1) = base * Power(base, n)
<1>1. Power(base, 0) = 1
  BY PowersRecursion DEF Power
<1>2. ASSUME NEW n \in Nat PROVE Power(base, n + 1) = base * Power(base, n)
  <2> DEFINE f == Powers(base, n)
             g == Powers(base, n + 1)
             S == {i \in Nat : i <= n => f[i] = g[i]}
  <2>1. f[0] = 1 /\ \A k \in 1 .. n : f[k] = base * f[k - 1]
    BY PowersRecursion
  <2>2. g[0] = 1 /\ \A k \in 1 .. n + 1 : g[k] = base * g[k - 1]
    <3>1. n + 1 \in Nat
      OBVIOUS
    <3>2. QED BY <3>1, PowersRecursion
  <2> HIDE DEF f, g
  <2>3. 0 \in S
    BY <2>1, <2>2
  <2>4. ASSUME NEW i \in S PROVE i + 1 \in S
    <3>1. CASE i + 1 <= n
      <4>1. i + 1 \in 1 .. n /\ i + 1 \in 1 .. n + 1 /\ i + 1 - 1 = i /\ f[i] = g[i]
        BY <3>1
      <4>2. QED BY <2>1, <2>2, <4>1
    <3>2. CASE ~(i + 1 <= n)
      BY <3>2
    <3>3. QED BY <3>1, <3>2
  <2>5. S = Nat
    <3>1. S \in SUBSET Nat
      OBVIOUS
    <3> HIDE DEF S
    <3>2. QED BY <2>3, <2>4, <3>1, SetInduction
  <2>6. f[n] = g[n] /\ n + 1 \in 1 .. n + 1 /\ n + 1 - 1 = n
    BY <2>5
  <2>7. g[n + 1] = base * f[n]
    BY <2>2, <2>6
  <2>8. QED BY <2>7 DEF Power, f, g
<1>3. QED BY <1>1, <1>2

\* The quotient and the remainder, and that no other pair of numbers is them.
LEMMA Division ==
  ASSUME NEW n \in Nat, NEW d \in Nat \ {0}
  PROVE  n \div d \in Nat /\ n % d \in 0 .. d - 1 /\ n = d * (n \div d) + (n % d)
OBVIOUS

\* The same for a negative number, except that nothing is multiplied.
LEMMA DivisionOfInteger ==
  ASSUME NEW n \in Int, NEW d \in Nat \ {0}
  PROVE  n \div d \in Int /\ n % d \in 0 .. d - 1
OBVIOUS

\* No other pair of numbers is the quotient and the remainder.
LEMMA DivUnique ==
  ASSUME NEW n \in Nat, NEW d \in Nat \ {0}, NEW q \in Nat, NEW r \in 0 .. d - 1, n = d * q + r
  PROVE  n \div d = q /\ n % d = r
OBVIOUS

\* Dividing twice.
LEMMA DivTwice ==
  ASSUME NEW n \in Nat, NEW d \in Nat \ {0}, NEW b \in Nat \ {0}, NEW c, c = b * d
  PROVE  n \div c = (n \div d) \div b
<1> DEFINE q == n \div d
           r == n % d
           x == q \div b
           y == q % b
<1>1. q \in Nat /\ r \in 0 .. d - 1 /\ n = d * q + r
  BY Division
<1> HIDE DEF q, r
<1>2. x \in Nat /\ y \in 0 .. b - 1 /\ q = b * x + y
  BY <1>1, Division
<1> HIDE DEF x, y
<1>3. d * q = (b * d) * x + d * y
  <2>1. d * (b * x + y) = (b * d) * x + d * y
    BY <1>2
  <2>2. QED BY <1>2, <2>1
<1>4. d * y + r \in 0 .. b * d - 1
  <2>1. d * y \in Nat /\ d * (b - 1) = b * d - d
    BY <1>2
  <2>2. d * y <= d * (b - 1)
    BY <1>2
  <2>3. QED BY <1>1, <2>1, <2>2
<1>5. n = (b * d) * x + (d * y + r)
  BY <1>1, <1>2, <1>3
<1>6. b * d \in Nat \ {0}
  OBVIOUS
<1>7. n \div c = x
  <2> DEFINE s == d * y + r
  <2>1. c \in Nat \ {0} /\ s \in 0 .. c - 1 /\ n = c * x + s
    BY <1>4, <1>5, <1>6
  <2> HIDE DEF s
  <2>2. QED BY <1>2, <2>1, DivUnique
<1>8. QED BY <1>7 DEF x, q

\* No power is zero: what shifting a byte into its place divides by.
LEMMA PowerType ==
  ASSUME NEW base \in Nat \ {0}, NEW n \in Nat
  PROVE  Power(base, n) \in Nat \ {0}
<1> DEFINE S == {i \in Nat : Power(base, i) \in Nat \ {0}}
<1>1. 0 \in S
  BY PowerRecursion
<1>2. ASSUME NEW i \in S PROVE i + 1 \in S
  <2>1. Power(base, i + 1) = base * Power(base, i)
    BY PowerRecursion
  <2>2. QED BY <2>1
<1>3. S = Nat
  <2>1. S \in SUBSET Nat
    OBVIOUS
  <2> HIDE DEF S
  <2>2. QED BY <1>1, <1>2, <2>1, SetInduction
<1>4. QED BY <1>3

\* The powers of a number grow, and beyond every number.
LEMMA PowerMonotone ==
  ASSUME NEW base \in Nat \ {0}, NEW m \in Nat, NEW n \in Nat, m <= n
  PROVE  Power(base, m) <= Power(base, n)
<1> DEFINE S == {i \in Nat : Power(base, m) <= Power(base, m + i)}
<1>1. 0 \in S
  <2>1. m + 0 = m /\ Power(base, m) \in Nat
    BY PowerType
  <2>2. QED BY <2>1
<1>2. ASSUME NEW i \in S PROVE i + 1 \in S
  <2> DEFINE p == Power(base, m + i)
             q == Power(base, m)
  <2>1. m + (i + 1) = m + i + 1 /\ m + i \in Nat
    OBVIOUS
  <2>2. p \in Nat /\ q \in Nat /\ q <= p
    BY <2>1, PowerType
  <2>3. Power(base, m + (i + 1)) = base * p
    BY <2>1, PowerRecursion
  <2> HIDE DEF p, q
  <2>4. base * p >= p /\ base * p \in Nat
    BY <2>2
  <2>5. q <= Power(base, m + (i + 1))
    BY <2>2, <2>3, <2>4
  <2>6. i + 1 \in Nat
    OBVIOUS
  <2>7. QED BY <2>5, <2>6 DEF q
<1>3. S = Nat
  <2>1. S \in SUBSET Nat
    OBVIOUS
  <2> HIDE DEF S
  <2>2. QED BY <1>1, <1>2, <2>1, SetInduction
<1>4. n - m \in Nat /\ m + (n - m) = n
  OBVIOUS
<1>5. n - m \in S
  <2> HIDE DEF S
  <2>1. QED BY <1>3, <1>4
<1>6. Power(base, m) <= Power(base, m + (n - m))
  BY <1>5
<1>7. QED BY <1>4, <1>6

\* The powers of a number pass every number.
LEMMA PowerExceeds ==
  ASSUME NEW base \in Nat, base > 1, NEW n \in Nat
  PROVE  n < Power(base, n)
<1> DEFINE S == {i \in Nat : i < Power(base, i)}
<1>1. 0 \in S
  BY PowerRecursion
<1>2. ASSUME NEW i \in S PROVE i + 1 \in S
  <2> DEFINE p == Power(base, i)
  <2>1. p \in Nat /\ i < p /\ Power(base, i + 1) = base * p
    BY PowerType, PowerRecursion
  <2> HIDE DEF p
  <2>2. base * p >= 2 * p
    BY <2>1
  <2>3. base * p \in Nat
    BY <2>1
  <2>4. i + 1 < base * p
    BY <2>1, <2>2, <2>3
  <2>5. QED BY <2>1, <2>4
<1>3. S = Nat
  <2>1. S \in SUBSET Nat
    OBVIOUS
  <2> HIDE DEF S
  <2>2. QED BY <1>1, <1>2, <2>1, SetInduction
<1>4. QED BY <1>3

-----------------------------------------------------------------------------
(* Digits *)

\* What digits amount to, one after the other.
LEMMA AmountsRecursion ==
  ASSUME NEW base, NEW digits, Len(digits) \in Nat
  PROVE  /\ Amounts(base, digits)[0] = 0
         /\ \A k \in 1 .. Len(digits) :
              Amounts(base, digits)[k] = base * Amounts(base, digits)[k - 1] + digits[k]
<1> DEFINE R(m, f) == f = [k \in 0 .. m |-> IF k = 0 THEN 0 ELSE base * f[k - 1] + digits[k]]
           S == {m \in Nat : \E f : R(m, f)}
           n == Len(digits)
<1>1. 0 \in S
  <2>1. R(0, [k \in 0 .. 0 |-> 0])
    OBVIOUS
  <2>2. QED BY <2>1
<1>2. ASSUME NEW m \in S PROVE m + 1 \in S
  <2>1. PICK f : R(m, f)
    OBVIOUS
  <2> DEFINE g == [k \in 0 .. m + 1 |-> IF k = m + 1 THEN base * f[m] + digits[k] ELSE f[k]]
  <2>2. ASSUME NEW k \in 0 .. m + 1
        PROVE  g[k] = IF k = 0 THEN 0 ELSE base * g[k - 1] + digits[k]
    <3>1. CASE k = m + 1
      BY <3>1
    <3>2. CASE k # m + 1
      <4>1. k \in 0 .. m /\ g[k] = f[k]
        BY <3>2
      <4>2. f[k] = IF k = 0 THEN 0 ELSE base * f[k - 1] + digits[k]
        BY <2>1, <4>1
      <4>3. k # 0 => g[k - 1] = f[k - 1]
        BY <4>1
      <4>4. QED BY <4>1, <4>2, <4>3
    <3>3. QED BY <3>1, <3>2
  <2>3. R(m + 1, g)
    BY <2>2
  <2> HIDE DEF R
  <2>4. QED BY <2>3
<1>3. S = Nat
  <2>1. S \in SUBSET Nat
    OBVIOUS
  <2> HIDE DEF S
  <2>2. QED BY <1>1, <1>2, <2>1, SetInduction
<1>4. \E f : R(n, f)
  BY <1>3
<1>5. R(n, Amounts(base, digits))
  BY <1>4 DEF Amounts
<1>6. QED BY <1>5

\* Digits amount to an integer, and so do the first of them.
LEMMA AmountType ==
  ASSUME NEW base \in Int, NEW digits \in Seq(Int)
  PROVE  /\ Amount(base, digits) \in Int
         /\ \A k \in 0 .. Len(digits) : Amounts(base, digits)[k] \in Int
<1> DEFINE a == Amounts(base, digits)
           n == Len(digits)
           S == {i \in Nat : i <= n => a[i] \in Int}
<1>1. n \in Nat /\ \A k \in 1 .. n : digits[k] \in Int
  BY LenProperties, ElementOfSeq
<1>2. a[0] = 0 /\ \A k \in 1 .. n : a[k] = base * a[k - 1] + digits[k]
  BY <1>1, AmountsRecursion
<1> HIDE DEF a, n
<1>3. 0 \in S
  BY <1>2
<1>4. ASSUME NEW i \in S PROVE i + 1 \in S
  <2>1. CASE i + 1 <= n
    <3>1. i + 1 \in 1 .. n /\ i + 1 - 1 = i /\ a[i] \in Int
      BY <1>1, <2>1
    <3>2. a[i + 1] = base * a[i] + digits[i + 1] /\ digits[i + 1] \in Int
      BY <1>1, <1>2, <3>1
    <3>3. QED BY <3>1, <3>2
  <2>2. CASE ~(i + 1 <= n)
    BY <2>2
  <2>3. QED BY <2>1, <2>2
<1>5. S = Nat
  <2>1. S \in SUBSET Nat
    OBVIOUS
  <2> HIDE DEF S
  <2>2. QED BY <1>3, <1>4, <2>1, SetInduction
<1>6. a[n] \in Int /\ \A k \in 0 .. n : a[k] \in Int
  BY <1>1, <1>5
<1>7. QED BY <1>6 DEF Amount, a, n

\* A number has as many digits as are asked for, whether it is negative or not.
LEMMA DigitsType ==
  ASSUME NEW base \in Nat \ {0}, NEW n \in Nat, NEW val \in Int
  PROVE  /\ Digits(base, val, n) \in Seq(0 .. base - 1) /\ Len(Digits(base, val, n)) = n
         /\ \A k \in 1 .. n : Digits(base, val, n)[k] = (val \div Power(base, n - k)) % base
<1>1. ASSUME NEW k \in 1 .. n PROVE (val \div Power(base, n - k)) % base \in 0 .. base - 1
  <2>1. n - k \in Nat
    OBVIOUS
  <2>2. Power(base, n - k) \in Nat \ {0}
    BY <2>1, PowerType
  <2>3. val \div Power(base, n - k) \in Int
    BY <2>2, DivisionOfInteger
  <2>4. QED BY <2>3, DivisionOfInteger
<1>2. Digits(base, val, n) \in [1 .. n -> 0 .. base - 1]
  BY <1>1 DEF Digits
<1>3. Digits(base, val, n) \in Seq(0 .. base - 1)
  BY <1>2, SeqDef
<1>4. DOMAIN Digits(base, val, n) = 1 .. n
  BY DEF Digits
<1>5. Len(Digits(base, val, n)) = n
  BY <1>3, <1>4, LenProperties
<1>6. QED BY <1>3, <1>5 DEF Digits

\* The last n digits of a number and what is in front of them amount to it: after
\* k of them one has the number without its n - k lowest digits.
LEMMA LastDigits ==
  ASSUME NEW base \in Nat \ {0}, NEW n \in Nat, NEW val \in Nat
  PROVE  val = (val \div Power(base, n)) * Power(base, n) + Amount(base, Digits(base, val, n))
<1> DEFINE w == Digits(base, val, n)
           a == Amounts(base, w)
           x == val \div Power(base, n)
           S == {k \in Nat : k <= n => x * Power(base, k) + a[k] = val \div Power(base, n - k)}
<1>1. Power(base, n) \in Nat \ {0} /\ x \in Nat
  BY PowerType, Division
<1>2. Len(w) = n /\ w \in Seq(Int) /\ \A k \in 1 .. n : w[k] = (val \div Power(base, n - k)) % base
  <2>1. w \in Seq(0 .. base - 1) /\ Len(w) = n
        /\ \A k \in 1 .. n : w[k] = (val \div Power(base, n - k)) % base
    BY DigitsType
  <2>2. 0 .. base - 1 \subseteq Int
    OBVIOUS
  <2> HIDE DEF w
  <2>3. QED BY <2>1, <2>2, SeqMonotonic
<1>3. a[0] = 0 /\ \A k \in 1 .. n : a[k] = base * a[k - 1] + w[k]
  <2> HIDE DEF w
  <2>1. QED BY <1>2, AmountsRecursion
<1>4. \A k \in 0 .. n : a[k] \in Int
  <2> HIDE DEF w
  <2>1. QED BY <1>2, AmountType
<1> HIDE DEF w, a, x
<1>5. 0 \in S
  <2>1. Power(base, 0) = 1 /\ n - 0 = n
    BY PowerRecursion
  <2>2. QED BY <1>1, <1>3, <2>1 DEF x
<1>6. ASSUME NEW i \in S PROVE i + 1 \in S
  <2>1. CASE i + 1 <= n
    <3> DEFINE k == i + 1
               d == Power(base, n - k)
               q == val \div d
               p == Power(base, i)
    <3>1. k \in 1 .. n /\ k - 1 = i /\ n - i = n - k + 1 /\ n - k \in Nat /\ i \in 0 .. n
      BY <2>1
    <3>2. d \in Nat \ {0} /\ p \in Nat
      BY <3>1, PowerType
    <3>3. Power(base, n - i) = base * d /\ Power(base, i + 1) = base * p
      <4> HIDE DEF k
      <4>1. QED BY <3>1, PowerRecursion
    <3>4. x * p + a[i] = val \div Power(base, n - i)
      BY <2>1
    <3> HIDE DEF k, d, p
    <3>5. val \div Power(base, n - i) = q \div base
      BY <3>2, <3>3, DivTwice
    <3>6. q \in Nat
      BY <3>2, Division
    <3>7. w[k] = q % base /\ a[k] = base * a[i] + w[k] /\ a[i] \in Int
      BY <1>2, <1>3, <1>4, <3>1 DEF d
    <3> HIDE DEF q
    <3>8. q = base * (q \div base) + (q % base)
      BY <3>6, Division
    <3>9. base * (x * p + a[i]) = x * (base * p) + base * a[i]
      BY <1>1, <3>2, <3>7
    <3>10. x * (base * p) + a[k] = q
      <4> DEFINE y == x * (base * p)
                 z == q \div base
      <4>1. y \in Int /\ z \in Int /\ x * p + a[i] = z
        BY <1>1, <3>2, <3>4, <3>5, <3>6, DivisionOfInteger
      <4>2. base * z = y + base * a[i]
        BY <3>9, <4>1
      <4> HIDE DEF y, z
      <4>3. q = base * z + (q % base)
        BY <3>8 DEF z
      <4>4. q % base \in Int /\ base * a[i] \in Int
        BY <3>6, <3>7, DivisionOfInteger
      <4>5. y + a[k] = q
        BY <3>7, <4>1, <4>2, <4>3, <4>4
      <4>6. QED BY <4>5 DEF y
    <3>11. QED BY <3>1, <3>3, <3>10 DEF q, d, k
  <2>2. CASE ~(i + 1 <= n)
    BY <2>2
  <2>3. QED BY <2>1, <2>2
<1>7. S = Nat
  <2>1. S \in SUBSET Nat
    OBVIOUS
  <2> HIDE DEF S
  <2>2. QED BY <1>5, <1>6, <2>1, SetInduction
<1>8. x * Power(base, n) + a[n] = val \div Power(base, 0)
  <2>1. n \in S /\ n <= n /\ n - n = 0
    BY <1>7
  <2>2. QED BY <2>1
<1>9. Power(base, 0) = 1
  BY PowerRecursion
<1>10. x * Power(base, n) + a[n] = val
  BY <1>8, <1>9
<1>11. QED BY <1>2, <1>10 DEF Amount, w, a, x

\* The n digits of a number that has no more amount to it.
LEMMA DigitsRoundTrip ==
  ASSUME NEW base \in Nat \ {0}, NEW n \in Nat, NEW val \in 0 .. Power(base, n) - 1
  PROVE  Amount(base, Digits(base, val, n)) = val
<1> DEFINE d == Power(base, n)
           a == Amount(base, Digits(base, val, n))
<1>1. val \in Nat /\ d \in Nat \ {0} /\ val \in 0 .. d - 1
  BY PowerType
<1>2. val = (val \div d) * d + a
  BY <1>1, LastDigits
<1>3. a \in Int
  <2>1. Digits(base, val, n) \in Seq(0 .. base - 1) /\ 0 .. base - 1 \subseteq Int
    BY <1>1, DigitsType
  <2>2. Digits(base, val, n) \in Seq(Int)
    BY <2>1, SeqMonotonic
  <2>3. QED BY <2>2, AmountType
<1> HIDE DEF d, a
<1>4. val \div d = 0
  <2>1. val = d * 0 + val
    BY <1>1
  <2>2. QED BY <1>1, <2>1, DivUnique
<1>5. a = val
  BY <1>1, <1>2, <1>3, <1>4
<1>6. QED BY <1>5 DEF a

-----------------------------------------------------------------------------
(* Two's complement *)

\* A capacity as the widths have it, an even number of bit patterns.
IsCapacity(c) == c \in Nat \ {0} /\ c % 16 = 0

\* Every width in bytes has such a capacity.
LEMMA WidthsHaveCapacity ==
  ASSUME NEW n \in Nat \ {0}
  PROVE  IsCapacity(Capacity(n))
<1> DEFINE p == Power(Base, n - 1)
<1>1. n - 1 \in Nat /\ n = n - 1 + 1 /\ Base \in Nat \ {0}
  BY NumberConstants
<1>2. p \in Nat \ {0}
  BY <1>1, PowerType
<1>3. Capacity(n) = Base * p
  BY <1>1, PowerRecursion DEF Capacity
<1> HIDE DEF p
<1>4. PICK h \in Nat : Base = 16 * h /\ h > 0
  <2>1. Base = 16 * (Base \div 16) + (Base % 16) /\ Base \div 16 \in Nat
    BY NumberConstants
  <2>2. QED BY <2>1, NumberConstants
<1>5. h * p \in Nat \ {0}
  BY <1>2, <1>4
<1>6. Base * p = 16 * (h * p)
  BY <1>2, <1>4
<1> DEFINE x == h * p
<1> HIDE DEF x
<1>7. (16 * x) % 16 = 0 /\ 16 * x \in Nat \ {0}
  BY <1>5 DEF x
<1>8. QED BY <1>3, <1>6, <1>7 DEF IsCapacity, x

\* A number in the range of an integer type is accepted by its writer, gets a
\* pattern of its width, and comes out of the pattern again: both ends of the
\* range, and the sign that readers and writers compute by subtracting in
\* opposite directions.
LEMMA PatternRoundTrip ==
  ASSUME NEW c, IsCapacity(c), NEW v \in -(c \div 2) .. c \div 2 - 1
  PROVE  /\ Prepared(v, c)
         /\ UnsignedOf(v, c) \in 0 .. c - 1
         /\ SignedOf(UnsignedOf(v, c), c) = v
<1>1. PICK h \in Nat : c = 16 * h /\ h > 0
  <2>1. c = 16 * (c \div 16) + (c % 16) /\ c \div 16 \in Nat
    BY DEF IsCapacity
  <2>2. QED BY <2>1 DEF IsCapacity
<1>2. c \div 2 = 8 * h /\ c \div 16 = h
  BY <1>1
<1>3. v \in Int /\ -(8 * h) <= v /\ v <= 8 * h - 1
  BY <1>1, <1>2
<1>4. Prepared(v, c)
  BY <1>1, <1>2, <1>3 DEF Prepared
<1>5. CASE v >= 0
  BY <1>1, <1>2, <1>3, <1>4, <1>5 DEF UnsignedOf, SignedOf
<1>6. CASE ~(v >= 0)
  BY <1>1, <1>2, <1>3, <1>4, <1>6 DEF UnsignedOf, SignedOf
<1>7. QED BY <1>5, <1>6

\* A number below the range that the writer lets through gets a pattern too, that
\* of another number.
LEMMA PatternWraps ==
  ASSUME NEW c, IsCapacity(c), NEW v \in Int, v < -(c \div 2), Prepared(v, c)
  PROVE  /\ UnsignedOf(v, c) \in 0 .. c - 1
         /\ SignedOf(UnsignedOf(v, c), c) = v + c
         /\ v + c >= 0
<1>1. PICK h \in Nat : c = 16 * h /\ h > 0
  <2>1. c = 16 * (c \div 16) + (c % 16) /\ c \div 16 \in Nat
    BY DEF IsCapacity
  <2>2. QED BY <2>1 DEF IsCapacity
<1>2. c \div 2 = 8 * h /\ c \div 16 = h
  BY <1>1
<1>3. -(15 * h) <= v /\ v < -(8 * h)
  BY <1>1, <1>2 DEF Prepared
<1>4. UnsignedOf(v, c) = c + v
  BY <1>1, <1>3 DEF UnsignedOf
<1>5. QED BY <1>1, <1>2, <1>3, <1>4 DEF SignedOf

\* Every integer, in range or not, is written in the bytes of its type.
LEMMA SignedType ==
  ASSUME NEW n \in Nat \ {0}, NEW v \in Int
  PROVE  WriteSigned(v, n) \in Seq(0 .. Base - 1) /\ Len(WriteSigned(v, n)) = n
<1> DEFINE u == UnsignedOf(v, Capacity(n))
<1>1. Capacity(n) \in Nat
  BY WidthsHaveCapacity DEF IsCapacity
<1>2. u \in Int /\ n \in Nat /\ Base \in Nat \ {0}
  BY <1>1, NumberConstants DEF UnsignedOf
<1> HIDE DEF u
<1>3. Digits(Base, u, n) \in Seq(0 .. Base - 1) /\ Len(Digits(Base, u, n)) = n
  BY <1>2, DigitsType
<1>4. QED BY <1>3 DEF WriteSigned, WriteUnsigned, u

\* The bytes of a number whose pattern has their width are as many as the width
\* says, and are read as what the pattern means.
LEMMA SignedBytes ==
  ASSUME NEW n \in Nat \ {0}, NEW v \in Int, UnsignedOf(v, Capacity(n)) \in 0 .. Capacity(n) - 1
  PROVE  /\ WriteSigned(v, n) \in Seq(0 .. Base - 1) /\ Len(WriteSigned(v, n)) = n
         /\ ReadSigned(WriteSigned(v, n)) = SignedOf(UnsignedOf(v, Capacity(n)), Capacity(n))
<1> DEFINE c == Capacity(n)
           u == UnsignedOf(v, c)
<1>1. c \in Nat
  BY WidthsHaveCapacity DEF IsCapacity
<1>2. u \in Nat /\ u \in 0 .. c - 1 /\ n \in Nat
  BY <1>1
<1>3. WriteSigned(v, n) = WriteUnsigned(u, n)
  BY DEF WriteSigned
<1>4. Base \in Nat \ {0} /\ u \in Int /\ u \in 0 .. Power(Base, n) - 1
  BY <1>2, NumberConstants DEF Capacity
<1> HIDE DEF u
<1>5. WriteUnsigned(u, n) \in Seq(0 .. Base - 1) /\ Len(WriteUnsigned(u, n)) = n
  BY <1>2, <1>4, DigitsType DEF WriteUnsigned
<1>6. ReadUnsigned(WriteUnsigned(u, n)) = u
  BY <1>2, <1>4, DigitsRoundTrip DEF WriteUnsigned, ReadUnsigned
<1>7. QED BY <1>3, <1>5, <1>6 DEF ReadSigned, u

\* wsint8, wsint16, wsint32 and rsint8, rsint16, rsint32: each number in the range
\* of an integer type is accepted, is written in exactly the bytes of its type,
\* and is read back from them.
THEOREM SignedRoundTrip ==
  ASSUME NEW n \in Nat \ {0}, NEW v \in -(Capacity(n) \div 2) .. Capacity(n) \div 2 - 1
  PROVE  /\ Prepared(v, Capacity(n))
         /\ WriteSigned(v, n) \in Seq(0 .. Base - 1) /\ Len(WriteSigned(v, n)) = n
         /\ ReadSigned(WriteSigned(v, n)) = v
<1> DEFINE c == Capacity(n)
<1>1. IsCapacity(c) /\ v \in -(c \div 2) .. c \div 2 - 1
  BY WidthsHaveCapacity
<1>2. v \in Int
  BY <1>1 DEF IsCapacity
<1> HIDE DEF c
<1>3. Prepared(v, c) /\ UnsignedOf(v, c) \in 0 .. c - 1 /\ SignedOf(UnsignedOf(v, c), c) = v
  BY <1>1, PatternRoundTrip
<1>4. QED BY <1>2, <1>3, SignedBytes DEF c

\* The lower bounds that wsint8, wsint16 and wsint32 give prepsint are too low:
\* every number they let through below the range of its type is written in the
\* bytes of the type, so that nothing throws, and is read back as another number,
\* which is not negative.
THEOREM BelowRangeWraps ==
  ASSUME NEW n \in Nat \ {0}, NEW v \in Int, v < -(Capacity(n) \div 2), Prepared(v, Capacity(n))
  PROVE  /\ WriteSigned(v, n) \in Seq(0 .. Base - 1) /\ Len(WriteSigned(v, n)) = n
         /\ ReadSigned(WriteSigned(v, n)) = v + Capacity(n)
         /\ v + Capacity(n) >= 0
<1> DEFINE c == Capacity(n)
<1>1. IsCapacity(c) /\ v < -(c \div 2) /\ Prepared(v, c)
  BY WidthsHaveCapacity
<1> HIDE DEF c
<1>2. /\ UnsignedOf(v, c) \in 0 .. c - 1
      /\ SignedOf(UnsignedOf(v, c), c) = v + c
      /\ v + c >= 0
  BY <1>1, PatternWraps
<1>3. QED BY <1>2, SignedBytes DEF c

-----------------------------------------------------------------------------
(* Doubles *)

\* The constants of a double.
LEMMA DoubleConstants ==
  /\ LeastNormal \in Nat \ {0} /\ MaxExponent \in Nat /\ MaxExponent >= 3
  /\ GreatestReal \in Nat /\ GreatestReal < LeastNormal * Power(2, MaxExponent - 1)
<1>1. ExponentBits \in Nat /\ ExponentBits - 1 \in Nat /\ ExponentBits - 2 \in Nat /\ MantissaBits \in Nat
  BY NumberConstants
<1>2. LeastNormal \in Nat \ {0}
  BY <1>1, PowerType DEF LeastNormal
<1>3. MaxExponent \in Nat /\ MaxExponent >= 3
  <2> DEFINE p == Power(2, ExponentBits - 2)
  <2>1. p \in Nat \ {0}
    BY <1>1, PowerType
  <2>2. Power(2, ExponentBits - 1) = 2 * p
    <3>1. ExponentBits - 2 + 1 = ExponentBits - 1
      BY <1>1
    <3>2. QED BY <1>1, <3>1, PowerRecursion
  <2>3. Power(2, ExponentBits) = 2 * Power(2, ExponentBits - 1)
    <3>1. ExponentBits - 1 + 1 = ExponentBits
      BY <1>1
    <3>2. QED BY <1>1, <3>1, PowerRecursion
  <2> HIDE DEF p
  <2>4. QED BY <2>1, <2>2, <2>3 DEF MaxExponent
<1>4. GreatestReal \in Nat /\ GreatestReal < LeastNormal * Power(2, MaxExponent - 1)
  <2> DEFINE p == Power(2, MaxExponent - 2)
             m == LeastNormal
  <2>1. MaxExponent - 2 \in Nat /\ MaxExponent - 2 + 1 = MaxExponent - 1
    BY <1>3
  <2>2. p \in Nat \ {0}
    BY <2>1, PowerType
  <2>3. Power(2, MaxExponent - 1) = 2 * p
    BY <2>1, PowerRecursion
  <2>4. m \in Nat \ {0} /\ GreatestReal = (2 * m - 1) * p
    BY <1>2 DEF GreatestReal
  <2> HIDE DEF p, m
  <2>5. 2 * m - 1 \in Nat /\ (2 * m - 1) * p \in Nat
    BY <2>2, <2>4
  <2>6. (2 * m - 1) * p = m * (2 * p) - p
    BY <2>2, <2>4
  <2>7. m * (2 * p) \in Nat
    BY <2>2, <2>4
  <2>8. QED BY <2>2, <2>3, <2>4, <2>5, <2>6, <2>7 DEF m
<1>5. QED BY <1>2, <1>3, <1>4

\* Every normal number has an exponent.
LEMMA ExponentExists ==
  ASSUME NEW v \in LeastNormal .. GreatestReal
  PROVE  /\ ExactExponent(v) \in 1 .. MaxExponent - 1
         /\ LeastNormal * Power(2, ExactExponent(v) - 1) <= v
         /\ v < LeastNormal * Power(2, ExactExponent(v))
<1> DEFINE S == {e \in Nat : v < LeastNormal * Power(2, e)}
           least == CHOOSE k \in S : \A j \in S : k <= j
<1>1. v \in Nat /\ LeastNormal \in Nat \ {0} /\ MaxExponent - 1 \in Nat
  BY DoubleConstants
<1>2. MaxExponent - 1 \in S
  <2> DEFINE x == LeastNormal * Power(2, MaxExponent - 1)
  <2>1. Power(2, MaxExponent - 1) \in Nat
    BY <1>1, PowerType
  <2>2. x \in Nat
    BY <1>1, <2>1
  <2>3. GreatestReal < x /\ GreatestReal \in Nat
    BY DoubleConstants
  <2> HIDE DEF x
  <2>4. v < x
    BY <1>1, <2>2, <2>3
  <2>5. QED BY <1>1, <2>4 DEF x
<1>3. 0 \notin S
  <2>1. LeastNormal * Power(2, 0) = LeastNormal
    BY <1>1, PowerRecursion
  <2>2. QED BY <1>1, <2>1
<1>4. least \in S /\ \A j \in S : least <= j
  <2>1. S \in SUBSET Nat /\ S # {}
    BY <1>2
  <2> HIDE DEF S
  <2>2. QED BY <2>1, LeastChosen
<1> HIDE DEF least
<1>5. least \in 1 .. MaxExponent - 1
  <2>1. least \in Nat
    BY <1>4
  <2>2. least # 0
    BY <1>3, <1>4
  <2>3. least <= MaxExponent - 1
    BY <1>2, <1>4
  <2>4. QED BY <1>1, <2>1, <2>2, <2>3
<1>6. LeastNormal * Power(2, least - 1) <= v
  <2>1. least - 1 \in Nat /\ least - 1 \notin S
    <3>1. least - 1 \in Nat /\ ~(least <= least - 1)
      BY <1>5
    <3> HIDE DEF S
    <3>2. QED BY <1>4, <3>1
  <2>2. Power(2, least - 1) \in Nat
    BY <2>1, PowerType
  <2> DEFINE x == LeastNormal * Power(2, least - 1)
  <2>3. x \in Nat
    BY <1>1, <2>2
  <2>4. ~(v < x)
    BY <2>1
  <2> HIDE DEF x
  <2>5. x <= v
    BY <1>1, <2>3, <2>4
  <2>6. QED BY <2>5 DEF x
<1>7. v < LeastNormal * Power(2, least)
  BY <1>4
<1>8. \E e \in 1 .. MaxExponent - 1 : LeastNormal * Power(2, e - 1) <= v /\ v < LeastNormal * Power(2, e)
  BY <1>5, <1>6, <1>7
<1>9. QED BY <1>8 DEF ExactExponent

\* How far a normal number is from the powers of two on either side.
LEMMA SignificandType ==
  ASSUME NEW v \in LeastNormal .. GreatestReal
  PROVE  AbovePower(v) \in Nat /\ BelowPower(v) \in Nat \ {0}
<1> DEFINE x == ExactExponent(v)
           L == LeastNormal
           p == Power(2, x - 1)
           q == v \div p
           r == v % p
<1>1. v \in Nat /\ L \in Nat \ {0} /\ MaxExponent \in Nat
  BY DoubleConstants
<1>2. x \in 1 .. MaxExponent - 1 /\ L * Power(2, x - 1) <= v /\ v < L * Power(2, x)
  BY ExponentExists
<1> HIDE DEF x
<1>3. x - 1 \in Nat /\ x - 1 + 1 = x
  BY <1>1, <1>2
<1>4. p \in Nat \ {0} /\ Power(2, x - 1 + 1) = 2 * Power(2, x - 1)
  BY <1>3, PowerType, PowerRecursion
<1>5. L * p <= v /\ v < L * (2 * p)
  BY <1>2, <1>3, <1>4
<1> HIDE DEF p, L
<1>6. q \in Nat /\ r \in 0 .. p - 1 /\ v = p * q + r
  BY <1>1, <1>4, Division
<1> HIDE DEF q, r
<1>7. L <= q
  <2>1. SUFFICES ASSUME q + 1 <= L PROVE FALSE
    BY <1>1, <1>6
  <2>2. p * (q + 1) <= p * L /\ p * (q + 1) = p * q + p /\ p * L = L * p
    BY <1>1, <1>4, <1>6, <2>1
  <2> DEFINE a == p * q
             b == L * p
  <2>3. a \in Nat /\ b \in Nat /\ a + p <= b /\ b <= v /\ v = a + r
    BY <1>1, <1>4, <1>5, <1>6, <2>2
  <2> HIDE DEF a, b
  <2>4. QED BY <1>1, <1>4, <1>6, <2>3
<1>8. q < 2 * L
  <2>1. SUFFICES ASSUME 2 * L <= q PROVE FALSE
    BY <1>1, <1>6
  <2>2. p * (2 * L) <= p * q /\ p * (2 * L) = L * (2 * p)
    BY <1>1, <1>4, <1>6, <2>1
  <2> DEFINE a == p * q
             b == L * (2 * p)
  <2>3. a \in Nat /\ b \in Nat /\ b <= a /\ v < b /\ v = a + r
    BY <1>1, <1>4, <1>5, <1>6, <2>2
  <2> HIDE DEF a, b
  <2>4. QED BY <1>1, <1>6, <2>3
<1>9. Significand(v) = q
  BY DEF Significand, q, p, x
<1>10. q - L \in Nat /\ 2 * L - q \in Nat \ {0}
  BY <1>1, <1>6, <1>7, <1>8
<1>11. QED BY <1>9, <1>10 DEF AbovePower, BelowPower, L

\* The logarithm of a number out of its reach, or of a runtime that does not err.
LEMMA FloorExact ==
  ASSUME NEW v \in LeastNormal .. GreatestReal, NEW err \in LogErrors,
         err = NoError \/ FarFromPower(v)
  PROVE  FloorOfLog(v, err) = ExactExponent(v)
<1> DEFINE e == ExactExponent(v)
           a == AbovePower(v)
           b == BelowPower(v)
<1>1. v >= LeastNormal /\ MaxExponent \in Nat /\ LogReach \in Nat
  BY DoubleConstants, LogConstants
<1>2. e \in 1 .. MaxExponent - 1
  BY ExponentExists
<1>3. a \in Nat /\ b \in Nat \ {0}
  BY SignificandType
<1>4. (err = NoError) \/ (a >= LogReach /\ b > LogReach)
  BY <1>1 DEF FarFromPower
<1>5. FloorOfLog(v, err) = IF a < -err[e] THEN e - 1 ELSE IF b <= err[e + 1] THEN e + 1 ELSE e
  BY DEF FloorOfLog
<1> HIDE DEF e, a, b
<1>6. e \in 1 .. MaxExponent /\ e + 1 \in 1 .. MaxExponent
  BY <1>1, <1>2
<1>7. err[e] \in -LogReach .. LogReach /\ err[e + 1] \in -LogReach .. LogReach
  BY <1>6 DEF LogErrors
<1>8. err = NoError => err[e] = 0 /\ err[e + 1] = 0
  BY <1>6 DEF NoError
<1>9. ~(a < -err[e]) /\ ~(b <= err[e + 1])
  <2> DEFINE x == err[e]
             y == err[e + 1]
  <2>1. x \in Int /\ y \in Int /\ -LogReach <= x /\ y <= LogReach
    BY <1>1, <1>7
  <2>2. (x = 0 /\ y = 0) \/ (a >= LogReach /\ b > LogReach)
    BY <1>4, <1>8
  <2> HIDE DEF x, y
  <2>3. ~(a < -x) /\ ~(b <= y)
    BY <1>1, <1>3, <2>1, <2>2
  <2>4. QED BY <2>3 DEF x, y
<1>10. QED BY <1>5, <1>9 DEF e

\* The fields of a magnitude are integers.
LEMMA FieldsType ==
  ASSUME NEW v \in 0 .. GreatestReal, NEW err \in LogErrors
  PROVE  Fields(v, err).exponent \in Int /\ Fields(v, err).mantissa \in Int
<1>1. v \in Nat /\ LeastNormal \in Nat \ {0} /\ MaxExponent \in Nat /\ MaxExponent >= 3
      /\ GreatestReal \in Nat
  BY DoubleConstants
<1>2. CASE Denormal(v, err)
  <2>1. v % LeastNormal \in Int
    BY <1>1, DivisionOfInteger
  <2>2. QED BY <1>2, <2>1 DEF Fields
<1>3. CASE ~Denormal(v, err)
  <2> DEFINE f == FloorOfLog(v, err)
             e == Clamp(f)
  <2>1. v \in LeastNormal .. GreatestReal
    BY <1>1, <1>3 DEF Denormal
  <2>2. f \in Int
    <3>1. ExactExponent(v) \in Int
      BY <1>1, <2>1, ExponentExists
    <3>2. FloorOfLog(v, err) \in {ExactExponent(v) - 1, ExactExponent(v), ExactExponent(v) + 1}
      BY DEF FloorOfLog
    <3>3. QED BY <3>1, <3>2
  <2>3. f > 0
    BY <1>3, <2>2 DEF Denormal
  <2> HIDE DEF f
  <2>4. e \in Int /\ e - 1 \in Nat
    BY <1>1, <2>2, <2>3 DEF Clamp
  <2> HIDE DEF e
  <2>5. Power(2, e - 1) \in Nat \ {0}
    BY <2>4, PowerType
  <2>6. v \div Power(2, e - 1) \in Int
    BY <1>1, <2>5, DivisionOfInteger
  <2>7. (v \div Power(2, e - 1)) % LeastNormal \in Int
    BY <1>1, <2>6, DivisionOfInteger
  <2>8. Fields(v, err) = [exponent |-> e, mantissa |-> (v \div Power(2, e - 1)) % LeastNormal]
    BY <1>3 DEF Fields, e, f
  <2>9. QED BY <2>4, <2>7, <2>8
<1>4. QED BY <1>2, <1>3

\* A double is written in its width.
LEMMA DoubleType ==
  ASSUME NEW value \in Doubles, NEW err \in LogErrors
  PROVE  WriteDouble(value, err) \in Seq(0 .. Base - 1) /\ Len(WriteDouble(value, err)) = DoubleWidth
<1> DEFINE bits(sign, e, m) == (sign * Power(2, ExponentBits) + e) * LeastNormal + m
           Good(s) == s \in Seq(0 .. Base - 1) /\ Len(s) = DoubleWidth
<1>1. LeastNormal \in Nat /\ MaxExponent \in Nat /\ GreatestReal \in Nat
  BY DoubleConstants
<1>2. ASSUME NEW sign \in {0, 1}, NEW e \in Int, NEW m \in Int
      PROVE  Good(WriteUnsigned(bits(sign, e, m), DoubleWidth))
  <2> DEFINE x == bits(sign, e, m)
  <2>1. Power(2, ExponentBits) \in Nat
    BY PowerType, NumberConstants
  <2>2. sign * Power(2, ExponentBits) \in Int
    BY <2>1
  <2>3. x \in Int
    BY <1>1, <2>2
  <2>4. DoubleWidth \in Nat /\ Base \in Nat \ {0}
    BY NumberConstants
  <2> HIDE DEF x
  <2>5. Good(WriteUnsigned(x, DoubleWidth))
    BY <2>3, <2>4, DigitsType DEF WriteUnsigned
  <2>6. QED BY <2>5 DEF x
<1>3. CASE value \in {PlusInfinity, MinusInfinity, NotANumber}
  BY <1>1, <1>2, <1>3 DEF WriteDouble
<1>4. CASE value \notin {PlusInfinity, MinusInfinity, NotANumber}
  <2>1. value[2] \in Int /\ -GreatestReal <= value[2] /\ value[2] <= GreatestReal
    <3>1. value[2] \in Reals
      BY <1>4 DEF Doubles
    <3>2. value[2] \in -GreatestReal .. GreatestReal
      BY <3>1 DEF Reals
    <3>3. QED BY <1>1, <3>2
  <2>2. CASE value[2] < 0
    <3> DEFINE f == Fields(-value[2], err)
    <3>1. -value[2] \in 0 .. GreatestReal
      BY <1>1, <2>1, <2>2
    <3>2. f.exponent \in Int /\ f.mantissa \in Int
      BY <3>1, FieldsType
    <3>3. WriteDouble(value, err) = WriteUnsigned(bits(1, f.exponent, f.mantissa), DoubleWidth)
      BY <1>4, <2>2 DEF WriteDouble
    <3> HIDE DEF f, Good, bits
    <3>4. Good(WriteUnsigned(bits(1, f.exponent, f.mantissa), DoubleWidth))
      BY <1>2, <3>2
    <3>5. QED BY <3>3, <3>4 DEF Good
  <2>3. CASE ~(value[2] < 0)
    <3> DEFINE f == Fields(value[2], err)
    <3>1. value[2] \in 0 .. GreatestReal
      BY <1>1, <2>1, <2>3
    <3>2. f.exponent \in Int /\ f.mantissa \in Int
      BY <3>1, FieldsType
    <3>3. WriteDouble(value, err) = WriteUnsigned(bits(0, f.exponent, f.mantissa), DoubleWidth)
      BY <1>4, <2>3 DEF WriteDouble
    <3> HIDE DEF f, Good, bits
    <3>4. Good(WriteUnsigned(bits(0, f.exponent, f.mantissa), DoubleWidth))
      BY <1>2, <3>2
    <3>5. QED BY <3>3, <3>4 DEF Good
  <2>4. QED BY <2>2, <2>3
<1>5. QED BY <1>3, <1>4

-----------------------------------------------------------------------------
(* Sequences of bytes *)

Bytes == Seq(Byte)

\* One sequence after the other, up to the last of them.
FlattenSteps(ss, n, f) ==
  \A i \in 1 .. n : f[i] = IF i = 1 THEN ss[i] ELSE f[i - 1] \o ss[i]

\* What FlattenSeq puts together.
LEMMA FlattenRecursion ==
  ASSUME NEW n \in Nat \ {0}, NEW ss, Len(ss) = n
  PROVE  \E f : FlattenSeq(ss) = f[n] /\ FlattenSteps(ss, n, f)
<1> DEFINE R(m, f) == f = [i \in 1 .. m |-> IF i = 1 THEN ss[i] ELSE f[i - 1] \o ss[i]]
           P == {m \in Nat : \E f : R(m, f)}
<1>1. 0 \in P
  <2>1. R(0, [i \in 1 .. 0 |-> ss[1]])
    OBVIOUS
  <2>2. QED BY <2>1
<1>2. ASSUME NEW m \in P PROVE m + 1 \in P
  <2>1. PICK f : R(m, f)
    OBVIOUS
  <2> DEFINE g == [i \in 1 .. m + 1 |-> IF i = m + 1
                                          THEN IF i = 1 THEN ss[i] ELSE f[m] \o ss[i]
                                          ELSE f[i]]
  <2>2. ASSUME NEW i \in 1 .. m + 1
        PROVE  g[i] = IF i = 1 THEN ss[i] ELSE g[i - 1] \o ss[i]
    <3>1. CASE i = m + 1
      BY <3>1
    <3>2. CASE i # m + 1
      <4>1. i \in 1 .. m /\ g[i] = f[i]
        BY <3>2
      <4>2. f[i] = IF i = 1 THEN ss[i] ELSE f[i - 1] \o ss[i]
        BY <2>1, <4>1
      <4>3. i # 1 => g[i - 1] = f[i - 1]
        BY <4>1
      <4>4. QED BY <4>1, <4>2, <4>3
    <3>3. QED BY <3>1, <3>2
  <2>3. R(m + 1, g)
    BY <2>2
  <2> HIDE DEF R
  <2>4. QED BY <2>3
<1>3. P = Nat
  <2>1. P \in SUBSET Nat
    OBVIOUS
  <2> HIDE DEF P
  <2>2. QED BY <1>1, <1>2, <2>1, SetInduction
<1>4. \E f : R(n, f)
  BY <1>3
<1> DEFINE f == CHOOSE f : R(n, f)
<1>5. R(n, f)
  <2> HIDE DEF R
  <2>1. QED BY <1>4
<1>6. \A i \in 1 .. n : f[i] = IF i = 1 THEN ss[i] ELSE f[i - 1] \o ss[i]
  BY <1>5
<1>7. FlattenSeq(ss) = f[n]
  BY DEF FlattenSeq
<1> HIDE DEF f
<1>8. QED BY <1>6, <1>7 DEF FlattenSteps

\* Sequences over a set are put together to one.
LEMMA Flattened ==
  ASSUME NEW S, NEW ss \in Seq(Seq(S))
  PROVE  FlattenSeq(ss) \in Seq(S)
<1> DEFINE n == Len(ss)
<1>1. n \in Nat /\ \A i \in 1 .. n : ss[i] \in Seq(S)
  BY LenProperties, ElementOfSeq
<1>2. CASE n = 0
  <2>1. ss = <<>>
    BY <1>2, EmptySeq
  <2>2. QED BY <1>2, <2>1 DEF FlattenSeq
<1>3. CASE n # 0
  <2>1. n \in Nat \ {0}
    BY <1>1, <1>3
  <2>2. PICK f : /\ FlattenSeq(ss) = f[n]
                 /\ \A i \in 1 .. n : f[i] = IF i = 1 THEN ss[i] ELSE f[i - 1] \o ss[i]
    BY <2>1, FlattenRecursion DEF FlattenSteps
  <2> DEFINE Q == {i \in Nat : i + 1 <= n => f[i + 1] \in Seq(S)}
  <2> HIDE DEF n
  <2>3. 0 \in Q
    BY <1>1, <1>3, <2>2
  <2>4. ASSUME NEW i \in Q PROVE i + 1 \in Q
    <3>1. CASE i + 1 + 1 <= n
      <4> DEFINE k == i + 1 + 1
                 s == f[i + 1]
                 t == ss[k]
      <4>1. k \in 1 .. n /\ k # 1 /\ k - 1 = i + 1 /\ s \in Seq(S)
        BY <1>1, <3>1
      <4>2. f[k] = IF k = 1 THEN t ELSE f[k - 1] \o t
        BY <2>2, <4>1
      <4>3. t \in Seq(S)
        BY <1>1, <4>1
      <4>4. f[k] = s \o t
        BY <4>1, <4>2
      <4> HIDE DEF s, t
      <4>5. s \o t \in Seq(S)
        BY <4>1, <4>3, ConcatProperties
      <4>6. f[k] \in Seq(S)
        BY <4>4, <4>5
      <4>7. i + 1 \in Nat
        OBVIOUS
      <4>8. QED BY <4>6, <4>7
    <3>2. CASE ~(i + 1 + 1 <= n)
      BY <3>2
    <3>3. QED BY <3>1, <3>2
  <2>5. Q = Nat
    <3>1. Q \in SUBSET Nat
      OBVIOUS
    <3> HIDE DEF Q
    <3>2. QED BY <2>3, <2>4, <3>1, SetInduction
  <2>6. n - 1 \in Nat /\ n - 1 + 1 = n
    BY <1>1, <1>3
  <2>7. f[n] \in Seq(S)
    BY <2>5, <2>6
  <2>8. QED BY <2>2, <2>7
<1>4. QED BY <1>2, <1>3

\* The same for a family of sequences that is given by its index.
LEMMA FlattenedFamily ==
  ASSUME NEW S, NEW n \in Nat, NEW ss, ss = [i \in 1 .. n |-> ss[i]],
         \A i \in 1 .. n : ss[i] \in Seq(S)
  PROVE  FlattenSeq(ss) \in Seq(S)
<1>1. ss \in [1 .. n -> Seq(S)]
  OBVIOUS
<1>2. ss \in Seq(Seq(S))
  BY <1>1, SeqDef
<1>3. QED BY <1>2, Flattened

\* Concatenations of bytes are bytes, as many as their parts.
LEMMA Concatenated ==
  ASSUME NEW s \in Bytes, NEW t \in Bytes
  PROVE  s \o t \in Bytes /\ Len(s \o t) = Len(s) + Len(t) /\ Len(s) \in Nat /\ Len(t) \in Nat
BY ConcatProperties, LenProperties DEF Bytes

-----------------------------------------------------------------------------
(* Integers *)

\* The widths of the integers, and their ranges.
LEMMA Widths ==
  ASSUME NEW kind \in {"byte", "short", "int", "long", "decimal"}
  PROVE  /\ Width[kind] \in Nat \ {0}
         /\ Capacity(Width[kind]) \in Nat \ {0} /\ Capacity(Width[kind]) % 16 = 0
         /\ Least(kind) \in Int /\ Least(kind) <= -8 /\ Most(kind) \in Nat
         /\ Capacity(Width[kind]) \div 2 = -Least(kind)
<1>1. Width[kind] \in Nat \ {0}
  BY ValueConstants DEF Width
<1> DEFINE c == Capacity(Width[kind])
<1>2. c \in Nat \ {0} /\ c % 16 = 0
  BY <1>1, WidthsHaveCapacity DEF IsCapacity
<1> HIDE DEF c
<1>3. c >= 16 /\ c \div 2 \in Nat /\ c \div 2 >= 8
  BY <1>2
<1>4. QED BY <1>1, <1>2, <1>3 DEF Least, Most, c

\* Integers and null as bytes of their width.
LEMMA IntegerBytes ==
  ASSUME NEW kind \in {"byte", "short", "int", "long"}, NEW v \in {Null} \cup {"number"} \X Int
  PROVE  WriteInteger(kind, v) \in Bytes /\ Len(WriteInteger(kind, v)) = Width[kind]
<1> DEFINE i == IF v = Null THEN NullOf(kind) ELSE v[2]
<1>1. Width[kind] \in Nat \ {0} /\ NullOf(kind) \in Int
  BY Widths DEF NullOf
<1>2. i \in Int
  BY <1>1
<1> HIDE DEF i
<1>3. WriteSigned(i, Width[kind]) \in Seq(0 .. Base - 1) /\ Len(WriteSigned(i, Width[kind])) = Width[kind]
  BY <1>1, <1>2, SignedType
<1>4. QED BY <1>3 DEF WriteInteger, i, Bytes, Byte

\* A byte is written as one.
LEMMA ByteBytes ==
  ASSUME NEW n \in Int
  PROVE  WriteByte(n) \in Bytes /\ Len(WriteByte(n)) = 1
<1>1. Number(n) \in {"number"} \X Int /\ Width["byte"] = 1
  BY DEF Number, Width
<1>2. QED BY <1>1, IntegerBytes DEF WriteByte

\* A count takes the width of its type.
LEMMA CountBytes ==
  ASSUME NEW kind \in {"byte", "short", "int"}, NEW n \in Int
  PROVE  WriteInteger(kind, Number(n)) \in Bytes /\ Len(WriteInteger(kind, Number(n))) = Width[kind]
<1>1. Number(n) \in {"number"} \X Int
  BY DEF Number
<1>2. QED BY <1>1, IntegerBytes

\* A BigInteger takes the width of its type, whatever becomes of it.
LEMMA BigIntegerBytes ==
  ASSUME NEW kind \in {"long", "decimal"}, NEW v \in Int
  PROVE  WriteBigInteger(kind, v) \in Bytes /\ Len(WriteBigInteger(kind, v)) = Width[kind]
<1> DEFINE i == IF Least(kind) <= v /\ v <= Most(kind) THEN v ELSE v \div Base
<1>1. Width[kind] \in Nat \ {0}
  BY Widths
<1>2. Base \in Nat \ {0}
  BY NumberConstants
<1>3. i \in Int
  BY <1>2, DivisionOfInteger
<1> HIDE DEF i
<1>4. WriteSigned(i, Width[kind]) \in Seq(0 .. Base - 1) /\ Len(WriteSigned(i, Width[kind])) = Width[kind]
  BY <1>1, <1>3, SignedType
<1>5. QED BY <1>4 DEF WriteBigInteger, i, Bytes, Byte

\* What can be counted.
LEMMA CountableRange ==
  ASSUME NEW kind \in {"byte", "short", "int"}, NEW n \in Nat
  PROVE  /\ Countable(kind, n) <=> n <= Most(kind)
         /\ n <= Most(kind) => n \in -(Capacity(Width[kind]) \div 2) .. Capacity(Width[kind]) \div 2 - 1
<1> DEFINE c == Capacity(Width[kind])
<1>1. c \in Nat \ {0} /\ c % 16 = 0 /\ Most(kind) = -(-(c \div 2)) - 1
  BY Widths DEF Most, Least
<1> HIDE DEF c
<1>2. PICK h \in Nat : c = 16 * h /\ h > 0
  <2>1. c = 16 * (c \div 16) + (c % 16) /\ c \div 16 \in Nat
    BY <1>1
  <2>2. QED BY <1>1, <2>1
<1>3. c \div 2 = 8 * h /\ c \div 16 = h
  BY <1>2
<1>4. Most(kind) = 8 * h - 1
  BY <1>1, <1>2, <1>3
<1>5. Prepared(n, c) <=> n <= 8 * h - 1
  BY <1>2, <1>3 DEF Prepared
<1>6. QED BY <1>2, <1>3, <1>4, <1>5 DEF Countable, c

\* A number of a type, or null, becomes bytes.
LEMMA NumberBytes ==
  ASSUME NEW kind \in {"byte", "short", "int", "long"}, NEW v \in {Null} \cup Numbers(kind)
  PROVE  WriteInteger(kind, v) \in Bytes
<1>1. Least(kind) \in Int /\ Most(kind) \in Int
  BY Widths
<1>2. v \in {Null} \cup {"number"} \X Int
  BY <1>1 DEF Numbers
<1>3. QED BY <1>2, IntegerBytes

-----------------------------------------------------------------------------
(* Decimals *)

\* Every number has a count of digits.
LEMMA CountExists ==
  ASSUME NEW n \in Nat
  PROVE  /\ Count(n) \in 1 .. n + 1 /\ n < Power(10, Count(n))
         /\ Count(n) = 1 \/ n >= Power(10, Count(n) - 1)
<1> DEFINE S == {k \in Nat : k >= 1 /\ n < Power(10, k)}
           least == CHOOSE k \in S : \A j \in S : k <= j
<1>1. n + 1 \in S
  <2>1. n + 1 < Power(10, n + 1)
    BY PowerExceeds
  <2>2. Power(10, n + 1) \in Nat
    BY PowerType
  <2> DEFINE p == Power(10, n + 1)
  <2> HIDE DEF p
  <2>3. p \in Nat /\ n + 1 < p
    BY <2>1, <2>2 DEF p
  <2>4. n < p
    BY <2>3
  <2>5. QED BY <2>4 DEF p
<1>2. least \in S /\ \A j \in S : least <= j
  <2>1. S \in SUBSET Nat /\ S # {}
    BY <1>1
  <2> HIDE DEF S
  <2>2. QED BY <2>1, LeastChosen
<1> HIDE DEF least
<1>3. least \in Nat /\ least >= 1 /\ n < Power(10, least) /\ least <= n + 1
  BY <1>1, <1>2
<1>4. least = 1 \/ n >= Power(10, least - 1)
  <2>1. SUFFICES ASSUME least # 1 PROVE n >= Power(10, least - 1)
    OBVIOUS
  <2> DEFINE j == least - 1
  <2>2. j \in Nat /\ j >= 1 /\ ~(least <= j)
    BY <1>3, <2>1
  <2>3. Power(10, j) \in Nat
    BY <2>2, PowerType
  <2> HIDE DEF j
  <2>4. ~(n < Power(10, j))
    BY <1>2, <2>2
  <2> DEFINE p == Power(10, j)
  <2>5. p \in Nat /\ ~(n < p)
    BY <2>3, <2>4
  <2> HIDE DEF p
  <2>6. n >= p
    BY <2>5
  <2>7. QED BY <2>6 DEF p, j
<1>5. least \in 1 .. n + 1
  BY <1>3
<1>6. \E k \in 1 .. n + 1 : n < Power(10, k) /\ (k = 1 \/ n >= Power(10, k - 1))
  BY <1>3, <1>4, <1>5
<1>7. QED BY <1>6 DEF Count

\* The digits of a number, and that they have no sign.
LEMMA DigitsOfType ==
  ASSUME NEW n \in Nat
  PROVE  /\ DigitsOf(n) \in Seq(0 .. 9) /\ Len(DigitsOf(n)) = Count(n)
         /\ DigitsOf(n) # <<>> /\ Unsigned(DigitsOf(n)) = DigitsOf(n)
<1> DEFINE d == DigitsOf(n)
           c == Count(n)
<1>1. c \in Nat /\ c >= 1
  BY CountExists
<1>2. d \in Seq(0 .. 9) /\ Len(d) = c
  <2> HIDE DEF c
  <2>1. 10 \in Nat \ {0} /\ 10 - 1 = 9 /\ n \in Int
    OBVIOUS
  <2>2. Digits(10, n, c) \in Seq(0 .. 10 - 1) /\ Len(Digits(10, n, c)) = c
    BY <1>1, <2>1, DigitsType
  <2>3. QED BY <2>1, <2>2 DEF DigitsOf, c
<1> HIDE DEF d, c
<1>3. d # <<>> /\ Head(d) \in 0 .. 9
  BY <1>1, <1>2, EmptySeq, HeadTailProperties
<1>4. ~Signed(d)
  BY <1>3 DEF Signed, Minus
<1>5. QED BY <1>2, <1>3, <1>4 DEF Unsigned, d, c

\* A sign in front of digits.
LEMMA SignedDigits ==
  ASSUME NEW d \in Seq(0 .. 9)
  PROVE  /\ <<Minus>> \o d \in Seq(-1 .. 9) /\ d \in Seq(-1 .. 9)
         /\ Signed(<<Minus>> \o d) /\ Unsigned(<<Minus>> \o d) = d
<1> DEFINE s == <<Minus>>
<1>3. d \in Seq(-1 .. 9)
  BY LenProperties, ElementOfSeq, SeqDef
<1>4. s \in Seq(-1 .. 9) /\ Len(s) = 1 /\ s[1] = Minus
  BY DEF Minus
<1> HIDE DEF s
<1>5. /\ s \o d \in Seq(-1 .. 9) /\ Len(s \o d) = 1 + Len(d) /\ Len(d) \in Nat
      /\ \A i \in 1 .. Len(s) + Len(d) :
           (s \o d)[i] = IF i <= Len(s) THEN s[i] ELSE d[i - Len(s)]
  BY <1>3, <1>4, ConcatProperties, LenProperties
<1> DEFINE t == s \o d
<1>6. t \in Seq(-1 .. 9) /\ t # <<>> /\ t[1] = Minus /\ Len(t) = 1 + Len(d)
      /\ \A i \in 1 .. Len(d) : t[i + 1] = d[i]
  BY <1>4, <1>5, EmptySeq
<1> HIDE DEF t
<1>7. Head(t) = Minus
  BY <1>6, HeadTailProperties
<1>8. Tail(t) = d
  <2>1. Tail(t) \in Seq(-1 .. 9) /\ Len(Tail(t)) = Len(d)
        /\ \A i \in 1 .. Len(Tail(t)) : Tail(t)[i] = t[i + 1]
    BY <1>5, <1>6, HeadTailProperties
  <2> DEFINE u == Tail(t)
  <2> HIDE DEF u
  <2>2. u \in Seq(-1 .. 9) /\ Len(u) = Len(d) /\ \A i \in 1 .. Len(u) : u[i] = d[i]
    BY <1>6, <2>1 DEF u
  <2>3. u = d
    BY <1>3, <2>2, SeqEqual
  <2>4. QED BY <2>3 DEF u
<1>9. Signed(t) /\ Unsigned(t) = d
  BY <1>6, <1>7, <1>8 DEF Unsigned, Signed
<1>10. QED BY <1>3, <1>6, <1>9 DEF t, s

\* The numeral of an integer: a digit more than its digits where there is a sign.
LEMMA NumeralType ==
  ASSUME NEW n \in Int
  PROVE  /\ Numeral(n) \in Seq(-1 .. 9)
         /\ Unsigned(Numeral(n)) = DigitsOf(Magnitude(n)) /\ Magnitude(n) \in Nat
<1>1. CASE n >= 0
  <2>1. n \in Nat /\ Magnitude(n) = n /\ Numeral(n) = DigitsOf(n)
    BY <1>1 DEF Magnitude, Numeral
  <2> DEFINE d == DigitsOf(n)
  <2>2. d \in Seq(0 .. 9) /\ Unsigned(d) = d
    BY <2>1, DigitsOfType
  <2> HIDE DEF d
  <2>3. d \in Seq(-1 .. 9)
    BY <2>2, SignedDigits
  <2>4. QED BY <2>1, <2>2, <2>3 DEF d
<1>2. CASE ~(n >= 0)
  <2> DEFINE d == DigitsOf(-n)
  <2>1. -n \in Nat /\ Magnitude(n) = -n /\ Numeral(n) = <<Minus>> \o d
    BY <1>2 DEF Magnitude, Numeral
  <2>2. d \in Seq(0 .. 9)
    BY <2>1, DigitsOfType
  <2> HIDE DEF d
  <2>3. <<Minus>> \o d \in Seq(-1 .. 9) /\ Unsigned(<<Minus>> \o d) = d
    BY <2>2, SignedDigits
  <2>4. QED BY <2>1, <2>3 DEF d
<1>3. QED BY <1>1, <1>2

\* The digits that sanitizeDecimal makes spell an integer.
LEMMA SpeltType ==
  ASSUME NEW s \in Seq(-1 .. 9)
  PROVE  Spelt(s) \in Int
<1>1. Unsigned(s) \in Seq(-1 .. 9)
  <2>1. CASE Signed(s)
    BY <2>1, HeadTailProperties DEF Signed, Unsigned
  <2>2. CASE ~Signed(s)
    BY <2>2 DEF Unsigned
  <2>3. QED BY <2>1, <2>2
<1> DEFINE u == Unsigned(s)
<1> HIDE DEF u
<1>2. u \in Seq(Int)
  <2>1. u \in Seq(-1 .. 9)
    BY <1>1 DEF u
  <2>2. -1 .. 9 \subseteq Int
    OBVIOUS
  <2>3. QED BY <2>1, <2>2, SeqMonotonic
<1>3. Amount(10, u) \in Int
  BY <1>2, AmountType
<1>4. QED BY <1>3 DEF Spelt, u

\* What is left of a decimal's text are digits, and a sign.
LEMMA SanitizedType ==
  ASSUME NEW text, text[2] \in Seq(-1 .. 9), text[3] \in Seq(0 .. 9), ~TooLong(text)
  PROVE  Sanitized(text) \in Seq(-1 .. 9)
<1> DEFINE k == DecimalPlaces - Len(text[3])
           z == Zeros(k)
           f == text[3]
           w == text[2]
<1>1. Len(f) \in Nat /\ ~(Len(f) > DecimalPlaces) /\ DecimalPlaces \in Nat
  BY LenProperties, ValueConstants DEF TooLong
<1>2. k \in Nat
  BY <1>1
<1>3. z \in Seq(-1 .. 9)
  <2> HIDE DEF k
  <2>1. z \in [1 .. k -> -1 .. 9]
    BY DEF Zeros
  <2>2. QED BY <1>2, <2>1, SeqDef
<1>4. f \in Seq(-1 .. 9) /\ w \in Seq(-1 .. 9)
  <2>1. 0 .. 9 \subseteq -1 .. 9
    OBVIOUS
  <2> HIDE DEF f
  <2>2. f \in Seq(0 .. 9) => f \in Seq(-1 .. 9)
    BY <2>1, SeqMonotonic
  <2>3. QED BY <2>2 DEF f
<1>5. Sanitized(text) = w \o f \o z
  BY DEF Sanitized
<1> HIDE DEF w, f, z
<1>6. w \o f \in Seq(-1 .. 9)
  BY <1>4, ConcatProperties
<1>7. QED BY <1>3, <1>5, <1>6, ConcatProperties

-----------------------------------------------------------------------------
(* Values *)

\* What a value holds, by its kind.
LEMMA ValueContents ==
  ASSUME NEW v, IsValue(v)
  PROVE  /\ v[1] \in {"number", "big"} => v[2] \in Int
         /\ v[1] = "fraction" => v[2] \in Int /\ v[3] \in Nat \ {0}
         /\ v[1] \in {"string", "bytes"} => v[2] \in Bytes
         /\ v[1] \in {"real", "infinity", "nan"} => v \in Doubles
         /\ v[1] = "text" => v[2] \in Seq(-1 .. 9) /\ v[3] \in Seq(0 .. 9)
         /\ v[1] = "list" => v[2] \in Seq(ToSet(v[2]))
BY DEF IsValue, Null, Object, Truth, Strings, Bytes, Doubles, PlusInfinity, MinusInfinity, NotANumber

\* Strings and buffers come with their length.
LEMMA CountedBytes ==
  ASSUME NEW v, v = Null \/ v[2] \in Bytes
  PROVE  WriteBytes(v) \in Bytes
<1>1. CASE v = Null
  BY <1>1, CountBytes DEF WriteBytes
<1>2. CASE v # Null
  <2> DEFINE b == v[2]
             h == WriteInteger("int", Number(Len(b)))
  <2>1. b \in Bytes /\ Len(b) \in Int
    BY <1>2, LenProperties DEF Bytes
  <2>2. WriteBytes(v) = h \o b
    BY <1>2 DEF WriteBytes
  <2> HIDE DEF b
  <2>3. h \in Bytes
    BY <2>1, CountBytes
  <2> HIDE DEF h
  <2>4. QED BY <2>1, <2>2, <2>3, Concatenated
<1>3. QED BY <1>1, <1>2

\* The text that a decimal's value becomes: digits, and a sign among those in front.
LEMMA TextType ==
  ASSUME NEW v, IsValue(v), v[1] \in {"text", "number", "fraction"}
  PROVE  TextOf(v)[2] \in Seq(-1 .. 9) /\ TextOf(v)[3] \in Seq(0 .. 9)
<1>1. CASE v[1] = "text"
  BY <1>1, ValueContents DEF TextOf
<1>2. CASE v[1] = "number"
  <2>1. v[2] \in Int
    BY <1>2, ValueContents
  <2>2. Numeral(v[2]) \in Seq(-1 .. 9)
    BY <2>1, NumeralType
  <2>3. <<>> \in Seq(0 .. 9)
    BY EmptySeq
  <2>4. QED BY <1>2, <2>2, <2>3 DEF TextOf, Text
<1>3. CASE v[1] = "fraction"
  <2> DEFINE n == Magnitude(v[2])
             q == n \div Power(10, v[3])
             whole == DigitsOf(q)
             f == Digits(10, n, v[3])
             s == IF v[2] < 0 THEN <<Minus>> \o whole ELSE whole
  <2>1. v[2] \in Int /\ v[3] \in Nat
    BY <1>3, ValueContents
  <2>2. n \in Nat
    BY <2>1 DEF Magnitude
  <2>3. TextOf(v) = Text(s, f)
    BY <1>3 DEF TextOf
  <2> HIDE DEF n
  <2>4. f \in Seq(0 .. 9)
    <3>1. 10 \in Nat \ {0} /\ 10 - 1 = 9 /\ n \in Int
      BY <2>2
    <3>2. Digits(10, n, v[3]) \in Seq(0 .. 10 - 1)
      BY <2>1, <3>1, DigitsType
    <3>3. QED BY <3>1, <3>2
  <2>5. q \in Nat
    <3> DEFINE p == v[3]
    <3>1. p \in Nat /\ 10 \in Nat \ {0}
      BY <2>1
    <3> HIDE DEF p
    <3>2. Power(10, p) \in Nat \ {0}
      BY <3>1, PowerType
    <3>3. n \div Power(10, p) \in Nat
      BY <2>2, <3>2, Division
    <3>4. QED BY <3>3 DEF p
  <2> HIDE DEF q
  <2>6. whole \in Seq(0 .. 9)
    BY <2>5, DigitsOfType
  <2> HIDE DEF whole, f
  <2>7. s \in Seq(-1 .. 9)
    BY <2>6, SignedDigits
  <2> HIDE DEF s
  <2>8. QED BY <2>3, <2>4, <2>7 DEF Text
<1>4. QED BY <1>1, <1>2, <1>3

\* A decimal that its writer accepts becomes bytes, and null too.
LEMMA DecimalBytes ==
  ASSUME NEW v, IsValue(v), v = Null \/ WritesKind("decimal", v)
  PROVE  WriteDecimal(v) \in Bytes
<1>1. CASE v = Null
  <2>1. NullOf("decimal") \in Int
    BY Widths DEF NullOf
  <2>2. QED BY <1>1, <2>1, BigIntegerBytes DEF WriteDecimal
<1>2. CASE v # Null
  <2> DEFINE t == TextOf(v)
  <2>1. v[1] \in {"text", "number", "fraction"} /\ ~TooLong(t)
    BY <1>2 DEF WritesKind
  <2>2. t[2] \in Seq(-1 .. 9) /\ t[3] \in Seq(0 .. 9)
    BY <2>1, TextType
  <2> HIDE DEF t
  <2>3. Spelt(Sanitized(t)) \in Int
    BY <2>1, <2>2, SanitizedType, SpeltType
  <2>4. WriteDecimal(v) = WriteBigInteger("decimal", Spelt(Sanitized(t)))
    BY <1>2 DEF WriteDecimal, t
  <2> DEFINE i == Spelt(Sanitized(t))
  <2> HIDE DEF i
  <2>5. WriteBigInteger("decimal", i) \in Bytes
    BY <2>3, BigIntegerBytes DEF i
  <2>6. QED BY <2>4, <2>5 DEF i
<1>3. QED BY <1>1, <1>2

\* The kinds of values that the names of types have.
ValueKinds == {"null", "byte", "short", "int", "long", "double", "string", "date", "decimal",
               "varbinary"}

\* The names of types in a parameter set have a kind and a code.
LEMMA KindsOfNames ==
  ASSUME NEW name \in DOMAIN KindOf
  PROVE  KindOf[name] \in ValueKinds /\ TypeCode(name) \in Int
BY DEF KindOf, ValueKinds, TypeCode, Kinds

\* The units of a string become bytes.
LEMMA UnitBytes ==
  ASSUME NEW bytes \in Bytes
  PROVE  Units(bytes) \in Bytes
<1> DEFINE n == Len(bytes)
           ss == [i \in 1 .. n |->
                    CASE bytes[i] \in 48 .. 57   -> <<bytes[i] - 48>>
                      [] bytes[i] \in 128 .. 191 -> <<>>
                      [] bytes[i] >= 240         -> <<0, 0>>
                      [] OTHER                   -> <<0>>]
<1>1. n \in Nat /\ \A i \in 1 .. n : bytes[i] \in Byte
  BY LenProperties, ElementOfSeq DEF Bytes
<1>2. Byte = 0 .. 255
  BY ValueConstants DEF Byte
<1>3. ASSUME NEW i \in 1 .. n PROVE ss[i] \in Seq(Byte)
  <2> DEFINE x == bytes[i]
  <2>1. x \in 0 .. 255
    BY <1>1, <1>2
  <2>2. ss[i] = CASE x \in 48 .. 57   -> <<x - 48>>
                  [] x \in 128 .. 191 -> <<>>
                  [] x >= 240         -> <<0, 0>>
                  [] OTHER            -> <<0>>
    OBVIOUS
  <2> HIDE DEF x, ss
  <2>3. <<>> \in Seq(Byte) /\ <<0, 0>> \in Seq(Byte) /\ <<0>> \in Seq(Byte)
    BY <1>2
  <2>4. CASE x \in 48 .. 57
    <3> DEFINE unit == <<x - 48>>
    <3>1. ss[i] = unit
      <4>1. x \notin 128 .. 191 /\ ~(x >= 240)
        BY <2>4
      <4>2. ss[i] = CASE x \in 48 .. 57   -> unit
                      [] x \in 128 .. 191 -> <<>>
                      [] x >= 240         -> <<0, 0>>
                      [] OTHER            -> <<0>>
        BY <2>2
      <4> HIDE DEF unit
      <4>3. QED BY <2>4, <4>1, <4>2
    <3>2. x - 48 \in Byte
      BY <1>2, <2>4
    <3>3. unit \in Seq(Byte)
      BY <3>2
    <3> HIDE DEF unit
    <3>4. QED BY <3>1, <3>3
  <2>5. CASE x \notin 48 .. 57
    BY <2>1, <2>2, <2>3, <2>5
  <2>6. QED BY <2>4, <2>5
<1>4. Units(bytes) = FlattenSeq(ss) /\ ss = [i \in 1 .. n |-> ss[i]]
  BY DEF Units
<1> HIDE DEF ss, n
<1>5. FlattenSeq(ss) \in Seq(Byte)
  BY <1>1, <1>3, <1>4, FlattenedFamily
<1>6. QED BY <1>4, <1>5 DEF Bytes

\* Bytes, and the mark of what has no length.
Marked == Seq(Byte \cup {Lost})

\* Bytes can be among marks.
LEMMA BytesMarked == Bytes \subseteq Marked
<1>1. Byte \subseteq Byte \cup {Lost}
  OBVIOUS
<1>2. QED BY <1>1, SeqMonotonic DEF Bytes, Marked

\* What JavaScript makes a number of is a double.
LEMMA CoercedType ==
  ASSUME NEW v, IsValue(v)
  PROVE  Coerced(v) \in Doubles
<1>1. v[1] \in {"real", "infinity", "nan"} => v \in Doubles
  BY ValueContents
<1>2. \A x \in DOMAIN ToNumber : ToNumber[x] \in Doubles
  BY ValueConstants
<1>3. NotANumber \in Doubles
  BY DEF Doubles
<1>4. QED BY <1>1, <1>2, <1>3 DEF Coerced

\* A value that its writer accepts is written in bytes, except a varbinary that has
\* no length.
LEMMA KindBytes ==
  ASSUME NEW kind \in ValueKinds, NEW v, IsValue(v), WritesKind(kind, v), NEW err \in LogErrors
  PROVE  /\ WriteKind(kind, v, err) \in Marked
         /\ (kind = "varbinary" => HasLength(v)) => WriteKind(kind, v, err) \in Bytes
<1> SUFFICES /\ (kind = "varbinary" => HasLength(v)) => WriteKind(kind, v, err) \in Bytes
             /\ (kind = "varbinary" /\ ~HasLength(v)) => WriteKind(kind, v, err) \in Marked
  BY BytesMarked
<1>1. CASE kind = "null"
  BY <1>1, EmptySeq DEF WriteKind, Bytes
<1>2. CASE kind \in {"byte", "short", "int"}
  <2>1. v # Null => v[1] = "number" /\ v[2] \in Int
    BY <1>2, ValueContents DEF WritesKind
  <2> DEFINE i == IF v = Null THEN NullOf(kind) ELSE v[2]
  <2>2. Width[kind] \in Nat \ {0} /\ NullOf(kind) \in Int
    BY <1>2, Widths DEF NullOf
  <2>3. i \in Int
    BY <2>1, <2>2
  <2> HIDE DEF i
  <2>4. WriteSigned(i, Width[kind]) \in Seq(0 .. Base - 1)
    BY <2>2, <2>3, SignedType
  <2>5. WriteInteger(kind, v) \in Bytes
    BY <2>4 DEF WriteInteger, i, Bytes, Byte
  <2>6. QED BY <1>2, <2>5 DEF WriteKind
<1>3. CASE kind \in {"long", "date"}
  <2>1. v # Null => v[2] \in Int
    BY <1>3, ValueContents DEF WritesKind
  <2>2. NullOf("long") \in Int
    BY Widths DEF NullOf
  <2> DEFINE i == IF v = Null THEN NullOf("long") ELSE v[2]
             j == IF v = Null THEN NullOf("long") ELSE 1000 * v[2]
  <2>3. i \in Int /\ j \in Int
    BY <2>1, <2>2
  <2> HIDE DEF i, j
  <2>4. WriteBigInteger("long", i) \in Bytes /\ WriteBigInteger("long", j) \in Bytes
    BY <2>3, BigIntegerBytes
  <2>5. QED BY <1>3, <2>4 DEF WriteKind, WriteLong, WriteDate, i, j
<1>4. CASE kind = "decimal"
  <2>1. WriteDecimal(v) \in Bytes
    BY <1>4, DecimalBytes
  <2>2. QED BY <1>4, <2>1 DEF WriteKind
<1>5. CASE kind = "double"
  <2> DEFINE d == IF v = Null THEN Real(NullOf(kind)) ELSE Coerced(v)
  <2>1. Coerced(v) \in Doubles
    BY CoercedType
  <2>2. Real(NullOf(kind)) \in Doubles
    BY <1>5, ValueConstants DEF NullOf, Real, Doubles
  <2>3. d \in Doubles
    BY <2>1, <2>2
  <2> HIDE DEF d
  <2>4. WriteDouble(d, err) \in Bytes
    BY <2>3, DoubleType DEF Bytes, Byte
  <2>5. QED BY <1>5, <2>4 DEF WriteKind, d
<1>6. CASE kind = "string"
  <2>1. v = Null \/ v[2] \in Bytes
    BY <1>6, ValueContents DEF WritesKind
  <2>2. QED BY <1>6, <2>1, CountedBytes DEF WriteKind
<1>7. CASE kind = "varbinary" /\ HasLength(v)
  <2> DEFINE u == BufferOf(v)
  <2>1. u = Null \/ u[2] \in Bytes
    <3>1. CASE v = Null
      BY <3>1 DEF BufferOf, Null
    <3>2. CASE v # Null
      <4>1. v[2] \in Bytes
        BY <1>7, <3>2, ValueContents DEF HasLength
      <4>2. Units(v[2]) \in Bytes
        BY <4>1, UnitBytes
      <4>3. u[2] = IF v[1] = "string" THEN Units(v[2]) ELSE v[2]
        BY DEF BufferOf, Binary
      <4>4. QED BY <4>1, <4>2, <4>3
    <3>3. QED BY <3>1, <3>2
  <2> HIDE DEF u
  <2>2. WriteBytes(u) \in Bytes
    BY <2>1, CountedBytes
  <2>3. WriteKind(kind, v, err) = WriteBytes(u)
    BY <1>7 DEF WriteKind, WriteVarbinary, u
  <2>4. QED BY <1>7, <2>2, <2>3
<1>8. CASE kind = "varbinary" /\ ~HasLength(v)
  <2> DEFINE w == WriteInteger("int", Null)
             S == Byte \cup {Lost}
  <2>1. Null \in {Null} \cup {"number"} \X Int
    OBVIOUS
  <2>2. w \in Seq(S)
    <3>1. w \in Bytes
      BY <2>1, IntegerBytes
    <3>2. QED BY <3>1, BytesMarked DEF Marked
  <2>3. WriteKind(kind, v, err) = Append(w, Lost) /\ Lost \in S
    BY <1>8 DEF WriteKind, WriteVarbinary
  <2> HIDE DEF w, S
  <2>4. Append(w, Lost) \in Seq(S)
    BY <2>2, <2>3, AppendProperties
  <2>5. QED BY <1>8, <2>3, <2>4 DEF Marked, S
<1>9. QED BY <1>1, <1>2, <1>3, <1>4, <1>5, <1>6, <1>7, <1>8 DEF ValueKinds

-----------------------------------------------------------------------------
(* Arrays *)

\* What is in a value at each depth, from what is above it.
LEMMA PartsRecursion ==
  ASSUME NEW value, NEW n \in Nat
  PROVE  /\ Parts(value, n)[0] = {value}
         /\ \A k \in 1 .. n :
              Parts(value, n)[k] =
                UNION {ToSet(v[2]) : v \in {w \in Parts(value, n)[k - 1] : w[1] = "list"}}
<1> DEFINE Below1(above) == UNION {ToSet(v[2]) : v \in {w \in above : w[1] = "list"}}
           R(m, f) == f = [k \in 0 .. m |-> IF k = 0 THEN {value} ELSE Below1(f[k - 1])]
           S == {m \in Nat : \E f : R(m, f)}
<1>1. \E f : R(n, f)
  <2> HIDE DEF Below1
  <2>1. 0 \in S
    <3>1. R(0, [k \in 0 .. 0 |-> {value}])
      OBVIOUS
    <3>2. QED BY <3>1
  <2>2. ASSUME NEW m \in S PROVE m + 1 \in S
    <3>1. PICK f : R(m, f)
      OBVIOUS
    <3> DEFINE g == [k \in 0 .. m + 1 |-> IF k = m + 1 THEN Below1(f[m]) ELSE f[k]]
    <3>2. ASSUME NEW k \in 0 .. m + 1
          PROVE  g[k] = IF k = 0 THEN {value} ELSE Below1(g[k - 1])
      <4>1. CASE k = m + 1
        BY <4>1
      <4>2. CASE k # m + 1
        <5>1. k \in 0 .. m /\ g[k] = f[k]
          BY <4>2
        <5>2. f[k] = IF k = 0 THEN {value} ELSE Below1(f[k - 1])
          BY <3>1, <5>1
        <5>3. k # 0 => g[k - 1] = f[k - 1]
          BY <5>1
        <5>4. QED BY <5>1, <5>2, <5>3
      <4>3. QED BY <4>1, <4>2
    <3>3. R(m + 1, g)
      BY <3>2
    <3> HIDE DEF R
    <3>4. QED BY <3>3
  <2>3. S = Nat
    <3>1. S \in SUBSET Nat
      OBVIOUS
    <3> HIDE DEF S
    <3>2. QED BY <2>1, <2>2, <3>1, SetInduction
  <2>4. QED BY <2>3
<1>2. R(n, Parts(value, n))
  BY <1>1 DEF Parts
<1> DEFINE p == Parts(value, n)
<1> HIDE DEF Below1, p
<1>3. p = [k \in 0 .. n |-> IF k = 0 THEN {value} ELSE Below1(p[k - 1])]
  BY <1>2 DEF p
<1>4. p[0] = {value}
  BY <1>3
<1>5. ASSUME NEW k \in 1 .. n PROVE p[k] = Below1(p[k - 1])
  <2>1. k \in 0 .. n /\ k # 0
    OBVIOUS
  <2>2. QED BY <1>3, <2>1
<1>6. QED BY <1>4, <1>5 DEF Below1, p

\* From the innermost values of an array outwards.
ArraySteps(type, value, err, f) ==
  \A k \in 0 .. Len(type) :
    f[k] = [v \in Parts(value, Len(type))[k] |->
              IF k = Len(type) THEN WriteKind(KindOf[type[Len(type)]], v, err)
              ELSE WriteByte(IF type[k + 1] = "array" THEN Kinds.array ELSE TypeCode(type[k + 1]))
                     \o WriteInteger(LengthKind(type[k + 1]), Number(Len(v[2])))
                     \o FlattenSeq([i \in 1 .. Len(v[2]) |-> f[k + 1][v[2][i]]])]

\* What writeArray makes of an array.
LEMMA ArrayRecursion ==
  ASSUME NEW type, Len(type) \in Nat, NEW value, NEW err
  PROVE  \E f : WriteArray(type, value, err) = f[0][value] /\ ArraySteps(type, value, err, f)
<1> DEFINE n == Len(type)
           part == Parts(value, n)
           Head1(k, v) ==
             WriteByte(IF type[k + 1] = "array" THEN Kinds.array ELSE TypeCode(type[k + 1]))
               \o WriteInteger(LengthKind(type[k + 1]), Number(Len(v[2])))
           E(k, below) ==
             [v \in part[k] |->
                IF k = n THEN WriteKind(KindOf[type[n]], v, err)
                ELSE Head1(k, v) \o FlattenSeq([i \in 1 .. Len(v[2]) |-> below[v[2][i]]])]
           T(a, f) == f = [k \in a .. n |-> E(k, f[k + 1])]
           P == {m \in Nat : m <= n => \E f : T(n - m, f)}
<1>1. n \in Nat
  OBVIOUS
<1>2. \A x, y : E(n, x) = E(n, y)
  OBVIOUS
<1>3. \E f : T(0, f)
  <2> HIDE DEF E, n
  <2>1. 0 \in P
    <3> DEFINE f == [k \in n .. n |-> E(k, 0)]
    <3>1. n - 0 = n /\ \A k \in n .. n : k = n
      BY <1>1
    <3>2. f = [k \in n .. n |-> E(k, f[k + 1])]
      BY <1>2, <3>1
    <3> HIDE DEF f
    <3>3. T(n - 0, f)
      BY <3>1, <3>2
    <3>4. QED BY <3>3
  <2>2. ASSUME NEW m \in P PROVE m + 1 \in P
    <3>1. CASE m + 1 <= n
      <4> DEFINE a == n - m
                 b == n - (m + 1)
      <4>1. a \in Nat /\ b \in Nat /\ a = b + 1 /\ b < n /\ a <= n
        BY <1>1, <3>1
      <4>2. PICK f : T(a, f)
        <5>1. m <= n
          BY <1>1, <3>1
        <5> HIDE DEF T
        <5>2. QED BY <5>1
      <4> DEFINE g == [k \in b .. n |-> IF k = b THEN E(k, f[k + 1]) ELSE f[k]]
      <4> HIDE DEF a, b
      <4>3. ASSUME NEW k \in b .. n
            PROVE  g[k] = E(k, g[k + 1])
        <5>1. CASE k = n
          <6>1. k \in a .. n /\ k # b
            BY <4>1, <5>1
          <6>2. g[k] = E(k, f[k + 1])
            BY <4>2, <6>1
          <6>3. QED BY <1>2, <5>1, <6>2
        <5>2. CASE k # n
          <6>1. k + 1 \in a .. n /\ k + 1 \in b .. n /\ k + 1 # b /\ (k # b => k \in a .. n)
            BY <1>1, <4>1, <5>2
          <6>2. g[k + 1] = f[k + 1]
            BY <6>1
          <6>3. g[k] = E(k, f[k + 1])
            BY <4>2, <6>1
          <6>4. QED BY <6>2, <6>3
        <5>3. QED BY <5>1, <5>2
      <4>4. g = [k \in b .. n |-> E(k, g[k + 1])]
        BY <4>3
      <4> HIDE DEF g
      <4>5. T(b, g)
        BY <4>4
      <4>6. m + 1 \in Nat
        OBVIOUS
      <4> HIDE DEF T
      <4>7. QED BY <4>5, <4>6 DEF b
    <3>2. CASE ~(m + 1 <= n)
      BY <3>2
    <3>3. QED BY <3>1, <3>2
  <2>3. P = Nat
    <3>1. P \in SUBSET Nat
      OBVIOUS
    <3> HIDE DEF P
    <3>2. QED BY <2>1, <2>2, <3>1, SetInduction
  <2>4. n \in P
    <3> HIDE DEF P
    <3>1. QED BY <1>1, <2>3
  <2>5. n <= n /\ n - n = 0
    BY <1>1
  <2> HIDE DEF T
  <2>6. QED BY <2>4, <2>5
<1> DEFINE f == CHOOSE f : T(0, f)
<1>4. T(0, f)
  <2> HIDE DEF T
  <2>1. QED BY <1>3
<1>5. WriteArray(type, value, err) = f[0][value]
  BY DEF WriteArray
<1> HIDE DEF f
<1>6. ASSUME NEW k \in 0 .. n PROVE f[k] = E(k, f[k + 1])
  <2> HIDE DEF E, n
  <2>1. QED BY <1>4
<1>7. ArraySteps(type, value, err, f)
  BY <1>6 DEF ArraySteps
<1>8. QED BY <1>5, <1>7

\* An array that writeArray accepts is written in bytes, or with marks among them,
\* however deep it is, and so is each of its parts.
LEMMA PartBytes ==
  ASSUME NEW type, IsType(type), NEW value, NEW err \in LogErrors, WritesArray(type, value),
         \A k \in 0 .. Len(type) : \A v \in Parts(value, Len(type))[k] : IsValue(v),
         NEW f, ArraySteps(type, value, err, f)
  PROVE  \A k \in 0 .. Len(type) : \A v \in Parts(value, Len(type))[k] : f[k][v] \in Marked
<1> DEFINE n == Len(type)
           part == Parts(value, n)
           Head1(k, v) ==
             WriteByte(IF type[k + 1] = "array" THEN Kinds.array ELSE TypeCode(type[k + 1]))
               \o WriteInteger(LengthKind(type[k + 1]), Number(Len(v[2])))
           E(k, below) ==
             [v \in part[k] |->
                IF k = n THEN WriteKind(KindOf[type[n]], v, err)
                ELSE Head1(k, v) \o FlattenSeq([i \in 1 .. Len(v[2]) |-> below[v[2][i]]])]
           Q == {m \in Nat : m <= n => \A v \in part[n - m] : f[n - m][v] \in Marked}
<1>1. n \in Nat /\ n >= 1 /\ \A k \in 1 .. n - 1 : type[k] = "array"
  BY LenProperties, EmptySeq DEF IsType
<1>2. ASSUME NEW k \in 0 .. n PROVE f[k] = E(k, f[k + 1])
  BY DEF ArraySteps
<1>3. /\ part[0] = {value}
      /\ \A k \in 1 .. n :
           part[k] = UNION {ToSet(v[2]) : v \in {w \in part[k - 1] : w[1] = "list"}}
  <2> HIDE DEF n
  <2>1. QED BY <1>1, PartsRecursion
<1>4. /\ \A k \in 1 .. n : \A v \in part[k - 1] :
           v[1] = "list" /\ Countable(LengthKind(type[k]), Len(v[2]))
      /\ part[n - 1] # {} => type[n] \in DOMAIN KindOf \cup {"array"}
      /\ \A v \in part[n] : type[n] # "array" /\ WritesKind(KindOf[type[n]], v)
  BY DEF WritesArray
<1>5. \A k \in 0 .. n : \A v \in part[k] : IsValue(v)
  OBVIOUS
<1> HIDE DEF n, part, E
<1>6. 0 \in Q
  <2>1. ASSUME NEW v \in part[n] PROVE f[n][v] \in Marked
    <3>1. part[n - 1] # {}
      <4>1. n \in 1 .. n
        BY <1>1
      <4>2. QED BY <1>3, <2>1, <4>1
    <3>2. type[n] \in DOMAIN KindOf /\ WritesKind(KindOf[type[n]], v)
      BY <1>4, <2>1, <3>1
    <3>3. n \in 0 .. n
      BY <1>1
    <3>4. IsValue(v)
      BY <1>5, <2>1, <3>3
    <3>5. KindOf[type[n]] \in ValueKinds
      BY <3>2, KindsOfNames
    <3>6. WriteKind(KindOf[type[n]], v, err) \in Marked
      BY <3>2, <3>4, <3>5, KindBytes
    <3>7. f[n] = E(n, f[n + 1])
      BY <1>2, <3>3
    <3>8. f[n][v] = WriteKind(KindOf[type[n]], v, err)
      BY <2>1, <3>7 DEF E
    <3>9. QED BY <3>6, <3>8
  <2>2. n - 0 = n
    BY <1>1
  <2>3. QED BY <2>1, <2>2
<1>7. ASSUME NEW m \in Q PROVE m + 1 \in Q
  <2>1. CASE m + 1 <= n
    <3> DEFINE k == n - (m + 1)
    <3>1. k \in 0 .. n /\ k \in Nat /\ k + 1 = n - m /\ k + 1 \in 1 .. n /\ k # n /\ k + 1 - 1 = k
      BY <1>1, <2>1
    <3>2. \A v \in part[k + 1] : f[k + 1][v] \in Marked
      <4>1. \A v \in part[n - m] : f[n - m][v] \in Marked
        BY <1>1, <2>1
      <4>2. QED BY <3>1, <4>1
    <3> HIDE DEF k, Q
    <3>3. ASSUME NEW v \in part[k] PROVE f[k][v] \in Marked
      <4> DEFINE l == v[2]
                 ss == [i \in 1 .. Len(l) |-> f[k + 1][l[i]]]
                 t == type[k + 1]
      <4>1. v[1] = "list" /\ IsValue(v)
        BY <1>4, <1>5, <3>1, <3>3
      <4>2. l \in Seq(ToSet(l)) /\ Len(l) \in Nat /\ \A i \in 1 .. Len(l) : l[i] \in ToSet(l)
        BY <4>1, ValueContents, LenProperties, ElementOfSeq
      <4>3. \A i \in 1 .. Len(l) : l[i] \in part[k + 1]
        BY <1>3, <3>1, <3>3, <4>1, <4>2
      <4>4. FlattenSeq(ss) \in Marked
        <5>1. \A i \in 1 .. Len(l) : ss[i] \in Marked
          BY <3>2, <4>3
        <5> DEFINE c == Len(l)
        <5>2. ss = [i \in 1 .. c |-> ss[i]]
          OBVIOUS
        <5> HIDE DEF ss, l
        <5>3. c \in Nat
          BY <4>2
        <5> HIDE DEF c
        <5>4. \A i \in 1 .. c : ss[i] \in Seq(Byte \cup {Lost})
          BY <5>1 DEF c, Marked
        <5>5. QED BY <5>2, <5>3, <5>4, FlattenedFamily DEF Marked
      <4>5. Head1(k, v) \in Marked
        <5> DEFINE i == IF t = "array" THEN Kinds.array ELSE TypeCode(t)
                   x == WriteByte(i)
                   y == WriteInteger(LengthKind(t), Number(Len(l)))
        <5>1. t \in DOMAIN KindOf \cup {"array"}
          <6>1. CASE k + 1 = n
            <7>1. part[n - 1] # {} /\ k = n - 1
              BY <1>1, <3>1, <3>3, <6>1
            <7>2. QED BY <1>4, <6>1, <7>1
          <6>2. CASE k + 1 # n
            <7>1. k + 1 \in 1 .. n - 1
              BY <1>1, <3>1, <6>2
            <7>2. QED BY <1>1, <7>1
          <6>3. QED BY <6>1, <6>2
        <5> HIDE DEF t
        <5>2. i \in Int
          <6>1. Kinds.array \in Int
            BY DEF Kinds
          <6>2. QED BY <5>1, <6>1, KindsOfNames
        <5> HIDE DEF i
        <5>3. x \in Bytes
          BY <5>2, ByteBytes
        <5>4. y \in Bytes
          <6>1. LengthKind(t) \in {"byte", "short", "int"} /\ Len(l) \in Int
            BY <4>2 DEF LengthKind
          <6>2. QED BY <6>1, CountBytes
        <5>5. Head1(k, v) = x \o y
          BY DEF x, y, t, l, i
        <5> HIDE DEF x, y, Head1
        <5>6. x \o y \in Bytes
          BY <5>3, <5>4, Concatenated
        <5>7. QED BY <5>5, <5>6, BytesMarked
      <4>6. f[k][v] = Head1(k, v) \o FlattenSeq(ss)
        <5>1. f[k] = E(k, f[k + 1])
          BY <1>2, <3>1
        <5>2. QED BY <3>1, <3>3, <5>1 DEF E
      <4> HIDE DEF ss, Head1
      <4>7. QED BY <4>4, <4>5, <4>6, ConcatProperties DEF Marked
    <3>4. m + 1 \in Nat /\ \A v \in part[n - (m + 1)] : f[n - (m + 1)][v] \in Marked
      BY <3>3 DEF k, Q
    <3>5. QED BY <3>4 DEF Q
  <2>2. CASE ~(m + 1 <= n)
    BY <2>2
  <2>3. QED BY <2>1, <2>2
<1>8. Q = Nat
  <2>1. Q \in SUBSET Nat
    OBVIOUS
  <2> HIDE DEF Q
  <2>2. QED BY <1>6, <1>7, <2>1, SetInduction
<1>9. ASSUME NEW k \in 0 .. n PROVE \A v \in part[k] : f[k][v] \in Marked
  <2>1. n - k \in Nat /\ n - k <= n /\ n - (n - k) = k
    BY <1>1
  <2>2. n - k \in Q
    <3> HIDE DEF Q
    <3>1. QED BY <1>8, <2>1
  <2>3. QED BY <2>1, <2>2
<1>10. QED BY <1>9 DEF n, part

\* The whole of it.
LEMMA ArrayBytes ==
  ASSUME NEW type, IsType(type), NEW value, NEW err \in LogErrors, WritesArray(type, value),
         \A k \in 0 .. Len(type) : \A v \in Parts(value, Len(type))[k] : IsValue(v)
  PROVE  WriteArray(type, value, err) \in Marked
<1>1. Len(type) \in Nat
  BY LenProperties DEF IsType
<1>2. PICK f : WriteArray(type, value, err) = f[0][value] /\ ArraySteps(type, value, err, f)
  BY <1>1, ArrayRecursion
<1>3. \A k \in 0 .. Len(type) : \A v \in Parts(value, Len(type))[k] : f[k][v] \in Marked
  BY <1>2, PartBytes
<1>4. Parts(value, Len(type))[0] = {value} /\ 0 \in 0 .. Len(type)
  BY <1>1, PartsRecursion
<1>5. QED BY <1>2, <1>3, <1>4

-----------------------------------------------------------------------------
(* Parameters *)

\* A type without its outermost brackets is a type.
LEMMA TailType ==
  ASSUME NEW type, IsType(type), type[1] = "array", type # <<"array">>
  PROVE  IsType(Tail(type)) /\ Len(Tail(type)) = Len(type) - 1
<1>1. type \in Seq(STRING) /\ type # <<>> /\ \A k \in 1 .. Len(type) - 1 : type[k] = "array"
  BY DEF IsType
<1>2. Len(type) \in Nat /\ Len(type) # 0
  BY <1>1, LenProperties, EmptySeq
<1>3. Len(type) # 1
  <2>1. SUFFICES ASSUME Len(type) = 1 PROVE FALSE
    OBVIOUS
  <2> DEFINE a == <<"array">>
  <2>2. a \in Seq(STRING) /\ Len(a) = 1 /\ a[1] = "array"
    <3>1. Len(a) = 1 /\ a[1] = "array"
      OBVIOUS
    <3>2. type[1] \in STRING
      BY <1>1, <1>2, <2>1, ElementOfSeq
    <3>3. "array" \in STRING
      BY <3>2
    <3>4. a \in Seq(STRING)
      <4> DEFINE x == "array"
      <4>1. x \in STRING
        BY <3>3
      <4> HIDE DEF x
      <4>2. <<x>> \in Seq(STRING)
        BY <4>1
      <4>3. QED BY <4>2 DEF x
    <3>5. QED BY <3>1, <3>4
  <2>3. a # type
    OBVIOUS
  <2> HIDE DEF a
  <2>4. \A i \in 1 .. Len(type) : type[i] = a[i]
    BY <2>1, <2>2
  <2>5. type = a
    BY <1>1, <2>1, <2>2, <2>4, SeqEqual
  <2>6. QED BY <2>3, <2>5
<1>4. /\ Tail(type) \in Seq(STRING) /\ Len(Tail(type)) = Len(type) - 1
      /\ \A i \in 1 .. Len(Tail(type)) : Tail(type)[i] = type[i + 1]
  BY <1>1, HeadTailProperties
<1>5. Tail(type) # <<>>
  <2> DEFINE t == Tail(type)
  <2>1. Len(t) # 0
    BY <1>2, <1>3, <1>4
  <2> HIDE DEF t
  <2>2. t # <<>>
    BY <2>1, EmptySeq
  <2>3. QED BY <2>2 DEF t
<1>6. ASSUME NEW k \in 1 .. Len(Tail(type)) - 1 PROVE Tail(type)[k] = "array"
  <2>1. k \in 1 .. Len(Tail(type)) /\ k + 1 \in 1 .. Len(type) - 1
    BY <1>2, <1>4
  <2>2. QED BY <1>1, <1>4, <2>1
<1>7. QED BY <1>4, <1>5, <1>6 DEF IsType

\* A parameter that is accepted is written in bytes, or with marks among them.
LEMMA ParameterBytes ==
  ASSUME NEW type, IsType(type), NEW value, NEW err \in LogErrors,
         \A k \in 0 .. Len(type) - 1 : \A v \in Parts(value, Len(type) - 1)[k] : IsValue(v),
         CheckType(type, value),
         IF type[1] = "array" THEN WritesArray(Tail(type), value)
         ELSE WritesKind(KindOf[type[1]], value)
  PROVE  WriteParameter(type, value, err) \in Marked
<1>1. CASE type[1] = "array"
  <2>1. type # <<"array">>
    BY DEF CheckType
  <2> DEFINE tail == Tail(type)
  <2>2. IsType(tail) /\ Len(tail) = Len(type) - 1
    BY <1>1, <2>1, TailType
  <2>3. WritesArray(tail, value)
    BY <1>1
  <2> HIDE DEF tail
  <2>4. \A k \in 0 .. Len(tail) : \A v \in Parts(value, Len(tail))[k] : IsValue(v)
    BY <2>2
  <2>5. WriteArray(tail, value, err) \in Marked
    BY <2>2, <2>3, <2>4, ArrayBytes
  <2>6. WriteByte(Kinds.array) \in Marked
    <3>1. WriteByte(Kinds.array) \in Bytes
      BY ByteBytes DEF Kinds
    <3>2. QED BY <3>1, BytesMarked
  <2>7. WriteParameter(type, value, err) = WriteByte(Kinds.array) \o WriteArray(tail, value, err)
    BY <1>1 DEF WriteParameter, tail
  <2>8. QED BY <2>5, <2>6, <2>7, ConcatProperties DEF Marked
<1>2. CASE type[1] # "array"
  <2> DEFINE kind == KindOf[type[1]]
  <2>1. type[1] \in DOMAIN KindOf /\ WritesKind(kind, value)
    BY <1>2 DEF CheckType
  <2>2. kind \in ValueKinds /\ TypeCode(type[1]) \in Int
    BY <2>1, KindsOfNames
  <2>3. IsValue(value)
    <3>1. Len(type) - 1 \in Nat
      BY LenProperties, EmptySeq DEF IsType
    <3> DEFINE n == Len(type) - 1
    <3>2. n \in Nat /\ \A k \in 0 .. n : \A v \in Parts(value, n)[k] : IsValue(v)
      BY <3>1
    <3> HIDE DEF n
    <3>3. Parts(value, n)[0] = {value} /\ 0 \in 0 .. n
      BY <3>2, PartsRecursion
    <3>4. QED BY <3>2, <3>3
  <2> HIDE DEF kind
  <2>4. WriteKind(kind, value, err) \in Marked
    BY <2>1, <2>2, <2>3, KindBytes
  <2>5. WriteByte(TypeCode(type[1])) \in Marked
    <3>1. WriteByte(TypeCode(type[1])) \in Bytes
      BY <2>2, ByteBytes
    <3>2. QED BY <3>1, BytesMarked
  <2>6. WriteParameter(type, value, err) = WriteByte(TypeCode(type[1])) \o WriteKind(kind, value, err)
    BY <1>2 DEF WriteParameter, kind
  <2>7. QED BY <2>4, <2>5, <2>6, ConcatProperties DEF Marked
<1>3. QED BY <1>1, <1>2

\* What has been written before a mark are bytes, and bytes without one are all kept.
LEMMA KeptBytes ==
  ASSUME NEW s \in Marked
  PROVE  Kept(s) \in Bytes /\ (s \in Bytes => Kept(s) = s)
<1> DEFINE N == {n \in Nat : n <= Len(s) /\ (n < Len(s) => s[n + 1] = Lost)}
           m == CHOOSE n \in N : \A j \in N : n <= j
           K(n) == /\ \A i \in 1 .. n : s[i] # Lost
                   /\ n < Len(s) => s[n + 1] = Lost
           kept == CHOOSE n \in 0 .. Len(s) : K(n)
<1>1. Len(s) \in Nat /\ \A i \in 1 .. Len(s) : s[i] \in Byte \cup {Lost}
  BY LenProperties, ElementOfSeq DEF Marked
<1>2. m \in N /\ \A j \in N : m <= j
  <2>1. Len(s) \in N /\ N \in SUBSET Nat
    BY <1>1
  <2>2. N # {}
    BY <2>1
  <2> HIDE DEF N
  <2>3. QED BY <2>1, <2>2, LeastChosen
<1> HIDE DEF m
<1>3. m \in 0 .. Len(s) /\ K(m)
  <2>1. m \in Nat /\ m <= Len(s) /\ (m < Len(s) => s[m + 1] = Lost)
    BY <1>2
  <2>2. ASSUME NEW i \in 1 .. m, s[i] = Lost PROVE FALSE
    <3>1. i - 1 \in Nat /\ i - 1 <= Len(s) /\ i - 1 + 1 = i /\ ~(m <= i - 1)
      BY <1>1, <2>1
    <3>2. i - 1 \in N
      BY <2>2, <3>1
    <3>3. QED BY <1>2, <3>1, <3>2
  <2>3. QED BY <1>1, <2>1, <2>2
<1>4. kept \in 0 .. Len(s) /\ K(kept)
  <2> HIDE DEF K
  <2>1. QED BY <1>3
<1>5. Kept(s) = SubSeq(s, 1, kept)
  BY DEF Kept
<1> HIDE DEF kept
<1>6. Byte \subseteq Int /\ Lost \notin Byte
  BY ValueConstants DEF Byte, Lost
<1>7. SubSeq(s, 1, kept) \in Bytes
  <2> DEFINE t == SubSeq(s, 1, kept)
  <2>1. t = [i \in 1 .. kept |-> s[i]] /\ kept \in Nat
    BY <1>4
  <2>2. \A i \in 1 .. kept : s[i] \in Byte
    BY <1>1, <1>4
  <2>3. t \in [1 .. kept -> Byte]
    BY <2>1, <2>2
  <2>4. QED BY <2>1, <2>3, SeqDef DEF Bytes
<1>8. ASSUME s \in Bytes PROVE SubSeq(s, 1, kept) = s
  <2>1. \A i \in 1 .. Len(s) : s[i] \in Byte
    BY <1>8, ElementOfSeq DEF Bytes
  <2>2. kept = Len(s)
    <3>1. SUFFICES ASSUME kept < Len(s) PROVE FALSE
      BY <1>1, <1>4
    <3>2. kept + 1 \in 1 .. Len(s) /\ s[kept + 1] = Lost
      BY <1>1, <1>4, <3>1
    <3>3. QED BY <1>6, <2>1, <3>2
  <2>3. QED BY <1>1, <1>8, <2>2 DEF Bytes
<1>9. QED BY <1>5, <1>7, <1>8

-----------------------------------------------------------------------------
(* Reading what has been written *)

\* The bytes w in the buffer b from the position k on.
At(b, k, w) ==
  k \in Nat /\ k + Len(w) <= Len(b) /\ \A i \in 1 .. Len(w) : b[k + i] = w[i]

\* A buffer is its own bytes.
LEMMA AtStart ==
  ASSUME NEW b \in Bytes
  PROVE  At(b, 0, b)
<1>1. Len(b) \in Nat
  BY LenProperties DEF Bytes
<1>2. QED BY <1>1 DEF At

\* One behind the other.
LEMMA AtEach ==
  ASSUME NEW b, NEW k, NEW s \in Bytes, NEW t \in Bytes, Len(b) \in Nat, At(b, k, s \o t)
  PROVE  At(b, k, s) /\ At(b, k + Len(s), t)
<1> DEFINE w == s \o t
<1>1. /\ Len(s) \in Nat /\ Len(t) \in Nat /\ Len(w) = Len(s) + Len(t)
      /\ \A i \in 1 .. Len(s) + Len(t) : w[i] = IF i <= Len(s) THEN s[i] ELSE t[i - Len(s)]
  BY ConcatProperties, LenProperties DEF Bytes
<1>2. k \in Nat /\ k + Len(w) <= Len(b) /\ \A i \in 1 .. Len(w) : b[k + i] = w[i]
  BY DEF At
<1> HIDE DEF w
<1>3. ASSUME NEW i \in 1 .. Len(s) PROVE b[k + i] = s[i]
  <2>1. i \in 1 .. Len(s) + Len(t) /\ i <= Len(s)
    BY <1>1
  <2>2. QED BY <1>1, <1>2, <2>1
<1>4. ASSUME NEW i \in 1 .. Len(t) PROVE b[k + Len(s) + i] = t[i]
  <2> DEFINE j == Len(s) + i
  <2>1. j \in 1 .. Len(s) + Len(t) /\ ~(j <= Len(s)) /\ j - Len(s) = i /\ k + Len(s) + i = k + j
    BY <1>1, <1>2
  <2> HIDE DEF j
  <2>2. QED BY <1>1, <1>2, <2>1
<1>5. k + Len(s) \in Nat /\ k + Len(s) + Len(t) <= Len(b) /\ k + Len(s) <= Len(b)
  BY <1>1, <1>2
<1>6. QED BY <1>2, <1>3, <1>4, <1>5 DEF At

\* Cutting out what was written.
LEMMA AtSlice ==
  ASSUME NEW b \in Bytes, NEW k, NEW w \in Bytes, At(b, k, w)
  PROVE  SubSeq(b, k + 1, k + Len(w)) = w
<1> DEFINE s == SubSeq(b, k + 1, k + Len(w))
<1>1. Len(w) \in Nat /\ Len(b) \in Nat /\ k \in Nat /\ k + Len(w) <= Len(b)
      /\ \A i \in 1 .. Len(w) : b[k + i] = w[i]
  BY LenProperties DEF At, Bytes
<1>2. s \in Seq(Byte) /\ Len(s) = Len(w) /\ \A i \in 1 .. Len(w) : s[i] = b[k + i]
  BY <1>1 DEF Bytes
<1> HIDE DEF s
<1>3. s = w
  BY <1>1, <1>2, SeqEqual DEF Bytes
<1>4. QED BY <1>3 DEF s

\* An integer is made of the bytes at its place.
LEMMA IntegerTaken ==
  ASSUME NEW kind, NEW b, NEW c, NEW width, width = Width[kind],
         ~(~c.ok \/ c.at + width > Len(b))
  PROVE  ReadInteger(b, c, kind)
           = Cursor(c.at + width,
                    IF ReadSigned(SubSeq(b, c.at + 1, c.at + width)) = Least(kind) THEN Null
                    ELSE Number(ReadSigned(SubSeq(b, c.at + 1, c.at + width))))
BY DEF ReadInteger, Take

\* An integer, or null, is read where it was written.
LEMMA IntegerAt ==
  ASSUME NEW kind \in {"byte", "short", "int", "long"}, NEW v \in {Null} \cup Numbers(kind),
         NEW b \in Bytes, NEW k, NEW x, At(b, k, WriteInteger(kind, v))
  PROVE  /\ ReadInteger(b, Cursor(k, x), kind) = Cursor(k + Width[kind], v)
         /\ Len(WriteInteger(kind, v)) = Width[kind]
<1> DEFINE i == IF v = Null THEN Least(kind) ELSE v[2]
           w == WriteInteger(kind, v)
           width == Width[kind]
<1>1. /\ width \in Nat \ {0} /\ Least(kind) \in Int /\ Least(kind) <= -8
      /\ Most(kind) = -Least(kind) - 1 /\ Capacity(width) \div 2 = -Least(kind)
  BY Widths DEF Most
<1>2. v # Null => v = Number(v[2]) /\ v[2] \in Int /\ Least(kind) < v[2] /\ v[2] <= Most(kind)
  BY <1>1 DEF Numbers, Number
<1>3. i \in Int /\ i \in -(Capacity(width) \div 2) .. Capacity(width) \div 2 - 1
  BY <1>1, <1>2
<1>4. w = WriteSigned(i, width)
  BY DEF WriteInteger, NullOf
<1>5. w \in Bytes /\ Len(w) = width
  BY <1>1, <1>2, IntegerBytes DEF Number
<1> HIDE DEF w
<1>6. v = IF i = Least(kind) THEN Null ELSE Number(i)
  BY <1>1, <1>2
<1> HIDE DEF i
<1>7. ReadSigned(w) = i
  BY <1>1, <1>3, <1>4, SignedRoundTrip
<1>8. At(b, k, w)
  BY DEF w
<1>9. SubSeq(b, k + 1, k + width) = w
  BY <1>5, <1>8, AtSlice
<1>10. k \in Nat /\ Len(b) \in Nat /\ k + width <= Len(b)
  BY <1>5, <1>8, LenProperties DEF At, Bytes
<1>11. ~(~Cursor(k, x).ok \/ Cursor(k, x).at + width > Len(b))
  BY <1>1, <1>10 DEF Cursor
<1> HIDE DEF width
<1>12. ReadInteger(b, Cursor(k, x), kind)
         = Cursor(k + width, IF ReadSigned(SubSeq(b, k + 1, k + width)) = Least(kind) THEN Null
                             ELSE Number(ReadSigned(SubSeq(b, k + 1, k + width))))
  <2>1. Cursor(k, x).at = k
    BY DEF Cursor
  <2>2. QED BY <1>11, <2>1, IntegerTaken DEF width
<1>13. ReadInteger(b, Cursor(k, x), kind) = Cursor(k + width, v)
  BY <1>6, <1>7, <1>9, <1>12
<1>14. QED BY <1>5, <1>13 DEF width, w

\* A string, or null, is read where it was written.
LEMMA StringAt ==
  ASSUME NEW v \in Strings \cup {Null}, v # Null => Len(v[2]) <= Most("int"),
         NEW b \in Bytes, NEW k, NEW x, At(b, k, WriteBytes(v))
  PROVE  ReadString(b, Cursor(k, x)) = Cursor(k + Len(WriteBytes(v)), v)
<1>1. Least("int") \in Int /\ Least("int") <= -8 /\ Most("int") = -Least("int") - 1
      /\ Width["int"] \in Nat
  BY Widths DEF Most
<1>2. CASE v = Null
  <2> DEFINE m == Number(-1)
  <2>1. m \in Numbers("int") /\ AsNumber(m) < 0
    BY <1>1 DEF Numbers, AsNumber, Number, Null
  <2>2. WriteBytes(v) = WriteInteger("int", m)
    BY <1>2 DEF WriteBytes
  <2> HIDE DEF m
  <2>3. ReadInteger(b, Cursor(k, x), "int") = Cursor(k + Width["int"], m)
        /\ Len(WriteBytes(v)) = Width["int"]
    BY <2>1, <2>2, IntegerAt
  <2> DEFINE r == Cursor(k + Width["int"], m)
  <2>4. r.ok /\ AsNumber(r.value) < 0 /\ Gives(r, Null) = Cursor(k + Width["int"], Null)
    <3>1. r.ok /\ r.value = m
      BY DEF Cursor
    <3>2. Gives(r, Null) = Cursor(k + Width["int"], Null)
      BY DEF Gives, Cursor
    <3>3. QED BY <2>1, <3>1, <3>2
  <2> HIDE DEF r
  <2>5. ReadString(b, Cursor(k, x)) = Gives(r, Null)
    BY <2>3, <2>4 DEF ReadString, r
  <2>6. QED BY <1>2, <2>3, <2>4, <2>5
<1>3. CASE v # Null
  <2> DEFINE s == v[2]
             n == Len(s)
             m == Number(n)
             h == WriteInteger("int", m)
             at == k + Width["int"]
  <2>1. s \in Bytes /\ v = Chars(s) /\ n \in Nat /\ n <= Most("int")
    BY <1>3, LenProperties DEF Strings, Chars, Bytes
  <2>2. m \in Numbers("int") /\ AsNumber(m) = n
    BY <1>1, <2>1 DEF Numbers, AsNumber, Number, Null
  <2>3. WriteBytes(v) = h \o s
    BY <1>3 DEF WriteBytes
  <2> HIDE DEF n, m
  <2>4. h \in Bytes
    BY <2>2, NumberBytes
  <2> HIDE DEF s
  <2>5. Len(b) \in Nat
    BY LenProperties DEF Bytes
  <2>6. At(b, k, h \o s)
    BY <2>3
  <2>7. At(b, k, h) /\ At(b, k + Len(h), s)
    BY <2>1, <2>4, <2>5, <2>6, AtEach
  <2>8. ReadInteger(b, Cursor(k, x), "int") = Cursor(at, m) /\ Len(h) = Width["int"]
    BY <2>2, <2>7, IntegerAt
  <2>9. SubSeq(b, at + 1, at + n) = s
    BY <2>1, <2>7, <2>8, AtSlice DEF n, s
  <2>10. k \in Nat /\ at \in Nat /\ at + n <= Len(b)
    <3>1. At(b, at, s)
      BY <2>7, <2>8
    <3>2. QED BY <2>7, <3>1 DEF At, n, s
  <2>11. Len(WriteBytes(v)) = Width["int"] + n
    BY <2>1, <2>3, <2>4, <2>8, Concatenated DEF n, s
  <2>12. k + Len(WriteBytes(v)) = at + n
    BY <1>1, <2>1, <2>10, <2>11
  <2> DEFINE r == Cursor(at, m)
  <2>13. r.ok /\ ~(AsNumber(r.value) < 0) /\ AsNumber(r.value) = n /\ r.at = at
    BY <2>1, <2>2 DEF Cursor
  <2>14. ReadString(b, Cursor(k, x)) = Slice(b, r, n, Chars)
    BY <2>8, <2>13 DEF ReadString
  <2>15. ~(at + n > Len(b))
    BY <2>1, <2>5, <2>10
  <2> HIDE DEF at
  <2>16. Slice(b, r, n, Chars) = Cursor(at + n, Chars(SubSeq(b, at + 1, at + n)))
    BY <2>15 DEF Slice, Cursor
  <2>17. QED BY <2>1, <2>9, <2>12, <2>14, <2>16 DEF Cursor
<1>4. QED BY <1>2, <1>3

\* A byte that has no sign is read as itself.
LEMMA PlainByteAt ==
  ASSUME NEW n \in Nat, n < Base \div 2, NEW b \in Bytes, NEW k \in Nat, NEW x,
         k + 1 <= Len(b), b[k + 1] = n
  PROVE  ReadInteger(b, Cursor(k, x), "byte") = Cursor(k + 1, Number(n))
<1> DEFINE m == Number(n)
           w == WriteInteger("byte", m)
<1>1. Width["byte"] = 1 /\ Base = 256
  BY ValueConstants DEF Width
<1>2. Power(Base, 0) = 1 /\ Power(Base, 1) = Base
  <2>1. Base \in Nat \ {0} /\ 0 \in Nat /\ 0 + 1 = 1
    BY <1>1
  <2>2. Power(Base, 0) = 1 /\ Power(Base, 0 + 1) = Base * Power(Base, 0)
    BY <2>1, PowerRecursion
  <2>3. QED BY <2>1, <2>2
<1>3. n < 128 /\ n % 256 = n /\ n \div 1 = n
  BY <1>1
<1>4. m \in Numbers("byte")
  <2>1. Least("byte") = -128 /\ Most("byte") = 127
    BY <1>1, <1>2 DEF Least, Most, Capacity
  <2>2. QED BY <1>3, <2>1 DEF Numbers, Number
<1>5. w = [i \in 1 .. 1 |-> n]
  <2>1. w = Digits(Base, n, 1)
    BY <1>1 DEF WriteInteger, WriteSigned, WriteUnsigned, UnsignedOf, Number, Null
  <2>2. \A i \in 1 .. 1 : (n \div Power(Base, 1 - i)) % Base = n
    BY <1>1, <1>2, <1>3
  <2>3. QED BY <2>1, <2>2 DEF Digits
<1>6. At(b, k, w)
  <2>1. Len(w) = 1 /\ w[1] = n
    BY <1>5
  <2> HIDE DEF w
  <2>2. QED BY <2>1 DEF At
<1> HIDE DEF m
<1>7. ReadInteger(b, Cursor(k, x), "byte") = Cursor(k + Width["byte"], m)
  BY <1>4, <1>6, IntegerAt
<1>8. QED BY <1>1, <1>7 DEF m

-----------------------------------------------------------------------------
(* One behind the other *)

\* Where each of so many sequences is, one behind the other.
Places(b, ss, n, p) ==
  \A i \in 1 .. n : p[i] = p[i - 1] + Len(ss[i]) /\ At(b, p[i - 1], ss[i])

\* Sequences that have been put together have their places.
LEMMA PlacesOf ==
  ASSUME NEW b \in Bytes, NEW k, NEW n \in Nat, NEW ss \in [1 .. n -> Bytes], At(b, k, FlattenSeq(ss))
  PROVE  \E p \in [0 .. n -> Nat] :
           /\ p[0] = k /\ p[n] = k + Len(FlattenSeq(ss)) /\ Places(b, ss, n, p)
           /\ \A i \in 0 .. n : k <= p[i]
<1>1. k \in Nat /\ Len(b) \in Nat
  BY LenProperties DEF At, Bytes
<1>2. ss \in Seq(Bytes)
  BY SeqDef
<1>3. Len(ss) = n
  <2>1. Len(ss) \in Nat /\ DOMAIN ss = 1 .. Len(ss) /\ DOMAIN ss = 1 .. n
    BY <1>2, LenProperties
  <2>2. QED BY <2>1
<1>4. CASE n = 0
  <2>1. ss = <<>>
    BY <1>2, <1>3, <1>4, EmptySeq
  <2>2. FlattenSeq(ss) = <<>> /\ Len(FlattenSeq(ss)) = 0
    BY <2>1 DEF FlattenSeq
  <2> DEFINE p == [i \in 0 .. n |-> k]
  <2>3. p \in [0 .. n -> Nat] /\ p[0] = k /\ p[n] = k + 0 /\ \A i \in 0 .. n : k <= p[i]
    BY <1>1, <1>4
  <2>4. \A i \in 1 .. n : FALSE
    BY <1>4
  <2> HIDE DEF p
  <2>5. Places(b, ss, n, p)
    BY <2>4 DEF Places
  <2>6. QED BY <2>2, <2>3, <2>5
<1>5. CASE n # 0
  <2>1. n \in Nat \ {0}
    BY <1>5
  <2>2. PICK f : FlattenSeq(ss) = f[n] /\ FlattenSteps(ss, n, f)
    BY <1>3, <2>1, FlattenRecursion
  <2> DEFINE Q == {i \in Nat : i + 1 <= n => f[i + 1] \in Bytes}
             D == {m \in Nat : m < n => At(b, k, f[n - m])}
             p == [i \in 0 .. n |-> IF i = 0 THEN k ELSE k + Len(f[i])]
  <2>3. 0 \in Q
    <3>1. 1 \in 1 .. n /\ 0 + 1 = 1
      BY <2>1
    <3>2. f[1] = ss[1]
      BY <2>2, <3>1 DEF FlattenSteps
    <3>3. QED BY <3>1, <3>2
  <2>4. ASSUME NEW i \in Q PROVE i + 1 \in Q
    <3>1. CASE i + 1 + 1 <= n
      <4> DEFINE j == i + 1 + 1
                 s == f[i + 1]
                 t == ss[j]
      <4>1. j \in 1 .. n /\ j # 1 /\ j - 1 = i + 1 /\ s \in Bytes /\ t \in Bytes
        BY <2>1, <3>1
      <4>2. f[j] = s \o t
        BY <2>2, <4>1 DEF FlattenSteps
      <4> HIDE DEF s, t
      <4>3. s \o t \in Bytes
        BY <4>1, Concatenated
      <4>4. f[i + 1 + 1] \in Bytes /\ i + 1 \in Nat
        BY <4>2, <4>3
      <4>5. QED BY <4>4
    <3>2. CASE ~(i + 1 + 1 <= n)
      BY <3>2
    <3>3. QED BY <3>1, <3>2
  <2>5. Q = Nat
    <3>1. Q \in SUBSET Nat
      OBVIOUS
    <3> HIDE DEF Q
    <3>2. QED BY <2>3, <2>4, <3>1, SetInduction
  <2>6. ASSUME NEW i \in 1 .. n PROVE f[i] \in Bytes /\ Len(f[i]) \in Nat
    <3>1. i - 1 \in Nat /\ i - 1 + 1 = i /\ i <= n
      OBVIOUS
    <3>2. i - 1 \in Q
      <4> HIDE DEF Q
      <4>1. QED BY <2>5, <3>1
    <3>3. f[i] \in Bytes
      BY <3>1, <3>2
    <3>4. QED BY <3>3, LenProperties DEF Bytes
  <2>7. 0 \in D
    <3>1. n - 0 = n
      BY <2>1
    <3>2. QED BY <2>2, <3>1
  \* Each but the first is what is before it, and one of the sequences.
  <2>8. ASSUME NEW i \in 2 .. n, At(b, k, f[i])
        PROVE  /\ At(b, k, f[i - 1]) /\ At(b, k + Len(f[i - 1]), ss[i])
               /\ Len(f[i]) = Len(f[i - 1]) + Len(ss[i])
    <3> DEFINE s == f[i - 1]
               t == ss[i]
    <3>1. i \in 1 .. n /\ i # 1 /\ i - 1 \in 1 .. n
      BY <2>1
    <3>2. s \in Bytes /\ t \in Bytes /\ f[i] = s \o t
      BY <2>2, <2>6, <3>1 DEF FlattenSteps
    <3>3. At(b, k, s \o t)
      BY <2>8, <3>2
    <3> HIDE DEF s, t
    <3>4. At(b, k, s) /\ At(b, k + Len(s), t) /\ Len(s \o t) = Len(s) + Len(t)
      BY <1>1, <3>2, <3>3, AtEach, Concatenated
    <3>5. QED BY <3>2, <3>4 DEF s, t
  <2>9. ASSUME NEW m \in D PROVE m + 1 \in D
    <3>1. CASE m + 1 < n
      <4>1. n - m \in 2 .. n /\ n - m - 1 = n - (m + 1) /\ m < n
        BY <2>1, <3>1
      <4>2. At(b, k, f[n - m])
        BY <4>1
      <4>3. At(b, k, f[n - m - 1])
        BY <2>8, <4>1, <4>2
      <4>4. QED BY <4>1, <4>3
    <3>2. CASE ~(m + 1 < n)
      BY <3>2
    <3>3. QED BY <3>1, <3>2
  <2>10. D = Nat
    <3>1. D \in SUBSET Nat
      OBVIOUS
    <3> HIDE DEF D
    <3>2. QED BY <2>7, <2>9, <3>1, SetInduction
  <2>11. \A i \in 1 .. n : At(b, k, f[i])
    <3>1. TAKE i \in 1 .. n
    <3>2. n - i \in Nat /\ n - i < n /\ n - (n - i) = i
      BY <2>1
    <3>3. n - i \in D
      <4> HIDE DEF D
      <4>1. QED BY <2>10, <3>2
    <3>4. QED BY <3>2, <3>3
  <2>12. /\ p \in [0 .. n -> Nat] /\ p[0] = k /\ p[n] = k + Len(FlattenSeq(ss))
         /\ \A i \in 0 .. n : k <= p[i]
    <3>1. ASSUME NEW i \in 0 .. n PROVE p[i] \in Nat /\ k <= p[i]
      <4>1. CASE i = 0
        BY <1>1, <4>1
      <4>2. CASE i # 0
        <5>1. i \in 1 .. n
          BY <4>2
        <5>2. QED BY <1>1, <2>6, <4>2, <5>1
      <4>3. QED BY <4>1, <4>2
    <3>2. p[n] = k + Len(f[n])
      BY <2>1
    <3>3. QED BY <2>2, <3>1, <3>2
  <2>13. ASSUME NEW i \in 1 .. n
         PROVE  p[i] = p[i - 1] + Len(ss[i]) /\ At(b, p[i - 1], ss[i])
    <3>1. p[i] = k + Len(f[i])
      OBVIOUS
    <3>2. CASE i = 1
      <4>1. f[i] = ss[i] /\ p[i - 1] = k
        BY <2>2, <3>2 DEF FlattenSteps
      <4>2. QED BY <2>11, <3>1, <4>1
    <3>3. CASE i # 1
      <4>1. i \in 2 .. n /\ i - 1 \in 1 .. n
        BY <3>3
      <4>2. p[i - 1] = k + Len(f[i - 1])
        BY <4>1
      <4>3. At(b, k + Len(f[i - 1]), ss[i]) /\ Len(f[i]) = Len(f[i - 1]) + Len(ss[i])
        BY <2>8, <2>11, <4>1
      <4>4. Len(f[i - 1]) \in Nat /\ Len(ss[i]) \in Nat
        BY <2>6, <4>1, LenProperties DEF Bytes
      <4> HIDE DEF p
      <4>5. QED BY <1>1, <3>1, <4>2, <4>3, <4>4
    <3>4. QED BY <3>2, <3>3
  <2> HIDE DEF p
  <2>14. Places(b, ss, n, p)
    BY <2>13 DEF Places
  <2>15. QED BY <2>12, <2>14
<1>6. QED BY <1>4, <1>5

\* Sequences that are not empty are no more than their bytes.
LEMMA AtLeastSoMany ==
  ASSUME NEW n \in Nat, NEW p \in [0 .. n -> Nat], NEW least \in Nat,
         \A i \in 1 .. n : p[i - 1] + least <= p[i]
  PROVE  p[0] + n * least <= p[n]
<1> DEFINE S == {i \in Nat : i <= n => p[0] + i * least <= p[i]}
<1>1. 0 \in S
  <2>1. p[0] \in Nat
    OBVIOUS
  <2>2. 0 * least = 0 /\ p[0] + 0 <= p[0]
    BY <2>1
  <2>3. QED BY <2>2
<1>2. ASSUME NEW i \in S PROVE i + 1 \in S
  <2>1. CASE i + 1 <= n
    <3> DEFINE x == p[i]
               y == p[i + 1]
               o == p[0]
               m == i * least
    <3>1. i + 1 \in 1 .. n /\ i + 1 - 1 = i /\ i \in 0 .. n /\ i + 1 \in 0 .. n /\ 0 \in 0 .. n
      BY <2>1
    <3>2. x \in Nat /\ y \in Nat /\ o \in Nat /\ x + least <= y /\ m \in Nat /\ o + m <= x
      BY <2>1, <3>1
    <3>3. (i + 1) * least = m + least
      OBVIOUS
    <3> HIDE DEF x, y, o, m
    <3>4. o + (m + least) <= y
      BY <3>2
    <3>5. QED BY <3>3, <3>4 DEF o, y
  <2>2. CASE ~(i + 1 <= n)
    BY <2>2
  <2>3. QED BY <2>1, <2>2
<1>3. S = Nat
  <2>1. S \in SUBSET Nat
    OBVIOUS
  <2> HIDE DEF S
  <2>2. QED BY <1>1, <1>2, <2>1, SetInduction
<1>4. n \in S
  <2> HIDE DEF S
  <2>1. QED BY <1>3
<1>5. QED BY <1>4

-----------------------------------------------------------------------------
(* Reading one after the other *)

\* One more of a family.
LEMMA AppendNext ==
  ASSUME NEW k \in Nat, NEW v
  PROVE  Append([i \in 1 .. k |-> v[i]], v[k + 1]) = [i \in 1 .. k + 1 |-> v[i]]
<1> DEFINE S == {v[i] : i \in 1 .. k + 1}
           s == [i \in 1 .. k |-> v[i]]
           t == [i \in 1 .. k + 1 |-> v[i]]
<1>1. s \in [1 .. k -> S] /\ t \in [1 .. k + 1 -> S] /\ k + 1 \in Nat /\ v[k + 1] \in S
  OBVIOUS
<1> HIDE DEF S
<1>2. s \in Seq(S) /\ t \in Seq(S)
  BY <1>1, SeqDef
<1>3. Len(s) = k /\ Len(t) = k + 1
  <2>1. DOMAIN s = 1 .. k /\ DOMAIN t = 1 .. k + 1
    OBVIOUS
  <2> HIDE DEF s, t
  <2>2. QED BY <1>2, <2>1, LenProperties
<1>4. \A i \in 1 .. k : s[i] = v[i]
  OBVIOUS
<1>5. \A i \in 1 .. k + 1 : t[i] = v[i]
  OBVIOUS
<1> HIDE DEF s, t
<1> DEFINE a == Append(s, v[k + 1])
<1>6. /\ a \in Seq(S) /\ Len(a) = k + 1
      /\ \A i \in 1 .. k : a[i] = s[i]
      /\ a[k + 1] = v[k + 1]
  BY <1>1, <1>2, <1>3, AppendProperties
<1> HIDE DEF a
<1>7. \A i \in 1 .. k + 1 : a[i] = t[i]
  <2>1. TAKE i \in 1 .. k + 1
  <2>2. i \in 1 .. k \/ i = k + 1
    OBVIOUS
  <2>3. QED BY <1>4, <1>5, <1>6, <2>2
<1>8. a = t
  BY <1>2, <1>3, <1>6, <1>7, SeqEqual
<1>9. QED BY <1>8 DEF a, s, t

\* From one method to the next, up to the last of them.
EachSteps(c, methods, n, f) ==
  /\ f[0] = [cursor |-> c, values |-> <<>>]
  /\ \A k \in 1 .. n :
       f[k] = [cursor |-> Call(methods[k], f[k - 1].cursor),
               values |-> Append(f[k - 1].values, Call(methods[k], f[k - 1].cursor).value)]

\* What ReadEach makes of its methods.
LEMMA EachRecursion ==
  ASSUME NEW c, NEW methods, NEW n \in Nat, Len(methods) = n
  PROVE  \E f : /\ ReadEach(c, methods) = Gives(f[n].cursor, List(f[n].values))
                /\ EachSteps(c, methods, n, f)
<1> DEFINE One == [cursor |-> c, values |-> <<>>]
           Step(k, r) == [cursor |-> Call(methods[k], r.cursor),
                          values |-> Append(r.values, Call(methods[k], r.cursor).value)]
           R(m, f) == f = [k \in 0 .. m |-> IF k = 0 THEN One ELSE Step(k, f[k - 1])]
           S == {m \in Nat : \E f : R(m, f)}
<1>1. 0 \in S
  <2>1. R(0, [k \in 0 .. 0 |-> One])
    OBVIOUS
  <2>2. QED BY <2>1
<1>2. ASSUME NEW m \in S PROVE m + 1 \in S
  <2> HIDE DEF One, Step
  <2>1. PICK f : R(m, f)
    OBVIOUS
  <2> DEFINE g == [k \in 0 .. m + 1 |-> IF k = m + 1 THEN Step(k, f[m]) ELSE f[k]]
  <2>2. ASSUME NEW k \in 0 .. m + 1
        PROVE  g[k] = IF k = 0 THEN One ELSE Step(k, g[k - 1])
    <3>1. CASE k = m + 1
      BY <3>1
    <3>2. CASE k # m + 1
      <4>1. k \in 0 .. m /\ g[k] = f[k]
        BY <3>2
      <4>2. f[k] = IF k = 0 THEN One ELSE Step(k, f[k - 1])
        BY <2>1, <4>1
      <4>3. k # 0 => g[k - 1] = f[k - 1]
        BY <4>1
      <4>4. QED BY <4>1, <4>2, <4>3
    <3>3. QED BY <3>1, <3>2
  <2>3. R(m + 1, g)
    BY <2>2
  <2> HIDE DEF R
  <2>4. QED BY <2>3
<1>3. S = Nat
  <2>1. S \in SUBSET Nat
    OBVIOUS
  <2> HIDE DEF S
  <2>2. QED BY <1>1, <1>2, <2>1, SetInduction
<1>4. \E f : R(n, f)
  BY <1>3
<1> DEFINE f == CHOOSE f : R(n, f)
<1>5. R(n, f)
  <2> HIDE DEF R
  <2>1. QED BY <1>4
<1>6. ReadEach(c, methods) = Gives(f[n].cursor, List(f[n].values))
  BY DEF ReadEach
<1> HIDE DEF f
<1>7. f[0] = One /\ \A k \in 1 .. n : f[k] = Step(k, f[k - 1])
  <2> HIDE DEF One, Step
  <2>1. QED BY <1>5
<1>8. EachSteps(c, methods, n, f)
  BY <1>7 DEF EachSteps
<1>9. QED BY <1>6, <1>8

\* Methods that each read from where the one before ends.
Reading(methods, n, p, v) ==
  /\ n \in Nat /\ Len(methods) = n /\ v = [i \in 1 .. n |-> v[i]]
  /\ \A k \in 1 .. n : methods[k][p[k - 1]] = Cursor(p[k], v[k])

\* They read one after the other.
LEMMA EachAt ==
  ASSUME NEW n, NEW methods, NEW p, NEW v, NEW x, Reading(methods, n, p, v)
  PROVE  ReadEach(Cursor(p[0], x), methods) = Cursor(p[n], List(v))
<1> DEFINE c == Cursor(p[0], x)
<1>0. n \in Nat
  BY DEF Reading
<1> USE <1>0
<1>1. PICK f : /\ ReadEach(c, methods) = Gives(f[n].cursor, List(f[n].values))
               /\ EachSteps(c, methods, n, f)
  <2> HIDE DEF c
  <2>1. Len(methods) = n
    BY DEF Reading
  <2>2. QED BY <2>1, EachRecursion
<1> DEFINE P(k) == /\ f[k].cursor.at = p[k] /\ f[k].cursor.ok
                   /\ f[k].values = [i \in 1 .. k |-> v[i]]
           S == {k \in Nat : k <= n => P(k)}
<1>2. 0 \in S
  <2>1. f[0].cursor.at = p[0] /\ f[0].cursor.ok
    BY <1>1 DEF Cursor, EachSteps
  <2>2. f[0].values = [i \in 1 .. 0 |-> v[i]]
    BY <1>1 DEF EachSteps
  <2>3. QED BY <2>1, <2>2
<1>3. ASSUME NEW k \in Nat, k < n, P(k)
      PROVE  P(k + 1) /\ f[k + 1].cursor = Cursor(p[k + 1], v[k + 1])
  <2>1. k + 1 \in 1 .. n /\ k + 1 - 1 = k
    BY <1>3
  <2> DEFINE d == f[k].cursor
             e == Call(methods[k + 1], d)
  <2>2. e = Cursor(p[k + 1], v[k + 1])
    <3>1. methods[k + 1][p[k]] = Cursor(p[k + 1], v[k + 1])
      BY <2>1 DEF Reading
    <3>2. d.ok /\ d.at = p[k]
      BY <1>3
    <3> HIDE DEF d
    <3>3. QED BY <3>1, <3>2 DEF Call
  <2>3. f[k + 1] = [cursor |-> e, values |-> Append(f[k].values, e.value)]
    <3>1. f[k + 1] = [cursor |-> Call(methods[k + 1], f[k + 1 - 1].cursor),
                      values |-> Append(f[k + 1 - 1].values,
                                        Call(methods[k + 1], f[k + 1 - 1].cursor).value)]
      <4>1. \A j \in 1 .. n :
              f[j] = [cursor |-> Call(methods[j], f[j - 1].cursor),
                      values |-> Append(f[j - 1].values, Call(methods[j], f[j - 1].cursor).value)]
        BY <1>1 DEF EachSteps
      <4>2. QED BY <2>1, <4>1
    <3>2. QED BY <2>1, <3>1
  <2> HIDE DEF e
  <2>4. e.at = p[k + 1] /\ e.value = v[k + 1] /\ e.ok
    BY <2>2 DEF Cursor
  <2>5. f[k + 1].values = [i \in 1 .. k + 1 |-> v[i]]
    <3>1. f[k + 1].values = Append([i \in 1 .. k |-> v[i]], v[k + 1])
      BY <1>3, <2>3, <2>4
    <3>2. QED BY <3>1, AppendNext
  <2>6. f[k + 1].cursor = e
    BY <2>3
  <2>7. QED BY <2>2, <2>4, <2>5, <2>6
<1>4. ASSUME NEW k \in S PROVE k + 1 \in S
  <2>1. CASE k + 1 <= n
    <3>1. k < n /\ k <= n
      BY <2>1
    <3>2. P(k)
      BY <3>1
    <3> HIDE DEF P
    <3>3. P(k + 1)
      BY <1>3, <3>1, <3>2
    <3>4. QED BY <3>3
  <2>2. CASE ~(k + 1 <= n)
    BY <2>2
  <2>3. QED BY <2>1, <2>2
<1>5. S = Nat
  <2>1. S \in SUBSET Nat
    OBVIOUS
  <2> HIDE DEF S
  <2>2. QED BY <1>2, <1>4, <2>1, SetInduction
<1>6. P(n)
  <2>1. n \in S /\ n <= n
    <3>1. n <= n
      OBVIOUS
    <3> HIDE DEF S
    <3>2. QED BY <1>5, <3>1
  <2> HIDE DEF P
  <2>2. QED BY <2>1
<1>7. Gives(f[n].cursor, List(f[n].values)) = Cursor(p[n], List([i \in 1 .. n |-> v[i]]))
  BY <1>6 DEF Gives, Cursor
<1>8. v = [i \in 1 .. n |-> v[i]]
  BY DEF Reading
<1>9. QED BY <1>1, <1>7, <1>8

\* Methods that each read what was written for them, wherever it is from a place on.
ReadsWhat(b, k, ss, methods, n, v) ==
  /\ n \in Nat /\ ss \in [1 .. n -> Bytes] /\ Len(methods) = n /\ v = [i \in 1 .. n |-> v[i]]
  /\ \A i \in 1 .. n : \A at \in Nat :
       k <= at /\ At(b, at, ss[i]) => methods[i][at] = Cursor(at + Len(ss[i]), v[i])

\* They read what was written one behind the other.
LEMMA MethodsAt ==
  ASSUME NEW b \in Bytes, NEW k, NEW ss, NEW methods, NEW n, NEW v, NEW x,
         ReadsWhat(b, k, ss, methods, n, v), At(b, k, FlattenSeq(ss))
  PROVE  ReadEach(Cursor(k, x), methods) = Cursor(k + Len(FlattenSeq(ss)), List(v))
<1>1. /\ n \in Nat /\ ss \in [1 .. n -> Bytes] /\ Len(methods) = n
      /\ v = [i \in 1 .. n |-> v[i]]
  BY DEF ReadsWhat
<1>2. PICK p : p \in [0 .. n -> Nat]
        /\ p[0] = k /\ p[n] = k + Len(FlattenSeq(ss)) /\ Places(b, ss, n, p)
        /\ \A i \in 0 .. n : k <= p[i]
  BY <1>1, PlacesOf
<1>3. ASSUME NEW i \in 1 .. n PROVE methods[i][p[i - 1]] = Cursor(p[i], v[i])
  <2>1. i - 1 \in 0 .. n
    BY <1>1
  <2>2. p[i - 1] \in Nat /\ k <= p[i - 1] /\ At(b, p[i - 1], ss[i]) /\ p[i] = p[i - 1] + Len(ss[i])
    BY <1>2, <2>1 DEF Places
  <2>3. QED BY <2>2 DEF ReadsWhat
<1>4. Reading(methods, n, p, v)
  BY <1>1, <1>3 DEF Reading
<1>5. ReadEach(Cursor(p[0], x), methods) = Cursor(p[n], List(v))
  BY <1>4, EachAt
<1>6. QED BY <1>2, <1>5

\* One method for all of the elements.
Each(n, method) == [i \in 1 .. n |-> method]

\* It reads each of those that were written, which have some length at least.
Elements(b, k, ss, method, n, v, least) ==
  /\ ReadsWhat(b, k, ss, Each(n, method), n, v)
  /\ least \in Nat /\ \A i \in 1 .. n : least <= Len(ss[i])

\* They are read one after the other.
LEMMA ManyAt ==
  ASSUME NEW b \in Bytes, NEW k, NEW ss, NEW method, NEW n, NEW v, NEW x, NEW least,
         Elements(b, k, ss, method, n, v, least), At(b, k, FlattenSeq(ss))
  PROVE  ReadMany(b, Cursor(k, x), n, least, method) = Cursor(k + Len(FlattenSeq(ss)), List(v))
<1> DEFINE w == FlattenSeq(ss)
           methods == Each(n, method)
           c == Cursor(k, x)
<1>0. /\ ReadsWhat(b, k, ss, methods, n, v)
      /\ least \in Nat /\ \A i \in 1 .. n : least <= Len(ss[i])
  BY DEF Elements
<1>1. ReadEach(c, methods) = Cursor(k + Len(w), List(v))
  BY <1>0, MethodsAt
<1>2. n \in Nat /\ ss \in [1 .. n -> Bytes]
  BY <1>0 DEF ReadsWhat
<1>3. PICK p \in [0 .. n -> Nat] : p[0] = k /\ p[n] = k + Len(w) /\ Places(b, ss, n, p)
  BY <1>2, PlacesOf
<1>4. ASSUME NEW i \in 1 .. n PROVE p[i - 1] + least <= p[i]
  <2>1. i - 1 \in 0 .. n /\ i \in 0 .. n
    BY <1>2
  <2>2. Len(ss[i]) \in Nat
    BY <1>2, LenProperties DEF Bytes
  <2>3. p[i] = p[i - 1] + Len(ss[i]) /\ least <= Len(ss[i])
    BY <1>0, <1>3 DEF Places
  <2>4. p[i] \in Nat /\ p[i - 1] \in Nat
    BY <1>2, <2>1
  <2>5. QED BY <1>0, <2>2, <2>3, <2>4
<1>5. p[0] + n * least <= p[n]
  BY <1>0, <1>2, <1>4, AtLeastSoMany
<1>6. k \in Nat /\ k + Len(w) <= Len(b) /\ Len(b) \in Nat /\ p[0] = k /\ p[n] = k + Len(w)
  BY <1>3, LenProperties DEF At, Bytes
<1> DEFINE m == n * least
<1>7. m \in Nat
  BY <1>0, <1>2
<1> HIDE DEF m
<1>8. ~(n < 0 \/ m > Len(b) - k)
  <2>1. k + m <= k + Len(w)
    BY <1>5, <1>6 DEF m
  <2>2. n \in Nat /\ p[n] \in Nat
    BY <1>2
  <2>3. QED BY <1>6, <1>7, <2>1, <2>2
<1>9. c.at = k
  BY DEF Cursor
<1> HIDE DEF c
<1>10. ReadMany(b, c, n, least, method) = ReadEach(c, methods)
  BY <1>8, <1>9 DEF ReadMany, m, Each
<1>11. QED BY <1>1, <1>10 DEF c

-----------------------------------------------------------------------------
(* One value of each kind *)

\* What so many bytes, written somewhere, become through a function of them.
LEMMA TakenAt ==
  ASSUME NEW b \in Bytes, NEW k, NEW x, NEW w \in Bytes, At(b, k, w)
  PROVE  /\ SubSeq(b, k + 1, k + Len(w)) = w
         /\ k \in Nat /\ Len(w) \in Nat
         /\ ~(~Cursor(k, x).ok \/ Cursor(k, x).at + Len(w) > Len(b))
         /\ Cursor(k, x).ok /\ Cursor(k, x).at = k
<1>1. k \in Nat /\ Len(b) \in Nat /\ k + Len(w) <= Len(b) /\ Len(w) \in Nat
  BY LenProperties DEF At, Bytes
<1>2. SubSeq(b, k + 1, k + Len(w)) = w
  BY AtSlice
<1>3. Cursor(k, x).ok /\ Cursor(k, x).at = k
  BY DEF Cursor
<1>4. QED BY <1>1, <1>2, <1>3

\* Bytes with their length in front, or null.
LEMMA VarbinaryAt ==
  ASSUME NEW v \in ({"bytes"} \X Bytes) \cup {Null}, v # Null => Len(v[2]) <= Most("int"),
         NEW b \in Bytes, NEW k, NEW x, At(b, k, WriteBytes(v))
  PROVE  ReadVarbinary(b, Cursor(k, x)) = Cursor(k + Len(WriteBytes(v)), v)
<1>1. Least("int") \in Int /\ Least("int") <= -8 /\ Most("int") = -Least("int") - 1
      /\ Width["int"] \in Nat
  BY Widths DEF Most
<1>2. CASE v = Null
  <2> DEFINE m == Number(-1)
  <2>1. m \in Numbers("int")
    BY <1>1 DEF Numbers, Number
  <2>2. WriteBytes(v) = WriteInteger("int", m)
    BY <1>2 DEF WriteBytes
  <2> HIDE DEF m
  <2>3. ReadInteger(b, Cursor(k, x), "int") = Cursor(k + Width["int"], m)
        /\ Len(WriteBytes(v)) = Width["int"]
    BY <2>1, <2>2, IntegerAt
  <2> DEFINE r == Cursor(k + Width["int"], m)
  <2>4. r.value = Number(-1) /\ Gives(r, Null) = Cursor(k + Width["int"], Null)
    <3>1. r.ok /\ r.value = m
      BY DEF Cursor
    <3>2. Gives(r, Null) = Cursor(k + Width["int"], Null)
      BY DEF Gives, Cursor
    <3>3. QED BY <3>1, <3>2 DEF m
  <2> HIDE DEF r
  <2>5. ReadVarbinary(b, Cursor(k, x)) = Gives(r, Null)
    BY <2>3, <2>4 DEF ReadVarbinary, r
  <2>6. QED BY <1>2, <2>3, <2>4, <2>5
<1>3. CASE v # Null
  <2> DEFINE s == v[2]
             n == Len(s)
             m == Number(n)
             h == WriteInteger("int", m)
             at == k + Width["int"]
  <2>1. s \in Bytes /\ v = Binary(s) /\ n \in Nat /\ n <= Most("int")
    BY <1>3, LenProperties DEF Binary, Bytes
  <2>2. m \in Numbers("int") /\ AsNumber(m) = n /\ m # Number(-1)
    BY <1>1, <2>1 DEF Numbers, AsNumber, Number, Null
  <2>3. WriteBytes(v) = h \o s
    BY <1>3 DEF WriteBytes
  <2> HIDE DEF n, m
  <2>4. h \in Bytes
    BY <2>2, NumberBytes
  <2> HIDE DEF s
  <2>5. Len(b) \in Nat
    BY LenProperties DEF Bytes
  <2>6. At(b, k, h \o s)
    BY <2>3
  <2>7. At(b, k, h) /\ At(b, k + Len(h), s)
    BY <2>1, <2>4, <2>5, <2>6, AtEach
  <2>8. ReadInteger(b, Cursor(k, x), "int") = Cursor(at, m) /\ Len(h) = Width["int"]
    BY <2>2, <2>7, IntegerAt
  <2>9. SubSeq(b, at + 1, at + n) = s
    BY <2>1, <2>7, <2>8, AtSlice DEF n, s
  <2>10. k \in Nat /\ at \in Nat /\ at + n <= Len(b)
    <3>1. At(b, at, s)
      BY <2>7, <2>8
    <3>2. QED BY <2>7, <3>1 DEF At, n, s
  <2>11. Len(WriteBytes(v)) = Width["int"] + n
    BY <2>1, <2>3, <2>4, <2>8, Concatenated DEF n, s
  <2>12. k + Len(WriteBytes(v)) = at + n
    BY <1>1, <2>1, <2>10, <2>11
  <2> DEFINE r == Cursor(at, m)
  <2>13. r.ok /\ r.value # Number(-1) /\ AsNumber(r.value) = n /\ r.at = at
    BY <2>1, <2>2 DEF Cursor
  <2>14. ReadVarbinary(b, Cursor(k, x)) = Slice(b, r, n, Binary)
    BY <2>8, <2>13 DEF ReadVarbinary
  <2>15. ~(at + n > Len(b))
    BY <2>1, <2>5, <2>10
  <2> HIDE DEF at
  <2>16. Slice(b, r, n, Binary) = Cursor(at + n, Binary(SubSeq(b, at + 1, at + n)))
    BY <2>15 DEF Slice, Cursor
  <2>17. QED BY <2>1, <2>9, <2>12, <2>14, <2>16 DEF Cursor
<1>4. QED BY <1>2, <1>3

-----------------------------------------------------------------------------
(* Digits side by side *)

\* Digits in front of others count for a power each.
LEMMA AmountJoined ==
  ASSUME NEW base \in Nat \ {0}, NEW s \in Seq(Int), NEW t \in Seq(Int)
  PROVE  Amount(base, s \o t) = Amount(base, s) * Power(base, Len(t)) + Amount(base, t)
<1> DEFINE w == s \o t
           a == Amounts(base, s)
           c == Amounts(base, t)
           d == Amounts(base, w)
           m == Len(s)
           n == Len(t)
           P(i) == d[m + i] = a[m] * Power(base, i) + c[i] /\ c[i] \in Int
           S == {i \in Nat : i <= m => d[i] = a[i]}
           T == {i \in Nat : i <= n => P(i)}
<1>1. /\ m \in Nat /\ n \in Nat /\ Len(w) = m + n /\ w \in Seq(Int)
      /\ \A i \in 1 .. m + n : w[i] = IF i <= m THEN s[i] ELSE t[i - m]
  BY ConcatProperties, LenProperties
<1>2. a[0] = 0 /\ \A k \in 1 .. m : a[k] = base * a[k - 1] + s[k]
  BY <1>1, AmountsRecursion
<1>3. c[0] = 0 /\ \A k \in 1 .. n : c[k] = base * c[k - 1] + t[k]
  BY <1>1, AmountsRecursion
<1>4. d[0] = 0 /\ \A k \in 1 .. m + n : d[k] = base * d[k - 1] + w[k]
  <2>1. Len(w) = m + n /\ Len(w) \in Nat
    BY <1>1
  <2> HIDE DEF w
  <2>2. d[0] = 0 /\ \A k \in 1 .. Len(w) : d[k] = base * d[k - 1] + w[k]
    BY <2>1, AmountsRecursion
  <2>3. QED BY <2>1, <2>2
<1>5. /\ Amount(base, s) = a[m] /\ Amount(base, t) = c[n] /\ Amount(base, s \o t) = d[m + n]
      /\ a[m] \in Int
  BY <1>1, AmountType DEF Amount
<1>6. \A k \in 1 .. n : t[k] \in Int
  BY <1>1, ElementOfSeq
<1> HIDE DEF w, a, c, d, m, n
<1>7. 0 \in S
  BY <1>2, <1>4
<1>8. ASSUME NEW i \in S PROVE i + 1 \in S
  <2>1. CASE i + 1 <= m
    <3>1. i + 1 \in 1 .. m /\ i + 1 \in 1 .. m + n /\ i + 1 - 1 = i /\ i + 1 <= m /\ d[i] = a[i]
      BY <1>1, <2>1
    <3>2. d[i + 1] = base * d[i] + s[i + 1]
      BY <1>1, <1>4, <3>1
    <3>3. a[i + 1] = base * a[i] + s[i + 1]
      BY <1>2, <3>1
    <3>4. QED BY <3>1, <3>2, <3>3
  <2>2. CASE ~(i + 1 <= m)
    BY <2>2
  <2>3. QED BY <2>1, <2>2
<1>9. S = Nat
  <2>1. S \in SUBSET Nat
    OBVIOUS
  <2> HIDE DEF S
  <2>2. QED BY <1>7, <1>8, <2>1, SetInduction
<1>10. d[m] = a[m]
  <2>1. m \in Nat /\ m <= m
    BY <1>1
  <2>2. m \in S
    <3> HIDE DEF S
    <3>1. QED BY <1>9, <2>1
  <2>3. QED BY <2>1, <2>2
<1>11. Power(base, 0) = 1 /\ \A i \in Nat : Power(base, i + 1) = base * Power(base, i)
  BY PowerRecursion
<1>12. 0 \in T
  <2>1. m + 0 = m /\ Power(base, 0) = 1 /\ c[0] = 0
    BY <1>1, <1>3, <1>11
  <2>2. a[m] * 1 + 0 = a[m]
    BY <1>5
  <2>3. P(0)
    BY <1>10, <2>1, <2>2
  <2> HIDE DEF P
  <2>4. QED BY <2>3
<1>13. ASSUME NEW i \in T PROVE i + 1 \in T
  <2>1. CASE i + 1 <= n
    <3> DEFINE p == Power(base, i)
               x == a[m]
               y == c[i]
               z == t[i + 1]
    <3>1. /\ i + 1 \in 1 .. n /\ m + i + 1 \in 1 .. m + n /\ m + i + 1 - 1 = m + i /\ i + 1 - 1 = i
          /\ ~(m + i + 1 <= m) /\ m + i + 1 - m = i + 1 /\ m + (i + 1) = m + i + 1
      BY <1>1, <2>1
    <3>2. d[m + i] = x * p + y /\ y \in Int
      BY <1>1, <2>1
    <3>3. d[m + i + 1] = base * d[m + i] + z /\ z \in Int
      BY <1>1, <1>4, <1>6, <3>1
    <3>4. c[i + 1] = base * y + z
      BY <1>3, <3>1
    <3>5. Power(base, i + 1) = base * p /\ p \in Int /\ x \in Int
      <4>1. Power(base, i + 1) = base * p
        BY <1>11
      <4>2. p \in Nat \ {0}
        BY PowerType
      <4>3. QED BY <1>5, <4>1, <4>2
    <3>6. c[i + 1] \in Int
      <4> HIDE DEF y, z
      <4>1. base * y \in Int
        BY <3>2
      <4>2. QED BY <3>3, <3>4, <4>1
    <3>7. d[m + (i + 1)] = x * Power(base, i + 1) + c[i + 1]
      <4> HIDE DEF p, x, y, z
      <4>1. base * (x * p + y) + z = x * (base * p) + (base * y + z)
        BY <3>2, <3>3, <3>5
      <4>2. QED BY <3>1, <3>2, <3>3, <3>4, <3>5, <4>1
    <3>8. QED BY <3>6, <3>7
  <2>2. CASE ~(i + 1 <= n)
    BY <2>2
  <2>3. QED BY <2>1, <2>2
<1>14. T = Nat
  <2>1. T \in SUBSET Nat
    OBVIOUS
  <2> HIDE DEF T
  <2>2. QED BY <1>12, <1>13, <2>1, SetInduction
<1>15. P(n)
  <2>1. n \in T /\ n <= n
    <3>1. n \in Nat /\ n <= n
      BY <1>1
    <3> HIDE DEF T
    <3>2. QED BY <1>14, <3>1
  <2> HIDE DEF P
  <2>2. QED BY <2>1
<1>16. QED BY <1>5, <1>15 DEF m, n

\* Digits of a base amount to less than their number of digits can say.
LEMMA AmountBound ==
  ASSUME NEW base \in Nat \ {0}, NEW s \in Seq(0 .. base - 1)
  PROVE  Amount(base, s) \in 0 .. Power(base, Len(s)) - 1
<1> DEFINE a == Amounts(base, s)
           n == Len(s)
           S == {i \in Nat : i <= n => a[i] \in Nat /\ a[i] < Power(base, i)}
<1>1. n \in Nat /\ \A k \in 1 .. n : s[k] \in 0 .. base - 1
  BY LenProperties, ElementOfSeq
<1>2. a[0] = 0 /\ \A k \in 1 .. n : a[k] = base * a[k - 1] + s[k]
  BY <1>1, AmountsRecursion
<1>3. Amount(base, s) = a[n]
  BY DEF Amount
<1> HIDE DEF a, n
<1>4. Power(base, 0) = 1 /\ \A i \in Nat : Power(base, i + 1) = base * Power(base, i)
  BY PowerRecursion
<1>5. 0 \in S
  <2>1. a[0] = 0 /\ Power(base, 0) = 1
    BY <1>2, <1>4
  <2>2. a[0] \in Nat /\ a[0] < Power(base, 0)
    BY <2>1
  <2>3. QED BY <2>2
<1>6. ASSUME NEW i \in S PROVE i + 1 \in S
  <2>1. CASE i + 1 <= n
    <3> DEFINE p == Power(base, i)
               x == a[i]
               y == s[i + 1]
    <3>1. i + 1 \in 1 .. n /\ i + 1 - 1 = i /\ x \in Nat /\ x < p /\ p \in Nat
      BY <1>1, <2>1, PowerType
    <3>2. a[i + 1] = base * x + y /\ y \in 0 .. base - 1 /\ Power(base, i + 1) = base * p
      BY <1>1, <1>2, <1>4, <3>1
    <3> HIDE DEF p, x, y
    <3>3. base * x + base <= base * p
      <4>1. x + 1 <= p
        BY <3>1
      <4>2. base * (x + 1) <= base * p
        BY <3>1, <4>1
      <4>3. base * (x + 1) = base * x + base
        BY <3>1
      <4>4. QED BY <4>2, <4>3
    <3> DEFINE u == base * x
               q == base * p
    <3>4. u \in Nat /\ q \in Nat /\ u + base <= q
      BY <3>1, <3>3
    <3> HIDE DEF u, q
    <3>5. u + y \in Nat /\ u + y < q
      BY <3>2, <3>4
    <3>6. QED BY <3>2, <3>5 DEF u, q
  <2>2. CASE ~(i + 1 <= n)
    BY <2>2
  <2>3. QED BY <2>1, <2>2
<1>7. S = Nat
  <2>1. S \in SUBSET Nat
    OBVIOUS
  <2> HIDE DEF S
  <2>2. QED BY <1>5, <1>6, <2>1, SetInduction
<1>8. a[n] \in Nat /\ a[n] < Power(base, n)
  BY <1>1, <1>7
<1>9. Power(base, n) \in Nat
  BY <1>1, PowerType
<1>10. QED BY <1>3, <1>8, <1>9 DEF n

\* Zeros are digits that amount to nothing.
LEMMA ZerosAmount ==
  ASSUME NEW k \in Nat
  PROVE  Zeros(k) \in Seq(0 .. 9) /\ Len(Zeros(k)) = k /\ Amount(10, Zeros(k)) = 0
<1> DEFINE z == Zeros(k)
           a == Amounts(10, z)
           S == {i \in Nat : i <= k => a[i] = 0}
<1>1. z \in [1 .. k -> 0 .. 9] /\ DOMAIN z = 1 .. k /\ \A i \in 1 .. k : z[i] = 0
  BY DEF Zeros
<1> HIDE DEF z
<1>2. z \in Seq(0 .. 9)
  BY <1>1, SeqDef
<1>3. Len(z) = k
  BY <1>1, <1>2, LenProperties
<1>4. a[0] = 0 /\ \A i \in 1 .. k : a[i] = 10 * a[i - 1] + z[i]
  BY <1>3, AmountsRecursion
<1>5. Amount(10, z) = a[k]
  BY <1>3 DEF Amount
<1> HIDE DEF a
<1>6. 0 \in S
  BY <1>4
<1>7. ASSUME NEW i \in S PROVE i + 1 \in S
  <2>1. CASE i + 1 <= k
    <3>1. i + 1 \in 1 .. k /\ i + 1 - 1 = i /\ a[i] = 0
      BY <2>1
    <3>2. QED BY <1>1, <1>4, <3>1
  <2>2. CASE ~(i + 1 <= k)
    BY <2>2
  <2>3. QED BY <2>1, <2>2
<1>8. S = Nat
  <2>1. S \in SUBSET Nat
    OBVIOUS
  <2> HIDE DEF S
  <2>2. QED BY <1>6, <1>7, <2>1, SetInduction
<1>9. QED BY <1>2, <1>3, <1>5, <1>8 DEF z

-----------------------------------------------------------------------------
(* What digits spell *)

\* A sign is at the front only.
OneSign(s) == s \in Seq(-1 .. 9) /\ \A i \in 2 .. Len(s) : s[i] # Minus

\* Digits behind others change nothing of their sign.
LEMMA UnsignedJoined ==
  ASSUME NEW s \in Seq(-1 .. 9), NEW t \in Seq(0 .. 9)
  PROVE  /\ Signed(s \o t) <=> Signed(s)
         /\ Unsigned(s \o t) = Unsigned(s) \o t
         /\ s \o t \in Seq(-1 .. 9) /\ t \in Seq(-1 .. 9)
<1> DEFINE w == s \o t
<1>1. t \in Seq(-1 .. 9)
  <2>1. 0 .. 9 \subseteq -1 .. 9
    OBVIOUS
  <2>2. QED BY <2>1, SeqMonotonic
<1>2. /\ Len(s) \in Nat /\ Len(t) \in Nat /\ Len(w) = Len(s) + Len(t) /\ w \in Seq(-1 .. 9)
      /\ \A i \in 1 .. Len(s) + Len(t) : w[i] = IF i <= Len(s) THEN s[i] ELSE t[i - Len(s)]
  BY <1>1, ConcatProperties, LenProperties
<1>3. CASE s = <<>>
  <2>1. w = t /\ Unsigned(s) = <<>> /\ ~Signed(s)
    BY <1>1, <1>3, ConcatEmptySeq DEF Unsigned, Signed
  <2>2. ~Signed(t)
    <3>1. CASE t = <<>>
      BY <3>1 DEF Signed
    <3>2. CASE t # <<>>
      <4>1. Head(t) \in 0 .. 9
        BY <3>2, HeadTailProperties
      <4>2. QED BY <4>1 DEF Signed, Minus
    <3>3. QED BY <3>1, <3>2
  <2>3. Unsigned(w) = t /\ Unsigned(s) \o t = t
    BY <1>1, <2>1, <2>2, ConcatEmptySeq DEF Unsigned
  <2>4. QED BY <1>1, <1>2, <2>1, <2>2, <2>3
<1>4. CASE s # <<>>
  <2>1. Len(s) >= 1 /\ Len(w) >= 1
    BY <1>2, <1>4, EmptySeq
  <2>2. w # <<>>
    BY <2>1, EmptySeq
  <2>3. w[1] = s[1]
    BY <1>2, <2>1
  <2> HIDE DEF w
  <2>4. Head(w) = Head(s)
    BY <2>3, <1>2, <1>4, <2>2
  <2>5. Signed(w) <=> Signed(s)
    BY <1>4, <2>2, <2>4 DEF Signed
  <2>6. CASE ~Signed(s)
    BY <1>1, <1>2, <2>5, <2>6 DEF Unsigned, w
  <2>7. CASE Signed(s)
    <3> DEFINE x == Tail(w)
               y == Tail(s)
               z == y \o t
    <3>1. /\ x \in Seq(-1 .. 9) /\ Len(x) = Len(w) - 1
          /\ \A i \in 1 .. Len(x) : x[i] = w[i + 1]
      BY <1>2, <2>2, HeadTailProperties
    <3>2. /\ y \in Seq(-1 .. 9) /\ Len(y) = Len(s) - 1
          /\ \A i \in 1 .. Len(y) : y[i] = s[i + 1]
      BY <1>4, HeadTailProperties
    <3> HIDE DEF x, y
    <3>3. /\ z \in Seq(-1 .. 9) /\ Len(z) = Len(y) + Len(t)
          /\ \A i \in 1 .. Len(y) + Len(t) : z[i] = IF i <= Len(y) THEN y[i] ELSE t[i - Len(y)]
      BY <1>1, <3>2, ConcatProperties
    <3> HIDE DEF z
    <3>4. Len(x) = Len(z)
      BY <1>2, <3>1, <3>2, <3>3
    <3>5. ASSUME NEW i \in 1 .. Len(x) PROVE x[i] = z[i]
      <4>1. i + 1 \in 1 .. Len(s) + Len(t) /\ i \in 1 .. Len(y) + Len(t) /\ x[i] = w[i + 1]
        BY <1>2, <3>1, <3>3, <3>4
      <4>2. CASE i <= Len(y)
        <5>1. i + 1 <= Len(s) /\ i \in 1 .. Len(y)
          BY <1>2, <3>2, <4>2
        <5>2. x[i] = s[i + 1]
          BY <1>2, <4>1, <5>1
        <5>3. z[i] = s[i + 1]
          BY <3>2, <3>3, <4>1, <4>2, <5>1
        <5>4. QED BY <5>2, <5>3
      <4>3. CASE ~(i <= Len(y))
        <5>1. ~(i + 1 <= Len(s)) /\ i + 1 - Len(s) = i - Len(y)
          BY <1>2, <3>2, <4>3
        <5>2. x[i] = t[i - Len(y)]
          BY <1>2, <4>1, <5>1
        <5>3. z[i] = t[i - Len(y)]
          BY <3>3, <4>1, <4>3
        <5>4. QED BY <5>2, <5>3
      <4>4. QED BY <4>2, <4>3
    <3>6. x = z
      BY <3>1, <3>3, <3>4, <3>5, SeqEqual
    <3>7. Unsigned(w) = x /\ Unsigned(s) = y
      BY <2>5, <2>7 DEF Unsigned, x, y
    <3>8. QED BY <1>1, <1>2, <2>5, <3>6, <3>7 DEF z, w
  <2>8. QED BY <2>6, <2>7
<1>5. QED BY <1>3, <1>4

\* Nor do they bring another.
LEMMA OneSignJoined ==
  ASSUME NEW s, OneSign(s), NEW t \in Seq(0 .. 9)
  PROVE  OneSign(s \o t)
<1> DEFINE w == s \o t
<1>1. s \in Seq(-1 .. 9) /\ \A i \in 2 .. Len(s) : s[i] # Minus
  BY DEF OneSign
<1>2. w \in Seq(-1 .. 9) /\ t \in Seq(-1 .. 9)
  BY <1>1, UnsignedJoined
<1>3. /\ Len(s) \in Nat /\ Len(t) \in Nat /\ Len(w) = Len(s) + Len(t)
      /\ \A i \in 1 .. Len(s) + Len(t) : w[i] = IF i <= Len(s) THEN s[i] ELSE t[i - Len(s)]
  BY <1>1, <1>2, ConcatProperties, LenProperties
<1> HIDE DEF w
<1>4. ASSUME NEW i \in 2 .. Len(w) PROVE w[i] # Minus
  <2>1. CASE i <= Len(s)
    <3>1. i \in 2 .. Len(s) /\ i \in 1 .. Len(s) + Len(t)
      BY <1>3, <2>1
    <3>2. QED BY <1>1, <1>3, <2>1, <3>1
  <2>2. CASE ~(i <= Len(s))
    <3>1. i \in 1 .. Len(s) + Len(t) /\ i - Len(s) \in 1 .. Len(t)
      BY <1>3, <2>2
    <3>2. w[i] = t[i - Len(s)] /\ t[i - Len(s)] \in 0 .. 9
      BY <1>3, <2>2, <3>1, ElementOfSeq
    <3>3. QED BY <3>2 DEF Minus
  <2>3. QED BY <2>1, <2>2
<1>5. QED BY <1>2, <1>4 DEF OneSign, w

\* What is behind a sign are digits, of which the number is made.
LEMMA UnsignedDigits ==
  ASSUME NEW s, OneSign(s)
  PROVE  /\ Unsigned(s) \in Seq(0 .. 9) /\ Unsigned(s) \in Seq(Int)
         /\ Spelt(s) \in -(Power(10, Len(Unsigned(s))) - 1) .. Power(10, Len(Unsigned(s))) - 1
<1> DEFINE u == Unsigned(s)
           a == Amount(10, u)
           p == Power(10, Len(u))
<1>1. s \in Seq(-1 .. 9) /\ Len(s) \in Nat /\ \A i \in 2 .. Len(s) : s[i] # Minus
  BY LenProperties DEF OneSign
<1>2. u \in Seq(0 .. 9)
  <2>1. CASE Signed(s)
    <3>1. s # <<>> /\ u = Tail(s)
      BY <2>1 DEF Signed, Unsigned
    <3>2. u \in Seq(-1 .. 9) /\ Len(u) = Len(s) - 1 /\ \A i \in 1 .. Len(u) : u[i] = s[i + 1]
      BY <1>1, <3>1, HeadTailProperties
    <3> HIDE DEF u
    <3>3. ASSUME NEW i \in 1 .. Len(u) PROVE u[i] \in 0 .. 9
      <4>1. i + 1 \in 2 .. Len(s) /\ u[i] \in -1 .. 9 /\ u[i] = s[i + 1]
        BY <1>1, <3>2, ElementOfSeq
      <4>2. QED BY <1>1, <4>1 DEF Minus
    <3>4. Len(u) \in Nat /\ u \in [1 .. Len(u) -> -1 .. 9]
      BY <3>2, LenProperties
    <3>5. u \in [1 .. Len(u) -> 0 .. 9]
      BY <3>3, <3>4
    <3>6. QED BY <3>4, <3>5, SeqDef
  <2>2. CASE ~Signed(s)
    <3>1. u = s
      BY <2>2 DEF Unsigned
    <3>2. ASSUME NEW i \in 1 .. Len(s) PROVE s[i] \in 0 .. 9
      <4>1. s[i] \in -1 .. 9
        BY <1>1, ElementOfSeq
      <4>2. s[i] # -1
        <5>1. CASE i = 1
          <6>1. s # <<>>
            BY <5>1, EmptySeq
          <6>2. Head(s) # Minus /\ Head(s) = s[1]
            BY <1>1, <2>2, <6>1 DEF Signed
          <6>3. QED BY <5>1, <6>2 DEF Minus
        <5>2. CASE i # 1
          <6>1. i \in 2 .. Len(s)
            BY <5>2
          <6>2. QED BY <1>1, <6>1 DEF Minus
        <5>3. QED BY <5>1, <5>2
      <4>3. QED BY <4>1, <4>2
    <3>3. s \in [1 .. Len(s) -> -1 .. 9]
      BY <1>1, LenProperties
    <3>4. s \in [1 .. Len(s) -> 0 .. 9]
      BY <3>2, <3>3
    <3>5. QED BY <1>1, <3>1, <3>4, SeqDef
  <2>3. QED BY <2>1, <2>2
<1>3. Spelt(s) = IF Signed(s) THEN -a ELSE a
  BY DEF Spelt
<1> HIDE DEF u
<1>4. u \in Seq(Int) /\ Len(u) \in Nat
  <2>1. 0 .. 9 \subseteq Int
    OBVIOUS
  <2>2. QED BY <1>2, <2>1, SeqMonotonic, LenProperties
<1>5. a \in 0 .. p - 1 /\ p \in Nat
  <2>1. 10 - 1 = 9
    OBVIOUS
  <2>2. u \in Seq(0 .. 10 - 1)
    BY <1>2, <2>1
  <2>3. Amount(10, u) \in 0 .. Power(10, Len(u)) - 1
    BY <2>2, AmountBound
  <2>4. QED BY <1>4, <2>3, PowerType
<1> HIDE DEF a, p
<1>6. Spelt(s) \in -(p - 1) .. p - 1
  BY <1>3, <1>5
<1>7. QED BY <1>2, <1>4, <1>6 DEF u, p

\* Zeros at the end multiply what is spelt.
LEMMA SpeltShifted ==
  ASSUME NEW s, OneSign(s), NEW k \in Nat
  PROVE  Spelt(s \o Zeros(k)) = Spelt(s) * Power(10, k)
<1> DEFINE z == Zeros(k)
           u == Unsigned(s)
           p == Power(10, k)
<1>1. z \in Seq(0 .. 9) /\ Len(z) = k /\ Amount(10, z) = 0 /\ \A i \in 1 .. k : z[i] = 0
  BY ZerosAmount DEF Zeros
<1>2. u \in Seq(Int) /\ z \in Seq(Int) /\ s \in Seq(-1 .. 9)
  <2>1. 0 .. 9 \subseteq Int
    OBVIOUS
  <2> HIDE DEF z
  <2>2. z \in Seq(Int)
    BY <1>1, <2>1, SeqMonotonic
  <2>3. QED BY <2>2, UnsignedDigits DEF OneSign
<1> HIDE DEF z
<1>3. /\ Signed(s \o z) <=> Signed(s)
      /\ Unsigned(s \o z) = u \o z
      /\ s \o z \in Seq(-1 .. 9) /\ z \in Seq(-1 .. 9)
  BY <1>1, <1>2, UnsignedJoined
<1> HIDE DEF u
<1>4. Amount(10, u \o z) = Amount(10, u) * p
  <2>1. Amount(10, u \o z) = Amount(10, u) * Power(10, Len(z)) + Amount(10, z)
    BY <1>2, AmountJoined
  <2>2. Amount(10, u) \in Int /\ p \in Nat
    BY <1>2, AmountType, PowerType
  <2>3. QED BY <1>1, <2>1, <2>2
<1> DEFINE a == Amount(10, u)
<1>5. a \in Int /\ p \in Int
  BY <1>2, AmountType, PowerType
<1>6. Spelt(s) = (IF Signed(s) THEN -a ELSE a)
      /\ Spelt(s \o z) = IF Signed(s) THEN -(a * p) ELSE a * p
  BY <1>3, <1>4 DEF Spelt, u
<1> HIDE DEF a, p
<1>7. -(a * p) = (-a) * p
  BY <1>5
<1>8. Spelt(s \o z) = Spelt(s) * p
  BY <1>6, <1>7
<1>9. QED BY <1>8 DEF z, p

\* The text of an integer spells it.
LEMMA NumeralSpelt ==
  ASSUME NEW n \in Int
  PROVE  /\ OneSign(Numeral(n)) /\ Spelt(Numeral(n)) = n
         /\ Unsigned(Numeral(n)) = DigitsOf(Magnitude(n)) /\ Magnitude(n) \in Nat
         /\ Numeral(n) = IF n < 0 THEN <<Minus>> \o DigitsOf(-n) ELSE DigitsOf(n)
<1> DEFINE m == Magnitude(n)
           d == DigitsOf(m)
           s == Numeral(n)
<1>1. m \in Nat /\ m = (IF n < 0 THEN -n ELSE n) /\ s \in Seq(-1 .. 9) /\ Unsigned(s) = d
  BY NumeralType DEF Magnitude
<1>2. d \in Seq(0 .. 9) /\ Len(d) = Count(m) /\ d # <<>> /\ Unsigned(d) = d
  BY <1>1, DigitsOfType
<1>3. Amount(10, d) = m
  <2>1. Count(m) \in Nat /\ m \in 0 .. Power(10, Count(m)) - 1
    <3>1. Count(m) \in 1 .. m + 1 /\ m < Power(10, Count(m))
      BY <1>1, CountExists
    <3>2. Count(m) \in Nat
      BY <1>1, <3>1
    <3>3. Power(10, Count(m)) \in Nat
      BY <3>2, PowerType
    <3>4. QED BY <1>1, <3>1, <3>2, <3>3
  <2>2. Amount(10, Digits(10, m, Count(m))) = m
    BY <2>1, DigitsRoundTrip
  <2>3. QED BY <2>2 DEF DigitsOf
<1>4. s = IF n < 0 THEN <<Minus>> \o d ELSE d
  BY <1>1 DEF Numeral
<1>5. Signed(s) <=> n < 0
  <2>1. CASE n < 0
    <3>1. <<Minus>> \in Seq(-1 .. 9) /\ Signed(<<Minus>>)
      <4>1. <<Minus>> \in Seq(-1 .. 9) /\ <<Minus>> # <<>> /\ Head(<<Minus>>) = Minus
        BY DEF Minus
      <4>2. QED BY <4>1 DEF Signed
    <3> HIDE DEF d
    <3>2. Signed(<<Minus>> \o d)
      BY <1>2, <3>1, UnsignedJoined
    <3>3. QED BY <1>4, <2>1, <3>2
  <2>2. CASE ~(n < 0)
    <3>1. Head(d) \in 0 .. 9
      BY <1>2, HeadTailProperties
    <3>2. ~Signed(d)
      BY <3>1 DEF Signed, Minus
    <3>3. QED BY <1>4, <2>2, <3>2
  <2>3. QED BY <2>1, <2>2
<1>6. Spelt(s) = IF n < 0 THEN -m ELSE m
  BY <1>1, <1>3, <1>5 DEF Spelt
<1>7. Spelt(s) = n
  BY <1>1, <1>6
<1>8. OneSign(s)
  <2>1. ASSUME NEW i \in 2 .. Len(s) PROVE s[i] # Minus
    <3>1. CASE n < 0
      <4> DEFINE o == <<Minus>>
      <4>1. o \in Seq(-1 .. 9) /\ Len(o) = 1
        BY DEF Minus
      <4> HIDE DEF o, d
      <4>2. OneSign(o)
        BY <4>1 DEF OneSign
      <4>3. OneSign(o \o d)
        BY <1>2, <4>2, OneSignJoined
      <4>4. s = o \o d
        BY <1>4, <3>1 DEF o
      <4>5. QED BY <4>3, <4>4 DEF OneSign
    <3>2. CASE ~(n < 0)
      <4>1. s = d /\ Len(d) \in Nat
        BY <1>2, <1>4, <3>2, LenProperties
      <4>2. i \in 1 .. Len(d)
        BY <4>1
      <4>3. d[i] \in 0 .. 9
        BY <1>2, <4>2, ElementOfSeq
      <4>4. QED BY <4>1, <4>3 DEF Minus
    <3>3. QED BY <3>1, <3>2
  <2>2. QED BY <1>1, <2>1 DEF OneSign
<1>9. Numeral(n) = IF n < 0 THEN <<Minus>> \o DigitsOf(-n) ELSE DigitsOf(n)
  BY DEF Numeral
<1>10. QED BY <1>1, <1>7, <1>8, <1>9

-----------------------------------------------------------------------------
(* Decimals *)

\* What the text of a decimal says, in units of its last place.
Unscaled(text) == Spelt(text[2] \o text[3]) * Power(10, DecimalPlaces - Len(text[3]))

\* What sanitizeDecimal makes of an accepted text spells that, and fits.
LEMMA DecimalText ==
  ASSUME NEW text, OneSign(text[2]), text[3] \in Seq(0 .. 9), ~TooLong(text)
  PROVE  /\ Spelt(Sanitized(text)) = Unscaled(text)
         /\ Unscaled(text) \in -Most("decimal") .. Most("decimal")
<1> DEFINE w == text[2]
           f == text[3]
           k == DecimalPlaces - Len(f)
           z == Zeros(k)
           u == Unsigned(w)
           s == w \o f \o z
<1>1. /\ Len(f) \in Nat /\ DecimalPlaces \in Nat /\ MaxIntDigits \in Nat /\ w \in Seq(-1 .. 9)
      /\ Power(10, MaxIntDigits + DecimalPlaces) <= Most("decimal")
  BY LenProperties, ValueConstants DEF OneSign
<1>2. Len(u) <= MaxIntDigits /\ Len(f) <= DecimalPlaces /\ Len(u) \in Nat /\ u \in Seq(0 .. 9)
  <2>1. u \in Seq(0 .. 9)
    BY UnsignedDigits
  <2>2. Len(u) \in Nat
    BY <2>1, LenProperties
  <2>3. QED BY <1>1, <2>1, <2>2 DEF TooLong
<1>3. k \in Nat
  BY <1>1, <1>2
<1>4. Sanitized(text) = s
  BY DEF Sanitized
<1>5. OneSign(w) /\ f \in Seq(0 .. 9)
  OBVIOUS
<1>6. Unscaled(text) = Spelt(w \o f) * Power(10, k)
  BY DEF Unscaled
<1> HIDE DEF f, k, w
<1>7. OneSign(w \o f) /\ Unsigned(w \o f) = u \o f /\ w \o f \in Seq(-1 .. 9)
  BY <1>1, <1>5, OneSignJoined, UnsignedJoined
<1>8. z \in Seq(0 .. 9) /\ Len(z) = k
  BY <1>3, ZerosAmount
<1>9. Spelt(s) = Spelt(w \o f) * Power(10, k)
  BY <1>3, <1>7, SpeltShifted
<1>10. OneSign(s) /\ Unsigned(s) = (u \o f) \o z
  <2> DEFINE x == w \o f
  <2>1. OneSign(x) /\ x \in Seq(-1 .. 9) /\ Unsigned(x) = u \o f
    BY <1>7
  <2> HIDE DEF x, u, z
  <2>2. OneSign(x \o z) /\ Unsigned(x \o z) = Unsigned(x) \o z
    BY <1>8, <2>1, OneSignJoined, UnsignedJoined
  <2>3. QED BY <2>1, <2>2 DEF x, z, u
<1>11. Len(Unsigned(s)) = Len(u) + Len(f) + k
  <2> HIDE DEF u, z
  <2>1. u \o f \in Seq(0 .. 9) /\ Len(u \o f) = Len(u) + Len(f)
    BY <1>2, <1>5, ConcatProperties
  <2> DEFINE x == u \o f
  <2> HIDE DEF x
  <2>2. Len(x \o z) = Len(x) + Len(z)
    BY <1>8, <2>1, ConcatProperties DEF x
  <2>3. QED BY <1>8, <1>10, <2>1, <2>2 DEF x, u, z
<1> DEFINE m == Len(Unsigned(s))
<1>12. m \in Nat /\ m <= MaxIntDigits + DecimalPlaces
  BY <1>1, <1>2, <1>3, <1>11 DEF k
<1>13. Spelt(s) \in -(Power(10, m) - 1) .. Power(10, m) - 1
  BY <1>10, UnsignedDigits
<1> HIDE DEF s, m
<1>14. Power(10, m) \in Nat /\ Power(10, m) <= Power(10, MaxIntDigits + DecimalPlaces)
       /\ Power(10, MaxIntDigits + DecimalPlaces) \in Nat
  <2>1. MaxIntDigits + DecimalPlaces \in Nat
    BY <1>1
  <2>2. 10 \in Nat \ {0} /\ m \in Nat /\ m <= MaxIntDigits + DecimalPlaces
    BY <1>12
  <2>3. Power(10, m) \in Nat \ {0} /\ Power(10, MaxIntDigits + DecimalPlaces) \in Nat \ {0}
    BY <2>1, <2>2, PowerType
  <2>4. Power(10, m) <= Power(10, MaxIntDigits + DecimalPlaces)
    BY <2>1, <2>2, PowerMonotone
  <2>5. QED BY <2>3, <2>4
<1>15. Most("decimal") \in Nat
  BY Widths
<1>16. Spelt(s) \in -Most("decimal") .. Most("decimal")
  BY <1>1, <1>13, <1>14, <1>15
<1>17. QED BY <1>4, <1>6, <1>9, <1>16 DEF s, z

\* The parts of n / 10^p as text: what is in front of the point and behind it.
PartsOfText(n, p, q, w, f) ==
  /\ n \in Int /\ p \in Nat /\ q = Magnitude(n) \div Power(10, p)
  /\ w = IF n < 0 THEN <<Minus>> \o DigitsOf(q) ELSE DigitsOf(q)
  /\ f = Digits(10, Magnitude(n), p)

\* The text of a number with a point spells its digits, with as many places.
LEMMA FractionSpelt ==
  ASSUME NEW n, NEW p, NEW q, NEW w, NEW f, PartsOfText(n, p, q, w, f)
  PROVE  /\ OneSign(w) /\ f \in Seq(0 .. 9) /\ Len(f) = p /\ Spelt(w \o f) = n
         /\ Unsigned(w) = DigitsOf(q) /\ q \in Nat
<1> DEFINE m == Magnitude(n)
           d == DigitsOf(q)
           x == Power(10, p)
<1>0. n \in Int /\ p \in Nat /\ q = m \div x
      /\ w = (IF n < 0 THEN <<Minus>> \o d ELSE d) /\ f = Digits(10, m, p)
  BY DEF PartsOfText
<1>1. m \in Nat /\ m \in Int /\ m = (IF n < 0 THEN -n ELSE n)
  BY <1>0 DEF Magnitude
<1>2. 10 \in Nat \ {0} /\ 10 - 1 = 9 /\ 0 .. 9 \subseteq Int
  OBVIOUS
<1>3. x \in Nat \ {0}
  BY <1>0, <1>2, PowerType
<1>4. f = Digits(10, m, p) /\ q = m \div x
  BY <1>0
<1> HIDE DEF m, x
<1>5. f \in Seq(0 .. 9) /\ Len(f) = p
  <2>1. Digits(10, m, p) \in Seq(0 .. 10 - 1) /\ Len(Digits(10, m, p)) = p
    BY <1>0, <1>1, <1>2, DigitsType
  <2>2. QED BY <1>2, <1>4, <2>1
<1>6. q \in Nat
  BY <1>1, <1>3, <1>4, Division
<1>7. d \in Seq(0 .. 9) /\ d # <<>> /\ Unsigned(d) = d /\ Len(d) = Count(q)
  BY <1>6, DigitsOfType
<1>8. Amount(10, d) = q
  <2>1. Count(q) \in Nat /\ q \in 0 .. Power(10, Count(q)) - 1
    <3>1. Count(q) \in 1 .. q + 1 /\ q < Power(10, Count(q))
      BY <1>6, CountExists
    <3>2. Count(q) \in Nat
      BY <1>6, <3>1
    <3>3. Power(10, Count(q)) \in Nat
      BY <1>2, <3>2, PowerType
    <3>4. QED BY <1>6, <3>1, <3>2, <3>3
  <2>2. Amount(10, Digits(10, q, Count(q))) = q
    BY <1>2, <2>1, DigitsRoundTrip
  <2>3. QED BY <2>2 DEF DigitsOf
<1>9. w = (IF n < 0 THEN <<Minus>> \o d ELSE d) /\ d \in Seq(-1 .. 9)
  BY <1>0, <1>7, SignedDigits
<1> HIDE DEF d
<1>10. w \in Seq(-1 .. 9) /\ Unsigned(w) = d /\ (Signed(w) <=> n < 0)
  <2>1. CASE n < 0
    BY <1>7, <1>9, <2>1, SignedDigits
  <2>2. CASE ~(n < 0)
    <3>1. w = d
      BY <1>9, <2>2
    <3>2. Head(d) \in 0 .. 9
      BY <1>7, HeadTailProperties
    <3>3. ~Signed(d)
      BY <3>2 DEF Signed, Minus
    <3>4. QED BY <1>7, <1>9, <2>2, <3>1, <3>3
  <2>3. QED BY <2>1, <2>2
<1>11. OneSign(w)
  <2>1. CASE n < 0
    <3> DEFINE o == <<Minus>>
    <3>1. o \in Seq(-1 .. 9) /\ Len(o) = 1
      BY DEF Minus
    <3> HIDE DEF o
    <3>2. OneSign(o)
      BY <3>1 DEF OneSign
    <3>3. OneSign(o \o d)
      BY <1>7, <3>2, OneSignJoined
    <3>4. w = o \o d
      BY <1>9, <2>1 DEF o
    <3>5. QED BY <3>3, <3>4
  <2>2. CASE ~(n < 0)
    <3>1. w = d /\ Len(d) \in Nat
      BY <1>7, <1>9, <2>2, LenProperties
    <3>2. ASSUME NEW i \in 2 .. Len(d) PROVE d[i] # Minus
      <4>1. i \in 1 .. Len(d)
        BY <3>1
      <4>2. d[i] \in 0 .. 9
        BY <1>7, <4>1, ElementOfSeq
      <4>3. QED BY <4>2 DEF Minus
    <3>3. QED BY <1>10, <3>1, <3>2 DEF OneSign
  <2>3. QED BY <2>1, <2>2
<1>12. /\ Signed(w \o f) <=> n < 0
       /\ Unsigned(w \o f) = d \o f
  <2>1. w \in Seq(-1 .. 9) /\ f \in Seq(0 .. 9)
    BY <1>5, <1>10
  <2>2. (Signed(w \o f) <=> Signed(w)) /\ Unsigned(w \o f) = Unsigned(w) \o f
    BY <2>1, UnsignedJoined
  <2>3. QED BY <1>10, <2>2
<1>13. Amount(10, d \o f) = m
  <2>1. d \in Seq(Int) /\ f \in Seq(Int)
    BY <1>2, <1>5, <1>7, SeqMonotonic
  <2>2. Amount(10, d \o f) = Amount(10, d) * Power(10, Len(f)) + Amount(10, f)
    BY <1>2, <2>1, AmountJoined
  <2>3. m = (m \div Power(10, p)) * Power(10, p) + Amount(10, Digits(10, m, p))
    BY <1>0, <1>1, <1>2, LastDigits
  <2>4. QED BY <1>4, <1>5, <1>8, <2>2, <2>3 DEF x
<1>14. Spelt(w \o f) = IF n < 0 THEN -m ELSE m
  BY <1>12, <1>13 DEF Spelt
<1>15. Spelt(w \o f) = n
  BY <1>0, <1>1, <1>14
<1>16. QED BY <1>5, <1>6, <1>10, <1>11, <1>15 DEF d

\* A decimal that is accepted is written as the number it says, whether it was given
\* as text, as an integer or as a number with a point.
THEOREM DecimalWritten ==
  ASSUME NEW v, IsValue(v), v # Null, WritesKind("decimal", v)
  PROVE  /\ WriteDecimal(v) = WriteSigned(Unscaled(TextOf(v)), DecimalWidth)
         /\ Unscaled(TextOf(v)) \in -Most("decimal") .. Most("decimal")
         /\ v[1] \in {"text", "number", "fraction"}
         /\ v[1] = "number" => Unscaled(TextOf(v)) = v[2] * Power(10, DecimalPlaces)
         /\ v[1] = "fraction" => Unscaled(TextOf(v)) = v[2] * Power(10, DecimalPlaces - v[3])
         /\ v[1] = "text" => TextOf(v) = v
<1> DEFINE t == TextOf(v)
           n == Unscaled(t)
<1>1. /\ v[1] \in {"text", "number", "fraction"} /\ ~TooLong(t)
      /\ v[1] \in {"number", "fraction"} => v[2] \in Int
      /\ v[1] = "fraction" => v[3] \in Nat
  <2>1. v[1] \in {"text", "number", "fraction"}
    BY DEF WritesKind
  <2>2. ~TooLong(t)
    BY DEF WritesKind
  <2>3. (v[1] = "number" => v[2] \in Int) /\ (v[1] = "fraction" => v[2] \in Int /\ v[3] \in Nat)
    BY ValueContents
  <2>4. QED BY <2>1, <2>2, <2>3
<1>2. v[1] = "fraction" =>
        /\ OneSign(t[2]) /\ t[3] \in Seq(0 .. 9) /\ Len(t[3]) = v[3]
        /\ Spelt(t[2] \o t[3]) = v[2]
  <2>1. HAVE v[1] = "fraction"
  <2> DEFINE q == Magnitude(v[2]) \div Power(10, v[3])
             w == IF v[2] < 0 THEN <<Minus>> \o DigitsOf(q) ELSE DigitsOf(q)
             f == Digits(10, Magnitude(v[2]), v[3])
  <2>2. t = Text(w, f)
    BY <2>1 DEF TextOf
  <2>3. t[2] = w /\ t[3] = f
    BY <2>2 DEF Text
  <2>4. OneSign(w) /\ f \in Seq(0 .. 9) /\ Len(f) = v[3] /\ Spelt(w \o f) = v[2]
    <3>1. PartsOfText(v[2], v[3], q, w, f)
      BY <1>1, <2>1 DEF PartsOfText
    <3> HIDE DEF q, w, f
    <3>2. QED BY <3>1, FractionSpelt
  <2> HIDE DEF w, f, t
  <2>5. QED BY <2>3, <2>4
<1>3. OneSign(t[2]) /\ t[3] \in Seq(0 .. 9)
  <2>1. CASE v[1] = "text"
    <3>1. t = v
      BY <2>1 DEF TextOf
    <3>2. v[2] \in Seq(-1 .. 9) /\ v[3] \in Seq(0 .. 9)
      BY <2>1, ValueContents
    <3>3. \A i \in 2 .. Len(v[2]) : v[2][i] # Minus
      BY <2>1 DEF IsValue, Null, Object, Truth, Strings, Doubles, PlusInfinity, MinusInfinity, NotANumber
    <3>4. QED BY <3>1, <3>2, <3>3 DEF OneSign
  <2>2. CASE v[1] = "number"
    <3>1. t = Text(Numeral(v[2]), <<>>) /\ v[2] \in Int
      BY <1>1, <2>2 DEF TextOf
    <3>2. t[2] = Numeral(v[2]) /\ t[3] = <<>>
      BY <3>1 DEF Text
    <3>3. OneSign(Numeral(v[2])) /\ <<>> \in Seq(0 .. 9)
      BY <3>1, NumeralSpelt, EmptySeq
    <3>4. QED BY <3>2, <3>3
  <2>3. QED BY <1>1, <1>2, <2>1, <2>2
<1>4. Spelt(Sanitized(t)) = n /\ n \in -Most("decimal") .. Most("decimal")
  BY <1>1, <1>3, DecimalText
<1>5. n = Spelt(t[2] \o t[3]) * Power(10, DecimalPlaces - Len(t[3]))
  BY DEF Unscaled
<1>6. v[1] = "number" => n = v[2] * Power(10, DecimalPlaces)
  <2>1. HAVE v[1] = "number"
  <2> DEFINE s == Numeral(v[2])
  <2>2. t = Text(s, <<>>) /\ v[2] \in Int
    BY <1>1, <2>1 DEF TextOf
  <2>3. t[2] = s /\ t[3] = <<>> /\ Len(<<>>) = 0
    BY <2>2 DEF Text
  <2>4. s \in Seq(-1 .. 9) /\ Spelt(s) = v[2]
    BY <2>2, NumeralSpelt DEF OneSign
  <2> HIDE DEF s
  <2>5. s \o <<>> = s
    BY <2>4, ConcatEmptySeq
  <2>6. DecimalPlaces \in Nat /\ DecimalPlaces - 0 = DecimalPlaces
    BY ValueConstants
  <2>7. QED BY <1>5, <2>3, <2>4, <2>5, <2>6
<1>7. v[1] = "fraction" => n = v[2] * Power(10, DecimalPlaces - v[3])
  <2> HIDE DEF n, t
  <2>1. QED BY <1>2, <1>5
<1>8. v[1] = "text" => t = v
  BY DEF TextOf
<1> HIDE DEF n, t
<1>9. WriteDecimal(v) = WriteBigInteger("decimal", n)
  BY <1>4 DEF WriteDecimal, t
<1>10. Least("decimal") <= n /\ n <= Most("decimal") /\ Width["decimal"] = DecimalWidth
  <2>1. Least("decimal") \in Int /\ Most("decimal") = -Least("decimal") - 1
    BY Widths DEF Most
  <2>2. QED BY <1>4, <2>1 DEF Width
<1>11. WriteDecimal(v) = WriteSigned(n, DecimalWidth)
  BY <1>9, <1>10 DEF WriteBigInteger
<1>12. QED BY <1>1, <1>4, <1>6, <1>7, <1>8, <1>11 DEF n, t

\* The text that is made of a decimal says it again, with all of its places, but
\* for a sign among digits that are too few.
THEOREM PointedSays ==
  ASSUME NEW n \in Int, n >= 0 \/ n <= -Power(10, DecimalPlaces - 1),
         NEW r, r = Pointed(Numeral(n))
  PROVE  /\ r[1] = "text" /\ r[2] # <<>> /\ Len(r[3]) = DecimalPlaces
         /\ \A i \in 1 .. Len(r[2]) : r[2][i] = Minus => i = 1
         /\ \A i \in 1 .. Len(r[3]) : r[3][i] # Minus
         /\ Spelt(r[2] \o r[3]) = n
<1> DEFINE s == Numeral(n)
           k == Len(s) - DecimalPlaces
           d == DigitsOf(Magnitude(n))
<1>1. /\ OneSign(s) /\ Spelt(s) = n /\ Unsigned(s) = d /\ s \in Seq(-1 .. 9)
      /\ s = IF n < 0 THEN <<Minus>> \o DigitsOf(-n) ELSE DigitsOf(n)
      /\ Magnitude(n) \in Nat /\ Magnitude(n) = IF n < 0 THEN -n ELSE n
  BY NumeralSpelt DEF OneSign, Magnitude
<1>2. d \in Seq(0 .. 9) /\ Len(d) = Count(Magnitude(n)) /\ Len(d) \in Nat
  BY <1>1, DigitsOfType, LenProperties
<1>3. Len(s) \in Nat /\ DecimalPlaces \in Nat \ {0}
  BY <1>1, ValueConstants, LenProperties
<1>4. r = Pointed(s)
  OBVIOUS
<1> HIDE DEF s
<1>5. CASE k <= 0
  <2> DEFINE j == -k
             z == Zeros(j)
             o == <<0>>
  <2>1. j \in Nat /\ j + Len(s) = DecimalPlaces
    BY <1>3, <1>5
  <2>2. r = Text(o, z \o s)
    BY <1>4, <1>5 DEF Pointed
  \* A negative number would have as many digits as there are places.
  <2>3. s = d
    <3>1. CASE n < 0
      <4> DEFINE m == Magnitude(n)
      <4>1. m >= Power(10, DecimalPlaces - 1)
        <5>1. DecimalPlaces - 1 \in Nat
          BY <1>3
        <5>2. Power(10, DecimalPlaces - 1) \in Nat
          BY <5>1, PowerType
        <5>3. QED BY <1>1, <3>1, <5>2
      <4>2. m < Power(10, Count(m)) /\ Count(m) \in Nat
        <5>1. Count(m) \in 1 .. m + 1 /\ m < Power(10, Count(m))
          BY <1>1, CountExists
        <5>2. QED BY <1>1, <5>1
      <4>3. Count(m) >= DecimalPlaces
        <5>1. SUFFICES ASSUME Count(m) <= DecimalPlaces - 1 PROVE FALSE
          BY <1>3, <4>2
        <5>2. DecimalPlaces - 1 \in Nat
          BY <1>3
        <5>3. Power(10, Count(m)) <= Power(10, DecimalPlaces - 1)
          BY <4>2, <5>1, <5>2, PowerMonotone
        <5>4. Power(10, Count(m)) \in Nat /\ Power(10, DecimalPlaces - 1) \in Nat /\ m \in Nat
          BY <1>1, <4>2, <5>2, PowerType
        <5> HIDE DEF m
        <5>5. QED BY <4>1, <4>2, <5>3, <5>4
      <4>4. Len(s) = 1 + Len(d)
        <5> DEFINE t == <<Minus>>
        <5>1. s = t \o d
          BY <1>1, <3>1
        <5>2. t \in Seq(-1 .. 9) /\ Len(t) = 1
          BY DEF Minus
        <5> HIDE DEF t, d
        <5>3. d \in Seq(-1 .. 9)
          BY <1>2, <5>2, UnsignedJoined
        <5>4. QED BY <5>1, <5>2, <5>3, ConcatProperties
      <4>5. QED BY <1>2, <1>3, <1>5, <4>3, <4>4
    <3>2. CASE ~(n < 0)
      BY <1>1, <3>2
    <3>3. QED BY <3>1, <3>2
  <2>4. z \in Seq(0 .. 9) /\ Len(z) = j /\ Amount(10, z) = 0
    BY <2>1, ZerosAmount
  <2>5. o \in Seq(-1 .. 9) /\ o \in Seq(0 .. 9) /\ Len(o) = 1 /\ o[1] = 0 /\ o # <<>>
    OBVIOUS
  <2> HIDE DEF z, d, j, o
  <2>6. z \o d \in Seq(0 .. 9) /\ Len(z \o d) = DecimalPlaces
    BY <1>2, <2>1, <2>3, <2>4, ConcatProperties
  <2> DEFINE f == z \o d
             w == o \o f
  <2>7. r[1] = "text" /\ r[2] = o /\ r[3] = f
    BY <2>2, <2>3 DEF Text
  <2>8. Spelt(o \o f) = n
    <3>1. OneSign(o)
      BY <2>5 DEF OneSign
    <3>2. ~Signed(o) /\ Unsigned(o) = o
      <4>1. Head(o) = 0
        BY <2>5
      <4>2. QED BY <4>1 DEF Signed, Unsigned, Minus
    <3>3. ~Signed(w)
      BY <2>5, <2>6, <3>2, UnsignedJoined
    <3>4. Spelt(w) = Amount(10, w)
      BY <3>3 DEF Spelt, Unsigned
    <3>5. o \in Seq(Int) /\ z \in Seq(Int) /\ d \in Seq(Int) /\ f \in Seq(Int)
      <4>1. 0 .. 9 \subseteq Int
        OBVIOUS
      <4>2. QED BY <1>2, <2>4, <2>5, <2>6, <4>1, SeqMonotonic
    <3>6. Amount(10, o) = 0
      <4>1. Amounts(10, o)[0] = 0 /\ Amounts(10, o)[1] = 10 * Amounts(10, o)[1 - 1] + o[1]
        BY <2>5, AmountsRecursion
      <4>2. QED BY <2>5, <4>1 DEF Amount
    <3>7. Amount(10, f) = 0 * Power(10, Len(d)) + Amount(10, d)
      BY <2>4, <3>5, AmountJoined
    <3>8. Amount(10, w) = 0 * Power(10, Len(f)) + Amount(10, f)
      <4> HIDE DEF f
      <4>1. QED BY <3>5, <3>6, AmountJoined
    <3>9. Power(10, Len(d)) \in Nat /\ Power(10, Len(f)) \in Nat
      <4>1. 10 \in Nat \ {0} /\ Len(d) \in Nat /\ Len(f) \in Nat
        BY <1>2, <1>3, <2>6
      <4>2. QED BY <4>1, PowerType
    <3>10. Amount(10, d) \in Int
      BY <3>5, AmountType
    <3>11. Amount(10, w) = Amount(10, d)
      <4> HIDE DEF f, w
      <4>1. Amount(10, f) = Amount(10, d)
        BY <3>7, <3>9, <3>10
      <4>2. QED BY <3>8, <3>9, <3>10, <4>1
    <3>12. ~Signed(d) /\ Spelt(d) = Amount(10, d)
      <4>1. Unsigned(d) = d
        BY <1>1, DigitsOfType DEF d
      <4>2. d # <<>> /\ Head(d) \in 0 .. 9
        BY <1>1, <1>2, DigitsOfType, HeadTailProperties DEF d
      <4>3. ~Signed(d)
        BY <4>2 DEF Signed, Minus
      <4>4. QED BY <4>1, <4>3 DEF Spelt
    <3>13. QED BY <1>1, <2>3, <3>4, <3>11, <3>12
  <2>9. \A i \in 1 .. Len(f) : f[i] # Minus
    <3>1. TAKE i \in 1 .. Len(f)
    <3>2. f[i] \in 0 .. 9
      BY <2>6, ElementOfSeq
    <3>3. QED BY <3>2 DEF Minus
  <2>10. \A i \in 1 .. Len(o) : o[i] = Minus => i = 1
    BY <2>5
  <2>11. Len(f) = DecimalPlaces
    BY <2>6
  <2> HIDE DEF f
  <2>12. QED BY <2>5, <2>7, <2>8, <2>9, <2>10, <2>11
<1>6. CASE ~(k <= 0)
  <2> DEFINE w == SubSeq(s, 1, k)
             f == SubSeq(s, k + 1, Len(s))
  <2>0. \A i \in 1 .. Len(s) : s[i] \in -1 .. 9
    <3>1. s \in Seq(-1 .. 9)
      BY <1>1
    <3>2. QED BY <3>1, ElementOfSeq
  <2>1. k \in Nat \ {0} /\ k \in 1 .. Len(s) /\ Len(s) - k = DecimalPlaces
    BY <1>3, <1>6
  <2>2. r = Text(w, f)
    BY <1>4, <1>6 DEF Pointed
  <2>3. w \in Seq(-1 .. 9) /\ Len(w) = k /\ \A i \in 1 .. k : w[i] = s[i]
    <3> HIDE DEF k
    <3>1. \A i \in 1 .. k : s[i] \in -1 .. 9
      BY <1>3, <2>0, <2>1
    <3>2. /\ w \in Seq(-1 .. 9)
          /\ Len(w) = IF 1 <= k THEN k - 1 + 1 ELSE 0
          /\ \A i \in 1 .. k - 1 + 1 : w[i] = s[1 + i - 1]
      BY <2>1, <3>1, SubSeqProperties
    <3>3. k - 1 + 1 = k /\ 1 <= k /\ \A i \in 1 .. k : 1 + i - 1 = i
      BY <2>1
    <3> HIDE DEF w
    <3>4. QED BY <3>2, <3>3
  <2>4. f \in Seq(-1 .. 9) /\ Len(f) = DecimalPlaces /\ \A i \in 1 .. Len(f) : f[i] = s[k + i]
    <3> HIDE DEF k
    <3> DEFINE a == k + 1
               e == Len(s)
    <3>1. a \in Int /\ e \in Int /\ \A i \in a .. e : s[i] \in -1 .. 9
      BY <1>3, <2>0, <2>1
    <3>2. f = SubSeq(s, a, e)
      OBVIOUS
    <3> HIDE DEF f, a, e
    <3>3. /\ f \in Seq(-1 .. 9)
          /\ Len(f) = IF a <= e THEN e - a + 1 ELSE 0
          /\ \A i \in 1 .. e - a + 1 : f[i] = s[a + i - 1]
      BY <3>1, <3>2, SubSeqProperties
    <3>4. /\ e - a + 1 = DecimalPlaces /\ a <= e
          /\ \A i \in 1 .. DecimalPlaces : a + i - 1 = k + i
      BY <1>3, <2>1 DEF a, e
    <3>5. QED BY <3>3, <3>4
  <2>5. w \o f = s
    <3> HIDE DEF k
    <3>1. 1 \in 1 .. Len(s) + 1 /\ k \in 1 - 1 .. Len(s) /\ Len(s) \in k .. Len(s)
      BY <1>3, <2>1
    <3>2. SubSeq(s, 1, k) \o SubSeq(s, k + 1, Len(s)) = SubSeq(s, 1, Len(s))
      BY <1>1, <3>1, ConcatAdjacentSubSeq
    <3>3. SubSeq(s, 1, Len(s)) = s
      BY <1>1, SubSeqFull
    <3>4. QED BY <3>2, <3>3
  <2> HIDE DEF w, f
  <2>6. r[1] = "text" /\ r[2] = w /\ r[3] = f
    BY <2>2 DEF Text
  <2>7. w # <<>>
    BY <2>1, <2>3
  <2>8. \A i \in 1 .. Len(w) : w[i] = Minus => i = 1
    <3>1. TAKE i \in 1 .. Len(w)
    <3>2. i # 1 => i \in 2 .. Len(s)
      BY <1>3, <2>1, <2>3
    <3>3. i # 1 => w[i] # Minus
      BY <1>1, <2>3, <3>2 DEF OneSign
    <3>4. QED BY <3>3
  <2>9. \A i \in 1 .. Len(f) : f[i] # Minus
    <3>1. TAKE i \in 1 .. Len(f)
    <3>2. k + i \in 2 .. Len(s)
      BY <1>3, <2>1, <2>4
    <3>3. QED BY <1>1, <2>4, <3>2 DEF OneSign
  <2>10. QED BY <1>1, <2>4, <2>5, <2>6, <2>7, <2>8, <2>9
<1>7. QED BY <1>5, <1>6

-----------------------------------------------------------------------------
(* Doubles there and back *)

\* Powers multiply.
LEMMA PowerSum ==
  ASSUME NEW base \in Nat \ {0}, NEW m \in Nat, NEW n \in Nat
  PROVE  Power(base, m + n) = Power(base, m) * Power(base, n)
<1> DEFINE S == {i \in Nat : Power(base, m + i) = Power(base, m) * Power(base, i)}
<1>1. Power(base, 0) = 1 /\ \A i \in Nat : Power(base, i + 1) = base * Power(base, i)
  BY PowerRecursion
<1>2. 0 \in S
  <2>1. m + 0 = m /\ Power(base, m) \in Nat
    BY PowerType
  <2>2. QED BY <1>1, <2>1
<1>3. ASSUME NEW i \in S PROVE i + 1 \in S
  <2> DEFINE p == Power(base, m)
             q == Power(base, i)
  <2>1. p \in Nat /\ q \in Nat
    BY PowerType
  <2>2. Power(base, m + i) = p * q
    OBVIOUS
  <2>3. m + i \in Nat /\ m + (i + 1) = m + i + 1
    OBVIOUS
  <2>4. Power(base, m + i + 1) = base * Power(base, m + i)
    BY <1>1, <2>3
  <2>5. Power(base, i + 1) = base * q
    BY <1>1
  <2> HIDE DEF p, q
  <2>6. base * (p * q) = p * (base * q)
    BY <2>1
  <2>7. Power(base, m + (i + 1)) = p * Power(base, i + 1)
    BY <2>2, <2>3, <2>4, <2>5, <2>6
  <2>8. QED BY <2>7 DEF p
<1>4. S = Nat
  <2>1. S \in SUBSET Nat
    OBVIOUS
  <2> HIDE DEF S
  <2>2. QED BY <1>2, <1>3, <2>1, SetInduction
<1>5. QED BY <1>4

\* Three fields side by side in one number, below c.
SideBySide(E, L, sign, e, m, n, c) ==
  /\ E \in Nat \ {0} /\ L \in Nat \ {0} /\ c = 2 * E * L
  /\ sign \in {0, 1} /\ e \in 0 .. E - 1 /\ m \in 0 .. L - 1
  /\ n = (sign * E + e) * L + m

\* Division takes them apart.
LEMMA FieldsApart ==
  ASSUME NEW E, NEW L, NEW sign, NEW e, NEW m, NEW n, NEW c, SideBySide(E, L, sign, e, m, n, c)
  PROVE  /\ n \in 0 .. c - 1
         /\ n % L = m /\ (n \div L) % E = e /\ n \div (L * E) = sign
<1> DEFINE q == sign * E + e
           x == q * L
           y == (2 * E) * L
<1>0. /\ E \in Nat \ {0} /\ L \in Nat \ {0} /\ c = 2 * E * L
      /\ sign \in {0, 1} /\ e \in 0 .. E - 1 /\ m \in 0 .. L - 1
      /\ n = (sign * E + e) * L + m
  BY DEF SideBySide
<1>1. q \in Nat /\ q + 1 <= 2 * E /\ q = E * sign + e /\ sign \in Nat
  BY <1>0 DEF q
<1>2. q % E = e /\ q \div E = sign
  <2> HIDE DEF q
  <2>1. QED BY <1>0, <1>1, DivUnique
<1> HIDE DEF q
<1>3. x \in Nat /\ y \in Nat /\ c = y /\ x + L <= y
  <2>1. (q + 1) * L <= (2 * E) * L
    BY <1>0, <1>1
  <2>2. (q + 1) * L = q * L + L
    BY <1>0, <1>1
  <2>3. c = (2 * E) * L
    BY <1>0
  <2>4. q * L \in Nat /\ (2 * E) * L \in Nat
    BY <1>0, <1>1
  <2>5. QED BY <2>1, <2>2, <2>3, <2>4
<1>4. n = x + m
  BY <1>0 DEF q
<1>5. n = L * q + m
  BY <1>0, <1>1, <1>4
<1> HIDE DEF x, y
<1>6. n \in Nat /\ n \in 0 .. c - 1
  BY <1>0, <1>3, <1>4
<1>7. n % L = m /\ n \div L = q
  <2>1. L \in Nat \ {0} /\ m \in 0 .. L - 1 /\ q \in Nat /\ n \in Nat
    BY <1>0, <1>1, <1>6
  <2>2. QED BY <1>5, <2>1, DivUnique
<1> DEFINE z == L * E
<1>8. z = E * L
  BY <1>0
<1> HIDE DEF z
<1>9. n \div z = (n \div L) \div E
  BY <1>0, <1>6, <1>8, DivTwice
<1>10. QED BY <1>2, <1>6, <1>7, <1>9 DEF z

\* The fields of a double, side by side, are read as they are.
LEMMA FieldsRead ==
  ASSUME NEW sign \in {0, 1}, NEW e \in 0 .. MaxExponent, NEW m \in 0 .. LeastNormal - 1,
         NEW size, size = IF e = 0 THEN m ELSE (LeastNormal + m) * Power(2, e - 1),
         NEW w, w = WriteUnsigned((sign * Power(2, ExponentBits) + e) * LeastNormal + m, DoubleWidth)
  PROVE  ReadDouble(w) = IF e = MaxExponent
                           THEN IF m # 0 THEN NotANumber
                                ELSE IF sign = 0 THEN PlusInfinity ELSE MinusInfinity
                           ELSE Real(IF sign = 0 THEN size ELSE -size)
<1> DEFINE L == LeastNormal
           E == MaxExponent + 1
           n == (sign * E + e) * L + m
           bits == ReadUnsigned(w)
<1>1. L \in Nat \ {0} /\ E \in Nat \ {0} /\ Power(2, ExponentBits) = E /\ MaxExponent \in Nat
  <2>1. L \in Nat \ {0} /\ MaxExponent \in Nat
    BY DoubleConstants
  <2>2. Power(2, ExponentBits) \in Nat
    BY NumberConstants, PowerType
  <2>3. Power(2, ExponentBits) - 1 + 1 = Power(2, ExponentBits)
    BY <2>2
  <2>4. Power(2, ExponentBits) = E
    BY <2>3 DEF MaxExponent
  <2>5. QED BY <2>1, <2>4
<1>2. DoubleWidth \in Nat /\ Base \in Nat \ {0} /\ 2 * E * L = Capacity(DoubleWidth)
  BY NumberConstants, ValueConstants
<1>3. e \in 0 .. E - 1 /\ m \in 0 .. L - 1
  BY <1>1
<1>4. w = WriteUnsigned(n, DoubleWidth)
  BY <1>1
<1>5. L * E = LeastNormal * (MaxExponent + 1) /\ E = MaxExponent + 1 /\ L = LeastNormal
  OBVIOUS
<1> HIDE DEF n, L, E
<1>6. n = (sign * E + e) * L + m
  BY DEF n
<1> DEFINE c == Capacity(DoubleWidth)
<1>7. c = 2 * E * L
  BY <1>2
<1> HIDE DEF c
<1>8. /\ n \in 0 .. c - 1
      /\ n % L = m /\ (n \div L) % E = e /\ n \div (L * E) = sign
  <2>1. SideBySide(E, L, sign, e, m, n, c)
    BY <1>1, <1>3, <1>6, <1>7 DEF SideBySide
  <2>2. QED BY <2>1, FieldsApart
<1>9. bits = n
  BY <1>2, <1>4, <1>8, DigitsRoundTrip DEF ReadUnsigned, WriteUnsigned, c, Capacity
<1>10. /\ bits % LeastNormal = m
       /\ (bits \div LeastNormal) % (MaxExponent + 1) = e
       /\ bits \div (LeastNormal * (MaxExponent + 1)) = sign
  BY <1>5, <1>8, <1>9
<1>11. ReadDouble(w) =
         LET mantissa == bits % LeastNormal
             exponent == (bits \div LeastNormal) % (MaxExponent + 1)
             s        == bits \div (LeastNormal * (MaxExponent + 1))
             z        == IF exponent = 0 THEN mantissa
                         ELSE (LeastNormal + mantissa) * Power(2, exponent - 1)
         IN  IF exponent = MaxExponent
               THEN IF mantissa # 0 THEN NotANumber
                    ELSE IF s = 0 THEN PlusInfinity ELSE MinusInfinity
               ELSE Real(IF s = 0 THEN z ELSE -z)
  BY DEF ReadDouble
<1> HIDE DEF bits
<1>12. ReadDouble(w) =
         LET z == IF e = 0 THEN m ELSE (LeastNormal + m) * Power(2, e - 1)
         IN  IF e = MaxExponent
               THEN IF m # 0 THEN NotANumber
                    ELSE IF sign = 0 THEN PlusInfinity ELSE MinusInfinity
               ELSE Real(IF sign = 0 THEN z ELSE -z)
  BY <1>10, <1>11
<1>13. QED BY <1>12

\* A magnitude that doubles have, where its logarithm is right.
HasFields(v, err) ==
  /\ v \in 0 .. GreatestReal
  /\ \E e \in 0 .. MaxExponent - 2 : v % Power(2, e) = 0 /\ v \div Power(2, e) < 2 * LeastNormal
  /\ v >= LeastNormal => FloorOfLog(v, err) = ExactExponent(v)

\* Its fields say exactly that magnitude.
LEMMA FieldsSay ==
  ASSUME NEW v, NEW err, HasFields(v, err), NEW e, NEW m,
         e = Fields(v, err).exponent, m = Fields(v, err).mantissa
  PROVE  /\ e \in 0 .. MaxExponent - 1 /\ m \in 0 .. LeastNormal - 1
         /\ v = IF e = 0 THEN m ELSE (LeastNormal + m) * Power(2, e - 1)
<1> DEFINE L == LeastNormal
           x == ExactExponent(v)
<1>1. /\ L \in Nat \ {0} /\ MaxExponent \in Nat /\ MaxExponent >= 3 /\ v \in Nat
      /\ GreatestReal \in Nat /\ v <= GreatestReal
  BY DoubleConstants DEF HasFields
<1>2. CASE v < L
  <2>1. Fields(v, err) = [exponent |-> 0, mantissa |-> v % L]
    BY <1>2 DEF Fields, Denormal
  <2>2. v % L = v
    BY <1>1, <1>2
  <2>3. e = 0 /\ m = v
    BY <2>1, <2>2
  <2>4. QED BY <1>1, <1>2, <2>3
<1>3. CASE ~(v < L)
  <2>1. v \in L .. GreatestReal /\ v >= L
    BY <1>1, <1>3
  <2>2. /\ x \in 1 .. MaxExponent - 1
        /\ L * Power(2, x - 1) <= v
        /\ v < L * Power(2, x)
    BY <2>1, ExponentExists
  <2>3. FloorOfLog(v, err) = x
    BY <2>1 DEF HasFields
  <2>4. PICK y \in 0 .. MaxExponent - 2 :
          v % Power(2, y) = 0 /\ v \div Power(2, y) < 2 * L
    BY DEF HasFields
  <2> HIDE DEF x
  <2>5. x - 1 \in Nat /\ x \in Nat /\ y \in Nat /\ ~(x > MaxExponent - 1) /\ ~(x <= 0)
    BY <1>1, <2>2
  <2>6. Fields(v, err) = [exponent |-> x, mantissa |-> (v \div Power(2, x - 1)) % L]
    BY <1>3, <2>3, <2>5 DEF Fields, Denormal, Clamp
  <2> DEFINE p == Power(2, x - 1)
             r == Power(2, y)
             q == v \div r
  <2>7. p \in Nat \ {0} /\ r \in Nat \ {0}
    BY <2>5, PowerType
  <2>8. q \in Nat /\ v = r * q
    <3> HIDE DEF r
    <3>1. v \div r \in Nat /\ v = r * (v \div r) + (v % r)
      BY <1>1, <2>7, Division
    <3>2. v % r = 0
      BY <2>4 DEF r
    <3>3. r * (v \div r) \in Nat
      BY <2>7, <3>1
    <3>4. QED BY <3>1, <3>2, <3>3
  <2>9. q < 2 * L
    BY <2>4
  <2> HIDE DEF q
  \* Its power is not below the one that divides it.
  <2>10. x - 1 <= y
    <3>1. SUFFICES ASSUME y + 1 <= x - 1 PROVE FALSE
      BY <2>5
    <3>2. Power(2, y + 1) <= p /\ Power(2, y + 1) = 2 * r
      <4>1. 2 \in Nat \ {0} /\ y + 1 \in Nat
        BY <2>5
      <4>2. Power(2, y + 1) <= Power(2, x - 1)
        BY <2>5, <3>1, <4>1, PowerMonotone
      <4>3. Power(2, y + 1) = 2 * Power(2, y)
        BY <2>5, PowerRecursion
      <4>4. QED BY <4>2, <4>3
    <3> HIDE DEF L, p, r
    <3>3. 2 * r <= p
      BY <3>2
    <3>4. L * (2 * r) <= L * p
      BY <1>1, <2>7, <3>3
    <3>5. r * q < r * (2 * L)
      <4>1. q + 1 <= 2 * L
        BY <1>1, <2>8, <2>9
      <4>2. r * (q + 1) <= r * (2 * L)
        BY <1>1, <2>7, <2>8, <4>1
      <4>3. r * (q + 1) = r * q + r
        BY <2>7, <2>8
      <4> DEFINE a == r * q
                 b == r * (2 * L)
      <4>4. a \in Nat /\ b \in Nat /\ a + r <= b
        BY <1>1, <2>7, <2>8, <4>2, <4>3
      <4> HIDE DEF a, b
      <4>5. a < b
        BY <2>7, <4>4
      <4>6. QED BY <4>5 DEF a, b
    <3>6. L * (2 * r) = r * (2 * L)
      BY <1>1, <2>7
    <3> DEFINE a == L * p
               b == r * (2 * L)
    <3>7. a \in Nat /\ b \in Nat
      BY <1>1, <2>7
    <3>8. a <= v /\ v < b /\ b <= a
      BY <2>2, <2>8, <3>4, <3>5, <3>6 DEF p
    <3> HIDE DEF a, b
    <3>9. QED BY <1>1, <3>7, <3>8
  <2> DEFINE d == Power(2, y - (x - 1))
             Q == d * q
  <2>11. d \in Nat \ {0} /\ r = p * d
    <3>1. y - (x - 1) \in Nat /\ (x - 1) + (y - (x - 1)) = y /\ 2 \in Nat \ {0}
      BY <2>5, <2>10
    <3> DEFINE a == x - 1
               b == y - (x - 1)
    <3>2. a \in Nat /\ b \in Nat /\ a + b = y
      BY <2>5, <3>1
    <3> HIDE DEF a, b
    <3>3. Power(2, a + b) = Power(2, a) * Power(2, b)
      BY <3>1, <3>2, PowerSum
    <3>4. Power(2, b) \in Nat \ {0}
      BY <3>1, <3>2, PowerType
    <3>5. QED BY <3>2, <3>3, <3>4 DEF a, b
  <2> HIDE DEF d
  <2>12. Q \in Nat /\ v = p * Q + 0
    <3> HIDE DEF p, r
    <3>1. Q \in Nat
      BY <2>8, <2>11
    <3>2. (p * d) * q = p * (d * q)
      BY <2>7, <2>8, <2>11
    <3>3. p * (d * q) \in Nat
      BY <2>7, <3>1
    <3>4. QED BY <2>8, <2>11, <3>1, <3>2, <3>3
  <2> HIDE DEF Q
  <2>13. v \div p = Q
    <3>1. 0 \in 0 .. p - 1
      BY <2>7
    <3> HIDE DEF p
    <3>2. QED BY <1>1, <2>7, <2>12, <3>1, DivUnique
  <2>14. L <= Q /\ Q < 2 * L
    <3>1. Power(2, x) = 2 * p
      <4>1. x - 1 + 1 = x
        BY <2>5
      <4>2. Power(2, x - 1 + 1) = 2 * Power(2, x - 1)
        BY <2>5, PowerRecursion
      <4>3. QED BY <4>1, <4>2
    <3>2. L * p <= p * Q /\ p * Q < L * (2 * p)
      <4>1. p * Q \in Nat
        BY <2>7, <2>12
      <4>2. v = p * Q
        BY <2>12, <4>1
      <4>3. QED BY <2>2, <3>1, <4>2
    <3> HIDE DEF p, L
    <3>3. L <= Q
      <4>1. SUFFICES ASSUME Q + 1 <= L PROVE FALSE
        BY <1>1, <2>12
      <4>2. p * (Q + 1) <= p * L
        BY <1>1, <2>7, <2>12, <4>1
      <4>3. p * (Q + 1) = p * Q + p /\ p * L = L * p
        BY <1>1, <2>7, <2>12
      <4> DEFINE a == p * Q
                 b == L * p
      <4>4. a \in Nat /\ b \in Nat /\ a + p <= b /\ b <= a
        BY <1>1, <2>7, <2>12, <3>2, <4>2, <4>3
      <4> HIDE DEF a, b
      <4>5. QED BY <2>7, <4>4
    <3>4. Q < 2 * L
      <4>1. SUFFICES ASSUME 2 * L <= Q PROVE FALSE
        BY <1>1, <2>12
      <4>2. p * (2 * L) <= p * Q
        BY <1>1, <2>7, <2>12, <4>1
      <4>3. p * (2 * L) = L * (2 * p)
        BY <1>1, <2>7
      <4> DEFINE a == p * Q
                 b == L * (2 * p)
      <4>4. a \in Nat /\ b \in Nat /\ b <= a /\ a < b
        BY <1>1, <2>7, <2>12, <3>2, <4>2, <4>3
      <4> HIDE DEF a, b
      <4>5. QED BY <4>4
    <3>5. QED BY <3>3, <3>4
  <2>15. Q % L = Q - L
    <3>1. Q = L * 1 + (Q - L) /\ Q - L \in 0 .. L - 1 /\ 1 \in Nat
      BY <1>1, <2>12, <2>14
    <3> DEFINE z == Q - L
    <3>2. Q = L * 1 + z /\ z \in 0 .. L - 1
      BY <3>1
    <3> HIDE DEF z, L
    <3>3. Q % L = z
      BY <1>1, <2>12, <3>2, DivUnique
    <3>4. QED BY <3>3 DEF z
  <2>16. e = x /\ m = Q - L
    BY <2>6, <2>13, <2>15
  <2>17. (L + m) * Power(2, e - 1) = v
    <3>1. L + m = Q
      BY <1>1, <2>12, <2>16
    <3>2. Q * p = p * Q /\ p * Q \in Nat
      <4> HIDE DEF p
      <4>1. QED BY <2>7, <2>12
    <3>3. QED BY <2>12, <2>16, <3>1, <3>2
  <2>18. m \in 0 .. L - 1 /\ e \in 0 .. MaxExponent - 1 /\ e # 0
    BY <1>1, <2>2, <2>5, <2>12, <2>14, <2>16
  <2> HIDE DEF L
  <2>19. QED BY <2>17, <2>18 DEF L
<1>4. QED BY <1>2, <1>3

\* A double that its logarithm does not misjudge is the same after writing and
\* reading, and those that are no numbers are too.
THEOREM DoubleRoundTrip ==
  ASSUME NEW value \in Doubles, NEW err \in LogErrors,
         value[1] = "real" => err = NoError \/ FarFromPower(Magnitude(value[2]))
  PROVE  ReadDouble(WriteDouble(value, err)) = value
<1> DEFINE Packed(sign, e, m) ==
             WriteUnsigned((sign * Power(2, ExponentBits) + e) * LeastNormal + m, DoubleWidth)
           Size(e, m) == IF e = 0 THEN m ELSE (LeastNormal + m) * Power(2, e - 1)
           Read(sign, e, m) == IF e = MaxExponent
                                 THEN IF m # 0 THEN NotANumber
                                      ELSE IF sign = 0 THEN PlusInfinity ELSE MinusInfinity
                                 ELSE Real(IF sign = 0 THEN Size(e, m) ELSE -Size(e, m))
<1>1. LeastNormal \in Nat /\ MaxExponent \in Nat /\ MaxExponent >= 3 /\ LeastNormal > 0
      /\ GreatestReal \in Nat
  BY DoubleConstants
<1>2. ASSUME NEW sign \in {0, 1}, NEW e \in 0 .. MaxExponent, NEW m \in 0 .. LeastNormal - 1
      PROVE  ReadDouble(Packed(sign, e, m)) = Read(sign, e, m)
  BY FieldsRead
\* 23 is no more than the mantissa can say.
<1>3. 23 < LeastNormal
  <2>1. Power(2, 0) = 1 /\ \A i \in Nat : Power(2, i + 1) = 2 * Power(2, i)
    BY PowerRecursion
  <2>2. Power(2, 1) = 2 /\ Power(2, 2) = 4 /\ Power(2, 3) = 8 /\ Power(2, 4) = 16 /\ Power(2, 5) = 32
    <3>1. Power(2, 0 + 1) = 2 * 1
      BY <2>1
    <3>2. Power(2, 1 + 1) = 2 * Power(2, 1)
      BY <2>1
    <3>3. Power(2, 2 + 1) = 2 * Power(2, 2)
      BY <2>1
    <3>4. Power(2, 3 + 1) = 2 * Power(2, 3)
      BY <2>1
    <3>5. Power(2, 4 + 1) = 2 * Power(2, 4)
      BY <2>1
    <3>6. QED BY <3>1, <3>2, <3>3, <3>4, <3>5
  <2>3. MantissaBits \in Nat /\ 5 <= MantissaBits
    BY NumberConstants
  <2>4. Power(2, 5) <= Power(2, MantissaBits)
    BY <2>3, PowerMonotone
  <2>5. QED BY <1>1, <2>2, <2>4 DEF LeastNormal
<1>4. NotANumber # PlusInfinity /\ NotANumber # MinusInfinity /\ PlusInfinity # MinusInfinity
  BY DEF NotANumber, PlusInfinity, MinusInfinity
<1>5. CASE value \in {NotANumber, PlusInfinity, MinusInfinity}
  <2>1. 23 \in 0 .. LeastNormal - 1 /\ 0 \in 0 .. LeastNormal - 1 /\ MaxExponent \in 0 .. MaxExponent
    BY <1>1, <1>3
  <2>2. CASE value = NotANumber
    <3>1. WriteDouble(value, err) = Packed(0, MaxExponent, 23)
      BY <1>4, <2>2 DEF WriteDouble
    <3> HIDE DEF Packed
    <3>2. QED BY <1>2, <2>1, <2>2, <3>1
  <2>3. CASE value = PlusInfinity
    <3>1. WriteDouble(value, err) = Packed(0, MaxExponent, 0)
      BY <1>4, <2>3 DEF WriteDouble
    <3> HIDE DEF Packed
    <3>2. QED BY <1>2, <2>1, <2>3, <3>1
  <2>4. CASE value = MinusInfinity
    <3>1. WriteDouble(value, err) = Packed(1, MaxExponent, 0)
      BY <1>4, <2>4 DEF WriteDouble
    <3> HIDE DEF Packed
    <3>2. QED BY <1>2, <2>1, <2>4, <3>1
  <2>5. QED BY <1>5, <2>2, <2>3, <2>4
<1>6. CASE value \notin {NotANumber, PlusInfinity, MinusInfinity}
  <2> DEFINE r == value[2]
             v == Magnitude(r)
             f == Fields(v, err)
             sign == IF r < 0 THEN 1 ELSE 0
  <2>1. value = Real(r) /\ value[1] = "real" /\ r \in Reals
    BY <1>6 DEF Doubles, Real
  <2>2. r \in Int /\ v \in 0 .. GreatestReal /\ v = (IF r < 0 THEN -r ELSE r)
        /\ \E e \in 0 .. MaxExponent - 2 : /\ v % Power(2, e) = 0
                                           /\ v \div Power(2, e) < 2 * LeastNormal
    <3>1. /\ r \in -GreatestReal .. GreatestReal
          /\ \E e \in 0 .. MaxExponent - 2 : /\ v % Power(2, e) = 0
                                             /\ v \div Power(2, e) < 2 * LeastNormal
      BY <2>1 DEF Reals
    <3>2. r \in Int /\ v \in 0 .. GreatestReal /\ v = (IF r < 0 THEN -r ELSE r)
      BY <1>1, <3>1 DEF Magnitude
    <3>3. QED BY <3>1, <3>2
  <2> HIDE DEF r
  <2>3. HasFields(v, err)
    <3>1. ASSUME v >= LeastNormal PROVE FloorOfLog(v, err) = ExactExponent(v)
      <4>1. err = NoError \/ FarFromPower(v)
        BY <2>1 DEF r
      <4> HIDE DEF v
      <4>2. v \in LeastNormal .. GreatestReal
        BY <1>1, <2>2, <3>1
      <4>3. QED BY <4>1, <4>2, FloorExact
    <3>2. QED BY <2>2, <3>1 DEF HasFields
  <2> HIDE DEF v
  <2> DEFINE e == f.exponent
             m == f.mantissa
  <2>4. e \in 0 .. MaxExponent - 1 /\ m \in 0 .. LeastNormal - 1 /\ v = Size(e, m)
    BY <2>3, FieldsSay
  <2>5. WriteDouble(value, err) = Packed(sign, e, m)
    <3>1. r < 0 => v = -r
      BY <2>2
    <3>2. ~(r < 0) => v = r
      BY <2>2
    <3>3. WriteDouble(value, err) =
            IF r < 0 THEN Packed(1, Fields(-r, err).exponent, Fields(-r, err).mantissa)
            ELSE Packed(0, Fields(r, err).exponent, Fields(r, err).mantissa)
      BY <1>6 DEF WriteDouble, r
    <3> HIDE DEF Packed
    <3>4. QED BY <3>1, <3>2, <3>3
  <2> HIDE DEF f, e, m
  <2>6. sign \in {0, 1} /\ e \in 0 .. MaxExponent /\ e # MaxExponent
    BY <1>1, <2>4
  <2> HIDE DEF sign
  <2>7. ReadDouble(Packed(sign, e, m)) = Read(sign, e, m)
    <3> HIDE DEF Packed, Read
    <3>1. QED BY <1>2, <2>4, <2>6
  <2>8. Read(sign, e, m) = Real(IF sign = 0 THEN v ELSE -v)
    BY <2>4, <2>6
  <2>9. (IF sign = 0 THEN v ELSE -v) = r
    BY <2>2 DEF sign
  <2>10. QED BY <2>1, <2>5, <2>7, <2>8, <2>9
<1>7. QED BY <1>5, <1>6
=============================================================================
