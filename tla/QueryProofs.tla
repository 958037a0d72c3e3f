---------------------------- MODULE QueryProofs ----------------------------
(***************************************************************************)
(* A query finds what its condition says, oldest first: for every traffic, *)
(* in either cloud, whichever views got through.  Three things are needed. *)
(* Sort keys hold numbers as strings of digits and the databases compare   *)
(* strings: the order of numbers with as many digits, and of the others by *)
(* the digits they begin with (DecimalBefore).                             *)
(* The items of the table are indexed by what their messages say, and bear *)
(* numbers, because the events the views were made of do.  The condition   *)
(* reaches the table as the client put it.                                 *)
(***************************************************************************)
EXTENDS ServiceProofs

(***************************************************************************)
(* Decimals: the digits before the last, and the last.                     *)
(***************************************************************************)
Longer(f, k) == IF k < 10 THEN <<k>> ELSE Append(f[k \div 10], k % 10)

Divides(f, n) == f = [k \in 0..n |-> Longer(f, k)]

(* Division by ten takes the last digit away. *)
LEMMA TenthIsLess ==
  ASSUME NEW k \in Nat
  PROVE  /\ k \div 10 \in Nat /\ k % 10 \in 0..9
         /\ k = 10 * (k \div 10) + (k % 10)
         /\ k >= 10 => k \div 10 < k /\ k \div 10 # 0
OBVIOUS

(* A number's digits depend on those of its tenth, which is less. *)
LEMMA LongerAlike ==
  ASSUME NEW f, NEW g, NEW k \in Nat, \A j \in 0..(k - 1) : f[j] = g[j]
  PROVE  Longer(f, k) = Longer(g, k)
<1>1. CASE k < 10
  BY <1>1 DEF Longer
<1>2. CASE ~(k < 10)
  <2>1. PICK d \in Nat : d = k \div 10 /\ d < k
    BY <1>2, TenthIsLess
  <2>2. f[d] = g[d]
    BY <2>1
  <2>. QED
    BY <1>2, <2>1, <2>2 DEF Longer
<1>. QED
  BY <1>1, <1>2

(* The digits of the numbers up to n, as a function. *)
LEMMA DividesExists ==
  ASSUME NEW n \in Nat
  PROVE  \E f : Divides(f, n)
<1> DEFINE T == {m \in Nat : \E f : Divides(f, m)}
<1>1. 0 \in T
  <2> DEFINE f == [k \in 0..0 |-> <<k>>]
  <2>1. f[0] = Longer(f, 0)
    BY DEF Longer
  <2>2. f = [k \in 0..0 |-> f[k]]
    OBVIOUS
  <2> HIDE DEF f
  <2>3. Divides(f, 0)
    BY <2>1, <2>2 DEF Divides
  <2>. QED
    BY <2>3
<1>2. ASSUME NEW m \in T PROVE m + 1 \in T
  <2>1. PICK f : Divides(f, m)
    OBVIOUS
  <2> DEFINE g == [k \in 0..(m + 1) |-> IF k = m + 1 THEN Longer(f, m + 1) ELSE f[k]]
  <2>2. g = [k \in 0..(m + 1) |-> g[k]]
    OBVIOUS
  <2>3. g[m + 1] = Longer(f, m + 1) /\ \A k \in 0..m : g[k] = f[k]
    OBVIOUS
  <2>4. \A k \in 0..m : f[k] = Longer(f, k)
    BY <2>1 DEF Divides
  <2> HIDE DEF g
  <2>5. ASSUME NEW k \in 0..(m + 1) PROVE g[k] = Longer(g, k)
    <3>1. \A j \in 0..(k - 1) : f[j] = g[j]
      BY <2>3
    <3>2. Longer(f, k) = Longer(g, k)
      BY <3>1, LongerAlike
    <3>. QED
      BY <2>3, <2>4, <3>2
  <2>6. Divides(g, m + 1)
    BY <2>2, <2>5 DEF Divides
  <2>. QED
    BY <2>6
<1>3. T = Nat
  <2> HIDE DEF T
  <2>1. T \in SUBSET Nat
    BY DEF T
  <2>. QED
    BY <1>1, <1>2, <2>1, SetInduction
<1>. QED
  BY <1>3

(* They are the digits whatever n is. *)
LEMMA DividesAlike ==
  ASSUME NEW m \in Nat, NEW n \in Nat, NEW f, Divides(f, m), NEW g, Divides(g, n)
  PROVE  \A k \in Nat : k <= m /\ k <= n => f[k] = g[k]
<1> DEFINE Same(k) == k <= m /\ k <= n => f[k] = g[k]
           T == {b \in Nat : \A k \in Nat : k < b => Same(k)}
<1>1. 0 \in T
  OBVIOUS
<1>2. ASSUME NEW b \in T PROVE b + 1 \in T
  <2>1. ASSUME b <= m, b <= n PROVE f[b] = g[b]
    <3>1. f[b] = Longer(f, b) /\ g[b] = Longer(g, b)
      BY <2>1 DEF Divides
    <3>2. \A j \in 0..(b - 1) : f[j] = g[j]
      BY <2>1
    <3>. QED
      BY <3>1, <3>2, LongerAlike
  <2>2. Same(b)
    BY <2>1
  <2>3. ASSUME NEW k \in Nat, k < b + 1 PROVE Same(k)
    <3>. HIDE DEF Same
    <3>1. k < b \/ k = b
      BY <2>3
    <3>. QED
      BY <2>2, <3>1
  <2>. QED
    BY <2>3
<1>3. T = Nat
  <2> HIDE DEF T
  <2>1. T \in SUBSET Nat
    BY DEF T
  <2>. QED
    BY <1>1, <1>2, <2>1, SetInduction
<1>4. ASSUME NEW k \in Nat PROVE Same(k)
  <2>1. PICK b \in Nat : b = k + 1
    OBVIOUS
  <2>2. b \in T
    <3>. HIDE DEF T, Same
    <3>. QED
      BY <1>3
  <2>. QED
    BY <2>1, <2>2
<1>. QED
  BY <1>4

(* What Decimal does: the last digit after those of a tenth. *)
LEMMA DecimalStep ==
  ASSUME NEW n \in Nat
  PROVE  /\ n < 10 => Decimal(n) = <<n>>
         /\ n >= 10 => Decimal(n) = Append(Decimal(n \div 10), n % 10)
<1> DEFINE h(m) == CHOOSE f : f = [k \in 0..m |->
                     IF k < 10 THEN <<k>> ELSE Append(f[k \div 10], k % 10)]
<1>1. ASSUME NEW m \in Nat PROVE Divides(h(m), m)
  <2>1. PICK f : f = [k \in 0..m |->
                     IF k < 10 THEN <<k>> ELSE Append(f[k \div 10], k % 10)]
    BY DividesExists, Zenon DEF Divides, Longer
  <2>. QED
    BY <2>1, Zenon DEF Divides, Longer
<1>2. \A m \in Nat : Decimal(m) = h(m)[m]
  BY DEF Decimal
<1> HIDE DEF h
<1>3. Decimal(n) = Longer(h(n), n)
  BY <1>1, <1>2 DEF Divides
<1>4. CASE n < 10
  BY <1>3, <1>4 DEF Longer
<1>5. CASE ~(n < 10)
  <2>1. PICK d \in Nat : d = n \div 10 /\ d < n
    BY <1>5, TenthIsLess
  <2>2. h(n)[d] = h(d)[d]
    BY <1>1, <2>1, DividesAlike
  <2>3. Longer(h(n), n) = Append(h(n)[d], n % 10)
    BY <1>5, <2>1 DEF Longer
  <2>. QED
    BY <1>2, <1>3, <1>5, <2>1, <2>2, <2>3
<1>. QED
  BY <1>4, <1>5

-----------------------------------------------------------------------------
(***************************************************************************)
(* Strings of digits that are as long as each other.                       *)
(***************************************************************************)
First(a, b, n) == \A j \in 1..n : a[j] = b[j]

(* Equal beginnings are equal digit by digit. *)
LEMMA SameStart ==
  ASSUME NEW a \in Seq(Nat), NEW b \in Seq(Nat), NEW n \in Nat,
         n <= Len(a), n <= Len(b)
  PROVE  SubSeq(a, 1, n) = SubSeq(b, 1, n) <=> First(a, b, n)
<1>1. /\ SubSeq(a, 1, n) = [j \in 1..n |-> a[j]]
      /\ SubSeq(b, 1, n) = [j \in 1..n |-> b[j]]
  OBVIOUS
<1>. QED
  BY <1>1 DEF First

(* The whole string and the part it is of itself. *)
LEMMA Extensional ==
  ASSUME NEW a \in Seq(Nat), NEW b \in Seq(Nat), Len(a) = Len(b)
  PROVE  a = b <=> First(a, b, Len(a))
<1>1. PICK n \in Nat : n = Len(a)
  OBVIOUS
<1>2. a = [j \in 1..n |-> a[j]] /\ b = [j \in 1..n |-> b[j]]
  BY <1>1
<1>. QED
  BY <1>1, <1>2 DEF First

(* The order of strings, when neither goes on after the other. *)
LEMMA AsLong ==
  ASSUME NEW a \in Seq(Nat), NEW b \in Seq(Nat), NEW n \in Nat,
         Len(a) = n, Len(b) = n
  PROVE  /\ DigitsLess(a, b) <=> \E k \in 1..n : a[k] < b[k] /\ First(a, b, k - 1)
         /\ IsPrefix(a, b) <=> a = b
<1>1. SubSeq(a, 1, n) = SubSeq(b, 1, n) <=> a = b
  BY SameStart, Extensional
<1>2. IsPrefix(a, b) <=> a = b
  BY <1>1 DEF IsPrefix
<1>3. ASSUME NEW k \in 1..n
      PROVE  SubSeq(a, 1, k - 1) = SubSeq(b, 1, k - 1) <=> First(a, b, k - 1)
  <2>1. PICK j \in Nat : j = k - 1 /\ j <= n
    OBVIOUS
  <2>. QED
    BY <2>1, SameStart
<1>4. DOMAIN a \cap DOMAIN b = 1..n
  OBVIOUS
<1>. QED
  BY <1>2, <1>3, <1>4 DEF DigitsLess, IsStrictPrefix

(* One digit more: it decides when those before it do not. *)
LEMMA LastDigit ==
  ASSUME NEW a \in Seq(Nat), NEW b \in Seq(Nat), Len(a) = Len(b),
         NEW x \in Nat, NEW y \in Nat
  PROVE  /\ DigitsLess(Append(a, x), Append(b, y)) <=> DigitsLess(a, b) \/ (a = b /\ x < y)
         /\ Append(a, x) = Append(b, y) <=> a = b /\ x = y
<1>1. PICK n \in Nat : n = Len(a)
  OBVIOUS
<1>2. PICK c, d : c = Append(a, x) /\ d = Append(b, y)
  OBVIOUS
<1>3. /\ c \in Seq(Nat) /\ d \in Seq(Nat)
      /\ Len(c) = n + 1 /\ Len(d) = n + 1 /\ c[n + 1] = x /\ d[n + 1] = y
      /\ \A j \in 1..n : c[j] = a[j] /\ d[j] = b[j]
  BY <1>1, <1>2
<1>4. \A k \in 1..n : c[k] < d[k] /\ First(c, d, k - 1) <=> a[k] < b[k] /\ First(a, b, k - 1)
  BY <1>3 DEF First
<1>5. First(c, d, n) <=> a = b
  <2>1. First(c, d, n) <=> First(a, b, n)
    BY <1>3 DEF First
  <2>. QED
    BY <1>1, <2>1, Extensional
<1>6. \A k \in 1..(n + 1) : k \in 1..n \/ k = n + 1
  OBVIOUS
<1>7. DigitsLess(c, d) <=> DigitsLess(a, b) \/ (a = b /\ x < y)
  <2>1. DigitsLess(c, d) <=> \E k \in 1..(n + 1) : c[k] < d[k] /\ First(c, d, k - 1)
    <3>1. PICK m \in Nat : m = n + 1
      OBVIOUS
    <3>2. DigitsLess(c, d) <=> \E k \in 1..m : c[k] < d[k] /\ First(c, d, k - 1)
      BY <1>3, <3>1, AsLong
    <3>. QED
      BY <3>1, <3>2
  <2>2. DigitsLess(a, b) <=> \E k \in 1..n : a[k] < b[k] /\ First(a, b, k - 1)
    BY <1>1, AsLong
  <2>3. c[n + 1] < d[n + 1] /\ First(c, d, n + 1 - 1) <=> a = b /\ x < y
    BY <1>3, <1>5
  <2>4. ASSUME DigitsLess(c, d) PROVE DigitsLess(a, b) \/ (a = b /\ x < y)
    <3>1. PICK k \in 1..(n + 1) : c[k] < d[k] /\ First(c, d, k - 1)
      BY <2>1, <2>4
    <3>2. CASE k \in 1..n
      <4>1. a[k] < b[k] /\ First(a, b, k - 1)
        BY <1>4, <3>1, <3>2
      <4>. QED
        BY <2>2, <3>2, <4>1
    <3>3. CASE k = n + 1
      BY <2>3, <3>1, <3>3
    <3>. QED
      BY <1>6, <3>2, <3>3
  <2>5. ASSUME DigitsLess(a, b) PROVE DigitsLess(c, d)
    <3>1. PICK k \in 1..n : a[k] < b[k] /\ First(a, b, k - 1)
      BY <2>2, <2>5
    <3>2. k \in 1..(n + 1) /\ c[k] < d[k] /\ First(c, d, k - 1)
      BY <1>4, <3>1
    <3>. QED
      BY <2>1, <3>2
  <2>6. ASSUME a = b, x < y PROVE DigitsLess(c, d)
    BY <2>1, <2>3, <2>6
  <2>. QED
    BY <2>4, <2>5, <2>6
<1>8. c = d <=> a = b /\ x = y
  <2>1. c = d <=> First(c, d, n + 1)
    BY <1>3, Extensional
  <2>2. First(c, d, n + 1) <=> First(c, d, n) /\ c[n + 1] = d[n + 1]
    BY <1>6 DEF First
  <2>. QED
    BY <1>3, <1>5, <2>1, <2>2
<1>. QED
  BY <1>2, <1>7, <1>8

(* Numbers with as many digits are ordered as their decimals are. *)
Faithful(m, n) ==
  Len(Decimal(m)) = Len(Decimal(n)) =>
    /\ DigitsLess(Decimal(m), Decimal(n)) <=> m < n
    /\ Decimal(m) = Decimal(n) <=> m = n

IsString(m) ==
  /\ Decimal(m) \in Seq(Nat)
  /\ m < 10 => Len(Decimal(m)) = 1
  /\ m >= 10 => Len(Decimal(m)) > 1

(* A decimal is a string of digits, and of one digit below ten. *)
LEMMA DecimalString ==
  ASSUME NEW n \in Nat
  PROVE  IsString(n)
<1> DEFINE T == {b \in Nat : \A k \in Nat : k < b => IsString(k)}
<1>1. 0 \in T
  OBVIOUS
<1>2. ASSUME NEW b \in T PROVE b + 1 \in T
  <2>. SUFFICES IsString(b)
    <3>. \A k \in Nat : k < b + 1 => k < b \/ k = b
      OBVIOUS
    <3>. QED
      OBVIOUS
  <2>1. CASE b < 10
    <3>1. Decimal(b) = <<b>>
      BY <2>1, DecimalStep
    <3>2. <<b>> \in Seq(Nat) /\ Len(<<b>>) = 1
      OBVIOUS
    <3>. QED
      BY <2>1, <3>1, <3>2 DEF IsString
  <2>2. CASE b >= 10
    <3>1. PICK d \in Nat, x \in Nat : d = b \div 10 /\ d < b /\ x = b % 10
      BY <2>2, TenthIsLess
    <3>2. IsString(d)
      BY <3>1
    <3>3. PICK s \in Seq(Nat) : s = Decimal(d)
      BY <3>2 DEF IsString
    <3>4. Len(s) >= 1
      <4>1. d < 10 \/ d >= 10
        OBVIOUS
      <4>. QED
        BY <3>2, <3>3, <4>1 DEF IsString
    <3>5. Decimal(b) = Append(s, x)
      BY <2>2, <3>1, <3>3, DecimalStep
    <3>6. Append(s, x) \in Seq(Nat) /\ Len(Append(s, x)) = Len(s) + 1
      OBVIOUS
    <3>. QED
      BY <2>2, <3>4, <3>5, <3>6 DEF IsString
  <2>. QED
    BY <2>1, <2>2
<1>3. T = Nat
  <2> HIDE DEF T
  <2>1. T \in SUBSET Nat
    BY DEF T
  <2>. QED
    BY <1>1, <1>2, <2>1, SetInduction
<1>4. n + 1 \in T
  BY <1>3
<1>. QED
  BY <1>4

(* By strong induction: the last digit decides when the tenths do not. *)
LEMMA DecimalOrder ==
  ASSUME NEW m \in Nat, NEW n \in Nat
  PROVE  Faithful(m, n)
<1> DEFINE T == {b \in Nat : \A k \in Nat : k < b => \A l \in Nat : Faithful(k, l)}
<1>1. 0 \in T
  OBVIOUS
<1>2. ASSUME NEW b \in T PROVE b + 1 \in T
  <2>1. ASSUME NEW l \in Nat, Len(Decimal(b)) = Len(Decimal(l)), b < 10
        PROVE  Faithful(b, l)
    <3>1. l < 10
      <4>1. IsString(b) /\ IsString(l)
        BY DecimalString
      <4>2. Len(Decimal(l)) = 1 /\ (l >= 10 => Len(Decimal(l)) > 1)
        BY <2>1, <4>1, Zenon DEF IsString
      <4>. QED
        BY <4>2
    <3>2. Decimal(b) = <<b>> /\ Decimal(l) = <<l>>
      BY <2>1, <3>1, DecimalStep
    <3>3. DigitsLess(<<b>>, <<l>>) <=> b < l
      <4>. PICK s, t : s = <<b>> /\ t = <<l>>
        OBVIOUS
      <4>1. /\ s = <<b>> /\ t = <<l>> /\ s \in Seq(Nat) /\ t \in Seq(Nat)
            /\ Len(s) = 1 /\ Len(t) = 1 /\ s[1] = b /\ t[1] = l
        OBVIOUS
      <4>2. DigitsLess(s, t) <=> \E k \in 1..1 : s[k] < t[k] /\ First(s, t, k - 1)
        BY <4>1, AsLong
      <4>3. First(s, t, 0)
        BY DEF First
      <4>. QED
        BY <4>1, <4>2, <4>3
    <3>. QED
      BY <3>2, <3>3 DEF Faithful
  <2>2. ASSUME NEW l \in Nat, Len(Decimal(b)) = Len(Decimal(l)), b >= 10
        PROVE  Faithful(b, l)
    <3>1. l >= 10
      <4>1. IsString(b) /\ IsString(l)
        BY DecimalString
      <4>2. PICK k \in Nat : k = Len(Decimal(l))
        BY <4>1 DEF IsString
      <4>3. k > 1 /\ (l < 10 => k = 1)
        BY <2>2, <4>1, <4>2, Zenon DEF IsString
      <4>. QED
        BY <4>3
    <3>2. PICK d \in Nat, x \in 0..9 :
            d = b \div 10 /\ x = b % 10 /\ d < b /\ b = 10 * d + x
      BY <2>2, TenthIsLess
    <3>3. PICK e \in Nat, y \in 0..9 : e = l \div 10 /\ y = l % 10 /\ l = 10 * e + y
      BY TenthIsLess
    <3>4. PICK s \in Seq(Nat), t \in Seq(Nat) : s = Decimal(d) /\ t = Decimal(e)
      BY DecimalString DEF IsString
    <3>5. Decimal(b) = Append(s, x) /\ Decimal(l) = Append(t, y)
      BY <2>2, <3>1, <3>2, <3>3, <3>4, DecimalStep
    <3>6. Len(s) = Len(t)
      <4>1. Len(Append(s, x)) = Len(s) + 1 /\ Len(Append(t, y)) = Len(t) + 1
        OBVIOUS
      <4>. QED
        BY <2>2, <3>5, <4>1
    <3>7. (DigitsLess(s, t) <=> d < e) /\ (s = t <=> d = e)
      BY <3>2, <3>4, <3>6 DEF Faithful
    <3>8. /\ DigitsLess(Append(s, x), Append(t, y)) <=> d < e \/ (d = e /\ x < y)
          /\ Append(s, x) = Append(t, y) <=> d = e /\ x = y
      <4>1. x \in Nat /\ y \in Nat
        OBVIOUS
      <4>2. /\ DigitsLess(Append(s, x), Append(t, y)) <=> DigitsLess(s, t) \/ (s = t /\ x < y)
            /\ Append(s, x) = Append(t, y) <=> s = t /\ x = y
        BY <3>6, <4>1, LastDigit
      <4>. QED
        BY <3>7, <4>2, Zenon
    <3>9. (d < e \/ (d = e /\ x < y) <=> b < l) /\ (d = e /\ x = y <=> b = l)
      BY <3>2, <3>3
    <3>. QED
      BY <3>5, <3>8, <3>9 DEF Faithful
  <2>3. \A l \in Nat : Faithful(b, l)
    BY <2>1, <2>2 DEF Faithful
  <2>. QED
    BY <2>3
<1>3. T = Nat
  <2> HIDE DEF T
  <2>1. T \in SUBSET Nat
    BY DEF T
  <2>. QED
    BY <1>1, <1>2, <2>1, SetInduction
<1>4. PICK b \in Nat : b = m + 1
  OBVIOUS
<1>5. b \in T
  <2>. HIDE DEF T
  <2>. QED
    BY <1>3
<1>. QED
  BY <1>4, <1>5

-----------------------------------------------------------------------------
(***************************************************************************)
(* Decimals of any length: the first difference decides, or else the end.  *)
(***************************************************************************)
Differ(a, b, k) == a[k] < b[k] /\ First(a, b, k - 1)

(* The order of strings, digit by digit. *)
LEMMA Lexicographic ==
  ASSUME NEW a \in Seq(Nat), NEW b \in Seq(Nat), NEW m \in Nat, NEW n \in Nat,
         m = Len(a), n = Len(b)
  PROVE  /\ IsPrefix(a, b) <=> m <= n /\ First(a, b, m)
         /\ DigitsLess(a, b) <=> \/ m < n /\ First(a, b, m)
                                 \/ \E k \in 1..m : k <= n /\ Differ(a, b, k)
<1>1. IsPrefix(a, b) <=> m <= n /\ First(a, b, m)
  <2>1. ASSUME m <= n
        PROVE  SubSeq(a, 1, m) = SubSeq(b, 1, m) <=> First(a, b, m)
    <3>1. m <= Len(a) /\ m <= Len(b)
      BY <2>1
    <3>. QED
      BY <3>1, SameStart
  <2>. QED
    BY <2>1 DEF IsPrefix
<1>2. IsStrictPrefix(a, b) <=> m < n /\ First(a, b, m)
  <2>1. m = n => (a = b <=> First(a, b, m))
    BY Extensional
  <2>2. m # n => a # b
    OBVIOUS
  <2>. QED
    BY <1>1, <2>1, <2>2 DEF IsStrictPrefix
<1>3. ASSUME NEW k \in 1..m, k <= n
      PROVE  SubSeq(a, 1, k - 1) = SubSeq(b, 1, k - 1) <=> First(a, b, k - 1)
  <2>1. PICK j \in Nat : j = k - 1 /\ j <= m /\ j <= n
    BY <1>3
  <2>. QED
    BY <2>1, SameStart
<1>4. \A k : k \in DOMAIN a \cap DOMAIN b <=> k \in 1..m /\ k <= n
  OBVIOUS
<1>5. (\E k \in DOMAIN a \cap DOMAIN b :
         a[k] < b[k] /\ SubSeq(a, 1, k - 1) = SubSeq(b, 1, k - 1))
      <=> \E k \in 1..m : k <= n /\ Differ(a, b, k)
  BY <1>3, <1>4 DEF Differ
<1>. QED
  BY <1>1, <1>2, <1>5 DEF DigitsLess

(* Less than what is less is less. *)
LEMMA LessIsTransitive ==
  ASSUME NEW a \in Seq(Nat), NEW b \in Seq(Nat), NEW c \in Seq(Nat),
         DigitsLess(a, b), DigitsLess(b, c)
  PROVE  DigitsLess(a, c)
<1>1. PICK m \in Nat, n \in Nat, o \in Nat : m = Len(a) /\ n = Len(b) /\ o = Len(c)
  OBVIOUS
<1>2. \A k \in Nat : a[k] \in Nat \/ k \notin 1..m
  BY <1>1
<1>3. \A k \in 1..n : b[k] \in Nat
  BY <1>1
<1>4. \A k \in 1..o : c[k] \in Nat
  BY <1>1
<1>5. SUFFICES \/ m < o /\ First(a, c, m)
               \/ \E k \in 1..m : k <= o /\ Differ(a, c, k)
  BY <1>1, Lexicographic
<1>6. \/ m < n /\ First(a, b, m)
      \/ \E k \in 1..m : k <= n /\ Differ(a, b, k)
  BY <1>1, Lexicographic
<1>7. \/ n < o /\ First(b, c, n)
      \/ \E k \in 1..n : k <= o /\ Differ(b, c, k)
  BY <1>1, Lexicographic
<1>8. CASE m < n /\ First(a, b, m) /\ n < o /\ First(b, c, n)
  BY <1>8 DEF First
<1>9. ASSUME m < n, First(a, b, m), NEW k \in 1..n, k <= o, Differ(b, c, k)
      PROVE  \/ m < o /\ First(a, c, m)
             \/ \E j \in 1..m : j <= o /\ Differ(a, c, j)
  <2>1. CASE k > m
    BY <1>9, <2>1 DEF First, Differ
  <2>2. CASE k <= m
    <3>1. k \in 1..m /\ a[k] = b[k] /\ First(a, c, k - 1)
      BY <1>9, <2>2 DEF First, Differ
    <3>. QED
      BY <1>9, <3>1 DEF Differ
  <2>. QED
    BY <2>1, <2>2
<1>10. ASSUME NEW k \in 1..m, k <= n, Differ(a, b, k), n < o, First(b, c, n)
       PROVE  \E j \in 1..m : j <= o /\ Differ(a, c, j)
  <2>1. b[k] = c[k] /\ First(a, c, k - 1)
    BY <1>10 DEF First, Differ
  <2>. QED
    BY <1>10, <2>1 DEF Differ
<1>11. ASSUME NEW k \in 1..m, k <= n, Differ(a, b, k), NEW j \in 1..n, j <= o, Differ(b, c, j)
       PROVE  \E i \in 1..m : i <= o /\ Differ(a, c, i)
  <2>1. CASE k < j
    <3>1. b[k] = c[k] /\ First(a, c, k - 1)
      BY <1>11, <2>1 DEF First, Differ
    <3>. QED
      BY <1>11, <2>1, <3>1 DEF Differ
  <2>2. CASE j < k
    <3>1. a[j] = b[j] /\ First(a, c, j - 1)
      BY <1>11, <2>2 DEF First, Differ
    <3>2. j \in 1..m
      BY <2>2
    <3>. QED
      BY <1>11, <3>1, <3>2 DEF Differ
  <2>3. CASE j = k
    <3>1. a[k] < c[k] /\ First(a, c, k - 1)
      BY <1>2, <1>3, <1>4, <1>11, <2>3 DEF First, Differ
    <3>. QED
      BY <1>11, <2>3, <3>1 DEF Differ
  <2>. QED
    BY <2>1, <2>2, <2>3
<1>. QED
  BY <1>6, <1>7, <1>8, <1>9, <1>10, <1>11

(* A longer string is compared by what it begins with. *)
LEMMA BeginsWith ==
  ASSUME NEW s \in Seq(Nat), NEW p \in Seq(Nat), NEW d \in Seq(Nat),
         Len(s) = Len(p), Len(p) < Len(d), IsPrefix(p, d)
  PROVE  /\ DigitsLess(s, d) <=> DigitsLess(s, p) \/ s = p
         /\ DigitsLess(d, s) <=> DigitsLess(p, s)
         /\ IsPrefix(s, d) <=> s = p
<1>1. PICK m \in Nat, n \in Nat : m = Len(s) /\ m = Len(p) /\ n = Len(d) /\ m < n
  OBVIOUS
<1>2. First(p, d, m)
  BY <1>1, Lexicographic
<1>3. \A k \in 1..m : p[k] = d[k]
  BY <1>2 DEF First
<1>4. \A k \in 0..m : /\ First(s, d, k) <=> First(s, p, k)
                      /\ First(d, s, k) <=> First(p, s, k)
  BY <1>3 DEF First
<1>5. s = p <=> First(s, p, m)
  BY <1>1, Extensional
<1>6. First(s, d, m) <=> s = p
  BY <1>4, <1>5
<1>7. \A k \in 1..m : /\ Differ(s, d, k) <=> Differ(s, p, k)
                      /\ Differ(d, s, k) <=> Differ(p, s, k)
  <2>. SUFFICES ASSUME NEW k \in 1..m
                PROVE  /\ Differ(s, d, k) <=> Differ(s, p, k)
                       /\ Differ(d, s, k) <=> Differ(p, s, k)
    OBVIOUS
  <2>1. k - 1 \in 0..m
    OBVIOUS
  <2>2. First(s, d, k - 1) <=> First(s, p, k - 1)
    BY <1>4, <2>1
  <2>3. First(d, s, k - 1) <=> First(p, s, k - 1)
    BY <1>4, <2>1
  <2>. QED
    BY <1>3, <2>2, <2>3 DEF Differ
<1>8. DigitsLess(s, p) <=> \E k \in 1..m : Differ(s, p, k)
  BY <1>1, AsLong DEF Differ
<1>9. DigitsLess(p, s) <=> \E k \in 1..m : Differ(p, s, k)
  BY <1>1, AsLong DEF Differ
<1>10. DigitsLess(s, d) <=> First(s, d, m) \/ \E k \in 1..m : Differ(s, d, k)
  <2>1. DigitsLess(s, d) <=> \/ m < n /\ First(s, d, m)
                             \/ \E k \in 1..m : k <= n /\ Differ(s, d, k)
    BY <1>1, Lexicographic
  <2>2. \A k \in 1..m : k <= n
    BY <1>1
  <2>. QED
    BY <1>1, <2>1, <2>2
<1>11. DigitsLess(d, s) <=> \E k \in 1..m : Differ(d, s, k)
  <2>1. DigitsLess(d, s) <=> \/ n < m /\ First(d, s, n)
                             \/ \E k \in 1..n : k <= m /\ Differ(d, s, k)
    BY <1>1, Lexicographic
  <2>2. ~(n < m) /\ \A k : k \in 1..m <=> k \in 1..n /\ k <= m
    BY <1>1
  <2>. QED
    BY <2>1, <2>2
<1>12. IsPrefix(s, d) <=> First(s, d, m)
  BY <1>1, Lexicographic
<1>. QED
  BY <1>6, <1>7, <1>8, <1>9, <1>10, <1>11, <1>12

(* The first digits of a number are those of a number. *)
BeginsAs(d, n, k) == Digits(d) = k /\ IsPrefix(Decimal(d), Decimal(n))

LEMMA LeadingIs ==
  ASSUME NEW n \in Nat, NEW k \in 1..Digits(n)
  PROVE  Leading(n, k) \in Nat /\ BeginsAs(Leading(n, k), n, k)
<1> DEFINE Has(m) == \A j \in 1..Digits(m) : \E d \in 0..m : BeginsAs(d, m, j)
           T == {b \in Nat : \A m \in Nat : m < b => Has(m)}
<1>1. 0 \in T
  OBVIOUS
<1>2. ASSUME NEW b \in T PROVE b + 1 \in T
  <2>1. b \in Nat /\ \A m \in Nat : m < b => Has(m)
    OBVIOUS
  <2>. HIDE DEF T, Has
  <2>2. PICK t \in Seq(Nat) : t = Decimal(b)
    BY <2>1, DecimalString DEF IsString
  <2>3. Digits(b) = Len(t)
    BY <2>2 DEF Digits
  <2>4. ASSUME NEW j \in 1..Digits(b) PROVE \E d \in 0..b : BeginsAs(d, b, j)
    <3>1. CASE j = Digits(b)
      <4>1. IsPrefix(t, t)
        BY Lexicographic DEF First
      <4>2. BeginsAs(b, b, j)
        BY <2>2, <3>1, <4>1 DEF BeginsAs
      <4>. QED
        BY <2>1, <4>2
    <3>2. CASE j # Digits(b)
      <4>1. j < Len(t) /\ j \in Nat /\ 1 <= j
        BY <2>3, <3>2
      <4>2. b >= 10
        <5>1. b < 10 => Len(t) = 1
          BY <2>2, <2>1, DecimalString DEF IsString
        <5>2. PICK l \in Nat : l = Len(t)
          OBVIOUS
        <5>3. l > 1 /\ (b < 10 => l = 1)
          BY <4>1, <5>1, <5>2
        <5>. QED
          BY <2>1, <5>3
      <4>3. PICK e \in Nat, x \in Nat : e = b \div 10 /\ e < b /\ x = b % 10
        BY <2>1, <4>2, TenthIsLess
      <4>4. PICK u \in Seq(Nat) : u = Decimal(e)
        BY DecimalString DEF IsString
      <4>5. t = Append(u, x)
        BY <2>2, <2>1, <4>2, <4>3, <4>4, DecimalStep
      <4>6. Len(t) = Len(u) + 1 /\ \A i \in 1..Len(u) : t[i] = u[i]
        BY <4>5
      <4>7. j \in 1..Digits(e)
        BY <4>1, <4>4, <4>6 DEF Digits
      <4>8. PICK d \in 0..e : BeginsAs(d, e, j)
        BY <2>1, <4>3, <4>7 DEF Has
      <4>9. PICK v \in Seq(Nat) : v = Decimal(d)
        BY DecimalString DEF IsString
      <4>10. Len(v) = j /\ IsPrefix(v, u)
        BY <4>4, <4>8, <4>9 DEF BeginsAs, Digits
      <4>11. First(v, u, j)
        BY <4>10, Lexicographic
      <4>12. First(v, t, j)
        <5>1. \A i \in 1..j : i \in 1..Len(u)
          BY <4>1, <4>6
        <5>2. \A i \in 1..j : v[i] = u[i]
          BY <4>11 DEF First
        <5>3. \A i \in 1..j : v[i] = t[i]
          BY <4>6, <5>1, <5>2, Zenon
        <5>. QED
          BY <5>3, Zenon DEF First
      <4>13. IsPrefix(v, t)
        BY <4>1, <4>10, <4>12, Lexicographic
      <4>14. BeginsAs(d, b, j)
        BY <2>2, <4>8, <4>9, <4>13 DEF BeginsAs
      <4>15. d \in 0..b
        BY <2>1, <4>3
      <4>. QED
        BY <4>14, <4>15
    <3>. QED
      BY <3>1, <3>2
  <2>5. Has(b)
    BY <2>4 DEF Has
  <2>6. \A m \in Nat : m < b + 1 => m < b \/ m = b
    BY <2>1
  <2>. QED
    BY <2>5, <2>6, <2>1 DEF T
<1>3. T = Nat
  <2> HIDE DEF T
  <2>1. T \in SUBSET Nat
    BY DEF T
  <2>. QED
    BY <1>1, <1>2, <2>1, SetInduction
<1>4. Has(n)
  <2>. HIDE DEF Has
  <2>1. n + 1 \in T
    <3>. HIDE DEF T
    <3>. QED
      BY <1>3
  <2>. QED
    BY <2>1
<1>5. PICK d \in 0..n : BeginsAs(d, n, k)
  BY <1>4
<1>6. Leading(n, k) = CHOOSE c \in 0..n : BeginsAs(c, n, k)
  BY DEF Leading, BeginsAs
<1>7. Leading(n, k) \in 0..n /\ BeginsAs(Leading(n, k), n, k)
  BY <1>5, <1>6
<1>. QED
  BY <1>7

(* The strings of two numbers are ordered as Before says. *)
LEMMA DecimalBefore ==
  ASSUME NEW m \in Nat, NEW n \in Nat
  PROVE  /\ DigitsLess(Decimal(m), Decimal(n)) <=> Before(m, n)
         /\ Decimal(m) = Decimal(n) <=> m = n
         /\ IsPrefix(Decimal(m), Decimal(n))
              <=> Digits(m) <= Digits(n) /\ Leading(n, Digits(m)) = m
<1>1. PICK a \in Seq(Nat), b \in Seq(Nat) : a = Decimal(m) /\ b = Decimal(n)
  BY DecimalString DEF IsString
<1>2. PICK i \in Nat, j \in Nat : i = Len(a) /\ j = Len(b)
  OBVIOUS
<1>3. /\ Digits(m) = i /\ Digits(n) = j
      /\ i >= 1 /\ j >= 1
  <2>1. \A k \in Nat : Digits(k) >= 1
    <3>1. ASSUME NEW k \in Nat PROVE Len(Decimal(k)) >= 1
      <4>1. k < 10 \/ k >= 10
        OBVIOUS
      <4>2. PICK s \in Seq(Nat) : s = Decimal(k)
        BY DecimalString DEF IsString
      <4>3. Len(s) = 1 \/ Len(s) > 1
        BY <4>1, <4>2, DecimalString DEF IsString
      <4>4. PICK l \in Nat : l = Len(s)
        OBVIOUS
      <4>5. l >= 1
        BY <4>3, <4>4
      <4>. QED
        BY <4>2, <4>4, <4>5
    <3>. QED
      BY <3>1 DEF Digits
  <2>. QED
    BY <1>1, <1>2, <2>1 DEF Digits
<1>4. CASE i = j
  <2>1. (DigitsLess(a, b) <=> m < n) /\ (a = b <=> m = n)
    BY <1>1, <1>2, <1>4, DecimalOrder DEF Faithful
  <2>2. IsPrefix(a, b) <=> a = b
    BY <1>2, <1>4, AsLong
  <2>3. PICK l \in Nat : l = Leading(n, j) /\ BeginsAs(l, n, j)
    BY <1>3, LeadingIs
  <2>4. l = n
    <3>1. PICK c \in Seq(Nat) : c = Decimal(l)
      BY DecimalString DEF IsString
    <3>2. Len(c) = j /\ IsPrefix(c, b)
      BY <1>1, <2>3, <3>1 DEF BeginsAs, Digits
    <3>3. c = b
      BY <1>2, <3>2, AsLong
    <3>. QED
      BY <1>1, <3>1, <3>3, DecimalOrder DEF Faithful
  <2>5. Before(m, n) <=> m < n
    BY <1>3, <1>4 DEF Before
  <2>. QED
    BY <1>1, <1>3, <1>4, <2>1, <2>2, <2>3, <2>4, <2>5
<1>5. CASE i < j
  <2>1. PICK l \in Nat : l = Leading(n, i) /\ BeginsAs(l, n, i)
    <3>1. i \in 1..Digits(n)
      BY <1>3, <1>5
    <3>. QED
      BY <3>1, LeadingIs
  <2>2. PICK p \in Seq(Nat) : p = Decimal(l)
    BY DecimalString DEF IsString
  <2>3. Len(p) = i /\ IsPrefix(p, b)
    BY <1>1, <2>1, <2>2 DEF BeginsAs, Digits
  <2>4. /\ DigitsLess(a, b) <=> DigitsLess(a, p) \/ a = p
        /\ IsPrefix(a, b) <=> a = p
    BY <1>2, <1>5, <2>3, BeginsWith
  <2>5. (DigitsLess(a, p) <=> m < l) /\ (a = p <=> m = l)
    BY <1>1, <1>2, <2>2, <2>3, DecimalOrder DEF Faithful
  <2>6. Before(m, n) <=> m <= l
    BY <1>3, <1>5, <2>1 DEF Before
  <2>7. a # b /\ m # n
    BY <1>1, <1>2, <1>5
  <2>8. DigitsLess(a, b) <=> Before(m, n)
    BY <2>4, <2>5, <2>6
  <2>. QED
    BY <1>1, <1>3, <1>5, <2>1, <2>4, <2>5, <2>7, <2>8
<1>6. CASE i > j
  <2>1. PICK l \in Nat : l = Leading(m, j) /\ BeginsAs(l, m, j)
    <3>1. j \in 1..Digits(m)
      BY <1>3, <1>6
    <3>. QED
      BY <3>1, LeadingIs
  <2>2. PICK p \in Seq(Nat) : p = Decimal(l)
    BY DecimalString DEF IsString
  <2>3. Len(p) = j /\ IsPrefix(p, a)
    BY <1>1, <2>1, <2>2 DEF BeginsAs, Digits
  <2>4. DigitsLess(a, b) <=> DigitsLess(p, b)
    BY <1>2, <1>6, <2>3, BeginsWith
  <2>5. DigitsLess(p, b) <=> l < n
    BY <1>1, <1>2, <2>2, <2>3, DecimalOrder DEF Faithful
  <2>6. Before(m, n) <=> l < n
    BY <1>3, <1>6, <2>1 DEF Before
  <2>7. a # b /\ m # n
    BY <1>1, <1>2, <1>6
  <2>8. ~IsPrefix(a, b)
    BY <1>2, <1>6 DEF IsPrefix
  <2>. QED
    BY <1>1, <1>3, <1>6, <2>4, <2>5, <2>6, <2>7, <2>8
<1>. QED
  BY <1>4, <1>5, <1>6

(* Of two different numbers one is before the other, and not both. *)
LEMMA BeforeOrders ==
  ASSUME NEW m \in Nat, NEW n \in Nat
  PROVE  /\ ~(Before(m, n) /\ Before(n, m))
         /\ Before(m, n) \/ Before(n, m) \/ m = n
         /\ \A o \in Nat : Before(m, n) /\ Before(n, o) => Before(m, o)
<1>1. PICK a \in Seq(Nat), b \in Seq(Nat) : a = Decimal(m) /\ b = Decimal(n)
  BY DecimalString DEF IsString
<1>2. PICK i \in Nat, j \in Nat : i = Digits(m) /\ j = Digits(n)
  BY <1>1 DEF Digits
<1>3. i >= 1 /\ j >= 1
  <2>1. Len(a) >= 1 /\ Len(b) >= 1
    <3>1. (m < 10 \/ m >= 10) /\ (n < 10 \/ n >= 10)
      OBVIOUS
    <3>2. (Len(a) = 1 \/ Len(a) > 1) /\ (Len(b) = 1 \/ Len(b) > 1)
      BY <1>1, <3>1, DecimalString DEF IsString
    <3>. QED
      BY <3>2
  <2>. QED
    BY <1>1, <1>2, <2>1 DEF Digits
<1>4. i < j => Leading(n, i) \in Nat
  BY <1>2, <1>3, LeadingIs
<1>5. j < i => Leading(m, j) \in Nat
  BY <1>2, <1>3, LeadingIs
<1>6. i < j \/ j < i \/ i = j
  OBVIOUS
<1>7. ~(Before(m, n) /\ Before(n, m)) /\ (Before(m, n) \/ Before(n, m) \/ m = n)
  <2>1. CASE i = j
    BY <1>2, <2>1 DEF Before
  <2>2. CASE i < j
    BY <1>2, <1>4, <2>2 DEF Before
  <2>3. CASE j < i
    BY <1>2, <1>5, <2>3 DEF Before
  <2>. QED
    BY <1>6, <2>1, <2>2, <2>3
<1>8. ASSUME NEW o \in Nat, Before(m, n), Before(n, o) PROVE Before(m, o)
  <2>1. PICK c \in Seq(Nat) : c = Decimal(o)
    BY DecimalString DEF IsString
  <2>2. DigitsLess(a, b) /\ DigitsLess(b, c)
    BY <1>1, <1>8, <2>1, DecimalBefore
  <2>3. DigitsLess(a, c)
    BY <2>2, LessIsTransitive
  <2>. QED
    BY <1>1, <2>1, <2>3, DecimalBefore
<1>. QED
  BY <1>7, <1>8

-----------------------------------------------------------------------------
(***************************************************************************)
(* What a query finds.                                                     *)
(***************************************************************************)
(* Sort keys of one field are ordered as Before orders the numbers. *)
LEMMA SortKeys ==
  ASSUME NEW field, NEW m \in Nat, NEW n \in Nat
  PROVE  /\ KeyLess(SortKey(field, m), SortKey(field, n)) <=> Before(m, n)
         /\ SortKey(field, m) = SortKey(field, n) <=> m = n
         /\ IsPrefix(SortKey(field, m).is, SortKey(field, n).is)
              <=> Digits(m) <= Digits(n) /\ Leading(n, Digits(m)) = m
<1>1. /\ SortKey(field, m).of = field /\ SortKey(field, m).is = Decimal(m)
      /\ SortKey(field, n).of = field /\ SortKey(field, n).is = Decimal(n)
      /\ SortKey(field, m) = SortKey(field, n) <=> Decimal(m) = Decimal(n)
  BY DEF SortKey, Key
<1>. QED
  BY <1>1, DecimalBefore DEF KeyLess

(* The condition of numbers that a sort condition is. *)
InRange(m, op, v, w) ==
  \/ op = "eq" /\ m = v
  \/ op = "lt" /\ Before(m, v)
  \/ op = "le" /\ ~Before(v, m)
  \/ op = "gt" /\ Before(v, m)
  \/ op = "ge" /\ ~Before(m, v)
  \/ op = "begins_with" /\ Digits(v) <= Digits(m) /\ Leading(m, Digits(v)) = v
  \/ op = "between" /\ ~Before(m, v) /\ ~Before(w, m)

(* The database makes of the condition what the numbers say. *)
LEMMA MeetsInRange ==
  ASSUME NEW field, NEW m \in Nat, NEW v \in Nat,
         NEW w, NEW sort, sort.op \in Operators, sort.value = SortKey(field, v),
         sort.op = "between" =>
           /\ w \in Nat /\ sort.value2 = SortKey(field, w)
  PROVE  Meets(SortKey(field, m), sort) <=> InRange(m, sort.op, v, w)
<1>1. PICK key, value : key = SortKey(field, m) /\ value = SortKey(field, v)
  OBVIOUS
<1>2. /\ KeyLess(key, value) <=> Before(m, v)
      /\ KeyLess(value, key) <=> Before(v, m)
      /\ key = value <=> m = v
      /\ key.of = value.of
      /\ IsPrefix(value.is, key.is) <=> Digits(v) <= Digits(m) /\ Leading(m, Digits(v)) = v
  <2>1. key.of = value.of
    BY <1>1 DEF SortKey, Key
  <2>2. (KeyLess(key, value) <=> Before(m, v)) /\ (key = value <=> m = v)
    BY <1>1, SortKeys
  <2>3. /\ KeyLess(value, key) <=> Before(v, m)
        /\ IsPrefix(value.is, key.is) <=> Digits(v) <= Digits(m) /\ Leading(m, Digits(v)) = v
    BY <1>1, SortKeys
  <2>. QED
    BY <2>1, <2>2, <2>3
<1>3. CASE sort.op = "eq"
  BY <1>1, <1>2, <1>3 DEF Meets, InRange
<1>4. CASE sort.op = "lt"
  BY <1>1, <1>2, <1>4 DEF Meets, InRange
<1>5. CASE sort.op = "le"
  BY <1>1, <1>2, <1>5 DEF Meets, InRange
<1>6. CASE sort.op = "gt"
  BY <1>1, <1>2, <1>6 DEF Meets, InRange
<1>7. CASE sort.op = "ge"
  BY <1>1, <1>2, <1>7 DEF Meets, InRange
<1>8. CASE sort.op = "begins_with"
  BY <1>1, <1>2, <1>8 DEF Meets, InRange
<1>9. CASE sort.op = "between"
  <2>1. PICK value2 : value2 = SortKey(field, w) /\ value2 = sort.value2
    BY <1>9
  <2>2. KeyLess(value2, key) <=> Before(w, m)
    <3>1. KeyLess(SortKey(field, w), SortKey(field, m)) <=> Before(w, m)
      BY <1>9, SortKeys
    <3>. QED
      BY <1>1, <2>1, <3>1
  <2>3. Meets(key, sort) <=> ~KeyLess(key, value) /\ ~KeyLess(value2, key)
    BY <1>1, <1>9, <2>1 DEF Meets
  <2>4. InRange(m, sort.op, v, w) <=> ~Before(m, v) /\ ~Before(w, m)
    BY <1>9 DEF InRange
  <2>. QED
    BY <1>1, <1>2, <1>9, <2>2, <2>3, <2>4
<1>. QED
  BY <1>3, <1>4, <1>5, <1>6, <1>7, <1>8, <1>9 DEF Operators

-----------------------------------------------------------------------------
(***************************************************************************)
(* Why a query is right.                                                   *)
(***************************************************************************)
FitOf(r) == {v \in r.listed : Satisfies(v.by, r.call)}

ByOf(r, id) == (CHOOSE v \in r.listed : v.id = id).by

(* What QueryMeetsCondition says of a request, and when it says it. *)
FindsFit(r) ==
  /\ Len(r.found) = Cardinality(FitOf(r))
  /\ {r.found[k] : k \in DOMAIN r.found} = {v.id : v \in FitOf(r)}
  /\ \A j, k \in DOMAIN r.found :
       j < k => ~Before(ByOf(r, r.found[k]), ByOf(r, r.found[j]))

QueryRight(r) == r.listed # {} /\ r.status = 200 => FindsFit(r)

(* The items of one partition of an index, with their numbers. *)
Partition(P, n, field, by) ==
  /\ IsFiniteSet(P) /\ by \in [P -> Nat]
  /\ \A x \in P : x.gsisk[n] = SortKey(field, by[x])
  /\ \A x, y \in P : x.body.id = y.body.id => x = y

ListedAs(r, P, by) == r.listed = {[id |-> x.body.id, by |-> by[x]] : x \in P}

(* A list of some of its items, each once, in the order of their numbers. *)
Lists(s, X, by, c) ==
  /\ DOMAIN s = 1..c
  /\ \A k \in 1..c : s[k] \in X
  /\ \A x \in X : \E k \in 1..c : s[k] = x
  /\ \A j, k \in 1..c : j < k => ~Before(by[s[k]], by[s[j]])

(* The order of the index is that of the numbers. *)
LEMMA InOrderList ==
  ASSUME NEW P, NEW n, NEW field, NEW by, Partition(P, n, field, by),
         NEW X \in SUBSET P, NEW s, s = InOrder(X, n)
  PROVE  IsFiniteSet(X) /\ Cardinality(X) \in Nat /\ Lists(s, X, by, Cardinality(X))
<1>1. IsFiniteSet(X)
  BY FS_Subset DEF Partition
<1>2. PICK c \in Nat : c = Cardinality(X)
  BY <1>1, FS_CardinalityType
<1>3. \A x \in X : by[x] \in Nat /\ x.gsisk[n] = SortKey(field, by[x])
  BY DEF Partition
<1> DEFINE R == {p \in X \X X : ~Before(by[p[2]], by[p[1]])}
<1>4. \A x, y \in X : <<x, y>> \in R <=> ~Before(by[y], by[x])
  OBVIOUS
<1>5. \A x, y \in X : KeyLess(x.gsisk[n], y.gsisk[n]) <=> Before(by[x], by[y])
  BY <1>3, SortKeys
<1> HIDE DEF R
<1>6. Orders(R, X)
  <2>1. \A x, y \in X : ~Before(by[y], by[x]) \/ ~Before(by[x], by[y])
    BY <1>3, BeforeOrders
  <2>2. ASSUME NEW x \in X, NEW y \in X, NEW z \in X,
               ~Before(by[y], by[x]), ~Before(by[z], by[y]), Before(by[z], by[x])
        PROVE  FALSE
    <3>1. PICK k \in Nat, l \in Nat, m \in Nat : k = by[x] /\ l = by[y] /\ m = by[z]
      BY <1>3
    <3>2. (Before(k, l) \/ k = l) /\ (Before(l, m) \/ l = m)
      BY <2>2, <3>1, BeforeOrders
    <3>3. Before(k, m) \/ k = m
      BY <3>2, BeforeOrders
    <3>4. Before(m, k)
      BY <2>2, <3>1
    <3>. QED
      BY <3>3, <3>4, BeforeOrders
  <2>. QED
    BY <1>4, <2>1, <2>2 DEF Orders
<1>7. PICK t : Enumerates(t, X, c) /\ Sorts(t, R, c)
  BY <1>1, <1>2, <1>6, SortedExists
<1> DEFINE Ordered(u) == \A j, k \in DOMAIN u : j < k => ~KeyLess(u[k].gsisk[n], u[j].gsisk[n])
<1>8. \A u : u \in SetToSeqs(X) <=> Enumerates(u, X, c)
  BY <1>2 DEF SetToSeqs, Enumerates
<1>9. ASSUME NEW u, Enumerates(u, X, c)
      PROVE  Ordered(u) <=> \A j, k \in 1..c : j < k => ~Before(by[u[k]], by[u[j]])
  <2>1. DOMAIN u = 1..c /\ \A j \in 1..c : u[j] \in X
    BY <1>9 DEF Enumerates
  <2>2. \A j, k \in 1..c : KeyLess(u[k].gsisk[n], u[j].gsisk[n]) <=> Before(by[u[k]], by[u[j]])
    BY <1>5, <2>1
  <2>. QED
    BY <2>1, <2>2
<1>10. Ordered(t)
  <2>1. \A j, k \in 1..c : j < k => ~Before(by[t[k]], by[t[j]])
    BY <1>4, <1>7 DEF Sorts, Enumerates
  <2>. QED
    BY <1>7, <1>9, <2>1
<1>11. s = CHOOSE u \in SetToSeqs(X) : Ordered(u)
  BY DEF InOrder
<1> HIDE DEF Ordered
<1>12. s \in SetToSeqs(X) /\ Ordered(s)
  BY <1>7, <1>8, <1>10, <1>11
<1>13. Enumerates(s, X, c)
  BY <1>8, <1>12
<1>14. \A j, k \in 1..c : j < k => ~Before(by[s[k]], by[s[j]])
  BY <1>9, <1>12, <1>13
<1>15. \A x \in X : \E k \in 1..c : s[k] = x
  BY <1>1, <1>2, <1>13, EnumerationCovers
<1>16. DOMAIN s = 1..c /\ \A k \in 1..c : s[k] \in X
  BY <1>13 DEF Enumerates
<1>1a. Lists(s, X, by, c)
  BY <1>14, <1>15, <1>16, Zenon DEF Lists
<1>. QED
  BY <1>1, <1>2, <1>1a

(* Those that fit, in the order of the index, are what is to be found. *)
LEMMA FindsThoseThatFit ==
  ASSUME NEW P, NEW n, NEW field, NEW by, Partition(P, n, field, by),
         NEW r, ListedAs(r, P, by),
         NEW X, X = {x \in P : Satisfies(by[x], r.call)},
         NEW s, s = InOrder(X, n), r.found = [k \in DOMAIN s |-> s[k].body.id]
  PROVE  FindsFit(r)
<1> DEFINE entry(x) == [id |-> x.body.id, by |-> by[x]]
<1>1. /\ IsFiniteSet(P) /\ \A x \in P : by[x] \in Nat
      /\ \A x \in P : x.gsisk[n] = SortKey(field, by[x])
      /\ \A x, y \in P : x.body.id = y.body.id => x = y
  BY DEF Partition
<1>2. X \in SUBSET P /\ IsFiniteSet(X)
  BY <1>1, FS_Subset
<1>3. PICK c \in Nat : c = Cardinality(X) /\ Lists(s, X, by, c)
  <2>1. X \in SUBSET P
    BY <1>2
  <2>2. Cardinality(X) \in Nat /\ Lists(s, X, by, Cardinality(X))
    BY <2>1, InOrderList
  <2>. QED
    BY <2>2
<1>4. \A j, k \in 1..c : j < k => ~Before(by[s[k]], by[s[j]])
  BY <1>3, Zenon DEF Lists
<1>5. DOMAIN s = 1..c /\ (\A k \in 1..c : s[k] \in X) /\ \A x \in X : \E k \in 1..c : s[k] = x
  BY <1>3, Zenon DEF Lists
<1>6. /\ r.found = [k \in 1..c |-> s[k].body.id] /\ DOMAIN r.found = 1..c
      /\ \A k \in 1..c : r.found[k] = s[k].body.id
  <2>1. r.found = [k \in 1..c |-> s[k].body.id]
    BY <1>5, Zenon
  <2>. QED
    BY <2>1, Zenon
<1>12. \A x : entry(x).id = x.body.id /\ entry(x).by = by[x]
  OBVIOUS
<1>7. FitOf(r) = {entry(x) : x \in X}
  BY <1>2 DEF FitOf, ListedAs
<1>13. r.listed = {entry(x) : x \in P}
  BY DEF ListedAs
<1> HIDE DEF entry
<1>8. Len(r.found) = Cardinality(FitOf(r))
  <2>1. Len(r.found) = c
    BY <1>3, <1>6
  <2>2. PICK f : f = [x \in X |-> entry(x)]
    OBVIOUS
  <2>3. f \in [X -> FitOf(r)] /\ \A x \in X : f[x] = entry(x)
    BY <1>7, <2>2
  <2>4. \A x, y \in X : f[x] = f[y] => x = y
    BY <1>1, <1>2, <1>12, <2>3
  <2>5. \A v \in FitOf(r) : \E x \in X : f[x] = v
    BY <1>7, <2>3
  <2>6. f \in Bijection(X, FitOf(r))
    BY <2>3, <2>4, <2>5 DEF Bijection, Injection, Surjection, IsInjective
  <2>7. ExistsBijection(X, FitOf(r))
    BY <2>6 DEF ExistsBijection
  <2>. QED
    BY <1>2, <1>3, <2>1, <2>7, FS_Bijection
<1>9. {r.found[k] : k \in DOMAIN r.found} = {v.id : v \in FitOf(r)}
  <2>1. ASSUME NEW k \in 1..c PROVE \E v \in FitOf(r) : v.id = r.found[k]
    <3>1. s[k] \in X /\ r.found[k] = s[k].body.id
      BY <1>5, <1>6
    <3>2. entry(s[k]) \in FitOf(r) /\ entry(s[k]).id = r.found[k]
      BY <1>7, <1>12, <3>1
    <3>. QED
      BY <3>2
  <2>2. ASSUME NEW v \in FitOf(r) PROVE \E k \in 1..c : v.id = r.found[k]
    <3>1. PICK x \in X : v = entry(x)
      BY <1>7
    <3>2. PICK k \in 1..c : s[k] = x
      BY <1>5
    <3>3. r.found[k] = x.body.id
      BY <1>6, <3>2
    <3>4. v.id = x.body.id
      BY <1>12, <3>1, Zenon
    <3>. QED
      BY <3>3, <3>4
  <2>3. PICK A, B : A = {r.found[k] : k \in DOMAIN r.found} /\ B = {v.id : v \in FitOf(r)}
    OBVIOUS
  <2>4. ASSUME NEW y \in A PROVE y \in B
    <3>1. PICK k \in DOMAIN r.found : y = r.found[k]
      BY <2>3
    <3>2. k \in 1..c
      BY <1>6
    <3>3. PICK v \in FitOf(r) : v.id = r.found[k]
      BY <2>1, <3>2
    <3>. QED
      BY <2>3, <3>1, <3>3
  <2>5. ASSUME NEW y \in B PROVE y \in A
    <3>1. PICK v \in FitOf(r) : y = v.id
      BY <2>3
    <3>2. PICK k \in 1..c : v.id = r.found[k]
      BY <2>2
    <3>3. k \in DOMAIN r.found
      BY <1>6
    <3>. QED
      BY <2>3, <3>1, <3>2, <3>3
  <2>6. A = B
    BY <2>4, <2>5
  <2>. QED
    BY <2>3, <2>6, Zenon
<1>10. \A x \in P : ByOf(r, x.body.id) = by[x]
  <2> SUFFICES ASSUME NEW x \in P PROVE ByOf(r, x.body.id) = by[x]
    OBVIOUS
  <2>1. entry(x) \in r.listed
    BY <1>13
  <2>2. \A v \in r.listed : v.id = x.body.id <=> v = entry(x)
    BY <1>1, <1>12, <1>13
  <2>3. PICK chosen : chosen = CHOOSE v \in r.listed : v.id = x.body.id
    OBVIOUS
  <2>4. chosen \in r.listed /\ chosen.id = x.body.id
    BY <2>1, <2>2, <2>3, Zenon
  <2>5. ByOf(r, x.body.id) = chosen.by
    BY <2>3, Zenon DEF ByOf
  <2>. QED
    BY <1>12, <2>2, <2>4, <2>5
<1>11. ASSUME NEW j \in DOMAIN r.found, NEW k \in DOMAIN r.found, j < k
       PROVE  ~Before(ByOf(r, r.found[k]), ByOf(r, r.found[j]))
  <2>1. j \in 1..c /\ k \in 1..c
    BY <1>6, <1>11
  <2>2. r.found[j] = s[j].body.id /\ r.found[k] = s[k].body.id
    BY <1>6, <2>1
  <2>3. s[j] \in P /\ s[k] \in P
    BY <1>2, <1>5, <2>1
  <2>4. ByOf(r, r.found[j]) = by[s[j]] /\ ByOf(r, r.found[k]) = by[s[k]]
    BY <1>10, <2>2, <2>3
  <2>. QED
    BY <1>4, <1>11, <2>1, <2>4
<1>. QED
  BY <1>8, <1>9, <1>11 DEF FindsFit

-----------------------------------------------------------------------------
(***************************************************************************)
(* The numbers that events bear: their times, and that of placing.         *)
(***************************************************************************)
Stamped(sample) == "createAt" \in DOMAIN sample /\ sample.createAt \in Nat

Dated(event) ==
  /\ event.at \in Nat
  /\ app = "order" /\ event.kind = "Placed" => event.arg \in Nat
  /\ app = "sample" /\ event.kind = "Snapshot" => Stamped(event.arg)

AllDated(s) == \A k \in DOMAIN s : Dated(s[k])

(* On of a sample keeps the time of its creation a number. *)
LEMMA SOnStamped ==
  ASSUME NEW agg, Stamped(agg), NEW event, event.at \in Nat,
         event.kind \in {"Created", "Updated", "Snapshot"},
         event.kind = "Snapshot" => Stamped(event.arg)
  PROVE  Stamped(S!On(agg, event))
<1> DEFINE at == [agg EXCEPT !.version = event.version, !.body = event.arg]
<1>1. Stamped(at)
  BY DEF Stamped
<1> HIDE DEF at
<1>2. CASE event.kind = "Created"
  <2>1. S!On(agg, event) = S!setModified(S!setCreated(at, event), event)
    BY <1>2 DEF S!On, at
  <2>2. PICK made : made = S!setCreated(at, event)
    OBVIOUS
  <2>3. Stamped(made)
    BY <1>1, <2>2 DEF Stamped, S!setCreated
  <2>. QED
    BY <2>1, <2>2, <2>3 DEF Stamped, S!setModified
<1>3. CASE event.kind = "Updated"
  <2>1. S!On(agg, event) = S!setModified(at, event)
    BY <1>3 DEF S!On, at
  <2>. QED
    BY <1>1, <2>1 DEF Stamped, S!setModified
<1>4. CASE event.kind = "Snapshot"
  <2>1. S!On(agg, event) = S!RestoreSnapshot(event)
    BY <1>4 DEF S!On, at
  <2>. QED
    BY <1>4, <2>1 DEF Stamped, S!RestoreSnapshot
<1>. QED
  BY <1>2, <1>3, <1>4

(* And so does a replay. *)
LEMMA SReplayStamped ==
  ASSUME app = "sample", NEW s, IsList(s), \A k \in DOMAIN s : Replayable(s[k]), AllDated(s)
  PROVE  Stamped(S!Replay(s))
<1>1. PICK n \in Nat : n = Len(s) /\ DOMAIN s = 1..n
  BY ListFacts
<1>2. PICK f : SFolds(f, s, n) /\ S!Replay(s) = f[n]
  BY <1>1, SReplayFold
<1> DEFINE T == {m \in Nat : m <= n => Stamped(f[m])}
<1>3. 0 \in T
  <2>1. f[0] = S!NewSample
    BY <1>2 DEF SFolds
  <2>. QED
    BY <2>1 DEF S!NewSample, Stamped
<1>4. ASSUME NEW m \in T PROVE m + 1 \in T
  <2>1. SUFFICES ASSUME m + 1 <= n PROVE Stamped(f[m + 1])
    OBVIOUS
  <2>2. f[m + 1] = S!On(f[m], s[m + 1])
    BY <1>2, <2>1 DEF SFolds
  <2>3. Stamped(f[m])
    BY <2>1
  <2>4. Replayable(s[m + 1]) /\ Dated(s[m + 1])
    BY <1>1, <2>1 DEF AllDated
  <2>. QED
    BY <2>2, <2>3, <2>4, SOnStamped DEF Replayable, Dated
<1>5. T = Nat
  <2> HIDE DEF T
  <2>1. T \in SUBSET Nat
    BY DEF T
  <2>. QED
    BY <1>3, <1>4, <2>1, SetInduction
<1>6. Stamped(f[n])
  BY <1>5
<1>. QED
  BY <1>2, <1>6

(* The payload of an event of an order is that of its command. *)
LEMMA OrderArguments ==
  ASSUME NEW cmd, NEW s, NEW now,
         NEW e, e = O!OrderEvents(cmd, O!Replay(s), now), NEW k \in DOMAIN e,
         e[k].kind # "Snapshot"
  PROVE  e[k].arg = cmd.arg
<1>1. PICK agg : agg = O!Replay(s)
  OBVIOUS
<1> DEFINE first == [kind |-> O!Produces(cmd.name), version |-> agg.version + 1,
                     actor |-> cmd.actor, arg |-> cmd.arg]
           built == O!BuildEvent(O!NewBuilder(agg), O!Produces(cmd.name), cmd.actor, cmd.arg)
<1>2. PICK events : events = O!EmitEvents(cmd, cmd.actor, agg)
  OBVIOUS
<1>3. DOMAIN e = DOMAIN events /\ e[k].kind = events[k].kind /\ e[k].arg = events[k].arg
  BY <1>1, <1>2 DEF O!OrderEvents
<1>4. built.events = <<first>>
  BY DEF O!BuildEvent, O!NewBuilder
<1>5. first.arg = cmd.arg
  OBVIOUS
<1> HIDE DEF first
<1>6. CASE built.version % SnapshotInterval # 0
  <2>1. events = <<first>>
    BY <1>2, <1>4, <1>6 DEF O!EmitEvents, O!BuildSnapshot
  <2>. QED
    BY <1>3, <1>5, <2>1, SingleList
<1>7. CASE ~(built.version % SnapshotInterval # 0)
  <2> DEFINE second == [kind |-> "Snapshot", version |-> built.version + 1,
                        actor |-> O!SnapshotActor, arg |-> O!AfterOn(built.data)]
  <2>1. events = Append(built.events, second)
    BY <1>2, <1>7 DEF O!EmitEvents, O!BuildSnapshot, O!SnapshotOf
  <2>2. second.kind = "Snapshot"
    OBVIOUS
  <2> HIDE DEF second, built
  <2>3. events = <<first, second>>
    BY <1>4, <2>1, TwoParts
  <2>. QED
    BY <1>3, <1>5, <2>2, <2>3, PairList
<1>. QED
  BY <1>6, <1>7

(* A command that may come with a time of placing has a number for it. *)
Timely(cmd) ==
  /\ app = "order" => cmd.name \in O!CommandNames
  /\ cmd.name = "Place" => cmd.arg \in Nat

(* What a command emits bears numbers if what it was decided on does. *)
LEMMA EmitEventsDated ==
  ASSUME app \in Apps, NEW cmd, Timely(cmd), NEW s, IsList(s), AllDated(s),
         \A k \in DOMAIN s : s[k].version = k /\ Replayable(s[k]), NEW now \in Nat
  PROVE  AllDated(EmitEvents(cmd, s, now))
<1>1. app \in {"order", "sample", "samplenosnapshot"}
  BY ServiceAssumption DEF Calls
<1>2. PICK e : e = EmitEvents(cmd, s, now)
  OBVIOUS
<1>3. Emits(e, cmd, s, now)
  BY <1>2, EmitEventsGood
<1>4. CASE app = "order"
  <2>1. ASSUME NEW k \in DOMAIN e, e[k].kind = "Placed" PROVE e[k].arg \in Nat
    <3>1. Kind(cmd.name) = "Placed"
      BY <1>3, <2>1 DEF Emits
    <3>2. O!Produces(cmd.name) = "Placed"
      BY <1>4, <3>1 DEF Kind, Of
    <3>3. cmd.name = "Place"
      BY <1>4, <3>2 DEF Timely, O!CommandNames, O!Produces
    <3>4. e = O!OrderEvents(cmd, O!Replay(s), now)
      BY <1>2, <1>4 DEF EmitEvents, Of
    <3>5. e[k].arg = cmd.arg
      BY <2>1, <3>4, OrderArguments
    <3>. QED
      BY <3>3, <3>5 DEF Timely
  <2>. QED
    BY <1>2, <1>3, <1>4, <2>1 DEF AllDated, Dated, Emits
<1>5. CASE app = "sample"
  <2>1. ASSUME NEW k \in DOMAIN e, e[k].kind = "Snapshot" PROVE Stamped(e[k].arg)
    <3>1. PICK agg : agg = S!Replay(s)
      OBVIOUS
    <3>2. Stamped(agg)
      BY <1>5, <3>1, SReplayStamped
    <3>3. PICK first : first = S!BuildEvent(cmd, agg.version + 1, now)
      OBVIOUS
    <3>4. first.at = now /\ first.kind \in {"Created", "Updated"}
      BY <3>3 DEF S!BuildEvent, S!Produces
    <3>5. PICK after : after = S!On(agg, first)
      OBVIOUS
    <3>6. Stamped(after)
      BY <3>2, <3>4, <3>5, SOnStamped
    <3>7. e = <<first>> \o S!Snapshot(after, now)
      BY <1>2, <1>5, <3>1, <3>3, <3>5 DEF EmitEvents, Of, S!EmitEvents
    <3>8. CASE after.version % SnapshotInterval # 0
      <4>1. e = <<first>>
        BY <3>7, <3>8 DEF S!Snapshot
      <4>. QED
        BY <2>1, <3>4, <4>1, SingleList
    <3>9. CASE ~(after.version % SnapshotInterval # 0)
      <4> DEFINE second == [kind |-> "Snapshot", version |-> after.version + 1, at |-> now,
                            actor |-> "snapshot@system", arg |-> after]
      <4>1. S!Snapshot(after, now) = <<second>>
        BY <3>9 DEF S!Snapshot
      <4>2. second.arg = after
        OBVIOUS
      <4> HIDE DEF second
      <4>3. e = <<first, second>>
        BY <3>7, <4>1, TwoParts
      <4>. QED
        BY <2>1, <3>4, <3>6, <4>2, <4>3, PairList
    <3>. QED
      BY <3>8, <3>9
  <2>. QED
    BY <1>2, <1>3, <1>5, <2>1 DEF AllDated, Dated, Emits
<1>6. CASE app = "samplenosnapshot"
  BY <1>2, <1>3, <1>6 DEF AllDated, Dated, Emits
<1>. QED
  BY <1>1, <1>4, <1>5, <1>6

(* Events that are saved after others. *)
LEMMA JoinDated ==
  ASSUME NEW s, IsList(s), AllDated(s), NEW e, IsList(e), AllDated(e)
  PROVE  AllDated(s \o e)
<1>1. PICK t : t = s \o e
  OBVIOUS
<1>2. IsJoin(s, e, t)
  BY <1>1, ListConcat
<1>3. \A k \in DOMAIN t : Dated(t[k])
  BY <1>2, Zenon DEF AllDated, IsJoin
<1>. QED
  BY <1>1, <1>3 DEF AllDated

(* The aggregates there at the start have events that bear numbers. *)
LEMMA SeededDated ==
  ASSUME app \in Apps, NEW id
  PROVE  AllDated(Seeded(id))
<1>1. /\ Seed[app] \in Seq(Range(Seed[app]))
      /\ \A k \in DOMAIN Seed[app] : Seed[app][k].at \in Nat /\ Seed[app][k].at < StartTime
  BY ServiceAssumption
<1>2. PICK n \in Nat : n = Len(Seed[app]) /\ DOMAIN Seed[app] = 1..n
  BY <1>1
<1>3. PICK made : made = Seed[app]
  OBVIOUS
<1>4. PICK f : SeedFolds(f, made, id, n) /\ Seeded(id) = f[n]
  BY <1>2, <1>3, SeededFold
<1>5. ASSUME NEW k \in 1..n PROVE Timely(made[k]) /\ made[k].at \in Nat /\ made[k].at < StartTime
  <2>1. /\ made[k].name \in Calls[app] \cap (O!CommandNames \cup S!CommandNames)
        /\ made[k].name = "Place" => made[k].arg \in Nat
    BY <1>2, <1>3, QueryAssumption
  <2>2. app = "order" => made[k].name \in O!CommandNames
    BY <2>1 DEF Calls, O!CommandNames, S!CommandNames, Direct, SummariesByState,
                SummariesByCustomer
  <2>. QED
    BY <1>1, <1>2, <1>3, <2>1, <2>2 DEF Timely
<1> DEFINE Good(m) == GoodStream(f[m]) /\ AllDated(f[m])
           T == {m \in Nat : m <= n => Good(m)}
<1>6. 0 \in T
  <2>1. f[0] = <<>>
    BY <1>4 DEF SeedFolds
  <2>2. IsList(<<>>) /\ DOMAIN <<>> = {}
    BY DEF IsList
  <2>3. Good(0)
    BY <2>1, <2>2 DEF GoodStream, AllDated
  <2>. QED
    BY <2>3
<1>7. ASSUME NEW m \in T PROVE m + 1 \in T
  <2>1. SUFFICES ASSUME m + 1 <= n PROVE Good(m + 1)
    OBVIOUS
  <2>2. PICK b : b = f[m]
    OBVIOUS
  <2>3. PICK cmd : cmd = made[m + 1]
    OBVIOUS
  <2>4. f[m + 1] = IF cmd.id = id THEN b \o EmitEvents(cmd, b, cmd.at) ELSE b
    BY <1>4, <2>1, <2>2, <2>3 DEF SeedFolds
  <2>5. GoodStream(b) /\ AllDated(b)
    BY <2>1, <2>2
  <2>6. CASE cmd.id # id
    BY <2>4, <2>5, <2>6
  <2>7. CASE cmd.id = id
    <3>1. PICK e : e = EmitEvents(cmd, b, cmd.at)
      OBVIOUS
    <3>2. f[m + 1] = b \o e
      BY <2>4, <2>7, <3>1
    <3>3. Emits(e, cmd, b, cmd.at)
      BY <2>5, <3>1, EmitEventsGood DEF GoodStream
    <3>4. Timely(cmd) /\ cmd.at \in Nat /\ cmd.at < StartTime
      BY <1>5, <2>1, <2>3
    <3>5. \A k \in DOMAIN e : Original(e[k]) /\ Granted(e[k])
      BY <3>3, <3>4 DEF Emits, Original, Granted
    <3>6. GoodStream(b \o e)
      BY <2>5, <3>3, <3>5, StreamExtended DEF Emits
    <3>7. IsList(b) /\ IsList(e)
      BY <2>5, <3>3 DEF GoodStream, Emits
    <3>8. AllDated(e)
      <4>1. \A k \in DOMAIN b : b[k].version = k /\ Replayable(b[k])
        BY <2>5 DEF GoodStream
      <4>. QED
        BY <2>5, <3>1, <3>4, <3>7, <4>1, EmitEventsDated
    <3>9. AllDated(b \o e)
      BY <2>5, <3>7, <3>8, JoinDated
    <3>. QED
      BY <3>2, <3>6, <3>9
  <2>. QED
    BY <2>6, <2>7
<1>8. T = Nat
  <2> HIDE DEF T
  <2>1. T \in SUBSET Nat
    BY DEF T
  <2>. QED
    BY <1>6, <1>7, <2>1, SetInduction
<1>9. Good(n)
  BY <1>8
<1>. QED
  BY <1>4, <1>9

-----------------------------------------------------------------------------
(***************************************************************************)
(* The indexes: what an item is found by is what its message says.         *)
(***************************************************************************)
Pair(field, value, by, number) == [pk |-> Key(field, <<value>>), sk |-> SortKey(by, number)]

OrderPair(m) == Pair("order.customer_id", m.customer, "order.create_at", m.createAt)

CustomerPair(m) ==
  Pair("ordersummary.customer_id", m.customer, "ordersummary.create_at", m.createAt)

StatePair(m) == Pair("ordersummary.state", m.state, "ordersummary.placed_at", m.placedAt)

CreatorPair(m) ==
  Pair("sample.create_by", m.state.createBy, "sample.create_at", m.state.createAt)

(* The services keep their views with the one opaque store. *)
LEMMA SameKeys ==
  /\ \A m : O!OrderGSI(m) = <<OrderPair(m)>>
  /\ \A m : O!OrderSummaryGSI(m) = <<CustomerPair(m), StatePair(m)>>
  /\ \A m : S!SampleGSI(m) = <<CreatorPair(m)>>
<1>1. \A field, value : O!Key(field, value) = Key(field, value)
                        /\ S!Key(field, value) = Key(field, value)
  BY DEF O!Key, S!Key, Key
<1>2. \A n : O!Decimal(n) = Decimal(n) /\ S!Decimal(n) = Decimal(n)
  BY Zenon DEF O!Decimal, S!Decimal, Decimal
<1>3. \A field, n : O!SortKey(field, n) = SortKey(field, n)
                    /\ S!SortKey(field, n) = SortKey(field, n)
  BY <1>1, <1>2, Zenon DEF O!SortKey, S!SortKey, SortKey
<1>4. \A m : O!OrderGSI(m) = <<OrderPair(m)>>
  BY <1>1, <1>3, Zenon DEF O!OrderGSI, OrderPair, Pair
<1>5. \A m : O!OrderSummaryGSI(m) = <<CustomerPair(m), StatePair(m)>>
  BY <1>1, <1>3, Zenon DEF O!OrderSummaryGSI, CustomerPair, StatePair, Pair
<1>6. \A m : S!SampleGSI(m) = <<CreatorPair(m)>>
  BY <1>1, <1>3, Zenon DEF S!SampleGSI, CreatorPair, Pair
<1>. QED
  BY <1>4, <1>5, <1>6

(* A message that is put under its own keys, and bears numbers. *)
FiledOrder(od) ==
  /\ od.body.type = "Order" /\ od.sk = O!OrderSK
  /\ od.gsi = <<OrderPair(od.body)>> /\ od.body.createAt \in Nat

FiledSummary(od) ==
  /\ od.body.type = "OrderSummary" /\ od.sk = O!OrderSummarySK
  /\ od.gsi = <<CustomerPair(od.body), StatePair(od.body)>>
  /\ od.body.createAt \in Nat /\ od.body.placedAt \in Nat

FiledSample(od) ==
  /\ od.body.type = "Sample" /\ od.sk = S!SK
  /\ od.gsi = <<CreatorPair(od.body)>> /\ od.body.state.createAt \in Nat

(* Views do not expire, and the key of each starts with its aggregate's. *)
Filed(od) ==
  /\ od.t = 0
  /\ app = "order" => od.pk = O!OrderPK(od.body.id) /\ (FiledOrder(od) \/ FiledSummary(od))
  /\ app = "sample" => od.pk = S!PK(od.body.id) /\ FiledSample(od)

(* An item with the attributes of an index. *)
HasPair(item, n, pair) ==
  /\ n \in DOMAIN item.gsipk /\ n \in DOMAIN item.gsisk
  /\ item.gsipk[n] = pair.pk /\ item.gsisk[n] = pair.sk

IndexedOrder(item) ==
  /\ item.body.type = "Order" /\ item.sk = O!OrderSK
  /\ DOMAIN item.gsipk = {1} /\ HasPair(item, 1, OrderPair(item.body))
  /\ item.body.createAt \in Nat

IndexedSummary(item) ==
  /\ item.body.type = "OrderSummary" /\ item.sk = O!OrderSummarySK
  /\ HasPair(item, 1, CustomerPair(item.body)) /\ HasPair(item, 2, StatePair(item.body))
  /\ item.body.createAt \in Nat /\ item.body.placedAt \in Nat

IndexedSample(item) ==
  /\ item.body.type = "Sample" /\ item.sk = S!SK
  /\ HasPair(item, 1, CreatorPair(item.body))
  /\ item.body.state.createAt \in Nat

Indexed(item) ==
  /\ item.t = 0
  /\ app = "order" =>
       item.pk = O!OrderPK(item.body.id) /\ (IndexedOrder(item) \/ IndexedSummary(item))
  /\ app = "sample" => item.pk = S!PK(item.body.id) /\ IndexedSample(item)

(* No key of a view is one that stands for an absent one. *)
LEMMA PairsPresent ==
  ASSUME NEW field, NEW value, NEW by, NEW number,
         field \notin {"NA", ""}, by \notin {"NA", ""}
  PROVE  HasPK(Pair(field, value, by, number)) /\ HasSK(Pair(field, value, by, number))
<1>1. \A f, v : f \notin {"NA", ""} => Key(f, v) \notin {NA, Empty}
  BY DEF Key, NA, Empty
<1>. QED
  BY <1>1 DEF HasPK, HasSK, Pair, SortKey

(* An item has the attributes of the indexes that are there, in either cloud. *)
LEMMA Attributes ==
  ASSUME NEW od, NEW now, NEW item, item = GetItem(od) \/ item = marshalItem(od, now),
         \A m \in DOMAIN od.gsi : HasPK(od.gsi[m]) /\ HasSK(od.gsi[m])
  PROVE  /\ item.pk = od.pk /\ item.sk = od.sk /\ item.body = od.body /\ item.t = od.t
         /\ DOMAIN item.gsipk = DOMAIN od.gsi
         /\ \A n \in DOMAIN od.gsi : HasPair(item, n, od.gsi[n])
<1>1. PICK pairs : pairs = od.gsi
  OBVIOUS
<1>2. PICK T : T = {m \in DOMAIN pairs : HasPK(pairs[m])}
  OBVIOUS
<1>3. PICK U : U = {m \in DOMAIN pairs : HasPK(pairs[m]) \/ HasSK(pairs[m])}
  OBVIOUS
<1>4. /\ item.pk = od.pk /\ item.sk = od.sk /\ item.body = od.body /\ item.t = od.t
      /\ item.gsipk = [n \in T |-> pairs[n].pk]
      /\ item.gsisk = [n \in U |-> IF HasSK(pairs[n]) THEN pairs[n].sk ELSE NA]
  BY <1>1, <1>2, <1>3 DEF GetItem, marshalItem, gsiPairs, gsiSlots
<1>5. T = DOMAIN pairs /\ U = DOMAIN pairs
  BY <1>1, <1>2, <1>3
<1>. QED
  BY <1>1, <1>4, <1>5 DEF HasPair

(* A view is indexed by what its message says. *)
LEMMA FiledIndexed ==
  ASSUME NEW od, Filed(od), app = "order" \/ app = "sample", NEW now, NEW item,
         item = GetItem(od) \/ item = marshalItem(od, now)
  PROVE  Indexed(item)
<1>1. ASSUME NEW m
      PROVE  /\ HasPK(OrderPair(m)) /\ HasSK(OrderPair(m))
             /\ HasPK(CustomerPair(m)) /\ HasSK(CustomerPair(m))
             /\ HasPK(StatePair(m)) /\ HasSK(StatePair(m))
             /\ HasPK(CreatorPair(m)) /\ HasSK(CreatorPair(m))
  <2>1. HasPK(OrderPair(m)) /\ HasSK(OrderPair(m))
    BY PairsPresent DEF OrderPair
  <2>2. HasPK(CustomerPair(m)) /\ HasSK(CustomerPair(m))
    BY PairsPresent DEF CustomerPair
  <2>3. HasPK(StatePair(m)) /\ HasSK(StatePair(m))
    BY PairsPresent DEF StatePair
  <2>4. HasPK(CreatorPair(m)) /\ HasSK(CreatorPair(m))
    BY PairsPresent DEF CreatorPair
  <2>. QED
    BY <2>1, <2>2, <2>3, <2>4
<1>2. ASSUME NEW p, od.gsi = <<p>>, HasPK(p), HasSK(p)
      PROVE  /\ item.pk = od.pk /\ item.sk = od.sk /\ item.body = od.body /\ item.t = od.t
             /\ DOMAIN item.gsipk = {1} /\ HasPair(item, 1, p)
  <2>1. DOMAIN od.gsi = {1} /\ od.gsi[1] = p
    BY <1>2, SingleList
  <2>. QED
    BY <1>2, <2>1, Attributes
<1>3. ASSUME NEW p, NEW q, od.gsi = <<p, q>>, HasPK(p), HasSK(p), HasPK(q), HasSK(q)
      PROVE  /\ item.pk = od.pk /\ item.sk = od.sk /\ item.body = od.body /\ item.t = od.t
             /\ HasPair(item, 1, p) /\ HasPair(item, 2, q)
  <2>1. DOMAIN od.gsi = {1, 2} /\ od.gsi[1] = p /\ od.gsi[2] = q
    BY <1>3, PairList
  <2>. QED
    BY <1>3, <2>1, Attributes
<1>4. CASE app = "order" /\ FiledOrder(od)
  BY <1>1, <1>2, <1>4 DEF Filed, FiledOrder, Indexed, IndexedOrder
<1>5. CASE app = "order" /\ FiledSummary(od)
  BY <1>1, <1>3, <1>5 DEF Filed, FiledSummary, Indexed, IndexedSummary
<1>6. CASE app = "sample"
  BY <1>1, <1>2, <1>6 DEF Filed, FiledSample, Indexed, IndexedSample
<1>. QED
  BY <1>4, <1>5, <1>6 DEF Filed

-----------------------------------------------------------------------------
(***************************************************************************)
(* The table: each of its items is one of a view.                          *)
(***************************************************************************)
HasQueries == app = "order" \/ app = "sample"

IndexedTable(t) ==
  IsFiniteSet(DOMAIN t) /\ (HasQueries => \A key \in DOMAIN t : Indexed(t[key]))

(* A put of a view. *)
LEMMA StorePutIndexed ==
  ASSUME NEW t, IndexedTable(t), NEW od, HasQueries => Filed(od), NEW now
  PROVE  IndexedTable(StorePut(cloud, t, od, now))
<1>1. ASSUME NEW item, HasQueries => Indexed(item)
      PROVE  IndexedTable(PutItem(t, item))
  <2>1. PICK after : after = PutItem(t, item)
    OBVIOUS
  <2>2. PICK key : key = <<item.pk, item.sk>>
    OBVIOUS
  <2>3. after = [k \in DOMAIN t \cup {key} |-> IF k = key THEN item ELSE t[k]]
    BY <2>1, <2>2 DEF PutItem
  <2>4. IsFiniteSet(DOMAIN t)
    BY DEF IndexedTable
  <2>5. IsFiniteSet(DOMAIN t \cup {key})
    BY <2>4, FS_AddElement
  <2>6. HasQueries => \A k \in DOMAIN after : Indexed(after[k])
    BY <1>1, <2>3 DEF IndexedTable
  <2>. QED
    BY <2>1, <2>3, <2>5, <2>6 DEF IndexedTable
<1>2. HasQueries => Indexed(GetItem(od)) /\ Indexed(marshalItem(od, now))
  BY FiledIndexed DEF HasQueries
<1>3. IndexedTable(DynamoPut(t, od)) /\ IndexedTable(CosmosPut(t, od, now))
  BY <1>1, <1>2 DEF DynamoPut, CosmosPut
<1>. QED
  BY <1>3 DEF StorePut

(* Views that are put one after the other, as far as they get through. *)
LEMMA PutAllIndexed ==
  ASSUME NEW before, IndexedTable(before), NEW views, IsList(views),
         HasQueries => \A k \in DOMAIN views : Filed(views[k]), NEW written, NEW now
  PROVE  IndexedTable(PutAll(before, views, written, now))
<1>1. PICK n \in Nat : n = Len(views) /\ DOMAIN views = 1..n
  BY ListFacts
<1>2. PICK f : /\ PutFolds(f, before, views, written, now, n)
               /\ PutAll(before, views, written, now) = f[n]
  BY <1>1, PutAllFold
<1> DEFINE T == {m \in Nat : m <= n => IndexedTable(f[m])}
<1>3. 0 \in T
  BY <1>2 DEF PutFolds
<1>4. ASSUME NEW m \in T PROVE m + 1 \in T
  <2>1. SUFFICES ASSUME m + 1 <= n PROVE IndexedTable(f[m + 1])
    OBVIOUS
  <2>2. f[m + 1] = IF m + 1 \in written THEN StorePut(cloud, f[m], views[m + 1], now)
                   ELSE f[m]
    BY <1>2, <2>1 DEF PutFolds
  <2>3. IndexedTable(f[m]) /\ (HasQueries => Filed(views[m + 1]))
    BY <1>1, <2>1
  <2>. QED
    BY <2>2, <2>3, StorePutIndexed
<1>5. T = Nat
  <2> HIDE DEF T
  <2>1. T \in SUBSET Nat
    BY DEF T
  <2>. QED
    BY <1>3, <1>4, <2>1, SetInduction
<1>6. IndexedTable(f[n])
  BY <1>5
<1>. QED
  BY <1>2, <1>6

(* The last of the placements: there is at most one, but that is not used. *)
LEMMA LastPlaced ==
  ASSUME NEW records, IsList(records), NEW K \in SUBSET DOMAIN records, K # {}
  PROVE  O!Max(K) \in K
<1>1. PICK n \in Nat : n = Len(records) /\ DOMAIN records = 1..n
  BY ListFacts
<1>2. K \in SUBSET (0..n)
  BY <1>1
<1>3. PICK m \in K : \A k \in K : k <= m
  BY <1>2, GreatestExists
<1>4. \A k \in K : m >= k
  BY <1>2, <1>3
<1>. QED
  BY <1>4 DEF O!Max

(* The views of an aggregate with a history bear numbers. *)
LEMMA ViewsFiled ==
  ASSUME HasQueries, NEW id, NEW records, IsList(records), Len(records) # 0,
         \A k \in DOMAIN records : Replayable(records[k]), AllDated(records)
  PROVE  \A k \in DOMAIN Views(id, records) : Filed(Views(id, records)[k])
<1>1. PICK n \in Nat : n = Len(records) /\ DOMAIN records = 1..n /\ n >= 1
  BY ListFacts
<1>2. Dated(records[1])
  BY <1>1 DEF AllDated
<1>3. CASE app = "order"
  <2>1. PICK m : m = O!LoadedOrder(id, records)
    OBVIOUS
  <2>2. PICK p : p = O!ProjectOrderSummary(m)
    OBVIOUS
  <2>3. PICK first : first = O!NewOpaqueDataFromProto(O!OrderKeys(m), m, 0, 0)
    OBVIOUS
  <2>4. PICK second : second = O!NewOpaqueDataFromProto(O!OrderSummaryKeys(p), p, 0, 0)
    OBVIOUS
  <2>5. Views(id, records) = <<first, second>>
    BY <1>3, <2>1, <2>2, <2>3, <2>4 DEF Views, Loaded, Of, O!OrderViews
  <2>6. m.type = "Order" /\ m.createAt \in Nat
    BY <1>2, <2>1 DEF O!LoadedOrder, Dated
  <2>7. m.placedAt \in Nat
    <3>1. PICK K : K = {k \in DOMAIN records : records[k].kind = "Placed"}
      OBVIOUS
    <3>2. m.placedAt = IF K = {} THEN 0 ELSE records[O!Max(K)].arg
      BY <2>1, <3>1 DEF O!LoadedOrder
    <3>3. K # {} => O!Max(K) \in K
      BY <3>1, LastPlaced
    <3>4. \A k \in K : records[k].arg \in Nat
      BY <1>3, <3>1 DEF AllDated, Dated
    <3>. QED
      BY <3>2, <3>3, <3>4
  <2>8. /\ p.type = "OrderSummary" /\ p.createAt = m.createAt /\ p.placedAt = m.placedAt
        /\ p.id = m.id
    BY <2>2 DEF O!ProjectOrderSummary
  <2>9. /\ first.body = m /\ first.t = 0 /\ first.pk = O!OrderPK(m.id)
        /\ first.sk = O!OrderSK /\ first.gsi = <<OrderPair(m)>>
    BY <2>3, SameKeys DEF O!NewOpaqueDataFromProto, O!OrderKeys, O!GetTTL
  <2>10. /\ second.body = p /\ second.t = 0 /\ second.pk = O!OrderPK(p.id)
         /\ second.sk = O!OrderSummarySK /\ second.gsi = <<CustomerPair(p), StatePair(p)>>
    BY <2>4, SameKeys DEF O!NewOpaqueDataFromProto, O!OrderSummaryKeys, O!GetTTL
  <2>11. Filed(first)
    BY <1>3, <2>6, <2>9 DEF Filed, FiledOrder
  <2>12. Filed(second)
    BY <1>3, <2>6, <2>7, <2>8, <2>10 DEF Filed, FiledSummary
  <2>. QED
    BY <2>5, <2>11, <2>12, PairList
<1>4. CASE app = "sample"
  <2>1. PICK m : m = S!LoadedSample(id, records)
    OBVIOUS
  <2>2. PICK first : first = S!NewOpaqueDataFromProto([pk |-> S!PK(m.id), sk |-> S!SK,
                                 gsi |-> S!SampleGSI(m)], m, 0, 0)
    OBVIOUS
  <2>3. Views(id, records) = <<first>>
    BY <1>4, <2>1, <2>2 DEF Views, Loaded, Of, S!SampleViews
  <2>4. m.type = "Sample" /\ m.state = S!Replay(records)
    BY <2>1 DEF S!LoadedSample
  <2>5. m.state.createAt \in Nat
    BY <1>4, <2>4, SReplayStamped DEF Stamped
  <2>6. /\ first.body = m /\ first.t = 0 /\ first.pk = S!PK(m.id)
        /\ first.sk = S!SK /\ first.gsi = <<CreatorPair(m)>>
    BY <2>2, SameKeys DEF S!NewOpaqueDataFromProto, S!GetTTL
  <2>7. Filed(first)
    BY <1>4, <2>4, <2>5, <2>6 DEF Filed, FiledSample
  <2>. QED
    BY <2>3, <2>7, SingleList
<1>. QED
  BY <1>3, <1>4 DEF HasQueries

(* The items there at the start. *)
LEMMA SeededTableIndexed ==
  ASSUME app \in Apps, NEW ids, Len(ids) \in Nat,
         \A k \in 1..Len(ids) : Seeded(ids[k]) # <<>>
  PROVE  IndexedTable(SeededTable(ids))
<1> DEFINE n == Len(ids)
           h == CHOOSE f :
                  f = [k \in 0..n |->
                         IF k = 0 THEN [x \in {} |-> Nil]
                         ELSE PutAll(f[k - 1], Views(ids[k], Seeded(ids[k])),
                                     DOMAIN Views(ids[k], Seeded(ids[k])), StartTime)]
<1>1. PICK g : TableFolds(g, ids, n)
  BY TableFoldExists, Zenon
<1>2. SeededTable(ids) = h[n]
  BY DEF SeededTable
<1>3. TableFolds(h, ids, n)
  BY <1>1, Zenon DEF TableFolds
<1>4. PICK f : TableFolds(f, ids, n) /\ SeededTable(ids) = f[n]
  BY <1>2, <1>3
<1> HIDE DEF h
<1> DEFINE T == {m \in Nat : m <= n => IndexedTable(f[m])}
<1>5. 0 \in T
  <2>1. f[0] = [x \in {} |-> Nil]
    BY <1>4 DEF TableFolds
  <2>2. DOMAIN f[0] = {}
    BY <2>1
  <2>. QED
    BY <2>2, FS_EmptySet DEF IndexedTable
<1>6. ASSUME NEW m \in T PROVE m + 1 \in T
  <2>1. SUFFICES ASSUME m + 1 <= n PROVE IndexedTable(f[m + 1])
    OBVIOUS
  <2>2. PICK id, s : id = ids[m + 1] /\ s = Seeded(id)
    OBVIOUS
  <2>3. PICK views : views = Views(id, s)
    OBVIOUS
  <2>4. f[m + 1] = PutAll(f[m], views, DOMAIN views, StartTime)
    BY <1>4, <2>1, <2>2, <2>3 DEF TableFolds
  <2>5. GoodStream(s) /\ AllDated(s)
    BY <2>2, SeededGood, SeededDated
  <2>6. IsList(s) /\ Len(s) # 0 /\ \A k \in DOMAIN s : Replayable(s[k])
    <3>1. s # <<>>
      BY <2>1, <2>2
    <3>. QED
      BY <2>5, <3>1, EmptyList DEF GoodStream
  <2>7. HasQueries => \A k \in DOMAIN views : Filed(views[k])
    BY <2>3, <2>5, <2>6, ViewsFiled
  <2>8. IsList(views)
    BY <2>3, ViewsGood
  <2>9. IndexedTable(f[m])
    BY <2>1
  <2>. QED
    BY <2>4, <2>7, <2>8, <2>9, PutAllIndexed
<1>7. T = Nat
  <2> HIDE DEF T
  <2>1. T \in SUBSET Nat
    BY DEF T
  <2>. QED
    BY <1>5, <1>6, <2>1, SetInduction
<1>8. IndexedTable(f[n])
  BY <1>7
<1>. QED
  BY <1>4, <1>8

-----------------------------------------------------------------------------
(***************************************************************************)
(* What the databases make of a query.                                     *)
(***************************************************************************)
Conditioned(x, n, sort) == sort.op # "none" => Meets(x.gsisk[n], sort)

(* The bodies of the items of a partition that meet the condition, in the  *)
(* order of the index.                                                     *)
Selects(found, P, n, sort) ==
  \E s : /\ s = InOrder({x \in P : Conditioned(x, n, sort)}, n)
         /\ found = [k \in DOMAIN s |-> s[k].body]

(* The items with one partition key. *)
Holding(t, P, n, value) ==
  /\ P \in SUBSET {t[key] : key \in DOMAIN t}
  /\ \A key \in DOMAIN t :
       /\ t[key].t = 0
       /\ t[key] \in P => n \in DOMAIN t[key].gsipk /\ n \in DOMAIN t[key].gsisk
       /\ t[key] \in P <=> n \in DOMAIN t[key].gsipk /\ t[key].gsipk[n] = value

(* The two databases answer a query alike, since what has a partition key  *)
(* has a sort key and nothing expires.                                     *)
LEMMA QuerySelects ==
  ASSUME NEW t, NEW n, NEW value, NEW sort, NEW now, NEW P, Holding(t, P, n, value),
         NEW results, results = StoreQuery(cloud, t, n, value, sort, now)
  PROVE  Selects([k \in DOMAIN results |-> results[k].body], P, n, sort)
<1>0. /\ P \in SUBSET {t[key] : key \in DOMAIN t}
       /\ \A key \in DOMAIN t :
            /\ t[key].t = 0
            /\ t[key] \in P => n \in DOMAIN t[key].gsipk /\ n \in DOMAIN t[key].gsisk
            /\ t[key] \in P <=> n \in DOMAIN t[key].gsipk /\ t[key].gsipk[n] = value
  BY DEF Holding
<1>1. PICK X : X = {x \in P : Conditioned(x, n, sort)}
  OBVIOUS
<1>2. PICK Dynamo : Dynamo =
        {item \in {t[k] : k \in DOMAIN t} :
           /\ n \in DOMAIN item.gsipk \cap DOMAIN item.gsisk
           /\ item.gsipk[n] = value
           /\ sort.op # "none" => Meets(item.gsisk[n], sort)
           /\ Unexpired(item, now)}
  OBVIOUS
<1>3. PICK Cosmos : Cosmos =
        {item \in {t[k] : k \in DOMAIN t} :
           /\ n \in DOMAIN item.gsipk /\ item.gsipk[n] = value
           /\ sort.op # "none" =>
                n \in DOMAIN item.gsisk /\ Meets(item.gsisk[n], sort)
           /\ Unexpired(item, now)}
  OBVIOUS
<1>4. \A key \in DOMAIN t : Unexpired(t[key], now)
  BY <1>0 DEF Unexpired
<1>5. ASSUME NEW item PROVE item \in Dynamo <=> item \in X
  <2>1. CASE item \in {t[k] : k \in DOMAIN t}
    <3>1. PICK key \in DOMAIN t : item = t[key]
      BY <2>1
    <3>. QED
      BY <1>1, <1>2, <1>4, <1>0, <2>1, <3>1 DEF Conditioned
  <2>2. CASE item \notin {t[k] : k \in DOMAIN t}
    BY <1>1, <1>2, <1>0, <2>2
  <2>. QED
    BY <2>1, <2>2
<1>6. ASSUME NEW item PROVE item \in Cosmos <=> item \in X
  <2>1. CASE item \in {t[k] : k \in DOMAIN t}
    <3>1. PICK key \in DOMAIN t : item = t[key]
      BY <2>1
    <3>. QED
      BY <1>1, <1>3, <1>4, <1>0, <2>1, <3>1 DEF Conditioned
  <2>2. CASE item \notin {t[k] : k \in DOMAIN t}
    BY <1>1, <1>3, <1>0, <2>2
  <2>. QED
    BY <2>1, <2>2
<1>7. Dynamo = X /\ Cosmos = X
  BY <1>5, <1>6
<1>8. PICK s : s = InOrder(X, n)
  OBVIOUS
<1>9. results = [k \in DOMAIN s |-> unmarshalItem(s[k])]
  <2>1. DynamoQuery(t, n, value, sort, now) = [k \in DOMAIN s |-> unmarshalItem(s[k])]
    <3>1. DynamoQuery(t, n, value, sort, now) =
            [k \in DOMAIN InOrder(Dynamo, n) |-> unmarshalItem(InOrder(Dynamo, n)[k])]
      BY <1>2, Zenon DEF DynamoQuery
    <3>. QED
      BY <1>7, <1>8, <3>1, Zenon
  <2>2. CosmosQuery(t, n, value, sort, now) = [k \in DOMAIN s |-> unmarshalItem(s[k])]
    <3>1. CosmosQuery(t, n, value, sort, now) =
            [k \in DOMAIN InOrder(Cosmos, n) |-> unmarshalItem(InOrder(Cosmos, n)[k])]
      BY <1>3, Zenon DEF CosmosQuery
    <3>. QED
      BY <1>7, <1>8, <3>1, Zenon
  <2>. QED
    BY <2>1, <2>2 DEF StoreQuery
<1>10. \A x : unmarshalItem(x).body = x.body
  BY DEF unmarshalItem
<1>11. [k \in DOMAIN results |-> results[k].body] = [k \in DOMAIN s |-> s[k].body]
  <2>1. DOMAIN results = DOMAIN s /\ \A k \in DOMAIN s : results[k] = unmarshalItem(s[k])
    BY <1>9
  <2>2. \A k \in DOMAIN s : results[k].body = s[k].body
    BY <1>10, <2>1
  <2>. QED
    BY <2>1, <2>2
<1>. QED
  BY <1>1, <1>8, <1>11 DEF Selects

(* The order of an index is the same for each service. *)
LEMMA OSameOrder ==
  ASSUME NEW X, NEW n
  PROVE  O!InOrder(X, n) = InOrder(X, n)
<1>1. O!Cardinality(X) = Cardinality(X)
  BY Zenon DEF O!Cardinality, Cardinality
<1>2. O!SetToSeqs(X) = SetToSeqs(X)
  BY <1>1, Zenon DEF O!SetToSeqs, SetToSeqs
<1>. QED
  BY <1>2, Zenon DEF O!InOrder, InOrder, O!KeyLess, KeyLess, O!DigitsLess, DigitsLess,
       O!IsStrictPrefix, IsStrictPrefix, O!IsPrefix, IsPrefix

(* So it is for the sample. *)
LEMMA SSameOrder ==
  ASSUME NEW X, NEW n
  PROVE  S!InOrder(X, n) = InOrder(X, n)
<1>1. S!Cardinality(X) = Cardinality(X)
  BY Zenon DEF S!Cardinality, Cardinality
<1>2. S!SetToSeqs(X) = SetToSeqs(X)
  BY <1>1, Zenon DEF S!SetToSeqs, SetToSeqs
<1>. QED
  BY <1>2, Zenon DEF S!InOrder, InOrder, S!KeyLess, KeyLess, S!DigitsLess, DigitsLess,
       S!IsStrictPrefix, IsStrictPrefix, S!IsPrefix, IsPrefix

(* The services ask the one opaque store. *)
LEMMA SameQueries ==
  ASSUME NEW t, NEW n, NEW field, NEW value, NEW sort, NEW now
  PROVE  /\ O!StoreQuery(cloud, t, n, O!Key(field, <<value>>), sort, now) =
              StoreQuery(cloud, t, n, Key(field, <<value>>), sort, now)
         /\ S!StoreQuery(cloud, t, n, S!Key(field, <<value>>), sort, now) =
              StoreQuery(cloud, t, n, Key(field, <<value>>), sort, now)
<1>1. O!StoreQuery(cloud, t, n, O!Key(field, <<value>>), sort, now) =
        StoreQuery(cloud, t, n, Key(field, <<value>>), sort, now)
  <2>1. PICK pk : pk = Key(field, <<value>>)
    OBVIOUS
  <2>2. O!Key(field, <<value>>) = pk
    BY <2>1, Zenon DEF O!Key, Key
  <2>3. \A item : O!unmarshalItem(item) = unmarshalItem(item)
    BY Zenon DEF O!unmarshalItem, unmarshalItem, O!Empty, Empty, O!Key, Key
  <2>4. ASSUME NEW X
        PROVE  [k \in DOMAIN O!InOrder(X, n) |-> O!unmarshalItem(O!InOrder(X, n)[k])] =
                 [k \in DOMAIN InOrder(X, n) |-> unmarshalItem(InOrder(X, n)[k])]
    <3>1. PICK s : s = InOrder(X, n) /\ s = O!InOrder(X, n)
      BY OSameOrder
    <3>. QED
      BY <2>3, <3>1, Zenon
  <2>5. O!DynamoQuery(t, n, pk, sort, now) = DynamoQuery(t, n, pk, sort, now)
    <3>1. PICK X : X = {item \in {t[k] : k \in DOMAIN t} :
                          /\ n \in DOMAIN item.gsipk \cap DOMAIN item.gsisk
                          /\ item.gsipk[n] = pk
                          /\ sort.op # "none" => Meets(item.gsisk[n], sort)
                          /\ Unexpired(item, now)}
      OBVIOUS
    <3>2. DynamoQuery(t, n, pk, sort, now) =
            [k \in DOMAIN InOrder(X, n) |-> unmarshalItem(InOrder(X, n)[k])]
      BY <3>1, Zenon DEF DynamoQuery
    <3>3. X = {item \in {t[k] : k \in DOMAIN t} :
                 /\ n \in DOMAIN item.gsipk \cap DOMAIN item.gsisk
                 /\ item.gsipk[n] = pk
                 /\ sort.op # "none" => O!Meets(item.gsisk[n], sort)
                 /\ O!Unexpired(item, now)}
      BY <3>1, Zenon DEF Meets, KeyLess, DigitsLess, IsStrictPrefix, IsPrefix, Unexpired,
           O!Meets, O!KeyLess, O!DigitsLess, O!IsStrictPrefix, O!IsPrefix,
           O!Unexpired
    <3>4. O!DynamoQuery(t, n, pk, sort, now) =
            [k \in DOMAIN O!InOrder(X, n) |-> O!unmarshalItem(O!InOrder(X, n)[k])]
      BY <3>3, Zenon DEF O!DynamoQuery
    <3>. QED
      BY <2>4, <3>2, <3>4, Zenon
  <2>6. O!CosmosQuery(t, n, pk, sort, now) = CosmosQuery(t, n, pk, sort, now)
    <3>1. PICK X : X = {item \in {t[k] : k \in DOMAIN t} :
                          /\ n \in DOMAIN item.gsipk /\ item.gsipk[n] = pk
                          /\ sort.op # "none" =>
                               n \in DOMAIN item.gsisk /\ Meets(item.gsisk[n], sort)
                          /\ Unexpired(item, now)}
      OBVIOUS
    <3>2. CosmosQuery(t, n, pk, sort, now) =
            [k \in DOMAIN InOrder(X, n) |-> unmarshalItem(InOrder(X, n)[k])]
      BY <3>1, Zenon DEF CosmosQuery
    <3>3. X = {item \in {t[k] : k \in DOMAIN t} :
                 /\ n \in DOMAIN item.gsipk /\ item.gsipk[n] = pk
                 /\ sort.op # "none" =>
                      n \in DOMAIN item.gsisk /\ O!Meets(item.gsisk[n], sort)
                 /\ O!Unexpired(item, now)}
      BY <3>1, Zenon DEF Meets, KeyLess, DigitsLess, IsStrictPrefix, IsPrefix, Unexpired,
           O!Meets, O!KeyLess, O!DigitsLess, O!IsStrictPrefix, O!IsPrefix,
           O!Unexpired
    <3>4. O!CosmosQuery(t, n, pk, sort, now) =
            [k \in DOMAIN O!InOrder(X, n) |-> O!unmarshalItem(O!InOrder(X, n)[k])]
      BY <3>3, Zenon DEF O!CosmosQuery
    <3>. QED
      BY <2>4, <3>2, <3>4, Zenon
  <2>. QED
    BY <2>1, <2>2, <2>5, <2>6, Zenon DEF O!StoreQuery, StoreQuery
<1>2. S!StoreQuery(cloud, t, n, S!Key(field, <<value>>), sort, now) =
        StoreQuery(cloud, t, n, Key(field, <<value>>), sort, now)
  <2>1. PICK pk : pk = Key(field, <<value>>)
    OBVIOUS
  <2>2. S!Key(field, <<value>>) = pk
    BY <2>1, Zenon DEF S!Key, Key
  <2>3. \A item : S!unmarshalItem(item) = unmarshalItem(item)
    BY Zenon DEF S!unmarshalItem, unmarshalItem, S!Empty, Empty, S!Key, Key
  <2>4. ASSUME NEW X
        PROVE  [k \in DOMAIN S!InOrder(X, n) |-> S!unmarshalItem(S!InOrder(X, n)[k])] =
                 [k \in DOMAIN InOrder(X, n) |-> unmarshalItem(InOrder(X, n)[k])]
    <3>1. PICK s : s = InOrder(X, n) /\ s = S!InOrder(X, n)
      BY SSameOrder
    <3>. QED
      BY <2>3, <3>1, Zenon
  <2>5. S!DynamoQuery(t, n, pk, sort, now) = DynamoQuery(t, n, pk, sort, now)
    <3>1. PICK X : X = {item \in {t[k] : k \in DOMAIN t} :
                          /\ n \in DOMAIN item.gsipk \cap DOMAIN item.gsisk
                          /\ item.gsipk[n] = pk
                          /\ sort.op # "none" => Meets(item.gsisk[n], sort)
                          /\ Unexpired(item, now)}
      OBVIOUS
    <3>2. DynamoQuery(t, n, pk, sort, now) =
            [k \in DOMAIN InOrder(X, n) |-> unmarshalItem(InOrder(X, n)[k])]
      BY <3>1, Zenon DEF DynamoQuery
    <3>3. X = {item \in {t[k] : k \in DOMAIN t} :
                 /\ n \in DOMAIN item.gsipk \cap DOMAIN item.gsisk
                 /\ item.gsipk[n] = pk
                 /\ sort.op # "none" => S!Meets(item.gsisk[n], sort)
                 /\ S!Unexpired(item, now)}
      BY <3>1, Zenon DEF Meets, KeyLess, DigitsLess, IsStrictPrefix, IsPrefix, Unexpired,
           S!Meets, S!KeyLess, S!DigitsLess, S!IsStrictPrefix, S!IsPrefix,
           S!Unexpired
    <3>4. S!DynamoQuery(t, n, pk, sort, now) =
            [k \in DOMAIN S!InOrder(X, n) |-> S!unmarshalItem(S!InOrder(X, n)[k])]
      BY <3>3, Zenon DEF S!DynamoQuery
    <3>. QED
      BY <2>4, <3>2, <3>4, Zenon
  <2>6. S!CosmosQuery(t, n, pk, sort, now) = CosmosQuery(t, n, pk, sort, now)
    <3>1. PICK X : X = {item \in {t[k] : k \in DOMAIN t} :
                          /\ n \in DOMAIN item.gsipk /\ item.gsipk[n] = pk
                          /\ sort.op # "none" =>
                               n \in DOMAIN item.gsisk /\ Meets(item.gsisk[n], sort)
                          /\ Unexpired(item, now)}
      OBVIOUS
    <3>2. CosmosQuery(t, n, pk, sort, now) =
            [k \in DOMAIN InOrder(X, n) |-> unmarshalItem(InOrder(X, n)[k])]
      BY <3>1, Zenon DEF CosmosQuery
    <3>3. X = {item \in {t[k] : k \in DOMAIN t} :
                 /\ n \in DOMAIN item.gsipk /\ item.gsipk[n] = pk
                 /\ sort.op # "none" =>
                      n \in DOMAIN item.gsisk /\ S!Meets(item.gsisk[n], sort)
                 /\ S!Unexpired(item, now)}
      BY <3>1, Zenon DEF Meets, KeyLess, DigitsLess, IsStrictPrefix, IsPrefix, Unexpired,
           S!Meets, S!KeyLess, S!DigitsLess, S!IsStrictPrefix, S!IsPrefix,
           S!Unexpired
    <3>4. S!CosmosQuery(t, n, pk, sort, now) =
            [k \in DOMAIN S!InOrder(X, n) |-> S!unmarshalItem(S!InOrder(X, n)[k])]
      BY <3>3, Zenon DEF S!CosmosQuery
    <3>. QED
      BY <2>4, <3>2, <3>4, Zenon
  <2>. QED
    BY <2>1, <2>2, <2>5, <2>6, Zenon DEF S!StoreQuery, StoreQuery
<1>. QED
  BY <1>1, <1>2

(* And with the conditions they make. *)
LEMMA SameConditions ==
  ASSUME NEW field, NEW op, NEW values
  PROVE  /\ O!NoCondition = NoCondition /\ S!NoCondition = NoCondition
         /\ O!SortCondition(field, op, values) = SortCondition(field, op, values)
         /\ S!SortCondition(field, op, values) = SortCondition(field, op, values)
BY Zenon DEF O!NoCondition, S!NoCondition, NoCondition, O!SortCondition, S!SortCondition,
     SortCondition, O!SortKey, S!SortKey, SortKey, O!Key, S!Key, Key, O!Decimal, S!Decimal,
     Decimal, O!NA, S!NA, NA

-----------------------------------------------------------------------------
(***************************************************************************)
(* The condition a client puts is the one the index is searched by.        *)
(***************************************************************************)
Asked(call, field, sort) ==
  \/ sort.op = "none" /\ call.op \in {"none", ""}
  \/ /\ sort.op = call.op /\ sort.op \in Operators
     /\ 1 \in DOMAIN call.values /\ call.values[1] \in Nat
     /\ sort.value = SortKey(field, call.values[1])
     /\ sort.op = "between" =>
          /\ 2 \in DOMAIN call.values /\ call.values[2] \in Nat
          /\ sort.value2 = SortKey(field, call.values[2])

(* What is asked and listed is what is found. *)
LEMMA SelectionFits ==
  ASSUME NEW r, NEW P, NEW n, NEW field, NEW by, Partition(P, n, field, by),
         ListedAs(r, P, by),
         NEW sort, Asked(r.call, field, sort),
         NEW bodies, Selects(bodies, P, n, sort),
         r.found = [k \in DOMAIN bodies |-> bodies[k].id]
  PROVE  FindsFit(r)
<1>5. ASSUME NEW x \in P PROVE Conditioned(x, n, sort) <=> Satisfies(by[x], r.call)
  <2>1. x.gsisk[n] = SortKey(field, by[x])
    BY DEF Partition
  <2>2. CASE sort.op = "none" /\ r.call.op \in {"none", ""}
    BY <2>2 DEF Conditioned, Satisfies
  <2>3. CASE sort.op = r.call.op /\ sort.op \in Operators
    <3>1. sort.op # "none" /\ sort.op # ""
      BY <2>3 DEF Operators
    <3>2. /\ 1 \in DOMAIN r.call.values /\ r.call.values[1] \in Nat
          /\ sort.value = SortKey(field, r.call.values[1])
          /\ sort.op = "between" =>
               /\ 2 \in DOMAIN r.call.values /\ r.call.values[2] \in Nat
               /\ sort.value2 = SortKey(field, r.call.values[2])
      BY <2>3, <3>1 DEF Asked
    <3>3. PICK v, w : v = r.call.values[1] /\ w = r.call.values[2]
      OBVIOUS
    <3>4. PICK m \in Nat : m = by[x]
      BY DEF Partition
    <3>5. v \in Nat /\ sort.value = SortKey(field, v)
      BY <3>2, <3>3
    <3>6. sort.op = "between" => w \in Nat /\ sort.value2 = SortKey(field, w)
      BY <3>2, <3>3
    <3>7. Meets(SortKey(field, m), sort) <=> InRange(m, sort.op, v, w)
      BY <2>3, <3>5, <3>6, MeetsInRange
    <3>8. Conditioned(x, n, sort) <=> InRange(m, sort.op, v, w)
      BY <2>1, <3>1, <3>4, <3>7 DEF Conditioned
    <3>9. InRange(m, sort.op, v, w) <=> Satisfies(m, r.call)
      BY <2>3, <3>3 DEF InRange, Satisfies, Operators
    <3>. QED
      BY <3>4, <3>8, <3>9
  <2>. QED
    BY <2>2, <2>3 DEF Asked
<1>6. PICK X : X = {x \in P : Satisfies(by[x], r.call)}
  OBVIOUS
<1>7. X = {x \in P : Conditioned(x, n, sort)}
  BY <1>5, <1>6
<1>8. PICK s : s = InOrder(X, n) /\ bodies = [k \in DOMAIN s |-> s[k].body]
  BY <1>7, Zenon DEF Selects
<1>9. r.found = [k \in DOMAIN s |-> s[k].body.id]
  <2>1. DOMAIN bodies = DOMAIN s /\ \A k \in DOMAIN s : bodies[k].id = s[k].body.id
    BY <1>8
  <2>. QED
    BY <2>1
<1>. QED
  BY <1>6, <1>8, <1>9, FindsThoseThatFit

-----------------------------------------------------------------------------
(***************************************************************************)
(* The partitions of the indexes.                                          *)
(***************************************************************************)
Items == {table[k] : k \in DOMAIN table}

(* An index of the messages of one type, some of which are in a partition, *)
(* with the numbers they are sorted by.                                    *)
IndexOf(type, B, num, n, field, value) ==
  /\ \A x \in Items : x.body \in B => x.body.type = type
  /\ \A m \in B : \E x \in Items : x.body = m
  /\ \A x \in Items : x.body \in B <=> n \in DOMAIN x.gsipk /\ x.gsipk[n] = value
  /\ \A x \in Items : x.body \in B =>
       n \in DOMAIN x.gsisk /\ num[x.body] \in Nat /\ x.gsisk[n] = SortKey(field, num[x.body])

(* A view is the only one of its type with its id. *)
LEMMA ItemsDiffer ==
  ASSUME GoodTable(table), IndexedTable(table), HasQueries,
         NEW x \in Items, NEW y \in Items, x.body.type = y.body.type, x.body.id = y.body.id
  PROVE  x = y
<1>1. PICK j \in DOMAIN table, k \in DOMAIN table : x = table[j] /\ y = table[k]
  BY DEF Items
<1>2. j = <<x.pk, x.sk>> /\ k = <<y.pk, y.sk>>
  BY <1>1 DEF GoodTable
<1>3. Indexed(x) /\ Indexed(y)
  BY <1>1 DEF IndexedTable
<1>4. x.pk = y.pk /\ x.sk = y.sk
  BY <1>3 DEF Indexed, IndexedOrder, IndexedSummary, IndexedSample, HasQueries
<1>. QED
  BY <1>1, <1>2, <1>4

(* The table has finitely many items. *)
LEMMA ItemsFinite ==
  ASSUME IndexedTable(table)
  PROVE  IsFiniteSet(Items)
<1>1. PICK f : f = [k \in DOMAIN table |-> table[k]]
  OBVIOUS
<1>2. f \in Surjection(DOMAIN table, Items)
  BY <1>1 DEF Surjection, Items
<1>3. IsFiniteSet(DOMAIN table)
  BY DEF IndexedTable
<1>. QED
  BY <1>2, <1>3, FS_Surjection

(* A query of an index finds what it is asked for. *)
LEMMA IndexServes ==
  ASSUME GoodTable(table), IndexedTable(table), HasQueries,
         NEW type, NEW B, NEW num, NEW n, NEW field, NEW value,
         IndexOf(type, B, num, n, field, value),
         NEW sort, NEW now,
         NEW results, results = StoreQuery(cloud, table, n, value, sort, now),
         NEW r, r.listed = {[id |-> m.id, by |-> num[m]] : m \in B},
         Asked(r.call, field, sort),
         r.found = [k \in DOMAIN results |-> results[k].body.id]
  PROVE  QueryRight(r)
<1>1. PICK P : P = {x \in Items : x.body \in B}
  OBVIOUS
<1>2. PICK by : by = [x \in P |-> num[x.body]]
  OBVIOUS
<1>3. \A x \in P : by[x] = num[x.body] /\ x \in Items /\ x.body \in B
  BY <1>1, <1>2
<1>4. Partition(P, n, field, by)
  <2>1. IsFiniteSet(P)
    BY <1>1, ItemsFinite, FS_Subset
  <2>2. by \in [P -> Nat] /\ \A x \in P : x.gsisk[n] = SortKey(field, by[x])
    BY <1>2, <1>3 DEF IndexOf
  <2>3. \A x, y \in P : x.body.id = y.body.id => x = y
    BY <1>3, ItemsDiffer DEF IndexOf
  <2>. QED
    BY <2>1, <2>2, <2>3 DEF Partition
<1>5. ListedAs(r, P, by)
  <2>1. PICK L : L = {[id |-> x.body.id, by |-> by[x]] : x \in P}
    OBVIOUS
  <2>2. ASSUME NEW v \in r.listed PROVE v \in L
    <3>1. PICK m \in B : v = [id |-> m.id, by |-> num[m]]
      OBVIOUS
    <3>2. PICK x \in Items : x.body = m
      BY DEF IndexOf
    <3>3. x \in P /\ by[x] = num[m] /\ x.body.id = m.id
      BY <1>1, <1>2, <3>2
    <3>4. v = [id |-> x.body.id, by |-> by[x]]
      BY <3>1, <3>3
    <3>. QED
      BY <2>1, <3>3, <3>4
  <2>3. ASSUME NEW v \in L PROVE v \in r.listed
    <3>1. PICK x \in P : v = [id |-> x.body.id, by |-> by[x]]
      BY <2>1
    <3>2. PICK m \in B : m = x.body
      BY <1>3
    <3>3. v = [id |-> m.id, by |-> num[m]]
      BY <1>3, <3>1, <3>2
    <3>. QED
      BY <3>3
  <2>4. r.listed = L
    BY <2>2, <2>3
  <2>. QED
    BY <2>1, <2>4 DEF ListedAs
<1>6. PICK bodies : bodies = [k \in DOMAIN results |-> results[k].body]
  OBVIOUS
<1>7. Selects(bodies, P, n, sort)
  <2>1. \A key \in DOMAIN table :
          /\ table[key].t = 0
          /\ table[key] \in P => n \in DOMAIN table[key].gsipk /\ n \in DOMAIN table[key].gsisk
          /\ table[key] \in P <=> n \in DOMAIN table[key].gsipk /\ table[key].gsipk[n] = value
    <3>1. SUFFICES ASSUME NEW key \in DOMAIN table, NEW x, x = table[key]
                   PROVE  /\ x.t = 0
                          /\ x \in P => n \in DOMAIN x.gsipk /\ n \in DOMAIN x.gsisk
                          /\ x \in P <=> n \in DOMAIN x.gsipk /\ x.gsipk[n] = value
      OBVIOUS
    <3>2. x \in Items
      BY <3>1 DEF Items
    <3>3. x.t = 0
      BY <3>1 DEF IndexedTable, Indexed
    <3>4. x \in P <=> x.body \in B
      BY <1>1, <3>2
    <3>5. x.body \in B <=> n \in DOMAIN x.gsipk /\ x.gsipk[n] = value
      BY <3>2, Zenon DEF IndexOf
    <3>6. x.body \in B => n \in DOMAIN x.gsisk
      BY <3>2, Zenon DEF IndexOf
    <3>. QED
      BY <3>3, <3>4, <3>5, <3>6
  <2>2. P \in SUBSET {table[key] : key \in DOMAIN table}
    BY <1>1 DEF Items
  <2>3. Holding(table, P, n, value)
    BY <2>1, <2>2, Zenon DEF Holding
  <2>. QED
    BY <1>6, <2>3, QuerySelects
<1>8. r.found = [k \in DOMAIN bodies |-> bodies[k].id]
  <2>1. DOMAIN bodies = DOMAIN results /\ \A k \in DOMAIN results : bodies[k].id = results[k].body.id
    BY <1>6
  <2>. QED
    BY <2>1
<1>9. FindsFit(r)
  BY <1>4, <1>5, <1>7, <1>8, SelectionFits
<1>. QED
  BY <1>9 DEF QueryRight

-----------------------------------------------------------------------------
(***************************************************************************)
(* The four indexes.                                                       *)
(***************************************************************************)
(* The messages of a type are those of the items. *)
LEMMA BodiesOfItems ==
  ASSUME NEW type
  PROVE  /\ \A m \in Bodies(type) : m.type = type /\ \E x \in Items : x.body = m
         /\ \A x \in Items : x.body.type = type => x.body \in Bodies(type)
BY DEF Bodies, Items

(* A partition key says which partition. *)
LEMMA KeysDiffer ==
  ASSUME NEW f, NEW a, NEW g, NEW b
  PROVE  Key(f, <<a>>) = Key(g, <<b>>) <=> f = g /\ a = b
<1>1. <<a>> = <<b>> <=> a = b
  <2>1. <<a>>[1] = a /\ <<b>>[1] = b
    BY SingleList
  <2>. QED
    BY <2>1
<1>2. /\ Key(f, <<a>>).of = f /\ Key(f, <<a>>).is = <<a>>
      /\ Key(g, <<b>>).of = g /\ Key(g, <<b>>).is = <<b>>
  BY DEF Key
<1>. QED
  BY <1>1, <1>2

(* Orders, by customer and time of creation. *)
LEMMA OrdersByCustomer ==
  ASSUME app = "order", GoodTable(table), IndexedTable(table), NEW r, NEW value,
         r.listed = {[id |-> m.id, by |-> m.createAt] :
                       m \in {b \in Bodies("Order") : b.customer = value}},
         NEW sort, Asked(r.call, "order.create_at", sort), NEW now, NEW results,
         results = StoreQuery(cloud, table, 1, Key("order.customer_id", <<value>>), sort, now),
         r.found = [k \in DOMAIN results |-> results[k].body.id]
  PROVE  QueryRight(r)
<1>1. PICK B : B = {b \in Bodies("Order") : b.customer = value}
  OBVIOUS
<1>2. PICK num : num = [m \in B |-> m.createAt]
  OBVIOUS
<1>3. PICK key : key = Key("order.customer_id", <<value>>)
  OBVIOUS
<1>4. ASSUME NEW x \in Items
      PROVE  /\ x.body \in B <=> x.body.type = "Order" /\ x.body.customer = value
             /\ x.body \in B <=> 1 \in DOMAIN x.gsipk /\ x.gsipk[1] = key
             /\ x.body \in B =>
                  /\ 1 \in DOMAIN x.gsisk /\ x.body.createAt \in Nat
                  /\ x.gsisk[1] = SortKey("order.create_at", x.body.createAt)
  <2>1. Indexed(x)
    BY DEF Items, IndexedTable, HasQueries
  <2>2. x.body \in B <=> x.body.type = "Order" /\ x.body.customer = value
    BY <1>1, BodiesOfItems
  <2>3. CASE IndexedOrder(x)
    <3>1. x.body.type = "Order" /\ x.body.createAt \in Nat
      BY <2>3 DEF IndexedOrder
    <3>2. HasPair(x, 1, Pair("order.customer_id", x.body.customer, "order.create_at",
                         x.body.createAt))
      BY <2>3 DEF IndexedOrder, OrderPair
    <3>3. /\ 1 \in DOMAIN x.gsipk /\ 1 \in DOMAIN x.gsisk
          /\ x.gsipk[1] = Key("order.customer_id", <<x.body.customer>>)
          /\ x.gsisk[1] = SortKey("order.create_at", x.body.createAt)
      BY <3>2 DEF HasPair, Pair
    <3>4. x.gsipk[1] = key <=> x.body.customer = value
      BY <1>3, <3>3, KeysDiffer
    <3>. QED
      BY <2>2, <3>1, <3>3, <3>4
  <2>4. CASE IndexedSummary(x)
    <3>1. x.body.type = "OrderSummary"
      BY <2>4 DEF IndexedSummary
    <3>2. HasPair(x, 1, Pair("ordersummary.customer_id", x.body.customer,
                         "ordersummary.create_at", x.body.createAt))
      BY <2>4 DEF IndexedSummary, CustomerPair
    <3>3. x.gsipk[1] = Key("ordersummary.customer_id", <<x.body.customer>>)
      BY <3>2 DEF HasPair, Pair
    <3>4. x.gsipk[1] # key
      BY <1>3, <3>3, KeysDiffer
    <3>. QED
      BY <2>2, <3>1, <3>4
  <2>. QED
    BY <2>1, <2>3, <2>4 DEF Indexed
<1>5. IndexOf("Order", B, num, 1, "order.create_at", key)
  <2>1. \A m \in B : \E x \in Items : x.body = m
    BY <1>1, BodiesOfItems
  <2>2. \A m \in B : num[m] = m.createAt
    BY <1>2
  <2>3. ASSUME NEW x \in Items
        PROVE  /\ x.body \in B => x.body.type = "Order"
               /\ x.body \in B <=> 1 \in DOMAIN x.gsipk /\ x.gsipk[1] = key
               /\ x.body \in B =>
                    /\ 1 \in DOMAIN x.gsisk /\ num[x.body] \in Nat
                    /\ x.gsisk[1] = SortKey("order.create_at", num[x.body])
    BY <1>4, <2>2
  <2>. QED
    BY <2>1, <2>3, Zenon DEF IndexOf
<1>6. r.listed = {[id |-> m.id, by |-> num[m]] : m \in B}
  <2>1. PICK L : L = {[id |-> m.id, by |-> num[m]] : m \in B}
    OBVIOUS
  <2>2. \A m \in B : num[m] = m.createAt
    BY <1>2
  <2>3. ASSUME NEW v \in r.listed PROVE v \in L
    <3>1. PICK m \in B : v = [id |-> m.id, by |-> m.createAt]
      BY <1>1
    <3>2. v = [id |-> m.id, by |-> num[m]]
      BY <2>2, <3>1
    <3>. QED
      BY <2>1, <3>2
  <2>4. ASSUME NEW v \in L PROVE v \in r.listed
    <3>1. PICK m \in B : v = [id |-> m.id, by |-> num[m]]
      BY <2>1
    <3>2. v = [id |-> m.id, by |-> m.createAt]
      BY <2>2, <3>1
    <3>. QED
      BY <1>1, <3>2
  <2>. QED
    BY <2>1, <2>3, <2>4
<1>7. results = StoreQuery(cloud, table, 1, key, sort, now)
  BY <1>3, Zenon
<1>. QED
  BY <1>5, <1>6, <1>7, IndexServes DEF HasQueries

(* Order summaries, by customer and time of creation. *)
LEMMA SummariesOfCustomer ==
  ASSUME app = "order", GoodTable(table), IndexedTable(table), NEW r, NEW value,
         r.listed = {[id |-> m.id, by |-> m.createAt] :
                       m \in {b \in Bodies("OrderSummary") : b.customer = value}},
         NEW sort, Asked(r.call, "ordersummary.create_at", sort), NEW now, NEW results,
         results = StoreQuery(cloud, table, 1, Key("ordersummary.customer_id", <<value>>), sort, now),
         r.found = [k \in DOMAIN results |-> results[k].body.id]
  PROVE  QueryRight(r)
<1>1. PICK B : B = {b \in Bodies("OrderSummary") : b.customer = value}
  OBVIOUS
<1>2. PICK num : num = [m \in B |-> m.createAt]
  OBVIOUS
<1>3. PICK key : key = Key("ordersummary.customer_id", <<value>>)
  OBVIOUS
<1>4. ASSUME NEW x \in Items
      PROVE  /\ x.body \in B <=> x.body.type = "OrderSummary" /\ x.body.customer = value
             /\ x.body \in B <=> 1 \in DOMAIN x.gsipk /\ x.gsipk[1] = key
             /\ x.body \in B =>
                  /\ 1 \in DOMAIN x.gsisk /\ x.body.createAt \in Nat
                  /\ x.gsisk[1] = SortKey("ordersummary.create_at", x.body.createAt)
  <2>1. Indexed(x)
    BY DEF Items, IndexedTable, HasQueries
  <2>2. x.body \in B <=> x.body.type = "OrderSummary" /\ x.body.customer = value
    BY <1>1, BodiesOfItems
  <2>3. CASE IndexedSummary(x)
    <3>1. x.body.type = "OrderSummary" /\ x.body.createAt \in Nat
      BY <2>3 DEF IndexedSummary
    <3>2. HasPair(x, 1, Pair("ordersummary.customer_id", x.body.customer,
                         "ordersummary.create_at", x.body.createAt))
      BY <2>3 DEF IndexedSummary, CustomerPair
    <3>3. /\ 1 \in DOMAIN x.gsipk /\ 1 \in DOMAIN x.gsisk
          /\ x.gsipk[1] = Key("ordersummary.customer_id", <<x.body.customer>>)
          /\ x.gsisk[1] = SortKey("ordersummary.create_at", x.body.createAt)
      BY <3>2 DEF HasPair, Pair
    <3>4. x.gsipk[1] = key <=> x.body.customer = value
      BY <1>3, <3>3, KeysDiffer
    <3>. QED
      BY <2>2, <3>1, <3>3, <3>4
  <2>4. CASE IndexedOrder(x)
    <3>1. x.body.type = "Order"
      BY <2>4 DEF IndexedOrder
    <3>2. HasPair(x, 1, Pair("order.customer_id", x.body.customer, "order.create_at",
                         x.body.createAt))
      BY <2>4 DEF IndexedOrder, OrderPair
    <3>3. x.gsipk[1] = Key("order.customer_id", <<x.body.customer>>)
      BY <3>2 DEF HasPair, Pair
    <3>4. x.gsipk[1] # key
      BY <1>3, <3>3, KeysDiffer
    <3>. QED
      BY <2>2, <3>1, <3>4
  <2>. QED
    BY <2>1, <2>3, <2>4 DEF Indexed
<1>5. IndexOf("OrderSummary", B, num, 1, "ordersummary.create_at", key)
  <2>1. \A m \in B : \E x \in Items : x.body = m
    BY <1>1, BodiesOfItems
  <2>2. \A m \in B : num[m] = m.createAt
    BY <1>2
  <2>3. ASSUME NEW x \in Items
        PROVE  /\ x.body \in B => x.body.type = "OrderSummary"
               /\ x.body \in B <=> 1 \in DOMAIN x.gsipk /\ x.gsipk[1] = key
               /\ x.body \in B =>
                    /\ 1 \in DOMAIN x.gsisk /\ num[x.body] \in Nat
                    /\ x.gsisk[1] = SortKey("ordersummary.create_at", num[x.body])
    BY <1>4, <2>2
  <2>. QED
    BY <2>1, <2>3, Zenon DEF IndexOf
<1>6. r.listed = {[id |-> m.id, by |-> num[m]] : m \in B}
  <2>1. PICK L : L = {[id |-> m.id, by |-> num[m]] : m \in B}
    OBVIOUS
  <2>2. \A m \in B : num[m] = m.createAt
    BY <1>2
  <2>3. ASSUME NEW v \in r.listed PROVE v \in L
    <3>1. PICK m \in B : v = [id |-> m.id, by |-> m.createAt]
      BY <1>1
    <3>2. v = [id |-> m.id, by |-> num[m]]
      BY <2>2, <3>1
    <3>. QED
      BY <2>1, <3>2
  <2>4. ASSUME NEW v \in L PROVE v \in r.listed
    <3>1. PICK m \in B : v = [id |-> m.id, by |-> num[m]]
      BY <2>1
    <3>2. v = [id |-> m.id, by |-> m.createAt]
      BY <2>2, <3>1
    <3>. QED
      BY <1>1, <3>2
  <2>. QED
    BY <2>1, <2>3, <2>4
<1>7. results = StoreQuery(cloud, table, 1, key, sort, now)
  BY <1>3, Zenon
<1>. QED
  BY <1>5, <1>6, <1>7, IndexServes DEF HasQueries

(* Order summaries, by state and time of placing. *)
LEMMA SummariesInState ==
  ASSUME app = "order", GoodTable(table), IndexedTable(table), NEW r, NEW value,
         r.listed = {[id |-> m.id, by |-> m.placedAt] :
                       m \in {b \in Bodies("OrderSummary") : b.state = value}},
         NEW sort, Asked(r.call, "ordersummary.placed_at", sort), NEW now, NEW results,
         results = StoreQuery(cloud, table, 2, Key("ordersummary.state", <<value>>), sort, now),
         r.found = [k \in DOMAIN results |-> results[k].body.id]
  PROVE  QueryRight(r)
<1>1. PICK B : B = {b \in Bodies("OrderSummary") : b.state = value}
  OBVIOUS
<1>2. PICK num : num = [m \in B |-> m.placedAt]
  OBVIOUS
<1>3. PICK key : key = Key("ordersummary.state", <<value>>)
  OBVIOUS
<1>4. ASSUME NEW x \in Items
      PROVE  /\ x.body \in B <=> x.body.type = "OrderSummary" /\ x.body.state = value
             /\ x.body \in B <=> 2 \in DOMAIN x.gsipk /\ x.gsipk[2] = key
             /\ x.body \in B =>
                  /\ 2 \in DOMAIN x.gsisk /\ x.body.placedAt \in Nat
                  /\ x.gsisk[2] = SortKey("ordersummary.placed_at", x.body.placedAt)
  <2>1. Indexed(x)
    BY DEF Items, IndexedTable, HasQueries
  <2>2. x.body \in B <=> x.body.type = "OrderSummary" /\ x.body.state = value
    BY <1>1, BodiesOfItems
  <2>3. CASE IndexedSummary(x)
    <3>1. x.body.type = "OrderSummary" /\ x.body.placedAt \in Nat
      BY <2>3 DEF IndexedSummary
    <3>2. HasPair(x, 2, Pair("ordersummary.state", x.body.state, "ordersummary.placed_at",
                         x.body.placedAt))
      BY <2>3 DEF IndexedSummary, StatePair
    <3>3. /\ 2 \in DOMAIN x.gsipk /\ 2 \in DOMAIN x.gsisk
          /\ x.gsipk[2] = Key("ordersummary.state", <<x.body.state>>)
          /\ x.gsisk[2] = SortKey("ordersummary.placed_at", x.body.placedAt)
      BY <3>2 DEF HasPair, Pair
    <3>4. x.gsipk[2] = key <=> x.body.state = value
      BY <1>3, <3>3, KeysDiffer
    <3>. QED
      BY <2>2, <3>1, <3>3, <3>4
  <2>4. CASE IndexedOrder(x)
    <3>1. x.body.type = "Order" /\ 2 \notin DOMAIN x.gsipk
      BY <2>4 DEF IndexedOrder
    <3>. QED
      BY <2>2, <3>1
  <2>. QED
    BY <2>1, <2>3, <2>4 DEF Indexed
<1>5. IndexOf("OrderSummary", B, num, 2, "ordersummary.placed_at", key)
  <2>1. \A m \in B : \E x \in Items : x.body = m
    BY <1>1, BodiesOfItems
  <2>2. \A m \in B : num[m] = m.placedAt
    BY <1>2
  <2>3. ASSUME NEW x \in Items
        PROVE  /\ x.body \in B => x.body.type = "OrderSummary"
               /\ x.body \in B <=> 2 \in DOMAIN x.gsipk /\ x.gsipk[2] = key
               /\ x.body \in B =>
                    /\ 2 \in DOMAIN x.gsisk /\ num[x.body] \in Nat
                    /\ x.gsisk[2] = SortKey("ordersummary.placed_at", num[x.body])
    BY <1>4, <2>2
  <2>. QED
    BY <2>1, <2>3, Zenon DEF IndexOf
<1>6. r.listed = {[id |-> m.id, by |-> num[m]] : m \in B}
  <2>1. PICK L : L = {[id |-> m.id, by |-> num[m]] : m \in B}
    OBVIOUS
  <2>2. \A m \in B : num[m] = m.placedAt
    BY <1>2
  <2>3. ASSUME NEW v \in r.listed PROVE v \in L
    <3>1. PICK m \in B : v = [id |-> m.id, by |-> m.placedAt]
      BY <1>1
    <3>2. v = [id |-> m.id, by |-> num[m]]
      BY <2>2, <3>1
    <3>. QED
      BY <2>1, <3>2
  <2>4. ASSUME NEW v \in L PROVE v \in r.listed
    <3>1. PICK m \in B : v = [id |-> m.id, by |-> num[m]]
      BY <2>1
    <3>2. v = [id |-> m.id, by |-> m.placedAt]
      BY <2>2, <3>1
    <3>. QED
      BY <1>1, <3>2
  <2>. QED
    BY <2>1, <2>3, <2>4
<1>7. results = StoreQuery(cloud, table, 2, key, sort, now)
  BY <1>3, Zenon
<1>. QED
  BY <1>5, <1>6, <1>7, IndexServes DEF HasQueries

(* Samples, by creator and time of creation. *)
LEMMA SamplesByCreator ==
  ASSUME app = "sample", GoodTable(table), IndexedTable(table), NEW r, NEW value,
         r.listed = {[id |-> m.id, by |-> m.state.createAt] :
                       m \in {b \in Bodies("Sample") : b.state.createBy = value}},
         NEW sort, Asked(r.call, "sample.create_at", sort), NEW now, NEW results,
         results = StoreQuery(cloud, table, 1, Key("sample.create_by", <<value>>), sort, now),
         r.found = [k \in DOMAIN results |-> results[k].body.id]
  PROVE  QueryRight(r)
<1>1. PICK B : B = {b \in Bodies("Sample") : b.state.createBy = value}
  OBVIOUS
<1>2. PICK num : num = [m \in B |-> m.state.createAt]
  OBVIOUS
<1>3. PICK key : key = Key("sample.create_by", <<value>>)
  OBVIOUS
<1>4. ASSUME NEW x \in Items
      PROVE  /\ x.body \in B <=> x.body.type = "Sample" /\ x.body.state.createBy = value
             /\ x.body \in B <=> 1 \in DOMAIN x.gsipk /\ x.gsipk[1] = key
             /\ x.body \in B =>
                  /\ 1 \in DOMAIN x.gsisk /\ x.body.state.createAt \in Nat
                  /\ x.gsisk[1] = SortKey("sample.create_at", x.body.state.createAt)
  <2>1. Indexed(x)
    BY DEF Items, IndexedTable, HasQueries
  <2>2. x.body \in B <=> x.body.type = "Sample" /\ x.body.state.createBy = value
    BY <1>1, BodiesOfItems
  <2>3. CASE IndexedSample(x)
    <3>1. x.body.type = "Sample" /\ x.body.state.createAt \in Nat
      BY <2>3 DEF IndexedSample
    <3>2. HasPair(x, 1, Pair("sample.create_by", x.body.state.createBy, "sample.create_at",
                         x.body.state.createAt))
      BY <2>3 DEF IndexedSample, CreatorPair
    <3>3. /\ 1 \in DOMAIN x.gsipk /\ 1 \in DOMAIN x.gsisk
          /\ x.gsipk[1] = Key("sample.create_by", <<x.body.state.createBy>>)
          /\ x.gsisk[1] = SortKey("sample.create_at", x.body.state.createAt)
      BY <3>2 DEF HasPair, Pair
    <3>4. x.gsipk[1] = key <=> x.body.state.createBy = value
      BY <1>3, <3>3, KeysDiffer
    <3>. QED
      BY <2>2, <3>1, <3>3, <3>4
  <2>. QED
    BY <2>1, <2>3 DEF Indexed
<1>5. IndexOf("Sample", B, num, 1, "sample.create_at", key)
  <2>1. \A m \in B : \E x \in Items : x.body = m
    BY <1>1, BodiesOfItems
  <2>2. \A m \in B : num[m] = m.state.createAt
    BY <1>2
  <2>3. ASSUME NEW x \in Items
        PROVE  /\ x.body \in B => x.body.type = "Sample"
               /\ x.body \in B <=> 1 \in DOMAIN x.gsipk /\ x.gsipk[1] = key
               /\ x.body \in B =>
                    /\ 1 \in DOMAIN x.gsisk /\ num[x.body] \in Nat
                    /\ x.gsisk[1] = SortKey("sample.create_at", num[x.body])
    BY <1>4, <2>2
  <2>. QED
    BY <2>1, <2>3, Zenon DEF IndexOf
<1>6. r.listed = {[id |-> m.id, by |-> num[m]] : m \in B}
  <2>1. PICK L : L = {[id |-> m.id, by |-> num[m]] : m \in B}
    OBVIOUS
  <2>2. \A m \in B : num[m] = m.state.createAt
    BY <1>2
  <2>3. ASSUME NEW v \in r.listed PROVE v \in L
    <3>1. PICK m \in B : v = [id |-> m.id, by |-> m.state.createAt]
      BY <1>1
    <3>2. v = [id |-> m.id, by |-> num[m]]
      BY <2>2, <3>1
    <3>. QED
      BY <2>1, <3>2
  <2>4. ASSUME NEW v \in L PROVE v \in r.listed
    <3>1. PICK m \in B : v = [id |-> m.id, by |-> num[m]]
      BY <2>1
    <3>2. v = [id |-> m.id, by |-> m.state.createAt]
      BY <2>2, <3>1
    <3>. QED
      BY <1>1, <3>2
  <2>. QED
    BY <2>1, <2>3, <2>4
<1>7. results = StoreQuery(cloud, table, 1, key, sort, now)
  BY <1>3, Zenon
<1>. QED
  BY <1>5, <1>6, <1>7, IndexServes DEF HasQueries

-----------------------------------------------------------------------------
(***************************************************************************)
(* From the client's query to the handler's, and its command.              *)
(***************************************************************************)
(* What a handler makes of the parameters of a query. *)
AsQueried(reply, q) ==
  /\ q.pk # "" /\ reply.pk = q.pk
  /\ \/ q.op = "" /\ reply.op = "none"
     \/ /\ reply.op = q.op /\ q.op \in Operators
        /\ q.op # "between" => reply.values = <<q.value.n>>
        /\ q.op = "between" => reply.values = <<q.value.n, q.value2.n>>

(* A reply that is no query. *)
NotQuery(reply) == reply.do # "query"

(* The handler of queries of the order service. *)
LEMMA OrderQueried ==
  ASSUME NEW request, NEW v, NEW reply, reply = O!HandleQuery(request, v), ~NotQuery(reply)
  PROVE  AsQueried(reply, request.query)
<1>1. PICK q : q = request.query
  OBVIOUS
<1>2. /\ \A status, code : NotQuery(O!errorResponse(status, code))
      /\ \A e : NotQuery(O!authzErrorResponse(e))
  <2>1. \A status, code : NotQuery(O!errorResponse(status, code))
    BY DEF NotQuery, O!errorResponse
  <2>. QED
    BY <2>1, Zenon DEF O!authzErrorResponse
<1>3. q.pk # "" /\ v.error = "none"
  BY <1>1, <1>2, Zenon DEF O!HandleQuery
<1>4. CASE q.op = ""
  <2>1. reply = [do |-> "query", pk |-> q.pk, op |-> "none", values |-> <<>>]
    BY <1>1, <1>3, <1>4, Zenon DEF O!HandleQuery
  <2>2. reply.pk = q.pk /\ reply.op = "none"
    BY <2>1
  <2>. QED
    BY <1>1, <1>3, <1>4, <2>2, Zenon DEF AsQueried
<1>5. CASE q.op # ""
  <2>1. O!parseSortOperator(q.op) /\ q.value.is = "number"
    <3>1. ASSUME ~O!parseSortOperator(q.op) PROVE FALSE
      <4>1. reply = O!errorResponse(400, "QUERY_BAD_OP")
        BY <1>1, <1>3, <1>5, <3>1, Zenon DEF O!HandleQuery
      <4>. QED
        BY <1>2, <4>1
    <3>2. ASSUME O!parseSortOperator(q.op), q.value.is # "number" PROVE FALSE
      <4>1. \/ reply = O!errorResponse(400, "QUERY_MISSING_SK")
            \/ reply = O!errorResponse(400, "QUERY_BAD_PARAM")
        BY <1>1, <1>3, <1>5, <3>2, Zenon DEF O!HandleQuery
      <4>. QED
        BY <1>2, <4>1
    <3>. QED
      BY <3>1, <3>2
  <2>2. q.op \in Operators
    BY <2>1, Zenon DEF O!parseSortOperator, O!Operators, Operators
  <2>3. CASE q.op # "between"
    <3>1. reply = [do |-> "query", pk |-> q.pk, op |-> q.op, values |-> <<q.value.n>>]
      BY <1>1, <1>3, <1>5, <2>1, <2>3, Zenon DEF O!HandleQuery
    <3>2. reply.pk = q.pk /\ reply.op = q.op /\ reply.values = <<q.value.n>>
      BY <3>1
    <3>. QED
      BY <1>1, <1>3, <2>2, <2>3, <3>2, Zenon DEF AsQueried
  <2>4. CASE q.op = "between"
    <3>1. q.value2.is = "number"
      BY <1>1, <1>2, <1>3, <1>5, <2>1, <2>4, Zenon DEF O!HandleQuery
    <3>2. reply = [do |-> "query", pk |-> q.pk, op |-> q.op,
                   values |-> <<q.value.n, q.value2.n>>]
      BY <1>1, <1>3, <1>5, <2>1, <2>4, <3>1, Zenon DEF O!HandleQuery
    <3>3. reply.pk = q.pk /\ reply.op = q.op /\ reply.values = <<q.value.n, q.value2.n>>
      BY <3>2
    <3>. QED
      BY <1>1, <1>3, <2>2, <2>4, <3>3, Zenon DEF AsQueried
  <2>. QED
    BY <2>3, <2>4
<1>. QED
  BY <1>4, <1>5

(* The handler of queries of the sample service, likewise. *)
LEMMA SampleQueried ==
  ASSUME NEW request, NEW v, NEW reply, reply = S!HandleQuery(request, v), ~NotQuery(reply)
  PROVE  AsQueried(reply, request.query)
<1>1. PICK q : q = request.query
  OBVIOUS
<1>2. /\ \A status, code : NotQuery(S!errorResponse(status, code))
      /\ \A e : NotQuery(S!authzErrorResponse(e))
  <2>1. \A status, code : NotQuery(S!errorResponse(status, code))
    BY DEF NotQuery, S!errorResponse
  <2>. QED
    BY <2>1, Zenon DEF S!authzErrorResponse
<1>3. q.pk # "" /\ v.error = "none"
  BY <1>1, <1>2, Zenon DEF S!HandleQuery
<1>4. CASE q.op = ""
  <2>1. reply = [do |-> "query", pk |-> q.pk, op |-> "none", values |-> <<>>]
    BY <1>1, <1>3, <1>4, Zenon DEF S!HandleQuery
  <2>2. reply.pk = q.pk /\ reply.op = "none"
    BY <2>1
  <2>. QED
    BY <1>1, <1>3, <1>4, <2>2, Zenon DEF AsQueried
<1>5. CASE q.op # ""
  <2>1. S!parseSortOperator(q.op) /\ q.value.is = "number"
    <3>1. ASSUME ~S!parseSortOperator(q.op) PROVE FALSE
      <4>1. reply = S!errorResponse(400, "QUERY_BAD_OP")
        BY <1>1, <1>3, <1>5, <3>1, Zenon DEF S!HandleQuery
      <4>. QED
        BY <1>2, <4>1
    <3>2. ASSUME S!parseSortOperator(q.op), q.value.is # "number" PROVE FALSE
      <4>1. \/ reply = S!errorResponse(400, "QUERY_MISSING_SK")
            \/ reply = S!errorResponse(400, "QUERY_BAD_PARAM")
        BY <1>1, <1>3, <1>5, <3>2, Zenon DEF S!HandleQuery
      <4>. QED
        BY <1>2, <4>1
    <3>. QED
      BY <3>1, <3>2
  <2>2. q.op \in Operators
    BY <2>1, Zenon DEF S!parseSortOperator, S!Operators, Operators
  <2>3. CASE q.op # "between"
    <3>1. reply = [do |-> "query", pk |-> q.pk, op |-> q.op, values |-> <<q.value.n>>]
      BY <1>1, <1>3, <1>5, <2>1, <2>3, Zenon DEF S!HandleQuery
    <3>2. reply.pk = q.pk /\ reply.op = q.op /\ reply.values = <<q.value.n>>
      BY <3>1
    <3>. QED
      BY <1>1, <1>3, <2>2, <2>3, <3>2, Zenon DEF AsQueried
  <2>4. CASE q.op = "between"
    <3>1. q.value2.is = "number"
      BY <1>1, <1>2, <1>3, <1>5, <2>1, <2>4, Zenon DEF S!HandleQuery
    <3>2. reply = [do |-> "query", pk |-> q.pk, op |-> q.op,
                   values |-> <<q.value.n, q.value2.n>>]
      BY <1>1, <1>3, <1>5, <2>1, <2>4, <3>1, Zenon DEF S!HandleQuery
    <3>3. reply.pk = q.pk /\ reply.op = q.op /\ reply.values = <<q.value.n, q.value2.n>>
      BY <3>2
    <3>. QED
      BY <1>1, <1>3, <2>2, <2>4, <3>3, Zenon DEF AsQueried
  <2>. QED
    BY <2>3, <2>4
<1>. QED
  BY <1>4, <1>5

(* A query and a command go on as they came. *)
Passed(reply, request) ==
  /\ reply.do = "query" => AsQueried(reply, request.query)
  /\ reply.do = "apply" => reply.cmd.arg = request.body.arg

(* Commands keep what they are about. *)
LEMMA CommandsPassed ==
  ASSUME NEW h, NEW reply, NEW request, NEW can, Replies(h, reply, request.body, can)
  PROVE  /\ h \notin ReadHandlers => NotQuery(reply) /\ Passed(reply, request)
         /\ h \in ReadHandlers /\ NotQuery(reply) => Passed(reply, request)
         /\ h \in ReadHandlers => reply.do # "apply"
<1>1. ASSUME h \notin ReadHandlers PROVE NotQuery(reply) /\ Passed(reply, request)
  <2>1. CASE Refuses(reply)
    BY <2>1 DEF Refuses, Passed, NotQuery
  <2>2. CASE ~Refuses(reply)
    <3>1. /\ reply.do = "apply"
          /\ \E name : reply.cmd = setActorField(request.body, can[name].user)
      BY <1>1, <2>2 DEF Replies, Decides
    <3>2. reply.cmd.arg = request.body.arg
      BY <3>1 DEF setActorField
    <3>. QED
      BY <3>1, <3>2 DEF Passed, NotQuery
  <2>. QED
    BY <2>1, <2>2
<1>2. ASSUME h \in ReadHandlers PROVE reply.do # "apply"
  BY <1>2 DEF Replies, Reads, Refuses
<1>. QED
  BY <1>1, <1>2 DEF Passed, NotQuery

(* Each handler of the order service. *)
LEMMA OrderPassed ==
  ASSUME app = "order", NEW request, NEW can, NEW h \in OrderHandlers,
         NEW reply, reply = O!OrderHandler(h, request, can)
  PROVE  Passed(reply, request)
<1>1. Replies(h, reply, request.body, can)
  BY OrderHandlerReplies DEF OrderHandlers
<1>2. CASE h \notin ReadHandlers
  BY <1>1, <1>2, CommandsPassed
<1>3. /\ \A status, code : NotQuery(O!errorResponse(status, code))
      /\ \A e : NotQuery(O!authzErrorResponse(e))
  <2>1. \A status, code : NotQuery(O!errorResponse(status, code))
    BY DEF NotQuery, O!errorResponse
  <2>. QED
    BY <2>1, Zenon DEF O!authzErrorResponse
<1>4. CASE h = "HandleLoad"
  <2>1. PICK v : reply = O!HandleLoad(request, v)
    BY <1>4 DEF O!OrderHandler, O!HandleLoadOrder
  <2>2. NotQuery(reply)
    BY <1>3, <2>1 DEF O!HandleLoad, NotQuery
  <2>. QED
    BY <1>1, <1>4, <2>2, CommandsPassed DEF ReadHandlers
<1>5. CASE h = "HandleGet"
  <2>1. PICK v : reply = O!HandleGet(request, v)
    BY <1>5 DEF O!OrderHandler, O!HandleGetOrder
  <2>2. NotQuery(reply)
    BY <1>3, <2>1 DEF O!HandleGet, NotQuery
  <2>. QED
    BY <1>1, <1>5, <2>2, CommandsPassed DEF ReadHandlers
<1>6. CASE h = "HandleHistory"
  <2>1. PICK v : reply = O!HandleHistory(request, v)
    BY <1>6 DEF O!OrderHandler, O!HandleHistoryOrder
  <2>2. NotQuery(reply)
    BY <1>3, <2>1 DEF O!HandleHistory, NotQuery
  <2>. QED
    BY <1>1, <1>6, <2>2, CommandsPassed DEF ReadHandlers
<1>7. CASE h = "HandleQueryByCustomerId"
  <2>1. PICK v : reply = O!HandleQuery(request, v)
    BY <1>7 DEF O!OrderHandler, O!HandleQueryByCustomerId
  <2>2. ~NotQuery(reply) => AsQueried(reply, request.query)
    BY <2>1, OrderQueried
  <2>. QED
    BY <1>1, <1>7, <2>2, CommandsPassed DEF Passed, NotQuery, ReadHandlers
<1>. QED
  BY <1>2, <1>4, <1>5, <1>6, <1>7 DEF ReadHandlers, OrderHandlers

(* Each handler of the sample service. *)
LEMMA SamplePassed ==
  ASSUME app = "sample", NEW request, NEW can, NEW h \in SampleHandlers,
         NEW reply, reply = S!SampleHandler(h, request, can)
  PROVE  Passed(reply, request)
<1>1. Replies(h, reply, request.body, can)
  BY SampleHandlerReplies DEF SampleHandlers
<1>2. CASE h \notin ReadHandlers
  BY <1>1, <1>2, CommandsPassed
<1>3. /\ \A status, code : NotQuery(S!errorResponse(status, code))
      /\ \A e : NotQuery(S!authzErrorResponse(e))
  <2>1. \A status, code : NotQuery(S!errorResponse(status, code))
    BY DEF NotQuery, S!errorResponse
  <2>. QED
    BY <2>1, Zenon DEF S!authzErrorResponse
<1>4. CASE h = "HandleLoad"
  <2>1. PICK v : reply = S!HandleLoad(request, v)
    BY <1>4 DEF S!SampleHandler, S!HandleLoadSample
  <2>2. NotQuery(reply)
    BY <1>3, <2>1 DEF S!HandleLoad, NotQuery
  <2>. QED
    BY <1>1, <1>4, <2>2, CommandsPassed DEF ReadHandlers
<1>5. CASE h = "HandleGet"
  <2>1. PICK v : reply = S!HandleGet(request, v)
    BY <1>5 DEF S!SampleHandler, S!HandleGetSample
  <2>2. NotQuery(reply)
    BY <1>3, <2>1 DEF S!HandleGet, NotQuery
  <2>. QED
    BY <1>1, <1>5, <2>2, CommandsPassed DEF ReadHandlers
<1>6. CASE h = "HandleHistory"
  <2>1. PICK v : reply = S!HandleHistory(request, v)
    BY <1>6 DEF S!SampleHandler, S!HandleHistorySample
  <2>2. NotQuery(reply)
    BY <1>3, <2>1 DEF S!HandleHistory, NotQuery
  <2>. QED
    BY <1>1, <1>6, <2>2, CommandsPassed DEF ReadHandlers
<1>7. CASE h = "HandleQueryByCreateBy"
  <2>1. PICK v : reply = S!HandleQuery(request, v)
    BY <1>7 DEF S!SampleHandler, S!HandleQueryByCreateBy
  <2>2. ~NotQuery(reply) => AsQueried(reply, request.query)
    BY <2>1, SampleQueried
  <2>. QED
    BY <1>1, <1>7, <2>2, CommandsPassed DEF Passed, NotQuery, ReadHandlers
<1>. QED
  BY <1>2, <1>4, <1>5, <1>6, <1>7 DEF ReadHandlers, SampleHandlers

(* Each handler of the sample without snapshots, which has no queries. *)
LEMMA NoSnapshotPassed ==
  ASSUME app = "samplenosnapshot", NEW request, NEW can, NEW h \in NoSnapshotHandlers,
         NEW reply, reply = N!NoSnapshotHandler(h, request, can)
  PROVE  NotQuery(reply) /\ Passed(reply, request)
<1>1. Replies(h, reply, request.body, can)
  BY NoSnapshotHandlerReplies DEF NoSnapshotHandlers
<1>2. CASE h \notin ReadHandlers
  BY <1>1, <1>2, CommandsPassed
<1>3. /\ \A status, code : NotQuery(N!errorResponse(status, code))
      /\ \A e : NotQuery(N!authzErrorResponse(e))
  <2>1. \A status, code : NotQuery(N!errorResponse(status, code))
    BY DEF NotQuery, N!errorResponse
  <2>. QED
    BY <2>1, Zenon DEF N!authzErrorResponse
<1>4. CASE h = "HandleLoad"
  <2>1. PICK v : reply = N!HandleLoad(request, v)
    BY <1>4 DEF N!NoSnapshotHandler, N!HandleLoadSample
  <2>2. NotQuery(reply)
    BY <1>3, <2>1 DEF N!HandleLoad, NotQuery
  <2>. QED
    BY <1>1, <1>4, <2>2, CommandsPassed DEF ReadHandlers
<1>5. CASE h = "HandleGet"
  <2>1. PICK v : reply = N!HandleGet(request, v)
    BY <1>5 DEF N!NoSnapshotHandler, N!HandleGetSample
  <2>2. NotQuery(reply)
    BY <1>3, <2>1 DEF N!HandleGet, NotQuery
  <2>. QED
    BY <1>1, <1>5, <2>2, CommandsPassed DEF ReadHandlers
<1>6. CASE h = "HandleHistory"
  <2>1. PICK v : reply = N!HandleHistory(request, v)
    BY <1>6 DEF N!NoSnapshotHandler, N!HandleHistorySample
  <2>2. NotQuery(reply)
    BY <1>3, <2>1 DEF N!HandleHistory, NotQuery
  <2>. QED
    BY <1>1, <1>6, <2>2, CommandsPassed DEF ReadHandlers
<1>. QED
  BY <1>2, <1>4, <1>5, <1>6 DEF ReadHandlers, NoSnapshotHandlers

(* A condition of a call, as it is to be put to the table. *)
Wanted(op, values, call) ==
  \/ op = "none" /\ call.op \in {"none", ""}
  \/ /\ op = call.op /\ op \in Operators
     /\ 1 \in DOMAIN call.values /\ call.values[1] \in Nat
     /\ values[1] = call.values[1]
     /\ op = "between" =>
          /\ 2 \in DOMAIN call.values /\ call.values[2] \in Nat
          /\ values[2] = call.values[2]

Queried(reply, call) == reply.pk = call.arg /\ Wanted(reply.op, reply.values, call)

(* What is queried of the order service is what was asked. *)
LEMMA OrderClientQueries ==
  ASSUME app = "order", NEW call, GoodCall(call), call.name \notin Direct, Typed(call),
         NEW q, q = Client(call, Claimed).query, Client(call, Claimed) # Unsent,
         NEW reply, AsQueried(reply, q)
  PROVE  Queried(reply, call)
<1>1. PICK e : e = ""
  OBVIOUS
<1>1a. PICK x : O!NoQuery = [pk |-> e, op |-> e, value |-> x, value2 |-> x]
  BY <1>1, Zenon DEF O!NoQuery
<1>2. \A n : O!Number(n).n = n
  BY DEF O!Number
<1>3. PICK c : c = O!OrderClient(call, Claimed)
  OBVIOUS
<1>4. c = Client(call, Claimed)
  BY <1>3 DEF Client, Of
<1>5. q = c.query /\ c # Unsent
  BY <1>4
<1>6. q.pk # e /\ reply.pk = q.pk
  BY <1>1, Zenon DEF AsQueried
<1>7. \/ q.op = e /\ reply.op = "none"
      \/ /\ reply.op = q.op /\ q.op \in Operators
         /\ q.op # "between" => reply.values = <<q.value.n>>
         /\ q.op = "between" => reply.values = <<q.value.n, q.value2.n>>
  BY <1>1, Zenon DEF AsQueried
<1>8. e \notin Operators
  BY <1>1, Zenon DEF Operators
<1>9. call.name \in Calls[app]
  BY DEF GoodCall
<1>10. ASSUME q = O!NoQuery PROVE FALSE
  <2>1. q.pk = e
    BY <1>10, <1>1a
  <2>. QED
    BY <1>6, <2>1
<1>11. CASE call.name \in O!CommandNames
  <2>1. c = O!ClientApply(O!routePath, call, Claimed)
    BY <1>3, <1>11 DEF O!OrderClient, O!CommandNames
  <2>2. q = O!NoQuery
    BY <1>5, <2>1 DEF O!ClientApply
  <2>. QED
    BY <1>10, <2>2
<1>12. CASE call.name \in {"Load", "Get", "History"}
  <2>1. \/ c = O!ClientLoad(O!routePath, call.id)
        \/ c = O!ClientGetView(O!routePath, call.id)
        \/ c = O!ClientHistory(O!routePath, call.id)
    BY <1>3, <1>12 DEF O!OrderClient, O!CommandNames
  <2>2. \E path : c = O!ClientGet(path, O!NoQuery)
    BY <2>1, Zenon DEF O!ClientLoad, O!ClientGetView, O!ClientHistory
  <2>3. q = O!NoQuery
    BY <1>5, <2>2 DEF O!ClientGet
  <2>. QED
    BY <1>10, <2>3
<1>13. CASE call.name = "QueryByCustomerId"
  <2>1. c = O!QueryByCustomerId(call)
    BY <1>3, <1>13 DEF O!OrderClient, O!CommandNames
  <2>2. q = [O!NoQuery EXCEPT !.pk = call.arg]
    BY <1>5, <2>1 DEF O!QueryByCustomerId, O!ClientQuery, O!ClientGet
  <2>3. q.pk = call.arg /\ q.op = e
    BY <1>1a, <2>2
  <2>4. reply.op = "none"
    BY <1>7, <1>8, <2>3
  <2>5. call.op = "none"
    BY <1>13 DEF Typed
  <2>. QED
    BY <1>6, <2>3, <2>4, <2>5, Zenon DEF Queried, Wanted
<1>14. CASE call.name = "QueryByCustomerIdWithCreateAt"
  <2>1. c = O!QueryByCustomerIdWithCreateAt(call)
    BY <1>3, <1>14 DEF O!OrderClient, O!CommandNames
  <2>2. O!Unsent = Unsent
    BY DEF O!Unsent, Unsent
  <2>3. /\ call.op # "between"
        /\ q = [pk |-> call.arg, op |-> call.op, value |-> O!Number(call.values[1]),
                value2 |-> O!Absent]
    BY <1>5, <2>1, <2>2 DEF O!QueryByCustomerIdWithCreateAt, O!ClientQuery, O!ClientGet
  <2>4. q.pk = call.arg /\ q.op = call.op /\ q.value.n = call.values[1]
    BY <1>2, <2>3
  <2>5. Numbers(call.values, 1)
    BY <1>14 DEF Typed
  <2>6. 1 \in DOMAIN call.values /\ call.values[1] \in Nat
    BY <2>5 DEF Numbers
  <2>7. CASE q.op = e /\ reply.op = "none"
    BY <1>1, <1>6, <2>4, <2>7, Zenon DEF Queried, Wanted
  <2>8. CASE reply.op = q.op /\ q.op \in Operators /\ reply.values = <<q.value.n>>
    <3>1. reply.values[1] = call.values[1]
      BY <2>4, <2>8
    <3>. QED
      BY <1>6, <2>3, <2>4, <2>6, <2>8, <3>1, Zenon DEF Queried, Wanted
  <2>. QED
    BY <1>7, <2>3, <2>4, <2>7, <2>8
<1>15. CASE call.name = "QueryByCustomerIdBetweenCreateAt"
  <2>1. c = O!QueryByCustomerIdBetweenCreateAt(call)
    BY <1>3, <1>15 DEF O!OrderClient, O!CommandNames
  <2>2. q = [pk |-> call.arg, op |-> "between", value |-> O!Number(call.values[1]),
             value2 |-> O!Number(call.values[2])]
    BY <1>5, <2>1 DEF O!QueryByCustomerIdBetweenCreateAt, O!ClientQuery, O!ClientGet
  <2>3. /\ q.pk = call.arg /\ q.op = "between"
        /\ q.value.n = call.values[1] /\ q.value2.n = call.values[2]
    BY <1>2, <2>2
  <2>4. call.op = "between" /\ Numbers(call.values, 2)
    BY <1>15 DEF Typed
  <2>5. /\ 1 \in DOMAIN call.values /\ call.values[1] \in Nat
        /\ 2 \in DOMAIN call.values /\ call.values[2] \in Nat
    <3>1. call.values \in Seq(Nat) /\ DOMAIN call.values = 1..2
      BY <2>4 DEF Numbers
    <3>. QED
      BY <3>1
  <2>6. q.op # e
    BY <1>8, <2>3 DEF Operators
  <2>7. reply.op = "between" /\ reply.values = <<call.values[1], call.values[2]>>
    BY <1>7, <2>3, <2>6
  <2>8. reply.values[1] = call.values[1] /\ reply.values[2] = call.values[2]
    BY <2>7
  <2>9. "between" \in Operators
    BY DEF Operators
  <2>. QED
    BY <1>6, <2>3, <2>4, <2>5, <2>7, <2>8, <2>9, Zenon DEF Queried, Wanted
<1>16. \/ call.name \in O!CommandNames
       \/ call.name \in {"Load", "Get", "History"}
       \/ call.name \in {"QueryByCustomerId", "QueryByCustomerIdWithCreateAt", "QueryByCustomerIdBetweenCreateAt"}
  BY <1>9 DEF Calls, Direct
<1>. QED
  BY <1>11, <1>12, <1>13, <1>14, <1>15, <1>16

(* What is queried of the sample service, likewise. *)
LEMMA SampleClientQueries ==
  ASSUME app = "sample", NEW call, GoodCall(call), call.name \notin Direct, Typed(call),
         NEW q, q = Client(call, Claimed).query, Client(call, Claimed) # Unsent,
         NEW reply, AsQueried(reply, q)
  PROVE  Queried(reply, call)
<1>1. PICK e : e = ""
  OBVIOUS
<1>1a. PICK x : S!NoQuery = [pk |-> e, op |-> e, value |-> x, value2 |-> x]
  BY <1>1, Zenon DEF S!NoQuery
<1>2. \A n : S!Number(n).n = n
  BY DEF S!Number
<1>3. PICK c : c = S!SampleClient(call, Claimed)
  OBVIOUS
<1>4. c = Client(call, Claimed)
  BY <1>3 DEF Client, Of
<1>5. q = c.query /\ c # Unsent
  BY <1>4
<1>6. q.pk # e /\ reply.pk = q.pk
  BY <1>1, Zenon DEF AsQueried
<1>7. \/ q.op = e /\ reply.op = "none"
      \/ /\ reply.op = q.op /\ q.op \in Operators
         /\ q.op # "between" => reply.values = <<q.value.n>>
         /\ q.op = "between" => reply.values = <<q.value.n, q.value2.n>>
  BY <1>1, Zenon DEF AsQueried
<1>8. e \notin Operators
  BY <1>1, Zenon DEF Operators
<1>9. call.name \in Calls[app]
  BY DEF GoodCall
<1>10. ASSUME q = S!NoQuery PROVE FALSE
  <2>1. q.pk = e
    BY <1>10, <1>1a
  <2>. QED
    BY <1>6, <2>1
<1>11. CASE call.name \in S!CommandNames
  <2>1. c = S!ClientApply(S!routePath, call, Claimed)
    BY <1>3, <1>11 DEF S!SampleClient, S!CommandNames
  <2>2. q = S!NoQuery
    BY <1>5, <2>1 DEF S!ClientApply
  <2>. QED
    BY <1>10, <2>2
<1>12. CASE call.name \in {"Load", "Get", "History"}
  <2>1. \/ c = S!ClientLoad(S!routePath, call.id)
        \/ c = S!ClientGetView(S!routePath, call.id)
        \/ c = S!ClientHistory(S!routePath, call.id)
    BY <1>3, <1>12 DEF S!SampleClient, S!CommandNames
  <2>2. \E path : c = S!ClientGet(path, S!NoQuery)
    BY <2>1, Zenon DEF S!ClientLoad, S!ClientGetView, S!ClientHistory
  <2>3. q = S!NoQuery
    BY <1>5, <2>2 DEF S!ClientGet
  <2>. QED
    BY <1>10, <2>3
<1>13. CASE call.name = "QueryByCreateBy"
  <2>1. c = S!QueryByCreateBy(call)
    BY <1>3, <1>13 DEF S!SampleClient, S!CommandNames
  <2>2. q = [S!NoQuery EXCEPT !.pk = call.arg]
    BY <1>5, <2>1 DEF S!QueryByCreateBy, S!ClientQuery, S!ClientGet
  <2>3. q.pk = call.arg /\ q.op = e
    BY <1>1a, <2>2
  <2>4. reply.op = "none"
    BY <1>7, <1>8, <2>3
  <2>5. call.op = "none"
    BY <1>13 DEF Typed
  <2>. QED
    BY <1>6, <2>3, <2>4, <2>5, Zenon DEF Queried, Wanted
<1>14. CASE call.name = "QueryByCreateByWithCreateAt"
  <2>1. c = S!QueryByCreateByWithCreateAt(call)
    BY <1>3, <1>14 DEF S!SampleClient, S!CommandNames
  <2>2. S!Unsent = Unsent
    BY DEF S!Unsent, Unsent
  <2>3. /\ call.op # "between"
        /\ q = [pk |-> call.arg, op |-> call.op, value |-> S!Number(call.values[1]),
                value2 |-> S!Absent]
    BY <1>5, <2>1, <2>2 DEF S!QueryByCreateByWithCreateAt, S!ClientQuery, S!ClientGet
  <2>4. q.pk = call.arg /\ q.op = call.op /\ q.value.n = call.values[1]
    BY <1>2, <2>3
  <2>5. Numbers(call.values, 1)
    BY <1>14 DEF Typed
  <2>6. 1 \in DOMAIN call.values /\ call.values[1] \in Nat
    BY <2>5 DEF Numbers
  <2>7. CASE q.op = e /\ reply.op = "none"
    BY <1>1, <1>6, <2>4, <2>7, Zenon DEF Queried, Wanted
  <2>8. CASE reply.op = q.op /\ q.op \in Operators /\ reply.values = <<q.value.n>>
    <3>1. reply.values[1] = call.values[1]
      BY <2>4, <2>8
    <3>. QED
      BY <1>6, <2>3, <2>4, <2>6, <2>8, <3>1, Zenon DEF Queried, Wanted
  <2>. QED
    BY <1>7, <2>3, <2>4, <2>7, <2>8
<1>15. CASE call.name = "QueryByCreateByBetweenCreateAt"
  <2>1. c = S!QueryByCreateByBetweenCreateAt(call)
    BY <1>3, <1>15 DEF S!SampleClient, S!CommandNames
  <2>2. q = [pk |-> call.arg, op |-> "between", value |-> S!Number(call.values[1]),
             value2 |-> S!Number(call.values[2])]
    BY <1>5, <2>1 DEF S!QueryByCreateByBetweenCreateAt, S!ClientQuery, S!ClientGet
  <2>3. /\ q.pk = call.arg /\ q.op = "between"
        /\ q.value.n = call.values[1] /\ q.value2.n = call.values[2]
    BY <1>2, <2>2
  <2>4. call.op = "between" /\ Numbers(call.values, 2)
    BY <1>15 DEF Typed
  <2>5. /\ 1 \in DOMAIN call.values /\ call.values[1] \in Nat
        /\ 2 \in DOMAIN call.values /\ call.values[2] \in Nat
    <3>1. call.values \in Seq(Nat) /\ DOMAIN call.values = 1..2
      BY <2>4 DEF Numbers
    <3>. QED
      BY <3>1
  <2>6. q.op # e
    BY <1>8, <2>3 DEF Operators
  <2>7. reply.op = "between" /\ reply.values = <<call.values[1], call.values[2]>>
    BY <1>7, <2>3, <2>6
  <2>8. reply.values[1] = call.values[1] /\ reply.values[2] = call.values[2]
    BY <2>7
  <2>9. "between" \in Operators
    BY DEF Operators
  <2>. QED
    BY <1>6, <2>3, <2>4, <2>5, <2>7, <2>8, <2>9, Zenon DEF Queried, Wanted
<1>16. \/ call.name \in S!CommandNames
       \/ call.name \in {"Load", "Get", "History"}
       \/ call.name \in {"QueryByCreateBy", "QueryByCreateByWithCreateAt", "QueryByCreateByBetweenCreateAt"}
  BY <1>9 DEF Calls, Direct
<1>. QED
  BY <1>11, <1>12, <1>13, <1>14, <1>15, <1>16

(* Adapter, router and handler hand on what a client asks or commands. *)
LEMMA HandledPassed ==
  ASSUME app \in Apps, NEW r, GoodCall(r.call), r.call.name \notin Direct,
         Client(r.call, Claimed) # Unsent, Typed(r.call), NEW fault,
         NEW reply, reply = Handled(r, fault)
  PROVE  /\ reply.do = "query" => HasQueries /\ Queried(reply, r.call)
         /\ reply.do = "apply" /\ r.call.name \in CommandNames => reply.cmd.arg = r.call.arg
<1>1. PICK routes, request : routes = RegisterRoutes /\ request = Client(r.call, Claimed)
  OBVIOUS
<1>2. PICK can : can = [f \in Functions |-> Authorize(r.caller, f, fault = "authorizer")]
  OBVIOUS
<1>3. PICK routed : routed = IF fault # "body" THEN Dispatch(routes, request.method, request.path)
                             ELSE Unreadable
  OBVIOUS
<1>4. PICK inner : inner = [id |-> routed.id, query |-> request.query, body |-> request.body]
  OBVIOUS
<1>5. reply = IF routed.status # 0 THEN errorResponse(routed.status, "ROUTER")
              ELSE Handler(routed.handler, inner, can)
  BY <1>1, <1>2, <1>3, <1>4 DEF Handled, LambdaWrapRouter, HTTPWrapRouter
<1>6. CASE routed.status # 0
  <2>1. reply.do = "answer"
    BY <1>5, <1>6 DEF errorResponse
  <2>. QED
    BY <2>1
<1>7. CASE routed.status = 0
  <2>1. PICK h : h = routed.handler
    OBVIOUS
  <2>2. reply = Handler(h, inner, can)
    BY <1>5, <1>7, <2>1
  <2>3. h \in Of(OrderHandlers, SampleHandlers, NoSnapshotHandlers)
    <3>1. IsList(routes)
      BY <1>1, RegisteredRoutes DEF GoodRoutes
    <3>2. fault # "body"
      <4>1. Unreadable.status = 400
        BY Zenon DEF Unreadable
      <4>2. Unreadable.status # 0
        BY <4>1
      <4>. QED
        BY <1>3, <1>7, <4>2
    <3>3. routed = Dispatch(routes, request.method, request.path)
      BY <1>3, <3>2
    <3>4. \E k \in DOMAIN routes : h = routes[k].handler
      BY <1>7, <2>1, <3>1, <3>3, DispatchFound
    <3>. QED
      BY <1>1, <3>4, RegisteredRoutes DEF GoodRoutes
  <2>4. inner.query = request.query /\ inner.body = request.body
    BY <1>4
  <2>5. Passed(reply, inner) /\ (~HasQueries => NotQuery(reply))
    <3>1. CASE app = "order"
      <4>1. reply = O!OrderHandler(h, inner, can) /\ h \in OrderHandlers
        BY <2>2, <2>3, <3>1 DEF Handler, Of
      <4>. QED
        BY <3>1, <4>1, OrderPassed DEF HasQueries
    <3>2. CASE app = "sample"
      <4>1. reply = S!SampleHandler(h, inner, can) /\ h \in SampleHandlers
        BY <2>2, <2>3, <3>2 DEF Handler, Of
      <4>. QED
        BY <3>2, <4>1, SamplePassed DEF HasQueries
    <3>3. CASE app = "samplenosnapshot"
      <4>1. reply = N!NoSnapshotHandler(h, inner, can) /\ h \in NoSnapshotHandlers
        BY <2>2, <2>3, <3>3 DEF Handler, Of
      <4>. QED
        BY <3>3, <4>1, NoSnapshotPassed
    <3>. QED
      BY <3>1, <3>2, <3>3, Applications
  <2>6. ASSUME reply.do = "query" PROVE HasQueries /\ Queried(reply, r.call)
    <3>1. HasQueries /\ AsQueried(reply, request.query)
      BY <2>4, <2>5, <2>6 DEF Passed, NotQuery
    <3>. QED
      BY <1>1, <3>1, OrderClientQueries, SampleClientQueries DEF HasQueries
  <2>7. ASSUME reply.do = "apply", r.call.name \in CommandNames
        PROVE  reply.cmd.arg = r.call.arg
    <3>1. request.body = setActorField(r.call, Claimed)
      BY <1>1, <2>7, ClientBody
    <3>2. reply.cmd.arg = request.body.arg
      BY <2>4, <2>5, <2>7 DEF Passed
    <3>. QED
      BY <3>1, <3>2 DEF setActorField
  <2>. QED
    BY <2>6, <2>7
<1>. QED
  BY <1>6, <1>7

-----------------------------------------------------------------------------
(***************************************************************************)
(* The answers to queries.                                                 *)
(***************************************************************************)
(* The condition of a query. *)
ConditionOf(field, op, values) ==
  IF op = "none" THEN NoCondition ELSE SortCondition(field, op, values)

(* It is the one that was asked for. *)
LEMMA ConditionAsked ==
  ASSUME NEW call, NEW op, NEW values, NEW field, NEW sort,
         sort = ConditionOf(field, op, values),
         Wanted(op, values, call)
  PROVE  Asked(call, field, sort)
<1>1. CASE op = "none"
  <2>1. sort = NoCondition
    BY <1>1 DEF ConditionOf
  <2>2. sort.op = "none"
    BY <2>1 DEF NoCondition
  <2>3. "none" \notin Operators
    BY DEF Operators
  <2>4. call.op \in {"none", ""}
    BY <1>1, <2>3, Zenon DEF Wanted
  <2>. QED
    BY <2>2, <2>4, Zenon DEF Asked
<1>2. CASE op # "none"
  <2>1. /\ op = call.op /\ op \in Operators
        /\ 1 \in DOMAIN call.values /\ call.values[1] \in Nat
        /\ values[1] = call.values[1]
        /\ op = "between" =>
             /\ 2 \in DOMAIN call.values /\ call.values[2] \in Nat
             /\ values[2] = call.values[2]
    BY <1>2, Zenon DEF Wanted
  <2>2. sort = SortCondition(field, op, values)
    BY <1>2 DEF ConditionOf
  <2>3. /\ sort.op = op /\ sort.value = SortKey(field, values[1])
        /\ op = "between" => sort.value2 = SortKey(field, values[2])
    BY <2>2 DEF SortCondition
  <2>. QED
    BY <2>1, <2>3, Zenon DEF Asked
<1>. QED
  BY <1>1, <1>2

(* A query of the order service finds orders. *)
LEMMA OrdersFound ==
  ASSUME NEW query, NEW now, NEW results,
         results = StoreQuery(cloud, table, 1, Key("order.customer_id", <<query.pk>>),
                              ConditionOf("order.create_at", query.op, query.values), now)
  PROVE  FoundIds(O!OrderQuery(cloud, table, query, now)) =
           [k \in DOMAIN results |-> results[k].body.id]
<1>1. PICK sort : sort = ConditionOf("order.create_at", query.op, query.values)
  OBVIOUS
<1>2. results = O!StoreQuery(cloud, table, 1, O!Key("order.customer_id", <<query.pk>>),
                             sort, now)
  BY <1>1, SameQueries
<1>3. O!OrderQuery(cloud, table, query, now) = O!rehydrateOrder(results)
  <2>1. CASE query.op = "none"
    <3>1. sort = O!NoCondition
      BY <1>1, <2>1, SameConditions DEF ConditionOf
    <3>. QED
      BY <1>2, <2>1, <3>1 DEF O!OrderQuery, O!SelectOrderByCustomerId
  <2>2. CASE query.op # "none"
    <3>1. sort = O!SortCondition("order.create_at", query.op, query.values)
      BY <1>1, <2>2, SameConditions DEF ConditionOf
    <3>. QED
      BY <1>2, <2>2, <3>1 DEF O!OrderQuery, O!SelectOrderByCustomerIdWithCreateAt
  <2>. QED
    BY <2>1, <2>2
<1>. QED
  BY <1>3 DEF FoundIds, O!rehydrateOrder, O!ReHydrate

(* A query of the sample service finds samples. *)
LEMMA SamplesFound ==
  ASSUME NEW query, NEW now, NEW results,
         results = StoreQuery(cloud, table, 1, Key("sample.create_by", <<query.pk>>),
                              ConditionOf("sample.create_at", query.op, query.values), now)
  PROVE  FoundIds(S!SampleQuery(cloud, table, query, now)) =
           [k \in DOMAIN results |-> results[k].body.id]
<1>1. PICK sort : sort = ConditionOf("sample.create_at", query.op, query.values)
  OBVIOUS
<1>2. results = S!StoreQuery(cloud, table, 1, S!Key("sample.create_by", <<query.pk>>),
                             sort, now)
  BY <1>1, SameQueries
<1>3. S!SampleQuery(cloud, table, query, now) = S!rehydrateSample(results)
  <2>1. CASE query.op = "none"
    <3>1. sort = S!NoCondition
      BY <1>1, <2>1, SameConditions DEF ConditionOf
    <3>. QED
      BY <1>2, <2>1, <3>1 DEF S!SampleQuery, S!SelectSampleByCreateBy
  <2>2. CASE query.op # "none"
    <3>1. sort = S!SortCondition("sample.create_at", query.op, query.values)
      BY <1>1, <2>2, SameConditions DEF ConditionOf
    <3>. QED
      BY <1>2, <2>2, <3>1 DEF S!SampleQuery, S!SelectSampleByCreateByWithCreateAt
  <2>. QED
    BY <2>1, <2>2
<1>. QED
  BY <1>3 DEF FoundIds, S!rehydrateSample, S!ReHydrate

(* A handler's query is right. *)
LEMMA QueryServed ==
  ASSUME GoodTable(table), IndexedTable(table), HasQueries, NEW r,
         r.call.name \notin Direct, r.listed = Listed(r.call),
         NEW query, Queried(query, r.call), NEW now,
         r.found = FoundIds(Of(O!OrderQuery(cloud, table, query, now),
                               S!SampleQuery(cloud, table, query, now), <<>>))
  PROVE  QueryRight(r)
<1>1. \A field, sort : sort = ConditionOf(field, query.op, query.values) =>
        Asked(r.call, field, sort)
  BY ConditionAsked, Zenon DEF Queried
<1>2. query.pk = r.call.arg
  BY Zenon DEF Queried
<1>3. CASE app = "order"
  <2>1. PICK sort, results :
          /\ sort = ConditionOf("order.create_at", query.op, query.values)
          /\ results = StoreQuery(cloud, table, 1, Key("order.customer_id", <<query.pk>>),
                                  sort, now)
    OBVIOUS
  <2>2. r.found = [k \in DOMAIN results |-> results[k].body.id]
    BY <1>3, <2>1, OrdersFound DEF Of
  <2>3. r.listed = {[id |-> m.id, by |-> m.createAt] :
                      m \in {b \in Bodies("Order") : b.customer = query.pk}}
    BY <1>2, <1>3 DEF Listed, Direct
  <2>4. Asked(r.call, "order.create_at", sort)
    BY <1>1, <2>1
  <2>. QED
    BY <1>3, <2>1, <2>2, <2>3, <2>4, OrdersByCustomer
<1>4. CASE app = "sample"
  <2>1. PICK sort, results :
          /\ sort = ConditionOf("sample.create_at", query.op, query.values)
          /\ results = StoreQuery(cloud, table, 1, Key("sample.create_by", <<query.pk>>),
                                  sort, now)
    OBVIOUS
  <2>2. r.found = [k \in DOMAIN results |-> results[k].body.id]
    BY <1>4, <2>1, SamplesFound DEF Of
  <2>3. r.listed = {[id |-> m.id, by |-> m.state.createAt] :
                      m \in {b \in Bodies("Sample") : b.state.createBy = query.pk}}
    BY <1>2, <1>4 DEF Listed, Direct
  <2>4. Asked(r.call, "sample.create_at", sort)
    BY <1>1, <2>1
  <2>. QED
    BY <1>4, <2>1, <2>2, <2>3, <2>4, SamplesByCreator
<1>. QED
  BY <1>3, <1>4 DEF HasQueries

(* A read of summaries, with or without a condition. *)
Browses(call, plain, conditioned) ==
  \/ call.name = plain /\ call.op = "none"
  \/ call.name = conditioned /\ call.op # "none"

(* A read of the summaries in a state. *)
LEMMA StatesFound ==
  ASSUME NEW call, Browses(call, "SelectOrderSummaryByState", "SelectOrderSummaryByStateWithPlacedAt"),
         NEW sort, sort = ConditionOf("ordersummary.placed_at", call.op, call.values),
         NEW results,
         results = StoreQuery(cloud, table, 2, Key("ordersummary.state", <<call.arg>>), sort, Now)
  PROVE  FoundIds(Browsed(call)) = [k \in DOMAIN results |-> results[k].body.id]
<1>1. results = O!StoreQuery(cloud, table, 2, O!Key("ordersummary.state", <<call.arg>>),
                             sort, Now)
  BY SameQueries
<1>2. Browsed(call) = O!rehydrateOrderSummary(results)
  <2>1. CASE call.name = "SelectOrderSummaryByState" /\ call.op = "none"
    <3>1. sort = O!NoCondition
      BY <2>1, SameConditions DEF ConditionOf
    <3>. QED
      BY <1>1, <2>1, <3>1 DEF Browsed, O!SelectOrderSummaryByState
  <2>2. CASE call.name = "SelectOrderSummaryByStateWithPlacedAt" /\ call.op # "none"
    <3>1. sort = O!SortCondition("ordersummary.placed_at", call.op, call.values)
      BY <2>2, SameConditions DEF ConditionOf
    <3>. QED
      BY <1>1, <2>2, <3>1 DEF Browsed, O!SelectOrderSummaryByStateWithPlacedAt
  <2>. QED
    BY <2>1, <2>2 DEF Browses
<1>. QED
  BY <1>2 DEF FoundIds, O!rehydrateOrderSummary, O!ReHydrate

(* A read of the summaries of a customer. *)
LEMMA CustomersFound ==
  ASSUME NEW call, Browses(call, "SelectOrderSummaryByCustomerId", "SelectOrderSummaryByCustomerIdWithCreateAt"),
         NEW sort, sort = ConditionOf("ordersummary.create_at", call.op, call.values),
         NEW results,
         results = StoreQuery(cloud, table, 1, Key("ordersummary.customer_id", <<call.arg>>), sort, Now)
  PROVE  FoundIds(Browsed(call)) = [k \in DOMAIN results |-> results[k].body.id]
<1>1. results = O!StoreQuery(cloud, table, 1, O!Key("ordersummary.customer_id", <<call.arg>>),
                             sort, Now)
  BY SameQueries
<1>2. Browsed(call) = O!rehydrateOrderSummary(results)
  <2>1. CASE call.name = "SelectOrderSummaryByCustomerId" /\ call.op = "none"
    <3>1. sort = O!NoCondition
      BY <2>1, SameConditions DEF ConditionOf
    <3>. QED
      BY <1>1, <2>1, <3>1 DEF Browsed, O!SelectOrderSummaryByCustomerId
  <2>2. CASE call.name = "SelectOrderSummaryByCustomerIdWithCreateAt" /\ call.op # "none"
    <3>1. sort = O!SortCondition("ordersummary.create_at", call.op, call.values)
      BY <2>2, SameConditions DEF ConditionOf
    <3>. QED
      BY <1>1, <2>2, <3>1 DEF Browsed, O!SelectOrderSummaryByCustomerIdWithCreateAt
  <2>. QED
    BY <2>1, <2>2 DEF Browses
<1>. QED
  BY <1>2 DEF FoundIds, O!rehydrateOrderSummary, O!ReHydrate

(* The types of a read of summaries. *)
LEMMA BrowseTyped ==
  ASSUME NEW call, Typed(call), call.name \in SummariesByState \cup SummariesByCustomer
  PROVE  /\ call.name \in {"SelectOrderSummaryByState", "SelectOrderSummaryByCustomerId"} =>
              call.op = "none"
         /\ call.name \in {"SelectOrderSummaryByStateWithPlacedAt",
                           "SelectOrderSummaryByCustomerIdWithCreateAt"} =>
              call.op \in Operators /\ call.op # "none" /\ call.values \in Seq(Nat)
<1>1. ASSUME call.name \in {"SelectOrderSummaryByStateWithPlacedAt",
                            "SelectOrderSummaryByCustomerIdWithCreateAt"}
      PROVE  call.op \in Operators /\ call.values \in Seq(Nat)
  BY <1>1 DEF Typed
<1>2. ASSUME call.name \in {"SelectOrderSummaryByState", "SelectOrderSummaryByCustomerId"}
      PROVE  call.op = "none"
  BY <1>2 DEF Typed
<1>3. "none" \notin Operators
  BY DEF Operators
<1>. QED
  BY <1>1, <1>2, <1>3

(* A direct read of summaries is right, when its values fit. *)
LEMMA BrowseServed ==
  ASSUME app = "order", GoodTable(table), IndexedTable(table), NEW r, Typed(r.call),
         r.call.name \in SummariesByState \cup SummariesByCustomer,
         r.call.op = "none" \/ ValuesFit(r.call.op, r.call.values),
         r.listed = Listed(r.call), r.found = FoundIds(Browsed(r.call))
  PROVE  QueryRight(r)
<1>1. PICK call : call = r.call
  OBVIOUS
<1>2. /\ call.name \in {"SelectOrderSummaryByState", "SelectOrderSummaryByCustomerId"} =>
           call.op = "none"
      /\ call.name \in {"SelectOrderSummaryByStateWithPlacedAt",
                        "SelectOrderSummaryByCustomerIdWithCreateAt"} =>
           call.op \in Operators /\ call.op # "none" /\ call.values \in Seq(Nat)
  BY <1>1, BrowseTyped
<1>3. Wanted(call.op, call.values, call)
  <2>1. CASE call.op = "none"
    BY <2>1, Zenon DEF Wanted
  <2>2. CASE call.op # "none"
    <3>1. /\ call.op \in Operators /\ call.values \in Seq(Nat)
          /\ ValuesFit(call.op, call.values)
      BY <1>1, <1>2, <2>2 DEF SummariesByState, SummariesByCustomer
    <3>2. Len(call.values) = IF call.op = "between" THEN 2 ELSE 1
      BY <3>1 DEF ValuesFit
    <3>3. 1 \in DOMAIN call.values /\ call.values[1] \in Nat
      BY <3>1, <3>2
    <3>4. ASSUME call.op = "between"
          PROVE  2 \in DOMAIN call.values /\ call.values[2] \in Nat
      <4>1. Len(call.values) = 2
        BY <3>2, <3>4
      <4>2. DOMAIN call.values = 1..2
        BY <3>1, <4>1
      <4>. QED
        BY <3>1, <4>2
    <3>. QED
      BY <3>1, <3>3, <3>4, Zenon DEF Wanted
  <2>. QED
    BY <2>1, <2>2
<1>4. \A field, sort : sort = ConditionOf(field, call.op, call.values) =>
        Asked(call, field, sort)
  BY <1>3, ConditionAsked
<1>5. CASE call.name \in SummariesByState
  <2>1. PICK sort, results :
          /\ sort = ConditionOf("ordersummary.placed_at", call.op, call.values)
          /\ results = StoreQuery(cloud, table, 2, Key("ordersummary.state", <<call.arg>>),
                                  sort, Now)
    OBVIOUS
  <2>2. Browses(call, "SelectOrderSummaryByState", "SelectOrderSummaryByStateWithPlacedAt")
    BY <1>1, <1>2, <1>5 DEF SummariesByState, Browses
  <2>3. r.found = [k \in DOMAIN results |-> results[k].body.id]
    <3>1. FoundIds(Browsed(call)) = [k \in DOMAIN results |-> results[k].body.id]
      BY <2>1, <2>2, StatesFound
    <3>. QED
      BY <1>1, <3>1
  <2>4. r.listed = {[id |-> m.id, by |-> m.placedAt] :
                      m \in {b \in Bodies("OrderSummary") : b.state = call.arg}}
    BY <1>1, <1>5 DEF Listed, SummariesByState, SummariesByCustomer
  <2>5. Asked(r.call, "ordersummary.placed_at", sort)
    BY <1>1, <1>4, <2>1
  <2>. QED
    BY <2>1, <2>3, <2>4, <2>5, SummariesInState
<1>6. CASE call.name \in SummariesByCustomer
  <2>1. PICK sort, results :
          /\ sort = ConditionOf("ordersummary.create_at", call.op, call.values)
          /\ results = StoreQuery(cloud, table, 1, Key("ordersummary.customer_id", <<call.arg>>),
                                  sort, Now)
    OBVIOUS
  <2>2. Browses(call, "SelectOrderSummaryByCustomerId", "SelectOrderSummaryByCustomerIdWithCreateAt")
    BY <1>1, <1>2, <1>6 DEF SummariesByCustomer, Browses
  <2>3. r.found = [k \in DOMAIN results |-> results[k].body.id]
    <3>1. FoundIds(Browsed(call)) = [k \in DOMAIN results |-> results[k].body.id]
      BY <2>1, <2>2, CustomersFound
    <3>. QED
      BY <1>1, <3>1
  <2>4. r.listed = {[id |-> m.id, by |-> m.createAt] :
                      m \in {b \in Bodies("OrderSummary") : b.customer = call.arg}}
    BY <1>1, <1>6 DEF Listed, SummariesByState, SummariesByCustomer
  <2>5. Asked(r.call, "ordersummary.create_at", sort)
    BY <1>1, <1>4, <2>1
  <2>. QED
    BY <2>1, <2>3, <2>4, <2>5, SummariesOfCustomer
<1>. QED
  BY <1>1, <1>5, <1>6

-----------------------------------------------------------------------------
(***************************************************************************)
(* The invariant: events and items bear numbers, and queries are right.    *)
(***************************************************************************)
QueryGood(r) ==
  /\ Typed(r.call)
  /\ AllDated(r.events)
  /\ r.stage # "done" => r.listed = {}
  /\ QueryRight(r)

QueryInv ==
  /\ \A id \in Ids : AllDated(streams[id])
  /\ IndexedTable(table)
  /\ \A i \in DOMAIN requests : QueryGood(requests[i])

(* Nothing about it depends on anything that changes but what it names. *)
LEMMA QueryStays ==
  ASSUME Deployed
  PROVE  /\ \A s : AllDated(s)' <=> AllDated(s)
         /\ \A t : IndexedTable(t)' <=> IndexedTable(t)
         /\ \A r : QueryGood(r)' <=> QueryGood(r)
<1>1. \A event : Dated(event)' <=> Dated(event)
  BY DEF Deployed, Dated
<1>2. \A s : AllDated(s)' <=> AllDated(s)
  BY <1>1 DEF AllDated
<1>3. \A item : Indexed(item)' <=> Indexed(item)
  BY DEF Deployed, Indexed
<1>4. HasQueries' <=> HasQueries
  BY DEF Deployed, HasQueries
<1>5. \A t : IndexedTable(t)' <=> IndexedTable(t)
  BY <1>3, <1>4 DEF IndexedTable
<1>. QED
  BY <1>2, <1>5 DEF QueryGood

(* A request more. *)
LEMMA QueryAppended ==
  ASSUME ServiceInv, QueryInv, Deployed, UNCHANGED <<streams, table>>,
         NEW r, QueryGood(r), requests' = Append(requests, r)
  PROVE  QueryInv'
<1>1. IsList(requests) /\ \A i \in DOMAIN requests : QueryGood(requests[i])
  BY DEF ServiceInv, QueryInv
<1>2. PICK n \in Nat : n = Len(requests) /\ DOMAIN requests = 1..n
  BY <1>1, ListFacts
<1>3. PICK rs : rs = requests'
  OBVIOUS
<1>4. /\ DOMAIN rs = 1..(n + 1) /\ rs[n + 1] = r
      /\ \A k \in DOMAIN requests : k \in DOMAIN rs /\ rs[k] = requests[k]
  BY <1>1, <1>2, <1>3, ListAppend
<1>5. \A k \in DOMAIN rs : k \in DOMAIN requests \/ k = n + 1
  BY <1>2, <1>4
<1>6. \A k \in DOMAIN rs : QueryGood(rs[k])
  BY <1>1, <1>4, <1>5
<1>7. \A k \in DOMAIN rs : QueryGood(rs[k])'
  BY <1>6, QueryStays
<1>8. (\A id \in Ids : AllDated(streams[id]))' /\ IndexedTable(table)'
  BY QueryStays DEF QueryInv
<1>. QED
  BY <1>3, <1>7, <1>8 DEF QueryInv

(* A request that has come further. *)
LEMMA QueryBecomes ==
  ASSUME ServiceInv, QueryInv, Deployed,
         \A id \in Ids : AllDated(streams'[id]), IndexedTable(table'),
         NEW i \in DOMAIN requests, NEW r, QueryGood(r), Become(i, r)
  PROVE  QueryInv'
<1>1. PICK rs, new, t : rs = requests' /\ new = streams' /\ t = table'
  OBVIOUS
<1>2. /\ DOMAIN rs = DOMAIN requests /\ rs[i] = r
      /\ \A k \in DOMAIN requests : k # i => rs[k] = requests[k]
  BY <1>1 DEF Become
<1>3. \A k \in DOMAIN rs : QueryGood(rs[k])
  BY <1>2 DEF QueryInv
<1>4. \A k \in DOMAIN rs : QueryGood(rs[k])'
  BY <1>3, QueryStays
<1>5. \A id \in Ids : AllDated(new[id])'
  BY <1>1, QueryStays
<1>6. IndexedTable(t)'
  BY <1>1, QueryStays
<1>. QED
  BY <1>1, <1>4, <1>5, <1>6 DEF QueryInv

(* A request that queries nothing. *)
LEMMA QuietGood ==
  ASSUME NEW r, QueryGood(r), NEW q, q.call = r.call, AllDated(q.events), q.listed = {}
  PROVE  QueryGood(q)
BY DEF QueryGood, QueryRight

(* An answer lists nothing of its own. *)
LEMMA AnsweredLists ==
  ASSUME NEW r, DOMAIN r = Fields, NEW status, NEW found, NEW version, NEW listed
  PROVE  /\ LET q == Answered(r, status)
            IN  q.call = r.call /\ q.events = r.events /\ q.listed = r.listed
         /\ LET q == [Answered(r, status) EXCEPT !.found = found, !.version = version]
            IN  q.call = r.call /\ q.events = r.events /\ q.listed = r.listed
         /\ LET q == [Answered(r, status) EXCEPT !.found = found]
            IN  q.call = r.call /\ q.events = r.events /\ q.listed = r.listed
         /\ LET q == [Answered(r, status) EXCEPT !.version = version]
            IN  q.call = r.call /\ q.events = r.events /\ q.listed = r.listed
         /\ LET q == [Answered(r, status) EXCEPT !.listed = listed, !.found = found]
            IN  /\ q.call = r.call /\ q.events = r.events /\ q.stage = "done"
                /\ q.listed = listed /\ q.found = found
<1>1. PICK a : a = Answered(r, status)
  OBVIOUS
<1>2. /\ DOMAIN a = Fields /\ a.call = r.call /\ a.events = r.events
      /\ a.listed = r.listed /\ a.stage = "done"
  BY <1>1 DEF Answered, Fields
<1>. QED
  BY <1>1, <1>2 DEF Fields

-----------------------------------------------------------------------------
(***************************************************************************)
(* The actions.                                                            *)
(***************************************************************************)
(* Time passes in whole steps. *)
LEMMA NowIsNumber ==
  ASSUME ServiceInv
  PROVE  Now \in Nat
<1>1. Len(requests) \in Nat
  BY DEF ServiceInv, IsList
<1>2. StartTime \in Nat
  BY ServiceAssumption, Zenon
<1>. QED
  BY <1>1, <1>2 DEF Now

(* Sending a request. *)
LEMMA SendQueries ==
  ASSUME ServiceInv, QueryInv, NEW k \in DOMAIN Traffic[app], Send(k)
  PROVE  QueryInv'
<1>1. PICK sent, r : sent = Traffic[app][k] /\ r = Asking(sent)
  OBVIOUS
<1>2. requests' = Append(requests, r) /\ UNCHANGED <<deployment, streams, table>>
  BY <1>1 DEF Send
<1>3. r.call = sent.call /\ r.events = <<>> /\ r.listed = {}
  BY <1>1 DEF Asking
<1>4. Typed(sent.call)
  BY <1>1, QueryAssumption DEF ServiceInv
<1>5. QueryGood(r)
  BY <1>3, <1>4 DEF QueryGood, QueryRight, AllDated
<1>. QED
  BY <1>2, <1>5, QueryAppended DEF Deployed, deployment

(* Reading summaries where they are. *)
LEMMA BrowseQueries ==
  ASSUME ServiceInv, QueryInv, NEW k \in DOMAIN Traffic[app], Browse(k)
  PROVE  QueryInv'
<1>1. PICK sent, call, a : sent = Traffic[app][k] /\ call = sent.call /\ a = Asking(sent)
  OBVIOUS
<1> DEFINE misfit == call.op # "none" /\ ~ValuesFit(call.op, call.values)
           found == IF misfit THEN <<>> ELSE FoundIds(Browsed(call))
           listed == IF call.name = "GetOrderSummary" THEN {} ELSE Listed(call)
<1>2. PICK r : r = [a EXCEPT !.stage = "done", !.status = IF misfit THEN 500 ELSE 200,
                             !.listed = listed, !.found = found]
  OBVIOUS
<1>3. /\ call.name \in Direct /\ requests' = Append(requests, r)
      /\ UNCHANGED <<deployment, streams, table>>
  BY <1>1, <1>2 DEF Browse
<1>4. misfit => r.status = 500
  <2>1. DOMAIN a = Fields
    BY <1>1 DEF Asking, Fields
  <2> HIDE DEF misfit, found, listed
  <2>. QED
    BY <1>2, <2>1 DEF Fields
<1>5. /\ r.call = call /\ r.events = <<>> /\ r.stage = "done"
      /\ r.listed = listed /\ r.found = found
  <2>1. DOMAIN a = Fields /\ a.call = call /\ a.events = <<>>
    BY <1>1 DEF Asking, Fields
  <2> HIDE DEF misfit, found, listed
  <2>. QED
    BY <1>2, <2>1 DEF Fields
<1>6. Typed(call)
  BY <1>1, QueryAssumption DEF ServiceInv
<1>7. QueryRight(r)
  <2>1. CASE misfit
    BY <1>4, <2>1 DEF QueryRight
  <2>2. CASE call.name = "GetOrderSummary"
    BY <1>5, <2>2 DEF QueryRight
  <2>3. CASE ~misfit /\ call.name # "GetOrderSummary"
    <3>1. /\ r.found = FoundIds(Browsed(r.call)) /\ r.listed = Listed(r.call)
          /\ r.call.op = "none" \/ ValuesFit(r.call.op, r.call.values)
      BY <1>5, <2>3
    <3>2. r.call.name \in SummariesByState \cup SummariesByCustomer
      BY <1>3, <1>5, <2>3 DEF Direct
    <3>3. app = "order"
      <4>1. app \in Apps /\ call.name \in Calls[app]
        BY <1>1, ServiceAssumption DEF ServiceInv
      <4>2. app # "sample" /\ app # "samplenosnapshot"
        BY <1>3, <4>1 DEF Calls, Direct, SummariesByState, SummariesByCustomer,
           S!CommandNames, N!CommandNames
      <4>. QED
        BY <4>1, <4>2, Applications
    <3> HIDE DEF misfit, found, listed
    <3>. QED
      BY <1>5, <1>6, <3>1, <3>2, <3>3, BrowseServed DEF ServiceInv, QueryInv
  <2>. QED
    BY <2>1, <2>2, <2>3
<1>8. QueryGood(r)
  <2> HIDE DEF misfit, found, listed
  <2>. QED
    BY <1>5, <1>6, <1>7 DEF QueryGood, AllDated
<1>. QED
  BY <1>3, <1>8, QueryAppended DEF Deployed, deployment

(* A save that fails. *)
LEMMA SaveFailsQueries ==
  ASSUME ServiceInv, QueryInv, NEW i \in DOMAIN requests, SaveFails(i)
  PROVE  QueryInv'
<1>1. PICK r, a : r = requests[i] /\ a = Answered(r, 500)
  OBVIOUS
<1>2. r.stage = "saving" /\ Become(i, a) /\ UNCHANGED <<deployment, streams, table>>
  BY <1>1 DEF SaveFails
<1>3. DOMAIN r = Fields /\ QueryGood(r)
  BY <1>1 DEF ServiceInv, GoodRequest, QueryInv
<1>4. a.call = r.call /\ a.events = r.events /\ a.listed = {}
  BY <1>1, <1>2, <1>3, AnsweredLists DEF QueryGood
<1>5. QueryGood(a)
  BY <1>3, <1>4, QuietGood DEF QueryGood
<1>. QED
  BY <1>2, <1>5, QueryBecomes DEF QueryInv, Deployed, deployment

(* A save: the stream has the events of one more command. *)
LEMMA SaveQueries ==
  ASSUME ServiceInv, QueryInv, NEW i \in DOMAIN requests, NEW lost, Save(i, lost)
  PROVE  QueryInv'
<1>1. PICK r, a : r = requests[i] /\ a = SavedAs(r, lost)
  OBVIOUS
<1>2. /\ r.stage = "saving" /\ Become(i, a) /\ UNCHANGED <<deployment, table>>
      /\ streams' = [streams EXCEPT ![r.call.id] = @ \o r.events]
  BY <1>1 DEF Save, SavedAs
<1>3. GoodRequest(r) /\ QueryGood(r)
  BY <1>1 DEF ServiceInv, QueryInv
<1>4. a.call = r.call /\ a.events = r.events /\ a.listed = {}
  <2>1. DOMAIN r = Fields /\ r.listed = {}
    BY <1>2, <1>3 DEF GoodRequest, QueryGood
  <2>2. CASE lost
    BY <1>1, <2>1, <2>2, AnsweredLists DEF SavedAs
  <2>3. CASE ~lost
    BY <1>1, <2>1, <2>3 DEF SavedAs, Fields
  <2>. QED
    BY <2>2, <2>3
<1>5. QueryGood(a)
  BY <1>3, <1>4, QuietGood DEF QueryGood
<1>6. r.call.id \in Ids /\ IsList(r.events)
  BY <1>2, <1>3 DEF GoodRequest, Decided
<1>7. AllDated(streams[r.call.id] \o r.events)
  BY <1>3, <1>6, JoinDated DEF QueryGood, QueryInv, ServiceInv, GoodStream
<1>8. \A id \in Ids : AllDated(streams'[id])
  BY <1>2, <1>6, <1>7 DEF QueryInv, ServiceInv
<1>9. IndexedTable(table')
  BY <1>2 DEF QueryInv
<1>. QED
  BY <1>1, <1>2, <1>5, <1>8, <1>9, QueryBecomes DEF Deployed, deployment

(* The views of what was saved are put in the table. *)
LEMMA MaterializeQueries ==
  ASSUME ServiceInv, QueryInv, NEW i \in DOMAIN requests, NEW written, Materialize(i, written)
  PROVE  QueryInv'
<1>1. PICK r : r = requests[i]
  OBVIOUS
<1>2. PICK v : v = LastVersion(r.events)
  OBVIOUS
<1>3. PICK a : a = [Answered(r, 200) EXCEPT !.version = v]
  OBVIOUS
<1>4. PICK records : records = SubSeq(streams[r.call.id], 1, v)
  OBVIOUS
<1>5. PICK views : views = Views(r.call.id, records)
  OBVIOUS
<1>6. /\ r.stage = "saved" /\ table' = PutAll(table, views, written, Now)
      /\ Become(i, a) /\ UNCHANGED <<deployment, streams>>
  BY <1>1, <1>2, <1>3, <1>4, <1>5 DEF Materialize
<1>7. GoodRequest(r) /\ Stored(r) /\ QueryGood(r)
  BY <1>1, <1>6 DEF ServiceInv, GoodRequest, Stored, QueryInv
<1>8. QueryGood(a)
  <2>1. a.call = r.call /\ a.events = r.events /\ a.listed = {}
    BY <1>3, <1>6, <1>7, AnsweredLists DEF GoodRequest, QueryGood
  <2>. QED
    BY <1>7, <2>1, QuietGood DEF QueryGood
<1>9. PICK s, n : s = streams[r.call.id] /\ n = Len(s)
  OBVIOUS
<1>10. /\ r.call.id \in Ids /\ GoodStream(s) /\ AllDated(s)
       /\ n \in Nat /\ DOMAIN s = 1..n /\ v \in 1..n
  <2>1. r.call.id \in Ids
    BY <1>7 DEF GoodRequest, Decided, Stored
  <2>2. GoodStream(s) /\ AllDated(s)
    BY <1>9, <2>1 DEF ServiceInv, QueryInv
  <2>3. v \in 1..n
    BY <1>2, <1>7, <1>9, LastStored
  <2>. QED
    BY <1>9, <2>1, <2>2, <2>3, ListFacts DEF GoodStream
<1>11. records = [k \in 1..v |-> s[k]]
  BY <1>4, <1>9, <1>10 DEF SubSeq
<1>12. IsList(records) /\ Len(records) = v /\ DOMAIN records = 1..v
  <2>1. v \in Nat
    BY <1>10
  <2>2. Len(records) = v /\ DOMAIN records = 1..v
    BY <1>11, <2>1
  <2>3. \A k \in 1..v : records[k] = s[k]
    BY <1>11
  <2>. QED
    BY <1>11, <2>1, <2>2, <2>3 DEF IsList
<1>13. \A k \in DOMAIN records : Replayable(records[k]) /\ Dated(records[k])
  BY <1>10, <1>11, <1>12 DEF GoodStream, AllDated
<1>14. HasQueries => \A k \in DOMAIN views : Filed(views[k])
  <2>1. Len(records) # 0
    BY <1>10, <1>12
  <2>2. AllDated(records)
    BY <1>13 DEF AllDated
  <2>. QED
    BY <1>5, <1>12, <1>13, <2>1, <2>2, ViewsFiled
<1>15. IsList(views)
  BY <1>5, ViewsGood DEF ServiceInv
<1>16. IndexedTable(table')
  BY <1>6, <1>14, <1>15, PutAllIndexed DEF QueryInv
<1>17. \A id \in Ids : AllDated(streams'[id])
  BY <1>6 DEF QueryInv
<1>. QED
  BY <1>1, <1>6, <1>8, <1>16, <1>17, QueryBecomes DEF Deployed, deployment

(* The events of a command bear numbers: it was decided on events that do. *)
LEMMA ApplyQueries ==
  ASSUME ServiceInv, QueryInv, NEW r, GoodRequest(r), QueryGood(r), r.stage = "sent",
         r.call.name \in CommandNames, NEW cmd, cmd.name = r.call.name, cmd.arg = r.call.arg,
         NEW fails
  PROVE  QueryGood(Apply(r, cmd, fails))
<1>1. PICK records, error :
        /\ records = IF fails THEN <<>> ELSE Stream(cmd.id)
        /\ error = FirstError(Errors(cmd, records))
  OBVIOUS
<1>2. PICK q : q = Apply(r, cmd, fails)
  OBVIOUS
<1>3. DOMAIN r = Fields /\ AllDated(r.events) /\ r.listed = {}
  BY DEF GoodRequest, QueryGood
<1>4. ASSUME NEW status PROVE QueryGood(Answered(r, status))
  <2>1. PICK a : a = Answered(r, status)
    OBVIOUS
  <2>2. a.call = r.call /\ a.events = r.events /\ a.listed = {}
    BY <1>3, <2>1, AnsweredLists
  <2>. QED
    BY <1>3, <2>1, <2>2, QuietGood
<1>5. CASE cmd.id = <<>>
  <2>1. q = Answered(r, commandErrorResponse("ErrEmptyAggregateId").status)
    BY <1>2, <1>5 DEF Apply
  <2>. QED
    BY <1>2, <1>4, <2>1
<1>6. CASE cmd.id # <<>> /\ error = "ErrSkip"
  <2>1. q = [Answered(r, 200) EXCEPT !.version = Len(records)]
    BY <1>1, <1>2, <1>6 DEF Apply
  <2>2. q.call = r.call /\ q.events = r.events /\ q.listed = {}
    BY <1>3, <2>1, AnsweredLists
  <2>. QED
    BY <1>2, <1>3, <2>2, QuietGood
<1>7. CASE cmd.id # <<>> /\ error # "ErrSkip" /\ error # "none"
  <2>1. q = Answered(r, commandErrorResponse(error).status)
    BY <1>1, <1>2, <1>7 DEF Apply
  <2>. QED
    BY <1>2, <1>4, <2>1
<1>8. CASE cmd.id # <<>> /\ error = "none"
  <2>1. q = [r EXCEPT !.stage = "saving", !.events = EmitEvents(cmd, records, Now)]
    BY <1>1, <1>2, <1>8 DEF Apply
  <2>2. q.call = r.call /\ q.listed = {} /\ q.events = EmitEvents(cmd, records, Now)
    BY <1>3, <2>1 DEF Fields
  <2>3. /\ IsList(records) /\ AllDated(records)
        /\ \A k \in DOMAIN records : records[k].version = k /\ Replayable(records[k])
    <3>1. CASE fails \/ cmd.id \notin Ids
      <4>1. records = <<>>
        BY <1>1, <3>1 DEF Stream
      <4>2. IsList(<<>>) /\ DOMAIN <<>> = {}
        BY DEF IsList
      <4>. QED
        BY <4>1, <4>2 DEF AllDated
    <3>2. CASE ~fails /\ cmd.id \in Ids
      <4>1. records = streams[cmd.id]
        BY <1>1, <3>2 DEF Stream
      <4>2. GoodStream(records) /\ AllDated(records)
        BY <3>2, <4>1 DEF ServiceInv, QueryInv
      <4>. QED
        BY <4>2 DEF GoodStream
    <3>. QED
      BY <3>1, <3>2
  <2>4. Timely(cmd)
    <3>1. app = "order" => cmd.name \in O!CommandNames
      BY DEF CommandNames, Of
    <3>2. ASSUME cmd.name = "Place" PROVE cmd.arg \in Nat
      <4>1. Typed(r.call) /\ r.call.name = "Place"
        BY <3>2 DEF QueryGood
      <4>2. r.call.arg \in Nat
        BY <4>1 DEF Typed
      <4>. QED
        BY <4>2
    <3>. QED
      BY <3>1, <3>2 DEF Timely
  <2>5. AllDated(EmitEvents(cmd, records, Now))
    BY <2>3, <2>4, NowIsNumber, EmitEventsDated DEF ServiceInv
  <2>. QED
    BY <1>2, <2>2, <2>5, QuietGood
<1>. QED
  BY <1>5, <1>6, <1>7, <1>8

(* The reads of one aggregate list nothing. *)
LEMMA ReadsQueries ==
  ASSUME NEW r, GoodRequest(r), QueryGood(r), r.stage = "sent", NEW id, NEW fails
  PROVE  /\ QueryGood(Load(r, id, fails))
         /\ QueryGood(History(r, id, fails))
         /\ QueryGood(Get(r, id, fails))
<1>1. DOMAIN r = Fields /\ AllDated(r.events) /\ r.listed = {}
  BY DEF GoodRequest, QueryGood
<1>2. ASSUME NEW status PROVE QueryGood(Answered(r, status))
  <2>1. PICK a : a = Answered(r, status)
    OBVIOUS
  <2>2. a.call = r.call /\ a.events = r.events /\ a.listed = {}
    BY <1>1, <2>1, AnsweredLists
  <2>. QED
    BY <1>1, <2>1, <2>2, QuietGood
<1>3. ASSUME NEW found, NEW version
      PROVE  QueryGood([Answered(r, 200) EXCEPT !.found = found, !.version = version])
  <2>1. PICK a : a = [Answered(r, 200) EXCEPT !.found = found, !.version = version]
    OBVIOUS
  <2>2. a.call = r.call /\ a.events = r.events /\ a.listed = {}
    BY <1>1, <2>1, AnsweredLists
  <2>. QED
    BY <1>1, <2>1, <2>2, QuietGood
<1>4. ASSUME NEW found PROVE QueryGood([Answered(r, 200) EXCEPT !.found = found])
  <2>1. PICK a : a = [Answered(r, 200) EXCEPT !.found = found]
    OBVIOUS
  <2>2. a.call = r.call /\ a.events = r.events /\ a.listed = {}
    BY <1>1, <2>1, AnsweredLists
  <2>. QED
    BY <1>1, <2>1, <2>2, QuietGood
<1>5. QueryGood(Load(r, id, fails))
  BY <1>2, <1>3 DEF Load
<1>6. QueryGood(History(r, id, fails))
  BY <1>2, <1>3 DEF History
<1>7. QueryGood(Get(r, id, fails))
  BY <1>2, <1>4 DEF Get
<1>. QED
  BY <1>5, <1>6, <1>7

(* A query that is answered is answered right. *)
LEMMA QueryAnswered ==
  ASSUME ServiceInv, QueryInv, NEW r, GoodRequest(r), QueryGood(r), r.stage = "sent",
         HasQueries, NEW reply, Queried(reply, r.call), NEW fails
  PROVE  QueryGood(Query(r, reply, fails))
<1>1. /\ DOMAIN r = Fields /\ AllDated(r.events) /\ r.listed = {}
      /\ r.call.name \notin Direct /\ Typed(r.call)
  BY DEF GoodRequest, QueryGood
<1>2. CASE fails
  <2>1. PICK a : a = Answered(r, 500)
    OBVIOUS
  <2>2. a.call = r.call /\ a.events = r.events /\ a.listed = {}
    BY <1>1, <2>1, AnsweredLists
  <2>3. QueryGood(a)
    BY <1>1, <2>2, QuietGood
  <2>. QED
    BY <1>2, <2>1, <2>3 DEF Query
<1>3. CASE ~fails
  <2>1. PICK listed, found :
          /\ listed = Listed(r.call)
          /\ found = FoundIds(Of(O!OrderQuery(cloud, table, reply, Now),
                                 S!SampleQuery(cloud, table, reply, Now), <<>>))
    OBVIOUS
  <2>2. PICK q : q = [Answered(r, 200) EXCEPT !.listed = listed, !.found = found]
    OBVIOUS
  <2>3. Query(r, reply, fails) = q
    BY <1>3, <2>1, <2>2 DEF Query
  <2>4. /\ q.call = r.call /\ q.events = r.events /\ q.stage = "done"
        /\ q.listed = listed /\ q.found = found
    BY <1>1, <2>2, AnsweredLists
  <2>5. QueryRight(q)
    <3>1. q.call.name \notin Direct /\ q.listed = Listed(q.call) /\ Queried(reply, q.call)
      BY <1>1, <2>1, <2>4
    <3>2. PICK now : now = Now
      OBVIOUS
    <3>3. q.found = FoundIds(Of(O!OrderQuery(cloud, table, reply, now),
                                S!SampleQuery(cloud, table, reply, now), <<>>))
      BY <2>1, <2>4, <3>2
    <3>. QED
      BY <3>1, <3>3, QueryServed DEF ServiceInv, QueryInv
  <2>6. QueryGood(q)
    BY <1>1, <2>4, <2>5 DEF QueryGood
  <2>. QED
    BY <2>3, <2>6
<1>. QED
  BY <1>2, <1>3

(* A request reaches its handler. *)
LEMMA ServeQueries ==
  ASSUME ServiceInv, QueryInv, NEW i \in DOMAIN requests, NEW fault, Serve(i, fault)
  PROVE  QueryInv'
<1>1. PICK r, reply, fails :
        r = requests[i] /\ reply = Handled(r, fault) /\ fails = (fault = "store")
  OBVIOUS
<1>2. PICK q : q = CASE reply.do = "answer"  -> Answered(r, reply.status)
                     [] reply.do = "apply"   -> Apply(r, reply.cmd, fails)
                     [] reply.do = "load"    -> Load(r, reply.id, fails)
                     [] reply.do = "history" -> History(r, reply.id, fails)
                     [] reply.do = "get"     -> Get(r, reply.id, fails)
                     [] reply.do = "query"   -> Query(r, reply, fails)
  OBVIOUS
<1>3. r.stage = "sent" /\ Become(i, q) /\ UNCHANGED <<deployment, streams, table>>
  BY <1>1, <1>2 DEF Serve
<1>4. /\ GoodRequest(r) /\ QueryGood(r) /\ app \in Apps /\ authorizer \in Authorizers
  BY <1>1 DEF ServiceInv, QueryInv
<1>5. /\ GoodCall(r.call) /\ r.call.name \notin Direct /\ Client(r.call, Claimed) # Unsent
      /\ Typed(r.call)
  BY <1>3, <1>4 DEF GoodRequest, QueryGood
<1>6. HandledAs(reply, r.call)
  BY <1>1, <1>4, <1>5, HandledGood
<1>7. /\ reply.do = "query" => HasQueries /\ Queried(reply, r.call)
      /\ reply.do = "apply" /\ r.call.name \in CommandNames => reply.cmd.arg = r.call.arg
  BY <1>1, <1>4, <1>5, HandledPassed
<1>8. QueryGood(q)
  <2>1. CASE reply.do = "answer"
    <3>1. q = Answered(r, reply.status)
      BY <1>2, <2>1
    <3>2. q.call = r.call /\ q.events = r.events /\ q.listed = {}
      BY <1>3, <1>4, <3>1, AnsweredLists DEF GoodRequest, QueryGood
    <3>. QED
      BY <1>4, <3>2, QuietGood DEF QueryGood
  <2>2. CASE reply.do = "apply"
    <3>1. q = Apply(r, reply.cmd, fails)
      BY <1>2, <2>2
    <3>2. /\ r.call.name \in CommandNames /\ reply.cmd.name = r.call.name
          /\ reply.cmd.arg = r.call.arg
      BY <1>6, <1>7, <2>2 DEF HandledAs
    <3>. QED
      BY <1>3, <1>4, <3>1, <3>2, ApplyQueries
  <2>3. CASE reply.do = "load"
    BY <1>2, <1>3, <1>4, <2>3, ReadsQueries
  <2>4. CASE reply.do = "history"
    BY <1>2, <1>3, <1>4, <2>4, ReadsQueries
  <2>5. CASE reply.do = "get"
    BY <1>2, <1>3, <1>4, <2>5, ReadsQueries
  <2>6. CASE reply.do = "query"
    BY <1>2, <1>3, <1>4, <1>7, <2>6, QueryAnswered
  <2>. QED
    BY <1>6, <2>1, <2>2, <2>3, <2>4, <2>5, <2>6 DEF HandledAs
<1>. QED
  BY <1>3, <1>8, QueryBecomes DEF QueryInv, Deployed, deployment

(* The start. *)
LEMMA QueryInit ==
  ASSUME Init
  PROVE  QueryInv
<1>1. app \in Apps /\ streams = [id \in Ids |-> Seeded(id)] /\ requests = <<>>
  BY DEF Init
<1>2. \A id \in Ids : AllDated(streams[id])
  BY <1>1, SeededDated
<1>3. IndexedTable(table)
  <2>1. PICK X : X = {id \in Ids : Seeded(id) # <<>>}
    OBVIOUS
  <2>2. IsFiniteSet(X)
    BY <2>1, FS_Subset, ServiceAssumption
  <2>3. PICK ids : ids = SetToSeq(X)
    OBVIOUS
  <2>4. Len(ids) \in Nat /\ \A k \in 1..Len(ids) : ids[k] \in X
    BY <2>2, <2>3, SetToSeqLen
  <2>5. table = SeededTable(ids)
    BY <2>1, <2>3 DEF Init
  <2>6. \A k \in 1..Len(ids) : Seeded(ids[k]) # <<>>
    BY <2>1, <2>4
  <2>. QED
    BY <1>1, <2>4, <2>5, <2>6, SeededTableIndexed
<1>4. DOMAIN requests = {}
  BY <1>1
<1>. QED
  BY <1>2, <1>3, <1>4 DEF QueryInv

(* Every step. *)
LEMMA QueryNext ==
  ASSUME ServiceInv, QueryInv, [Next]_vars
  PROVE  QueryInv'
<1>1. CASE UNCHANGED vars
  <2>1. Deployed /\ UNCHANGED <<streams, table, requests>>
    BY <1>1 DEF vars, Deployed
  <2>2. (\A id \in Ids : AllDated(streams[id]))' /\ IndexedTable(table)'
    BY <2>1, QueryStays DEF QueryInv
  <2>3. (\A i \in DOMAIN requests : QueryGood(requests[i]))'
    BY <2>1, QueryStays DEF QueryInv
  <2>. QED
    BY <2>2, <2>3 DEF QueryInv
<1>2. ASSUME NEW k \in DOMAIN Traffic[app], Send(k) PROVE QueryInv'
  BY <1>2, SendQueries
<1>3. ASSUME NEW k \in DOMAIN Traffic[app], Browse(k) PROVE QueryInv'
  BY <1>3, BrowseQueries
<1>4. ASSUME NEW i \in DOMAIN requests, NEW fault, Serve(i, fault) PROVE QueryInv'
  BY <1>4, ServeQueries
<1>5. ASSUME NEW i \in DOMAIN requests, NEW lost, Save(i, lost) PROVE QueryInv'
  BY <1>5, SaveQueries
<1>6. ASSUME NEW i \in DOMAIN requests, SaveFails(i) PROVE QueryInv'
  BY <1>6, SaveFailsQueries
<1>7. ASSUME NEW i \in DOMAIN requests, NEW written, Materialize(i, written)
      PROVE  QueryInv'
  BY <1>7, MaterializeQueries
<1>. QED
  BY <1>1, <1>2, <1>3, <1>4, <1>5, <1>6, <1>7 DEF Next

-----------------------------------------------------------------------------
(***************************************************************************)
(* The theorems.                                                           *)
(***************************************************************************)
(* Whatever becomes of requests and views, the events of every stream bear *)
(* numbers, and the items of the table are indexed by what they say.       *)
THEOREM QueryInvariant == Spec => []QueryInv
<1>1. Init => QueryInv
  BY QueryInit
<1>2. ServiceInv /\ QueryInv /\ [Next]_vars => QueryInv'
  BY QueryNext
<1>. QED
  BY <1>1, <1>2, ServiceInvariant, PTL DEF Spec

(* A query, of the service or of the table, finds the views that are in    *)
(* its range, each once and oldest first, in either cloud.  The order is   *)
(* that of decimals as strings (StoreQuery on sort keys that are strings): *)
(* of numbers with as many digits that of the numbers, of others that of   *)
(* the digits they begin with.                                             *)
THEOREM QueryMeetsConditionCorrect == Spec => []QueryMeetsCondition
<1>1. QueryInv => QueryMeetsCondition
  BY DEF QueryInv, QueryGood, QueryRight, FindsFit, FitOf, ByOf,
     QueryMeetsCondition
<1>. QED
  BY <1>1, QueryInvariant, PTL

=============================================================================
