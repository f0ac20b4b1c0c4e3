---------------------------- MODULE AmountProofs ----------------------------
(***************************************************************************)
(* Theorems about Amount, for every precision, every limit on digits and   *)
(* decimal places, and every length of the coefficient: the amount in the  *)
(* database is the one in the fingerprint, the form it is written in does  *)
(* not matter, and an amount of ordinary length fits the column.           *)
(*                                                                         *)
(* The operators are defined with powers of ten, CHOOSE, and division, so  *)
(* the proof first says what they return: a number has one length, one     *)
(* number of zeros at its end, and rounding moves it by half a unit at     *)
(* most.                                                                   *)
(***************************************************************************)
EXTENDS Amount, WellFoundedInduction, TLAPS

(* Products and quotients of numbers that the provers see as opaque. *)

LEMMA Product ==
    ASSUME NEW x \in Nat, NEW y \in Nat, NEW z \in Nat
    PROVE  /\ x * y \in Nat /\ x * y = y * x /\ x * (y * z) = (x * y) * z
           /\ x * 1 = x
           /\ x # 0 /\ y # 0 => x * y # 0 
           /\ y # 0 => x <= x * y
           /\ x < y /\ z # 0 => x * z < y * z
           /\ x <= y => x * z <= y * z
  OBVIOUS

LEMMA Products ==
    ASSUME NEW x \in Nat, NEW f \in Nat, NEW g \in Nat, NEW h \in Nat
    PROVE  (x * f) * (g * h) = (x * (f * h)) * g
  OBVIOUS

\* Quotient and remainder, and that they are the only ones.
LEMMA Division ==
    ASSUME NEW a \in Nat, NEW b \in Nat \ {0}
    PROVE  /\ a \div b \in Nat /\ a % b \in Nat
           /\ a % b < b /\ a = b * (a \div b) + (a % b)
<1>1. a % b \in Nat /\ a % b < b /\ a = b * (a \div b) + (a % b) /\ a \div b \in Int
  OBVIOUS
<1>2. \A q \in Int : b * q + b > 0 => q >= 0
  OBVIOUS
<1>3. b * (a \div b) + b > 0
  <2>1. \A y, r \in Int : a = y + r /\ r < b => y + b > 0
    OBVIOUS
  <2>2. b * (a \div b) \in Int
    BY <1>1
  <2>3. QED
    BY <1>1, <2>1, <2>2
<1>4. QED
  BY <1>1, <1>2, <1>3

LEMMA Exact ==
    ASSUME NEW a \in Nat, NEW b \in Nat \ {0}, a % b = 0
    PROVE  a \div b \in Nat /\ a = b * (a \div b)
<1>1. \A x \in Nat : x + 0 = x
  OBVIOUS
<1>2. a \div b \in Nat /\ a = b * (a \div b) + 0
  BY Division
<1>3. b * (a \div b) \in Nat
  BY <1>2, Product
<1>4. QED
  BY <1>1, <1>2, <1>3

LEMMA Quotient ==
    ASSUME NEW b \in Nat \ {0}, NEW q \in Nat, NEW r \in Nat, r < b
    PROVE  (b * q + r) \div b = q /\ (b * q + r) % b = r
  OBVIOUS

\* A common factor leaves the quotient and multiplies the remainder.
LEMMA Scaled ==
    ASSUME NEW a \in Nat, NEW b \in Nat \ {0}, NEW t \in Nat \ {0}
    PROVE  (a * t) \div (b * t) = a \div b /\ (a * t) % (b * t) = (a % b) * t
<1> DEFINE q == a \div b
           r == a % b
<1>1. q \in Nat /\ r \in Nat /\ r < b /\ a = b * q + r
  BY Division
<1> HIDE DEF q, r
<1>2. a * t = (b * t) * q + r * t
  <2>1. \A x, y, z, w \in Nat : (x * y + z) * w = (x * w) * y + z * w
    OBVIOUS
  <2>2. QED
    BY <1>1, <2>1
<1>3. b * t \in Nat \ {0} /\ r * t \in Nat /\ r * t < b * t
  <2>1. \A x, y, z \in Nat : x < y /\ z # 0 => x * z \in Nat /\ y * z \in Nat \ {0} /\ x * z < y * z
    OBVIOUS
  <2>2. QED
    BY <1>1, <2>1
<1> DEFINE u == a * t
           v == b * t
           w == r * t
<1>4. u = v * q + w /\ v \in Nat \ {0} /\ w \in Nat /\ w < v
  BY <1>2, <1>3
<1> HIDE DEF u, v, w
<1>5. u \div v = q /\ u % v = w
  BY <1>1, <1>4, Quotient
<1>6. QED
  BY <1>5, Zenon DEF q, r, u, v, w

LEMMA Multiple ==
    ASSUME NEW y \in Nat, NEW s \in Nat \ {0}
    PROVE  (y * s) % s = 0 /\ (y * s) \div s = y /\ y * s \in Nat
<1>1. y * s = s * y + 0
  OBVIOUS
<1>2. QED
  BY <1>1, Quotient
----------------------------------------------------------------------------
(* Powers of ten.  Induction is a statement about sets of numbers: a set   *)
(* that is closed under successors has no least number it leaves out.      *)

LEMMA LessWellFounded == IsWellFoundedOn({ss \in Nat \X Nat : ss[1] < ss[2]}, Nat)
  BY NatLessThanWellFounded DEF OpToRel

LEMMA Induction ==
    ASSUME NEW S, 0 \in S, \A n \in Nat : n \in S => n + 1 \in S
    PROVE  \A n \in Nat : n \in S
<1> DEFINE less == {ss \in Nat \X Nat : ss[1] < ss[2]}
           rest == Nat \ S
<1> SUFFICES ASSUME rest # {} PROVE FALSE
  OBVIOUS
<1>1. IsWellFoundedOn(less, Nat)
  BY LessWellFounded
<1>2. rest \subseteq Nat
  OBVIOUS
<1> HIDE DEF less, rest
<1>3. PICK x \in rest : \A y \in rest : <<y, x>> \notin less
  BY <1>1, <1>2, WFMin, Zenon
<1>4. x # 0 /\ x \in Nat
  BY DEF rest
<1>5. x - 1 \in Nat /\ <<x - 1, x>> \in less
  BY <1>4 DEF less
<1>6. x - 1 \in S
  BY <1>3, <1>5 DEF rest
<1>7. QED
  BY <1>3, <1>4, <1>5, <1>6 DEF rest

\* The tables of the powers of ten up to the n-th: there is exactly one.
Tables(n) ==
    {t \in [0 .. n -> Nat \ {0}] : t[0] = 1 /\ \A i \in 1 .. n : t[i] = 10 * t[i - 1]}

LEMMA TablesAgree ==
    \A n, m \in Nat, k \in Nat :
        \A s \in Tables(n), t \in Tables(m) : k <= n /\ k <= m => s[k] = t[k]
<1> SUFFICES ASSUME NEW n \in Nat, NEW m \in Nat, NEW s \in Tables(n), NEW t \in Tables(m)
             PROVE  \A k \in Nat : k <= n /\ k <= m => s[k] = t[k]
  OBVIOUS
<1> DEFINE same == {k \in Nat : k <= n /\ k <= m => s[k] = t[k]}
<1>1. 0 \in same
  BY DEF Tables
<1>2. ASSUME NEW k \in Nat, k \in same PROVE k + 1 \in same
  <2> SUFFICES ASSUME k + 1 <= n, k + 1 <= m PROVE s[k + 1] = t[k + 1]
    OBVIOUS
  <2>1. s[k] = t[k] /\ k + 1 \in 1 .. n /\ k + 1 \in 1 .. m /\ (k + 1) - 1 = k
    BY <1>2
  <2>2. s[k + 1] = 10 * s[k] /\ t[k + 1] = 10 * t[k]
    BY <2>1 DEF Tables
  <2>3. QED
    BY <2>1, <2>2
<1> HIDE DEF same
<1>3. \A k \in Nat : k \in same
  BY <1>1, <1>2, Induction
<1>4. QED
  BY <1>3 DEF same

LEMMA TablesExist == \A n \in Nat : Tables(n) # {}
<1> DEFINE tabled == {n \in Nat : Tables(n) # {}}
<1>1. 0 \in tabled
  <2> DEFINE t == [i \in 0 .. 0 |-> 1]
  <2>1. t \in Tables(0)
    BY DEF Tables
  <2>2. QED
    BY <2>1
<1>2. ASSUME NEW n \in Nat, n \in tabled PROVE n + 1 \in tabled
  <2>1. PICK s \in Tables(n) : TRUE
    BY <1>2
  <2> DEFINE t == [i \in 0 .. n + 1 |-> IF i = n + 1 THEN 10 * s[n] ELSE s[i]]
  <2>2. t \in [0 .. n + 1 -> Nat \ {0}]
    BY <2>1 DEF Tables
  <2>3. t[0] = 1
    BY <2>1 DEF Tables
  <2>4. ASSUME NEW i \in 1 .. n + 1 PROVE t[i] = 10 * t[i - 1]
    <3>1. CASE i = n + 1
      BY <3>1
    <3>2. CASE i # n + 1
      <4>1. i \in 1 .. n /\ i - 1 \in 0 .. n
        BY <3>2
      <4>2. t[i] = s[i] /\ t[i - 1] = s[i - 1]
        BY <4>1
      <4>3. QED
        BY <2>1, <4>1, <4>2 DEF Tables
    <3>3. QED
      BY <3>1, <3>2
  <2>5. t \in Tables(n + 1)
    BY <2>2, <2>3, <2>4 DEF Tables
  <2>6. QED
    BY <2>5
<1> HIDE DEF tabled
<1>3. \A n \in Nat : n \in tabled
  BY <1>1, <1>2, Induction
<1>4. QED
  BY <1>3 DEF tabled

\* The recursive definition of Pow10 defines it.
LEMMA PowersOfTen ==
    /\ Pow10 \in [Nat -> Nat \ {0}]
    /\ Pow10[0] = 1
    /\ \A n \in Nat : Pow10[n + 1] = 10 * Pow10[n]
<1> DEFINE last(n) == (CHOOSE t \in Tables(n) : TRUE)[n]
           f == [n \in Nat |-> last(n)]
<1>1. ASSUME NEW n \in Nat PROVE (CHOOSE t \in Tables(n) : TRUE) \in Tables(n)
  BY TablesExist
<1>2. f \in [Nat -> Nat \ {0}]
  <2>1. ASSUME NEW n \in Nat, NEW t \in Tables(n) PROVE t[n] \in Nat \ {0}
    BY DEF Tables
  <2>2. ASSUME NEW n \in Nat PROVE last(n) \in Nat \ {0}
    BY <1>1, <2>1
  <2>3. QED
    BY <2>2
<1>3. f[0] = 1
  <2>1. last(0) = 1
    BY <1>1 DEF Tables
  <2>2. QED
    BY <2>1
<1>4. ASSUME NEW n \in Nat PROVE f[n + 1] = 10 * f[n]
  <2> DEFINE s == CHOOSE t \in Tables(n) : TRUE
             u == CHOOSE t \in Tables(n + 1) : TRUE
  <2>1. s \in Tables(n) /\ u \in Tables(n + 1)
    BY <1>1
  <2>2. f[n] = s[n] /\ f[n + 1] = u[n + 1]
    OBVIOUS
  <2> HIDE DEF s, u, f
  <2>3. u[n] = s[n]
    BY <2>1, TablesAgree
  <2>4. u[n + 1] = 10 * u[n]
    <3>1. n + 1 \in 1 .. n + 1 /\ (n + 1) - 1 = n
      OBVIOUS
    <3>2. u[n + 1] = 10 * u[(n + 1) - 1]
      BY <2>1, <3>1 DEF Tables
    <3>3. QED
      BY <3>1, <3>2
  <2>5. QED
    BY <2>2, <2>3, <2>4
<1> HIDE DEF f
<1>5. f = [n \in Nat |-> IF n = 0 THEN 1 ELSE 10 * f[n - 1]]
  <2>1. ASSUME NEW n \in Nat PROVE f[n] = IF n = 0 THEN 1 ELSE 10 * f[n - 1]
    <3>1. CASE n = 0
      BY <1>3, <3>1
    <3>2. CASE n # 0
      <4>1. n - 1 \in Nat /\ (n - 1) + 1 = n
        BY <3>2
      <4>2. f[(n - 1) + 1] = 10 * f[n - 1]
        BY <1>4, <4>1
      <4>3. QED
        BY <3>2, <4>1, <4>2
    <3>3. QED
      BY <3>1, <3>2
  <2>2. QED
    BY <1>2, <2>1
<1>6. Pow10 = [n \in Nat |-> IF n = 0 THEN 1 ELSE 10 * Pow10[n - 1]]
  BY <1>5, Zenon DEF Pow10
<1>7. Pow10[0] = 1
  BY <1>6
<1>8. ASSUME NEW n \in Nat PROVE Pow10[n + 1] = 10 * Pow10[n]
  BY <1>6
<1>9. \A n \in Nat : Pow10[n] = f[n]
  <2> DEFINE same == {n \in Nat : Pow10[n] = f[n]}
  <2>1. 0 \in same
    BY <1>3, <1>7
  <2>2. ASSUME NEW n \in Nat, n \in same PROVE n + 1 \in same
    BY <1>4, <1>8, <2>2
  <2> HIDE DEF same
  <2>3. \A n \in Nat : n \in same
    BY <2>1, <2>2, Induction
  <2>4. QED
    BY <2>3 DEF same
<1>10. Pow10 \in [Nat -> Nat \ {0}]
  <2>1. Pow10 = [n \in Nat |-> Pow10[n]]
    BY <1>6
  <2>2. \A n \in Nat : Pow10[n] \in Nat \ {0}
    BY <1>2, <1>9
  <2>3. QED
    BY <2>1, <2>2
<1>11. QED
  BY <1>7, <1>8, <1>10

\* The power of a sum is the product of the powers.
LEMMA PowersAdd ==
    ASSUME NEW m \in Nat, NEW n \in Nat
    PROVE  Pow10[m + n] = Pow10[m] * Pow10[n] /\ Pow10[m + n] \in Nat \ {0}
<1> DEFINE added == {k \in Nat : Pow10[m + k] = Pow10[m] * Pow10[k]}
<1>1. \A k \in Nat : Pow10[k] \in Nat \ {0}
  BY PowersOfTen
<1>2. 0 \in added
  <2>1. m + 0 = m /\ Pow10[m] * 1 = Pow10[m]
    BY <1>1
  <2>2. QED
    BY <2>1, PowersOfTen
<1>3. ASSUME NEW k \in Nat, k \in added PROVE k + 1 \in added
  <2>1. m + (k + 1) = (m + k) + 1 /\ m + k \in Nat
    OBVIOUS
  <2>2. Pow10[m + (k + 1)] = 10 * (Pow10[m] * Pow10[k]) /\ Pow10[k + 1] = 10 * Pow10[k]
    BY <1>3, <2>1, PowersOfTen
  <2>3. \A x, y \in Nat : 10 * (x * y) = x * (10 * y)
    OBVIOUS
  <2>4. Pow10[m] \in Nat /\ Pow10[k] \in Nat
    BY <1>1
  <2>5. Pow10[m + (k + 1)] = Pow10[m] * (10 * Pow10[k])
    BY <2>2, <2>3, <2>4
  <2>6. Pow10[m + (k + 1)] = Pow10[m] * Pow10[k + 1]
    BY <2>2, <2>5, Zenon
  <2>7. QED
    BY <2>6
<1> HIDE DEF added
<1>4. \A k \in Nat : k \in added
  BY <1>2, <1>3, Induction
<1>5. QED
  BY <1>1, <1>4 DEF added

LEMMA PowersSplit ==
    ASSUME NEW m \in Nat, NEW n \in Nat, m <= n
    PROVE  n - m \in Nat /\ Pow10[n - m] \in Nat \ {0} /\ Pow10[n] = Pow10[m] * Pow10[n - m]
<1> DEFINE k == n - m
<1>1. k \in Nat /\ n = m + k
  OBVIOUS
<1> HIDE DEF k
<1>2. Pow10[m + k] = Pow10[m] * Pow10[k] /\ Pow10[k] \in Nat \ {0}
  BY <1>1, PowersAdd, PowersOfTen
<1>3. k \in Nat /\ Pow10[k] \in Nat \ {0} /\ Pow10[n] = Pow10[m] * Pow10[k]
  BY <1>1, <1>2, Zenon
<1>4. QED
  BY <1>3, Zenon DEF k

\* Different powers of ten are at least ten apart.
LEMMA PowersGrow ==
    \A m, n \in Nat : m < n => 10 * Pow10[m] <= Pow10[n]
<1> SUFFICES ASSUME NEW m \in Nat, NEW n \in Nat, m < n
             PROVE  10 * Pow10[m] <= Pow10[n]
  OBVIOUS
<1> DEFINE t == Pow10[n - (m + 1)]
<1>1. t \in Nat \ {0} /\ Pow10[n] = Pow10[m + 1] * t
  <2>1. m + 1 \in Nat /\ m + 1 <= n
    OBVIOUS
  <2>2. QED
    BY <2>1, PowersSplit
<1> HIDE DEF t
<1>2. Pow10[m] \in Nat \ {0} /\ Pow10[m + 1] = 10 * Pow10[m]
  BY PowersOfTen
<1>3. \A x, y \in Nat \ {0} : 10 * x <= (10 * x) * y
  OBVIOUS
<1>4. QED
  BY <1>1, <1>2, <1>3

\* Powers of ten are in the order of their exponents.
LEMMA PowersOrdered ==
    ASSUME NEW m \in Nat, NEW n \in Nat, Pow10[m] < Pow10[n]
    PROVE  m < n
<1>1. Pow10[m] \in Nat \ {0} /\ Pow10[n] \in Nat \ {0}
  BY PowersOfTen
<1>2. CASE n < m
  <2>1. 10 * Pow10[n] <= Pow10[m]
    BY <1>2, PowersGrow
  <2>2. QED
    BY <1>1, <2>1
<1>3. CASE n = m
  BY <1>1, <1>3
<1>4. QED
  BY <1>2, <1>3
----------------------------------------------------------------------------
(* Digits and zeros.                                                       *)

\* The length of the longest coefficient the operators are asked about.
Longest == MaxLength + 3
Coefficient == 1 .. Pow10[Longest] - 1

LEMMA Bounds ==
    /\ Longest \in Nat /\ MaxLength \in Nat /\ MaxLength <= Longest
    /\ Precision \in Nat /\ MaxDigits \in Nat /\ Places \in Nat
    /\ 0 < Places /\ Places < MaxDigits /\ MaxDigits < Precision
    /\ Coefficient \subseteq Nat \ {0}
<1>1. Longest \in Nat /\ MaxLength \in Nat /\ MaxLength <= Longest
  BY AmountAssumption DEF Longest
<1>2. Pow10[Longest] \in Nat
  BY <1>1, PowersOfTen
<1>3. QED
  BY <1>1, <1>2, AmountAssumption DEF Coefficient

\* A number has one length.
LEMMA LengthIs ==
    ASSUME NEW c \in Nat, NEW n \in 1 .. Longest, Pow10[n - 1] <= c, c < Pow10[n]
    PROVE  Length(c) = n
<1> SUFFICES ASSUME NEW m \in 1 .. Longest, Pow10[m - 1] <= c, c < Pow10[m]
             PROVE  m = n
  BY DEF Length, Longest
<1>1. n \in Nat /\ m \in Nat /\ n - 1 \in Nat /\ m - 1 \in Nat
  BY Bounds
<1>2. Pow10[n - 1] < Pow10[m] /\ Pow10[m - 1] < Pow10[n]
  BY <1>1, PowersOfTen
<1>3. n - 1 < m /\ m - 1 < n
  BY <1>1, <1>2, PowersOrdered
<1>4. QED
  BY <1>1, <1>3

\* Every coefficient has a length.
LEMMA LengthExists ==
    ASSUME NEW c \in Coefficient
    PROVE  /\ Length(c) \in 1 .. Longest
           /\ Pow10[Length(c) - 1] <= c /\ c < Pow10[Length(c)]
<1> DEFINE below == {n \in Nat : c < Pow10[n] => \E l \in 1 .. n : Pow10[l - 1] <= c /\ c < Pow10[l]}
<1>1. c \in Nat \ {0}
  BY Bounds
<1>2. 0 \in below
  BY <1>1, PowersOfTen
<1>3. ASSUME NEW n \in Nat, n \in below PROVE n + 1 \in below
  <2> SUFFICES ASSUME c < Pow10[n + 1]
               PROVE  \E l \in 1 .. n + 1 : Pow10[l - 1] <= c /\ c < Pow10[l]
    OBVIOUS
  <2>1. CASE c < Pow10[n]
    BY <1>3, <2>1
  <2>2. CASE ~ (c < Pow10[n])
    <3>1. Pow10[n] \in Nat /\ (n + 1) - 1 = n /\ n + 1 \in 1 .. n + 1
      BY PowersOfTen
    <3>2. Pow10[(n + 1) - 1] <= c
      BY <1>1, <2>2, <3>1
    <3>3. QED
      BY <3>1, <3>2
  <2>3. QED
    BY <2>1, <2>2
<1> HIDE DEF below
<1>4. \A n \in Nat : n \in below
  BY <1>2, <1>3, Induction
<1>5. c < Pow10[Longest]
  <2>1. Pow10[Longest] \in Nat
    BY Bounds, PowersOfTen
  <2>2. QED
    BY <2>1 DEF Coefficient
<1>6. PICK l \in 1 .. Longest : Pow10[l - 1] <= c /\ c < Pow10[l]
  BY <1>4, <1>5, Bounds DEF below
<1>7. Length(c) = l
  BY <1>1, <1>6, LengthIs
<1>8. QED
  BY <1>6, <1>7

\* Zeros at the end count as digits.
LEMMA LengthTimes ==
    ASSUME NEW x \in Nat, NEW z \in Nat, x * Pow10[z] \in Coefficient
    PROVE  x \in Coefficient /\ Length(x * Pow10[z]) = Length(x) + z /\ Length(x) \in Nat \ {0}
<1>1. Pow10[z] \in Nat \ {0} /\ Pow10[Longest] \in Nat \ {0}
  BY Bounds, PowersOfTen
<1>2. x # 0 /\ x <= x * Pow10[z] /\ x * Pow10[z] < Pow10[Longest]
  <2>1. x * Pow10[z] # 0 /\ x * Pow10[z] < Pow10[Longest]
    BY <1>1 DEF Coefficient
  <2>2. \A a \in Nat, b \in Nat \ {0} : a <= a * b /\ 0 * b = 0
    OBVIOUS
  <2>3. QED
    BY <1>1, <2>1, <2>2
<1>3. x \in Coefficient
  BY <1>1, <1>2 DEF Coefficient
<1> DEFINE l == Length(x)
<1>4. l \in 1 .. Longest /\ Pow10[l - 1] <= x /\ x < Pow10[l]
  BY <1>3, LengthExists
<1> HIDE DEF l
<1>5. l \in Nat \ {0} /\ l - 1 \in Nat
  BY <1>4, Bounds
<1>6. /\ Pow10[(l - 1) + z] = Pow10[l - 1] * Pow10[z]
      /\ Pow10[l + z] = Pow10[l] * Pow10[z]
      /\ Pow10[l - 1] \in Nat \ {0} /\ Pow10[l] \in Nat \ {0}
  BY <1>5, PowersAdd, PowersOfTen
<1>7. /\ Pow10[(l - 1) + z] <= x * Pow10[z]
      /\ x * Pow10[z] < Pow10[l + z]
  <2>1. \A a, b, y \in Nat, t \in Nat \ {0} : a <= y /\ y < b => a * t <= y * t /\ y * t < b * t
    OBVIOUS
  <2>2. QED
    BY <1>1, <1>4, <1>6, <2>1
<1>8. l + z \in 1 .. Longest
  <2>1. Pow10[(l - 1) + z] < Pow10[Longest] /\ (l - 1) + z \in Nat
    BY <1>1, <1>2, <1>5, <1>6, <1>7
  <2>2. (l - 1) + z < Longest
    BY <2>1, Bounds, PowersOrdered
  <2>3. QED
    BY <1>5, <2>2, Bounds
<1>9. Length(x * Pow10[z]) = l + z
  <2>1. x * Pow10[z] \in Nat /\ (l + z) - 1 = (l - 1) + z
    BY <1>1, <1>5
  <2>2. QED
    BY <1>7, <1>8, <2>1, LengthIs
<1>10. QED
  BY <1>3, <1>5, <1>9 DEF l

\* A number that is not divisible by ten, and n zeros: it ends with n zeros.
LEMMA ZerosIs ==
    ASSUME NEW x \in Nat, x % 10 # 0, NEW n \in 0 .. Longest
    PROVE  Zeros(x * Pow10[n]) = n /\ (x * Pow10[n]) \div Pow10[n] = x
<1> DEFINE c == x * Pow10[n]
<1>1. n \in Nat /\ Pow10[n] \in Nat \ {0} /\ Pow10[n + 1] = 10 * Pow10[n]
  BY Bounds, PowersOfTen
<1>2. c % Pow10[n] = 0 /\ c \div Pow10[n] = x
  <2>1. \A t \in Nat \ {0} : (x * t) % t = 0 /\ (x * t) \div t = x
    OBVIOUS
  <2>2. QED
    BY <1>1, <2>1
<1>3. c % Pow10[n + 1] # 0
  <2>1. (x * Pow10[n]) % (10 * Pow10[n]) = (x % 10) * Pow10[n]
    <3>1. 10 \in Nat \ {0}
      OBVIOUS
    <3>2. QED
      BY <1>1, <3>1, Scaled, Zenon
  <2>2. x % 10 \in Nat \ {0}
    OBVIOUS
  <2>3. (x % 10) * Pow10[n] # 0
    BY <1>1, <2>2, Product
  <2>4. QED
    BY <1>1, <2>1, <2>3, Zenon
<1>4. ASSUME NEW m \in 0 .. Longest, c % Pow10[m] = 0, c % Pow10[m + 1] # 0
      PROVE  m = n
  <2>1. m \in Nat
    BY Bounds
  <2>2. CASE m < n
    <3> DEFINE s == Pow10[m + 1]
               t == Pow10[n - (m + 1)]
               y == x * t
    <3>1. m + 1 \in Nat /\ m + 1 <= n
      BY <1>1, <2>1, <2>2
    <3>2. s \in Nat \ {0} /\ t \in Nat \ {0} /\ Pow10[n] = s * t
      BY <1>1, <3>1, PowersOfTen, PowersSplit
    <3> HIDE DEF s, t
    <3>3. y \in Nat
      BY <3>2, Product
    <3>4. c = y * s
      <4>1. \A a, b \in Nat : x * (a * b) = (x * b) * a
        OBVIOUS
      <4>2. QED
        BY <3>2, <4>1
    <3> HIDE DEF y, c
    <3>5. c % s = 0
      BY <3>2, <3>3, <3>4, Multiple
    <3>6. QED
      BY <1>4, <3>5 DEF s
  <2>3. CASE n < m
    <3> DEFINE s == Pow10[n + 1]
               t == Pow10[m - (n + 1)]
               q == c \div Pow10[m]
    <3>1. n + 1 \in Nat /\ n + 1 <= m
      BY <1>1, <2>1, <2>3
    <3>2. s \in Nat \ {0} /\ t \in Nat \ {0} /\ Pow10[m] = s * t /\ Pow10[m] \in Nat \ {0}
      BY <2>1, <3>1, PowersOfTen, PowersSplit
    <3>3. c \in Nat
      BY <1>1, Product
    <3> HIDE DEF c, s, t
    <3>4. q \in Nat /\ c = Pow10[m] * q
      BY <1>4, <3>2, <3>3, Exact
    <3> HIDE DEF q
    <3>5. \A a, b, d \in Nat : (a * b) * d = (b * d) * a /\ b * d \in Nat
      OBVIOUS
    <3>6. c = (t * q) * s /\ t * q \in Nat
      BY <3>2, <3>4, <3>5
    <3>7. c % s = 0
      BY <3>2, <3>6, Multiple
    <3>8. QED
      BY <1>3, <3>7 DEF s
  <2>4. QED
    BY <1>1, <2>1, <2>2, <2>3
<1> HIDE DEF c
<1>5. Zeros(c) = n
  BY <1>2, <1>3, <1>4 DEF Zeros, Longest
<1>6. QED
  BY <1>2, <1>5 DEF c

LEMMA PowersLeq ==
    ASSUME NEW m \in Nat, NEW n \in Nat, Pow10[m] <= Pow10[n]
    PROVE  m <= n
<1>1. Pow10[m] \in Nat \ {0} /\ Pow10[n] \in Nat \ {0}
  BY PowersOfTen
<1>2. n < m => 10 * Pow10[n] <= Pow10[m]
  BY PowersGrow
<1>3. QED
  BY <1>1, <1>2

\* Every number can be split like this.
LEMMA ZerosExist ==
    ASSUME NEW c \in 1 .. Pow10[Longest]
    PROVE  \E n \in 0 .. Longest, x \in Nat : c = x * Pow10[n] /\ x % 10 # 0
<1> SUFFICES ASSUME ~ \E n \in 0 .. Longest, x \in Nat : c = x * Pow10[n] /\ x % 10 # 0
             PROVE  FALSE
  OBVIOUS
<1> DEFINE divides == {n \in Nat : \E x \in Nat : c = x * Pow10[n]}
<1>1. Pow10[Longest] \in Nat /\ c \in Nat \ {0} /\ Longest \in Nat
  BY Bounds, PowersOfTen
<1>2. 0 \in divides
  <2>1. c = c * Pow10[0]
    BY <1>1, PowersOfTen
  <2>2. QED
    BY <1>1, <2>1
<1>3. ASSUME NEW n \in Nat, NEW x \in Nat, c = x * Pow10[n] PROVE n <= Longest /\ x # 0
  <2>1. Pow10[n] \in Nat \ {0}
    BY PowersOfTen
  <2>2. x # 0
    BY <1>1, <1>3, <2>1
  <2>3. Pow10[n] <= x * Pow10[n]
    <3>1. Pow10[n] <= Pow10[n] * x /\ Pow10[n] * x = x * Pow10[n]
      BY <2>1, <2>2, Product
    <3>2. QED
      BY <3>1, Zenon
  <2>4. Pow10[n] <= Pow10[Longest]
    BY <1>1, <1>3, <2>1, <2>3
  <2>5. QED
    BY <1>1, <2>2, <2>4, PowersLeq
<1>4. ASSUME NEW n \in Nat, n \in divides PROVE n + 1 \in divides
  <2>1. PICK x \in Nat : c = x * Pow10[n]
    BY <1>4
  <2>2. n \in 0 .. Longest
    BY <1>1, <1>3, <2>1
  <2>3. x % 10 = 0
    BY <2>1, <2>2
  <2> DEFINE y == x \div 10
  <2>4. y \in Nat /\ x = 10 * y
    BY <2>3
  <2> HIDE DEF y
  <2>5. Pow10[n] \in Nat /\ Pow10[n + 1] = 10 * Pow10[n]
    BY PowersOfTen
  <2>6. \A a, b \in Nat : (10 * a) * b = a * (10 * b)
    OBVIOUS
  <2>7. c = y * Pow10[n + 1]
    BY <2>1, <2>4, <2>5, <2>6
  <2>8. QED
    BY <2>4, <2>7
<1> HIDE DEF divides
<1>5. \A n \in Nat : n \in divides
  BY <1>2, <1>4, Induction
<1>6. PICK x \in Nat : c = x * Pow10[Longest + 1]
  BY <1>1, <1>5 DEF divides
<1>7. Longest + 1 <= Longest
  BY <1>1, <1>3, <1>6
<1>8. QED
  BY <1>1, <1>7
----------------------------------------------------------------------------
(* Rounding.                                                               *)

\* A multiple of the power of ten is divided by it.
LEMMA RoundedExact ==
    ASSUME NEW x \in Nat, NEW n \in Nat
    PROVE  Rounded(x * Pow10[n], n) = x
<1> DEFINE t == Pow10[n]
           c == x * t
<1>1. t \in Nat \ {0}
  BY PowersOfTen
<1>2. c % t = 0 /\ c \div t = x
  BY <1>1, Multiple
<1> HIDE DEF c, t
<1>3. 2 * (c % t) = 0
  BY <1>2
<1>4. Rounded(c, n) = x
  BY <1>1, <1>2, <1>3 DEF Rounded, t
<1>5. QED
  BY <1>4 DEF c, t

\* The same digits are rounded away with k zeros behind them as without.
LEMMA RoundedScaled ==
    ASSUME NEW c \in Nat, NEW n \in Nat, NEW k \in Nat
    PROVE  Rounded(c * Pow10[k], n + k) = Rounded(c, n)
<1> DEFINE s == Pow10[k]
           t == Pow10[n]
           u == Pow10[n + k]
           d == c * s
<1>1. s \in Nat \ {0} /\ t \in Nat \ {0} /\ u = t * s
  <2>1. s \in Nat \ {0} /\ t \in Nat \ {0}
    BY PowersOfTen
  <2>2. u = t * s
    BY PowersAdd, Zenon
  <2>3. QED
    BY <2>1, <2>2
<1> HIDE DEF s, t, u
<1>2. d \div u = c \div t /\ d % u = (c % t) * s
  BY <1>1, Scaled
<1> HIDE DEF d
<1>3. c % t \in Nat
  BY <1>1, Division
<1>4. 2 * (d % u) > u <=> 2 * (c % t) > t
  <2>1. \A a, b \in Nat, e \in Nat \ {0} : 2 * (a * e) > b * e <=> 2 * a > b
    OBVIOUS
  <2>2. QED
    BY <1>1, <1>2, <1>3, <2>1
<1>5. 2 * (d % u) = u <=> 2 * (c % t) = t
  <2>1. \A a, b \in Nat, e \in Nat \ {0} : 2 * (a * e) = b * e <=> 2 * a = b
    OBVIOUS
  <2>2. QED
    BY <1>1, <1>2, <1>3, <2>1
<1>6. Rounded(d, n + k) = Rounded(c, n)
  BY <1>2, <1>4, <1>5, Zenon DEF Rounded, t, u
<1>7. QED
  BY <1>6, Zenon DEF d, s

\* Rounding moves a number by half a unit at most.
LEMMA RoundedClose ==
    ASSUME NEW c \in Nat, NEW n \in Nat
    PROVE  /\ Rounded(c, n) \in Nat
           /\ 2 * c <= 2 * (Rounded(c, n) * Pow10[n]) + Pow10[n]
           /\ 2 * (Rounded(c, n) * Pow10[n]) <= 2 * c + Pow10[n]
           /\ Rounded(c, n) >= c \div Pow10[n]
           /\ Rounded(c, n) <= (c \div Pow10[n]) + 1
<1> DEFINE t == Pow10[n]
           q == c \div t
           r == c % t
           z == Rounded(c, n)
<1>1. t \in Nat \ {0}
  BY PowersOfTen
<1>2. q \in Nat /\ r \in Nat /\ r < t /\ c = t * q + r
  BY <1>1, Division
<1>3. \/ z = q + 1 /\ 2 * r >= t
      \/ z = q /\ 2 * r <= t
  <2>1. z = IF 2 * r > t \/ (2 * r = t /\ q % 2 = 1) THEN q + 1 ELSE q
    BY Zenon DEF Rounded
  <2> HIDE DEF t, q, r, z
  <2>2. QED
    BY <1>1, <1>2, <2>1
<1> HIDE DEF t, q, r, z
<1>4. t * q \in Nat /\ (q + 1) * t = t * q + t /\ q * t = t * q
  BY <1>1, <1>2
<1>5. /\ z \in Nat /\ z >= q /\ z <= q + 1
      /\ 2 * c <= 2 * (z * t) + t
      /\ 2 * (z * t) <= 2 * c + t
  <2> DEFINE p == t * q
  <2>1. p \in Nat /\ c = p + r /\ (z = q + 1 => z * t = p + t) /\ (z = q => z * t = p)
    BY <1>2, <1>4
  <2> DEFINE w == z * t
  <2> HIDE DEF p, w
  <2>2. p \in Nat /\ c = p + r /\ (z = q + 1 => w = p + t) /\ (z = q => w = p)
    BY <2>1 DEF w
  <2>3. z \in Nat /\ z >= q /\ z <= q + 1 /\ 2 * c <= 2 * w + t /\ 2 * w <= 2 * c + t
    BY <1>1, <1>2, <1>3, <2>2
  <2>4. QED
    BY <2>3 DEF w
<1>6. QED
  BY <1>5 DEF t, q, z

LEMMA QuotientBetween ==
    ASSUME NEW c \in Nat, NEW t \in Nat \ {0}, NEW a \in Nat, NEW b \in Nat,
           a * t <= c, c < b * t
    PROVE  c \div t \in Nat /\ a <= c \div t /\ c \div t < b
<1> DEFINE q == c \div t
           r == c % t
<1>1. q \in Nat /\ r \in Nat /\ r < t /\ c = t * q + r
  BY Division
<1> HIDE DEF q, r
<1>2. t * q <= c /\ c < t * q + t /\ t * q = q * t /\ (q + 1) * t = t * q + t
  BY <1>1
<1>3. a * t < (q + 1) * t /\ q * t < b * t
  <2>1. a * t \in Nat /\ q * t \in Nat /\ b * t \in Nat
    BY <1>1, Product
  <2>2. QED
    BY <1>2, <2>1
<1>4. \A x, y \in Nat : x * t < y * t => x < y
  OBVIOUS
<1>5. a < q + 1 /\ q < b
  BY <1>1, <1>3, <1>4
<1>6. QED
  BY <1>1, <1>5 DEF q
----------------------------------------------------------------------------
(* The normalized form.                                                    *)

\* The digits at the end that Normalize rounds away.
Cut(c) == AtLeastZero(Length(c) - Precision)

LEMMA CutIs ==
    ASSUME NEW c \in Coefficient
    PROVE  /\ Cut(c) \in Nat
           /\ Length(c) <= Precision => Cut(c) = 0
           /\ Length(c) >= Precision => Cut(c) = Length(c) - Precision
<1>1. Length(c) \in Nat
  BY LengthExists, Bounds
<1>2. QED
  BY <1>1, Bounds DEF Cut, AtLeastZero

LEMMA RoundedByNothing == ASSUME NEW c \in Nat PROVE Rounded(c, 0) = c
<1>1. c * Pow10[0] = c
  BY PowersOfTen
<1>2. Rounded(c * Pow10[0], 0) = c
  BY RoundedExact
<1>3. QED
  BY <1>1, <1>2, Zenon

\* The rounded coefficient is one of at least Precision digits, if any was cut off.
LEMMA RoundedCoefficient ==
    ASSUME NEW c \in Coefficient
    PROVE  /\ Rounded(c, Cut(c)) \in Coefficient
           /\ Length(c) <= Precision => Rounded(c, Cut(c)) = c
           /\ Length(c) > Precision => Pow10[Precision - 1] <= Rounded(c, Cut(c))
<1> DEFINE l == Length(c)
           n == Cut(c)
           q == c \div Pow10[n]
           z == Rounded(c, n)
<1>1. c \in Nat \ {0} /\ l \in 1 .. Longest /\ Pow10[l - 1] <= c /\ c < Pow10[l]
  BY LengthExists, Bounds
<1>2. n \in Nat /\ (l <= Precision => n = 0) /\ (l > Precision => n = l - Precision)
  BY <1>1, CutIs, Bounds
<1>3. z \in Nat /\ q <= z /\ z <= q + 1
  BY <1>1, <1>2, RoundedClose
<1> HIDE DEF l, n
<1>4. CASE l <= Precision
  <2>1. z = c
    BY <1>1, <1>2, <1>4, RoundedByNothing
  <2>2. ~ (l > Precision)
    BY <1>1, <1>4, Bounds
  <2>3. QED
    BY <2>1, <2>2 DEF l, n
<1>5. CASE l > Precision
  <2>1. l - 1 = (Precision - 1) + n /\ l = Precision + n /\ Precision - 1 \in Nat
    BY <1>1, <1>2, <1>5, Bounds
  <2>2. /\ Pow10[(Precision - 1) + n] = Pow10[Precision - 1] * Pow10[n]
        /\ Pow10[Precision + n] = Pow10[Precision] * Pow10[n]
    <3>1. \A p \in Nat : Pow10[p + n] = Pow10[p] * Pow10[n]
      BY <1>2, PowersAdd
    <3>2. QED
      BY <2>1, <3>1, Bounds
  <2>3. Pow10[Precision - 1] * Pow10[n] <= c /\ c < Pow10[Precision] * Pow10[n]
    BY <1>1, <2>1, <2>2, Zenon
  <2>4. /\ Pow10[Precision - 1] \in Nat \ {0} /\ Pow10[n] \in Nat \ {0}
        /\ Pow10[Precision] \in Nat /\ Pow10[Longest] \in Nat
    BY <1>2, <2>1, Bounds, PowersOfTen
  <2>5. q \in Nat /\ Pow10[Precision - 1] <= q /\ q < Pow10[Precision]
    BY <1>1, <2>3, <2>4, QuotientBetween
  <2>6. 10 * Pow10[Precision] <= Pow10[Longest]
    BY <1>1, <1>5, PowersGrow, Bounds
  <2> HIDE DEF q, z
  <2>7. z \in 1 .. Pow10[Longest] - 1 /\ Pow10[Precision - 1] <= z
    BY <1>3, <2>4, <2>5, <2>6
  <2>8. ~ (l <= Precision)
    BY <1>1, <1>5, Bounds
  <2>9. QED
    BY <2>7, <2>8 DEF Coefficient, l, n, z
<1>6. QED
  BY <1>1, <1>4, <1>5, Bounds

\* What Normalize returns, once its rounded coefficient is split into a number
\* that is not divisible by ten, and zeros.
LEMMA NormalForm ==
    ASSUME NEW d \in [c : Coefficient, e : Int], NEW x \in Nat, NEW z \in Nat,
           x % 10 # 0, Rounded(d.c, Cut(d.c)) = x * Pow10[z]
    PROVE  /\ Normalize(d) = [c |-> x, e |-> d.e + Cut(d.c) + z]
           /\ x \in Coefficient
           /\ Length(Rounded(d.c, Cut(d.c))) = Length(x) + z
<1>1. d.c \in Coefficient
  OBVIOUS
<1>2. x * Pow10[z] \in Coefficient
  BY <1>1, RoundedCoefficient
<1>3. x \in Coefficient /\ Length(x * Pow10[z]) = Length(x) + z
  BY <1>2, LengthTimes
<1>4. z \in 0 .. Longest
  <2>1. Length(x * Pow10[z]) \in 1 .. Longest /\ Length(x) \in 1 .. Longest
    BY <1>2, <1>3, LengthExists
  <2>2. QED
    BY <1>3, <2>1, Bounds
<1>5. Zeros(x * Pow10[z]) = z /\ (x * Pow10[z]) \div Pow10[z] = x
  BY <1>4, ZerosIs
<1>6. Normalize(d) = [c |-> x, e |-> d.e + Cut(d.c) + z]
  BY <1>5, Zenon DEF Normalize, Cut
<1>7. QED
  BY <1>3, <1>6, Zenon

\* Every amount has such a split.
LEMMA Normal ==
    ASSUME NEW d \in [c : Coefficient, e : Int]
    PROVE  \E x \in Coefficient, z \in Nat :
               /\ x % 10 # 0
               /\ Rounded(d.c, Cut(d.c)) = x * Pow10[z]
               /\ Length(Rounded(d.c, Cut(d.c))) = Length(x) + z
               /\ Normalize(d) = [c |-> x, e |-> d.e + Cut(d.c) + z]
<1> DEFINE r == Rounded(d.c, Cut(d.c))
<1>1. r \in Coefficient
  BY RoundedCoefficient
<1> HIDE DEF r
<1>2. r \in 1 .. Pow10[Longest]
  <2>1. Pow10[Longest] \in Nat
    BY Bounds, PowersOfTen
  <2>2. QED
    BY <1>1, <2>1 DEF Coefficient
<1>3. PICK z \in 0 .. Longest, x \in Nat : r = x * Pow10[z] /\ x % 10 # 0
  BY <1>2, ZerosExist
<1>4. z \in Nat
  BY Bounds
<1>5. /\ Normalize(d) = [c |-> x, e |-> d.e + Cut(d.c) + z]
      /\ x \in Coefficient
      /\ Length(r) = Length(x) + z
  BY <1>3, <1>4, NormalForm DEF r
<1>6. QED
  BY <1>3, <1>4, <1>5, Zenon DEF r

\* The amount written with k more zeros.
Longer(d, k) == [c |-> d.c * Pow10[k], e |-> d.e - k]

\* Zeros at the end change neither the digits that are kept nor their value.
LEMMA NormalizeLonger ==
    ASSUME NEW d \in [c : Coefficient, e : Int], NEW k \in Nat, d.c * Pow10[k] \in Coefficient
    PROVE  Normalize(Longer(d, k)) = Normalize(d)
<1> DEFINE b == d.c * Pow10[k]
           n == Cut(d.c)
           m == Cut(b)
           l == Length(d.c)
<1>1. d.c \in Coefficient /\ d.c \in Nat /\ d.e \in Int
  BY Bounds
<1>2. b \in Coefficient /\ Length(b) = l + k /\ l \in Nat
  BY <1>1, LengthTimes
<1>3. n \in Nat /\ (l <= Precision => n = 0) /\ (l >= Precision => n = l - Precision)
  BY <1>1, CutIs
<1>4. /\ m \in Nat /\ (Length(b) <= Precision => m = 0)
      /\ Length(b) >= Precision => m = Length(b) - Precision
  BY <1>2, CutIs
<1>5. PICK x \in Coefficient, z \in Nat :
          /\ x % 10 # 0
          /\ Rounded(d.c, n) = x * Pow10[z]
          /\ Normalize(d) = [c |-> x, e |-> d.e + n + z]
  BY Normal
<1>6. x \in Nat
  BY Bounds
<1> HIDE DEF n, m, l
<1> DEFINE j == n + k - m
<1>7. j \in Nat /\ (l >= Precision => m = n + k) /\ (l < Precision => n = 0 /\ m <= k)
  BY <1>2, <1>3, <1>4, Bounds
<1>8. Rounded(b, m) = x * Pow10[z + j]
  <2>1. CASE l >= Precision
    <3>1. m = n + k /\ z + j = z
      BY <1>3, <1>7, <2>1
    <3>2. Rounded(b, n + k) = Rounded(d.c, n)
      BY <1>1, <1>3, RoundedScaled
    <3>3. QED
      BY <1>5, <3>1, <3>2, Zenon
  <2>2. CASE l < Precision
    <3>1. n = 0 /\ m <= k /\ j = k - m
      BY <1>3, <1>4, <1>7, <2>2
    <3>2. d.c = x * Pow10[z]
      BY <1>1, <1>5, <3>1, RoundedByNothing
    <3>3. k - m \in Nat /\ Pow10[k - m] \in Nat \ {0} /\ Pow10[k] = Pow10[m] * Pow10[k - m]
      BY <1>4, <3>1, PowersSplit
    <3>4. Pow10[m] \in Nat /\ Pow10[z] \in Nat
      BY <1>4, PowersOfTen
    <3>5. b = (x * (Pow10[z] * Pow10[k - m])) * Pow10[m]
      <4>1. b = (x * Pow10[z]) * (Pow10[m] * Pow10[k - m])
        BY <3>2, <3>3, Zenon
      <4> DEFINE u == Pow10[z]
                 v == Pow10[m]
                 w == Pow10[k - m]
      <4>2. u \in Nat /\ v \in Nat /\ w \in Nat
        BY <3>3, <3>4
      <4> HIDE DEF u, v, w, b
      <4>3. (x * u) * (v * w) = (x * (u * w)) * v
        BY <1>6, <4>2, Products
      <4>4. QED
        BY <4>1, <4>3, Zenon DEF u, v, w
    <3>6. Pow10[z + j] = Pow10[z] * Pow10[k - m] /\ Pow10[z + j] \in Nat
      BY <3>1, <3>3, PowersAdd
    <3>7. b = (x * Pow10[z + j]) * Pow10[m] /\ x * Pow10[z + j] \in Nat
      BY <1>6, <3>5, <3>6, Product
    <3>8. QED
      BY <1>4, <3>7, RoundedExact
  <2>3. l \in Nat
    BY <1>2 DEF l
  <2>4. QED
    BY <2>1, <2>2, <2>3, Bounds
<1>9. Longer(d, k) = [c |-> b, e |-> d.e - k]
  BY DEF Longer
<1> HIDE DEF b, j
<1>10. /\ Longer(d, k) \in [c : Coefficient, e : Int]
       /\ Longer(d, k).c = b /\ Longer(d, k).e = d.e - k
  BY <1>1, <1>2, <1>9
<1>11. Rounded(Longer(d, k).c, Cut(Longer(d, k).c)) = x * Pow10[z + j]
  BY <1>8, <1>10 DEF m
<1>12. z + j \in Nat
  BY <1>7
<1>13. Normalize(Longer(d, k)) = [c |-> x, e |-> Longer(d, k).e + Cut(Longer(d, k).c) + (z + j)]
  BY <1>5, <1>6, <1>10, <1>11, <1>12, NormalForm
<1>14. Longer(d, k).e + Cut(Longer(d, k).c) + (z + j) = d.e + n + z
  <2>1. Longer(d, k).e + Cut(Longer(d, k).c) + (z + j) = (d.e - k) + m + (z + j)
    BY <1>10 DEF m
  <2>2. j = n + k - m
    BY DEF j
  <2>3. QED
    BY <1>1, <1>3, <1>4, <2>1, <2>2
<1>15. QED
  BY <1>5, <1>13, <1>14, Zenon
----------------------------------------------------------------------------
(* The limits of the schema.                                               *)

\* The digits before the point, and all digits, by length and exponent.
LEMMA DigitsOf ==
    ASSUME NEW d \in [c : Coefficient, e : Int]
    PROVE  /\ Length(d.c) \in Nat \ {0}
           /\ WholeDigits(d) = AtLeastZero(Length(d.c) + d.e)
           /\ Digits(d) = AtLeastZero(Length(d.c) + d.e) + AtLeastZero(- d.e)
           /\ Length(d.c) <= Digits(d)
           /\ Decimals(d) = AtLeastZero(- d.e)
           /\ Decimals(d) \in Nat /\ WholeDigits(d) \in Nat
<1> DEFINE l == Length(d.c)
           x == d.e
<1>1. l \in Nat \ {0} /\ x \in Int
  <2>1. d.c \in Coefficient /\ d.e \in Int
    OBVIOUS
  <2>2. l \in 1 .. Longest
    BY <2>1, LengthExists
  <2>3. QED
    BY <2>1, <2>2, Bounds
<1>2. /\ Digits(d) = IF x >= 0 THEN l + x ELSE IF l > AtLeastZero(- x) THEN l ELSE AtLeastZero(- x)
      /\ Decimals(d) = AtLeastZero(- x)
      /\ WholeDigits(d) = Digits(d) - Decimals(d)
  BY Zenon DEF Digits, Decimals, WholeDigits
<1> HIDE DEF l, x
<1>3. /\ WholeDigits(d) = AtLeastZero(l + x)
      /\ Digits(d) = AtLeastZero(l + x) + AtLeastZero(- x)
      /\ l <= Digits(d)
      /\ Decimals(d) \in Nat /\ WholeDigits(d) \in Nat
  BY <1>1, <1>2 DEF AtLeastZero
<1>4. QED
  BY <1>1, <1>2, <1>3, Zenon DEF l, x

\* Normalizing adds no decimals; where it does not round it adds no digits, and
\* the digits before the point are the same.
LEMMA NormalDigits ==
    ASSUME NEW d \in [c : Coefficient, e : Int]
    PROVE  /\ Decimals(Normalize(d)) <= Decimals(d)
           /\ Length(d.c) <= Precision =>
                  /\ WholeDigits(Normalize(d)) = WholeDigits(d)
                  /\ Digits(Normalize(d)) <= Digits(d)
<1> DEFINE l == Length(d.c)
           n == Cut(d.c)
           r == Rounded(d.c, n)
<1>1. d.c \in Coefficient /\ d.e \in Int
  OBVIOUS
<1>2. n \in Nat /\ (l <= Precision => n = 0 /\ r = d.c)
  BY <1>1, CutIs, RoundedCoefficient
<1>3. PICK x \in Coefficient, z \in Nat :
          Length(r) = Length(x) + z /\ Normalize(d) = [c |-> x, e |-> d.e + n + z]
  BY Normal
<1> HIDE DEF n, r
<1> DEFINE N == [c |-> x, e |-> d.e + n + z]
<1>4. N \in [c : Coefficient, e : Int] /\ N.c = x /\ N.e = d.e + n + z
  BY <1>1, <1>2
<1> HIDE DEF N
<1>5. /\ Length(x) \in Nat
      /\ WholeDigits(N) = AtLeastZero(Length(x) + (d.e + n + z))
      /\ Digits(N) = AtLeastZero(Length(x) + (d.e + n + z)) + AtLeastZero(- (d.e + n + z))
      /\ Decimals(N) = AtLeastZero(- (d.e + n + z))
  BY <1>4, DigitsOf
<1>6. /\ l \in Nat
      /\ WholeDigits(d) = AtLeastZero(l + d.e)
      /\ Digits(d) = AtLeastZero(l + d.e) + AtLeastZero(- d.e)
      /\ Decimals(d) = AtLeastZero(- d.e)
  BY DigitsOf
<1>7. AtLeastZero(- (d.e + n + z)) <= AtLeastZero(- d.e)
  BY <1>1, <1>2 DEF AtLeastZero
<1>8. l <= Precision => Length(x) + (d.e + n + z) = l + d.e
  BY <1>1, <1>2, <1>3, <1>5
<1>9. \A a, b, e \in Int : b <= e => AtLeastZero(a) + b <= AtLeastZero(a) + e
  BY DEF AtLeastZero
<1>10. AtLeastZero(- (d.e + n + z)) \in Int /\ AtLeastZero(- d.e) \in Int /\ l + d.e \in Int
  BY <1>1, <1>2, <1>6 DEF AtLeastZero
<1>11. /\ Decimals(N) <= Decimals(d)
       /\ l <= Precision => WholeDigits(N) = WholeDigits(d) /\ Digits(N) <= Digits(d)
  <2>1. Decimals(N) <= Decimals(d)
    BY <1>5, <1>6, <1>7, Zenon
  <2>2. ASSUME l <= Precision PROVE WholeDigits(N) = WholeDigits(d) /\ Digits(N) <= Digits(d)
    <3>1. /\ WholeDigits(N) = AtLeastZero(l + d.e)
          /\ Digits(N) = AtLeastZero(l + d.e) + AtLeastZero(- (d.e + n + z))
      BY <1>5, <1>8, <2>2, Zenon
    <3>2. QED
      BY <1>6, <1>7, <1>9, <1>10, <3>1
  <2>3. QED
    BY <2>1, <2>2
<1>12. QED
  BY <1>3, <1>11, Zenon DEF N, l

\* More zeros at the end of an accepted amount are accepted.
LEMMA LongerIsValid ==
    ASSUME NEW d \in [c : Coefficient, e : Int], Valid(d),
           NEW k \in Nat, d.c * Pow10[k] \in Coefficient
    PROVE  Valid(Longer(d, k))
<1> DEFINE f == Longer(d, k)
           N == Normalize(d)
<1>1. d.c \in Nat /\ d.c \in Coefficient /\ d.e \in Int
  BY Bounds
<1>2. f \in [c : Coefficient, e : Int] /\ f.c = d.c * Pow10[k] /\ f.e = d.e - k /\ f.c > 0
  <2> DEFINE b == d.c * Pow10[k]
  <2>1. b \in Coefficient
    OBVIOUS
  <2>2. f = [c |-> b, e |-> d.e - k]
    BY DEF Longer
  <2> HIDE DEF b, f
  <2>3. f \in [c : Coefficient, e : Int] /\ f.c = b /\ f.e = d.e - k /\ f.c > 0
    BY <1>1, <2>1, <2>2, Bounds
  <2>4. QED
    BY <2>3 DEF b
<1>3. Length(f.c) = Length(d.c) + k
  BY <1>1, <1>2, LengthTimes
<1>4. Normalize(f) = N
  BY NormalizeLonger
<1> HIDE DEF f, N
<1>5. WholeDigits(f) = WholeDigits(d)
  <2>1. /\ WholeDigits(f) = AtLeastZero(Length(f.c) + f.e)
        /\ WholeDigits(d) = AtLeastZero(Length(d.c) + d.e)
        /\ Length(d.c) \in Nat
    BY <1>2, DigitsOf
  <2>2. Length(f.c) + f.e = Length(d.c) + d.e
    BY <1>1, <1>2, <1>3, <2>1
  <2>3. QED
    BY <2>1, <2>2, Zenon
<1>6. /\ Digits(d) <= MaxDigits \/ Digits(N) <= MaxDigits
      /\ Decimals(d) <= Places \/ Decimals(N) <= Places
      /\ WholeDigits(d) <= MaxDigits - Places \/ WholeDigits(N) <= MaxDigits - Places
  BY Zenon DEF Valid, N
<1>7. PICK x \in Coefficient, y \in Int : N = [c |-> x, e |-> y]
  <2>1. PICK x \in Coefficient, z \in Nat : N = [c |-> x, e |-> d.e + Cut(d.c) + z]
    BY Normal DEF N
  <2>2. Cut(d.c) \in Nat
    BY <1>1, CutIs
  <2>3. QED
    BY <1>1, <2>1, <2>2
<1>8. N \in [c : Coefficient, e : Int]
  BY <1>7
<1>9. Decimals(N) \in Nat /\ Decimals(d) \in Nat /\ Digits(N) \in Int /\ Digits(d) \in Int
  <2>1. \A a, b \in Int : AtLeastZero(a) + AtLeastZero(b) \in Int
    BY DEF AtLeastZero
  <2>2. /\ Length(d.c) + d.e \in Int /\ - d.e \in Int
        /\ Length(N.c) + N.e \in Int /\ - N.e \in Int
    <3>1. Length(d.c) \in Nat /\ Length(N.c) \in Nat
      BY <1>8, DigitsOf
    <3>2. QED
      BY <1>1, <1>8, <3>1
  <2>3. QED
    BY <1>8, <2>1, <2>2, DigitsOf
<1>10. Decimals(N) <= Places
  BY <1>6, <1>9, NormalDigits, Bounds DEF N
<1>11. Digits(N) <= MaxDigits
  <2>1. CASE Digits(d) <= MaxDigits
    <3>1. Length(d.c) \in Nat /\ Length(d.c) <= Digits(d)
      BY DigitsOf
    <3>2. Length(d.c) <= Precision
      BY <1>9, <2>1, <3>1, Bounds
    <3>3. Digits(N) <= Digits(d)
      BY <3>2, NormalDigits DEF N
    <3>4. QED
      BY <1>9, <2>1, <3>3, Bounds
  <2>2. QED
    BY <1>6, <2>1
<1>12. Valid(f)
  BY <1>2, <1>4, <1>5, <1>6, <1>10, <1>11, Zenon DEF Valid
<1>13. QED
  BY <1>12 DEF f
----------------------------------------------------------------------------
(* What the column stores.                                                 *)

\* An accepted amount whose digits normalize keeps: a whole number of units,
\* and no more of them than the column holds.
LEMMA UnitsUnrounded ==
    ASSUME NEW d \in [c : Coefficient, e : Int], Length(d.c) <= Precision,
           NEW x \in Coefficient, NEW z \in Nat, d.c = x * Pow10[z],
           Normalize(d) = [c |-> x, e |-> d.e + z],
           d.e + z >= - Places
    PROVE  Units(d) = x * Pow10[d.e + z + Places]
<1>1. d.c \in Nat /\ d.e \in Int /\ x \in Nat
  BY Bounds
<1>2. CASE d.e >= - Places
  <2> DEFINE i == d.e + Places
  <2>1. i \in Nat /\ d.e + z + Places = z + i
    BY <1>1, <1>2, Bounds
  <2>2. Units(d) = d.c * Pow10[i]
    BY <1>2 DEF Units
  <2> HIDE DEF i
  <2>3. Pow10[z + i] = Pow10[z] * Pow10[i] /\ Pow10[z] \in Nat /\ Pow10[i] \in Nat
    BY <2>1, PowersAdd, PowersOfTen
  <2>4. x * (Pow10[z] * Pow10[i]) = (x * Pow10[z]) * Pow10[i]
    BY <1>1, <2>3, Product
  <2>5. QED
    BY <2>1, <2>2, <2>3, <2>4, Zenon
<1>3. CASE ~ (d.e >= - Places)
  <2> DEFINE m == - d.e - Places
             t == Pow10[m]
             u == x * Pow10[z - m]
  <2>1. m \in Nat /\ m <= z /\ d.e + z + Places = z - m
    BY <1>1, <1>3, Bounds
  <2>2. Units(d) = (2 * d.c + t) \div (2 * t)
    BY <1>3, Zenon DEF Units
  <2> HIDE DEF m
  <2>3. t \in Nat \ {0} /\ Pow10[z - m] \in Nat /\ Pow10[z] = t * Pow10[z - m]
    BY <2>1, PowersOfTen, PowersSplit
  <2> HIDE DEF t
  <2>4. u \in Nat /\ d.c = u * t
    <3>1. \A f, g \in Nat : x * (f * g) = (x * g) * f
      BY <1>1
    <3>2. t \in Nat
      BY <2>3
    <3>3. x * (t * Pow10[z - m]) = u * t
      BY <2>3, <3>1, <3>2, Zenon
    <3>4. u \in Nat
      BY <1>1, <2>3, Product
    <3>5. QED
      BY <2>3, <3>3, <3>4, Zenon
  <2> HIDE DEF u
  <2>5. (2 * (u * t) + t) \div (2 * t) = u
    <3>1. 2 * (u * t) + t = (2 * t) * u + t /\ 2 * t \in Nat \ {0} /\ t \in Nat /\ t < 2 * t
      BY <2>3, <2>4
    <3>2. QED
      BY <2>4, <3>1, Quotient
  <2>6. Units(d) = u
    BY <2>2, <2>4, <2>5, Zenon
  <2>7. QED
    BY <2>1, <2>6, Zenon DEF u
<1>4. QED
  BY <1>2, <1>3

\* An accepted amount that normalize rounds: the limit on the digits before the
\* point puts what is rounded away far below half a unit of the column, so the
\* column, which rounds the amount itself, arrives at the same number.
LEMMA UnitsRounded ==
    ASSUME NEW d \in [c : Coefficient, e : Int], Valid(d), Length(d.c) > Precision,
           NEW x \in Coefficient, NEW z \in Nat,
           Rounded(d.c, Cut(d.c)) = x * Pow10[z],
           Length(Rounded(d.c, Cut(d.c))) = Length(x) + z,
           Normalize(d) = [c |-> x, e |-> d.e + Cut(d.c) + z],
           d.e + Cut(d.c) + z >= - Places
    PROVE  Units(d) = x * Pow10[d.e + Cut(d.c) + z + Places]
<1> DEFINE l == Length(d.c)
           n == Cut(d.c)
           r == Rounded(d.c, n)
           N == [c |-> x, e |-> d.e + n + z]
           m == - d.e - Places
<1>1. d.c \in Nat /\ d.c \in Coefficient /\ d.e \in Int /\ x \in Nat
  BY Bounds
<1>2. l \in Nat /\ n \in Nat /\ n = l - Precision
  <2>1. l \in Nat
    BY DigitsOf
  <2>2. QED
    BY <1>1, <2>1, CutIs, Bounds
<1>3. Precision <= Length(r)
  <2>1. r \in Coefficient /\ Pow10[Precision - 1] <= r
    BY <1>1, RoundedCoefficient
  <2> HIDE DEF r
  <2>2. r < Pow10[Length(r)] /\ Length(r) \in 1 .. Longest
    BY <2>1, LengthExists
  <2>3. Precision - 1 \in Nat /\ Length(r) \in Nat /\ r \in Nat
    BY <2>1, <2>2, Bounds
  <2>4. Pow10[Precision - 1] < Pow10[Length(r)]
    BY <2>1, <2>2, <2>3, PowersOfTen
  <2>5. Precision - 1 < Length(r)
    BY <2>3, <2>4, PowersOrdered
  <2>6. QED
    BY <2>3, <2>5, Bounds
<1>4. N \in [c : Coefficient, e : Int] /\ N.c = x /\ N.e = d.e + n + z /\ Normalize(d) = N
  BY <1>1, <1>2
<1> HIDE DEF N, r, n
<1>5. n < m /\ m \in Nat
  <2>1. \/ WholeDigits(d) <= MaxDigits - Places
        \/ WholeDigits(N) <= MaxDigits - Places
    BY <1>4, Zenon DEF Valid
  <2>2. /\ WholeDigits(d) = AtLeastZero(l + d.e)
        /\ WholeDigits(N) = AtLeastZero(Length(x) + (d.e + n + z))
        /\ Length(x) \in Nat
    BY <1>4, DigitsOf
  <2>3. Length(r) = Length(x) + z
    BY Zenon DEF r, n
  <2>4. \A y \in Int, b \in Int : AtLeastZero(y) <= b => y <= b
    BY DEF AtLeastZero
  <2>5. CASE WholeDigits(d) <= MaxDigits - Places
    <3>1. l + d.e \in Int /\ MaxDigits - Places \in Int
      BY <1>1, <1>2, Bounds
    <3>2. l + d.e <= MaxDigits - Places
      BY <2>2, <2>4, <2>5, <3>1
    <3>3. QED
      BY <1>1, <1>2, <3>2, Bounds
  <2>6. CASE WholeDigits(N) <= MaxDigits - Places
    <3>1. Length(x) + (d.e + n + z) \in Int /\ MaxDigits - Places \in Int
      BY <1>1, <1>2, <2>2, Bounds
    <3>2. Length(x) + (d.e + n + z) <= MaxDigits - Places
      BY <2>2, <2>4, <2>6, <3>1
    <3>3. QED
      BY <1>1, <1>2, <1>3, <2>2, <2>3, <3>2, Bounds
  <2>7. QED
    BY <2>1, <2>5, <2>6
<1> DEFINE i == m - n
           j == z - i
<1>6. i \in Nat /\ j \in Nat /\ d.e + n + z + Places = j
  <2>1. d.e + n + z >= - Places
    BY DEF n
  <2>2. QED
    BY <1>1, <1>2, <1>5, <2>1, Bounds
<1>7. Units(d) = (2 * d.c + Pow10[m]) \div (2 * Pow10[m])
  <2>1. ~ (d.e >= - Places)
    BY <1>1, <1>2, <1>5, Bounds
  <2>2. QED
    BY <2>1, Zenon DEF Units
<1> DEFINE s == Pow10[n]
           t == Pow10[m]
           u == x * Pow10[j]
<1>8. s \in Nat \ {0} /\ t \in Nat \ {0} /\ 10 * s <= t
  BY <1>2, <1>5, PowersGrow, PowersOfTen
<1>9. r = x * Pow10[z]
  BY Zenon DEF r, n
<1>10. r * s = u * t /\ u \in Nat
  <2>1. Pow10[i] \in Nat \ {0} /\ t = s * Pow10[i]
    BY <1>2, <1>5, PowersSplit
  <2>2. i <= z
    BY <1>6
  <2>3. Pow10[j] \in Nat \ {0} /\ Pow10[z] = Pow10[i] * Pow10[j]
    BY <1>6, <2>2, PowersSplit
  <2> HIDE DEF s, t, i, j
  <2> DEFINE a == Pow10[i]
             b == Pow10[j]
  <2>4. a \in Nat /\ b \in Nat /\ s \in Nat
    BY <1>8, <2>1, <2>3
  <2>5. r = x * (a * b) /\ t = s * a
    BY <1>9, <2>1, <2>3, Zenon
  <2> HIDE DEF a, b
  <2>6. x * (a * b) \in Nat /\ (x * (a * b)) * s = (x * b) * (s * a) /\ x * b \in Nat
    BY <1>1, <2>4
  <2>7. r * s = (x * b) * t /\ x * b \in Nat
    BY <2>5, <2>6, Zenon
  <2>8. QED
    BY <2>7, Zenon DEF b
<1>11. 2 * d.c <= 2 * (r * s) + s /\ 2 * (r * s) <= 2 * d.c + s
  BY <1>1, <1>2, RoundedClose DEF r
<1> HIDE DEF s, t, u, m, i
<1>12. (2 * d.c + t) \div (2 * t) = u
  <2> DEFINE w == u * t
             v == 2 * d.c + t
             rest == v - 2 * w
  <2>1. w \in Nat /\ 2 * d.c <= 2 * w + s /\ 2 * w <= 2 * d.c + s
    BY <1>8, <1>10, <1>11, Product
  <2> HIDE DEF w
  <2>2. rest \in Nat /\ rest < 2 * t /\ v = 2 * w + rest /\ 2 * t \in Nat \ {0}
    BY <1>1, <1>8, <2>1
  <2> HIDE DEF rest, v
  <2>3. 2 * w = (2 * t) * u
    <3>1. \A f, g \in Nat : 2 * (f * g) = (2 * g) * f
      OBVIOUS
    <3>2. t \in Nat
      BY <1>8
    <3>3. QED
      BY <1>10, <3>1, <3>2, Zenon DEF w
  <2>4. v = (2 * t) * u + rest
    BY <2>2, <2>3, Zenon
  <2>5. v \div (2 * t) = u
    BY <1>10, <2>2, <2>4, Quotient
  <2>6. QED
    BY <2>5, Zenon DEF v
<1>13. Units(d) = x * Pow10[d.e + n + z + Places]
  BY <1>6, <1>7, <1>12, Zenon DEF t, u
<1>14. QED
  BY <1>13, Zenon DEF n

\* What is stored of an accepted amount, normalized or not.
LEMMA AcceptedUnits ==
    ASSUME NEW d \in [c : Coefficient, e : Int], Valid(d)
    PROVE  /\ Units(d) \in Nat \ {0}
           /\ Units(Normalize(d)) = Units(d)
           /\ Decimals(Normalize(d)) <= Places
           /\ Length(d.c) <= Precision => Units(d) < Pow10[MaxDigits]
<1> DEFINE l == Length(d.c)
           n == Cut(d.c)
           r == Rounded(d.c, n)
           N == Normalize(d)
<1>1. d.c \in Coefficient /\ d.c \in Nat /\ d.e \in Int
  BY Bounds
<1>2. n \in Nat /\ (l <= Precision => n = 0 /\ r = d.c)
  BY <1>1, CutIs, RoundedCoefficient
<1>3. PICK x \in Coefficient, z \in Nat :
          /\ r = x * Pow10[z]
          /\ Length(r) = Length(x) + z
          /\ N = [c |-> x, e |-> d.e + n + z]
  BY Normal
<1> DEFINE y == d.e + n + z
<1>4. y \in Int /\ x \in Nat \ {0} /\ N = [c |-> x, e |-> y]
  BY <1>1, <1>2, <1>3, Bounds
<1> HIDE DEF N, y, l
<1>5. N \in [c : Coefficient, e : Int] /\ N.c = x /\ N.e = y
  BY <1>4
<1>6. Decimals(N) <= Places
  <2>1. Decimals(d) <= Places \/ Decimals(N) <= Places
    BY Zenon DEF Valid, N
  <2>2. Decimals(N) <= Decimals(d)
    BY NormalDigits DEF N
  <2>3. Decimals(d) \in Nat /\ Decimals(N) \in Nat
    BY <1>5, DigitsOf
  <2>4. QED
    BY <2>1, <2>2, <2>3, Bounds
<1>7. y >= - Places
  <2>1. Decimals(N) = AtLeastZero(- y)
    BY <1>5, DigitsOf
  <2>2. \A a \in Int, b \in Nat : AtLeastZero(- a) <= b => a >= - b
    BY DEF AtLeastZero
  <2>3. QED
    BY <1>4, <1>6, <2>1, <2>2, Bounds
<1> DEFINE i == y + Places
           u == x * Pow10[i]
<1>8. i \in Nat /\ Pow10[i] \in Nat \ {0} /\ u \in Nat \ {0}
  <2>1. i \in Nat
    BY <1>4, <1>7, Bounds
  <2> HIDE DEF i
  <2>2. Pow10[i] \in Nat \ {0}
    BY <2>1, PowersOfTen
  <2>3. QED
    BY <1>4, <2>1, <2>2, Product
<1>9. Units(N) = u
  BY <1>5, <1>7 DEF Units
<1>10. Units(d) = u
  <2>1. CASE l <= Precision
    <3>1. y = d.e + z /\ d.c = x * Pow10[z]
      BY <1>1, <1>2, <1>3, <2>1 DEF y
    <3>2. Normalize(d) = [c |-> x, e |-> d.e + z] /\ d.e + z >= - Places
      BY <1>4, <1>7, <3>1, Zenon DEF N
    <3>3. Length(d.c) <= Precision
      BY <2>1 DEF l
    <3>4. Units(d) = x * Pow10[d.e + z + Places]
      BY <3>1, <3>2, <3>3, UnitsUnrounded
    <3>5. QED
      BY <3>1, <3>4, Zenon
  <2>2. CASE ~ (l <= Precision)
    <3>1. Length(d.c) > Precision
      <4>1. Length(d.c) \in Nat
        BY DigitsOf
      <4>2. QED
        BY <2>2, <4>1, Bounds DEF l
    <3>2. Units(d) = x * Pow10[d.e + Cut(d.c) + z + Places]
      BY <1>3, <1>7, <3>1, UnitsRounded DEF N, y
    <3>3. QED
      BY <3>2, Zenon DEF y
  <2>3. QED
    BY <2>1, <2>2
<1>11. ASSUME l <= Precision PROVE u < Pow10[MaxDigits]
  <2> DEFINE k == Length(x)
  <2>1. k \in Nat /\ WholeDigits(N) = AtLeastZero(k + y)
    BY <1>5, DigitsOf
  <2>2. x < Pow10[k]
    BY LengthExists
  <2> HIDE DEF k
  <2>3. WholeDigits(N) <= MaxDigits - Places
    <3>1. \/ WholeDigits(d) <= MaxDigits - Places
          \/ WholeDigits(N) <= MaxDigits - Places
      BY Zenon DEF Valid, N
    <3>2. WholeDigits(N) = WholeDigits(d)
      BY <1>11, NormalDigits DEF N, l
    <3>3. QED
      BY <3>1, <3>2
  <2>4. k + i <= MaxDigits
    <3>1. \A a, b \in Int : AtLeastZero(a) <= b => a <= b
      BY DEF AtLeastZero
    <3>2. k + y <= MaxDigits - Places
      BY <1>4, <2>1, <2>3, <3>1, Bounds
    <3>3. QED
      BY <1>4, <2>1, <3>2, Bounds
  <2> HIDE DEF i
  <2>5. /\ k + i \in Nat /\ Pow10[k + i] = Pow10[k] * Pow10[i]
        /\ Pow10[k] \in Nat /\ Pow10[k + i] \in Nat /\ Pow10[MaxDigits] \in Nat
    <3>1. Pow10[k + i] = Pow10[k] * Pow10[i]
      BY <1>8, <2>1, PowersAdd, Zenon
    <3>2. k + i \in Nat
      BY <1>8, <2>1
    <3>3. \A a \in Nat : Pow10[a] \in Nat
      BY PowersOfTen
    <3>4. QED
      BY <2>1, <3>1, <3>2, <3>3, Bounds
  <2>6. u < Pow10[k + i]
    <3>1. Pow10[i] \in Nat /\ Pow10[i] # 0 /\ x \in Nat
      BY <1>4, <1>8
    <3>2. x * Pow10[i] < Pow10[k] * Pow10[i]
      BY <2>2, <2>5, <3>1, Product
    <3>3. QED
      BY <2>5, <3>2, Zenon
  <2>7. Pow10[k + i] <= Pow10[MaxDigits]
    <3>1. CASE k + i = MaxDigits
      BY <2>5, <3>1
    <3>2. CASE k + i < MaxDigits
      <4>1. 10 * Pow10[k + i] <= Pow10[MaxDigits]
        BY <2>5, <3>2, PowersGrow, Bounds
      <4>2. QED
        BY <2>5, <4>1
    <3>3. QED
      BY <2>4, <2>5, <3>1, <3>2, Bounds
  <2>8. QED
    BY <1>8, <2>5, <2>6, <2>7
<1>12. QED
  BY <1>6, <1>8, <1>9, <1>10, <1>11, Zenon DEF N, l
----------------------------------------------------------------------------
(* The request.                                                            *)

\* The amounts of requests, and up to three zeros more, have a length.
LEMMA InRequest ==
    ASSUME NEW d \in Decimal, d.c > 0
    PROVE  /\ d \in [c : Coefficient, e : Int]
           /\ \A k \in 1 .. 3 : d.c * Pow10[k] \in Coefficient
<1>1. d = [c |-> d.c, e |-> d.e]
  BY DEF Decimal
<1>2. Pow10[MaxLength] \in Nat /\ Pow10[Longest] \in Nat
  BY Bounds, PowersOfTen
<1>3. d.c \in Nat \ {0} /\ d.e \in Int /\ d.c < Pow10[MaxLength]
  BY <1>2, Bounds, AmountAssumption DEF Decimal
<1>4. ASSUME NEW k \in 0 .. 3 PROVE d.c * Pow10[k] \in Coefficient
  <2>1. k \in Nat /\ MaxLength + k \in Nat /\ MaxLength + k <= Longest
    BY Bounds DEF Longest
  <2>2. /\ Pow10[k] \in Nat \ {0}
        /\ Pow10[MaxLength + k] = Pow10[MaxLength] * Pow10[k] /\ Pow10[MaxLength + k] \in Nat
    BY <2>1, Bounds, PowersAdd, PowersOfTen
  <2>3. d.c * Pow10[k] < Pow10[MaxLength + k] /\ d.c * Pow10[k] \in Nat \ {0}
    <3>1. Pow10[k] \in Nat /\ Pow10[k] # 0 /\ d.c \in Nat /\ d.c # 0
      BY <1>3, <2>2
    <3>2. d.c * Pow10[k] < Pow10[MaxLength] * Pow10[k]
      BY <1>2, <1>3, <3>1, Product
    <3>3. d.c * Pow10[k] \in Nat /\ d.c * Pow10[k] # 0
      BY <3>1, Product
    <3>4. QED
      BY <2>2, <3>2, <3>3
  <2>4. Pow10[MaxLength + k] <= Pow10[Longest]
    <3>1. CASE MaxLength + k = Longest
      BY <1>2, <3>1
    <3>2. CASE MaxLength + k < Longest
      <4>1. 10 * Pow10[MaxLength + k] <= Pow10[Longest]
        BY <2>1, <3>2, Bounds, PowersGrow
      <4>2. QED
        BY <1>2, <2>2, <4>1
    <3>3. QED
      BY <2>1, <3>1, <3>2, Bounds
  <2> DEFINE b == d.c * Pow10[k]
  <2> HIDE DEF b
  <2>5. b \in Nat \ {0} /\ b < Pow10[Longest]
    BY <1>2, <2>2, <2>3, <2>4 DEF b
  <2>6. b \in Coefficient
    BY <1>2, <2>5 DEF Coefficient
  <2>7. QED
    BY <2>6 DEF b
<1>5. d.c \in Coefficient
  <2>1. d.c * Pow10[0] = d.c /\ 0 \in 0 .. 3
    BY <1>3, PowersOfTen
  <2>2. QED
    BY <1>4, <2>1
<1>6. QED
  BY <1>1, <1>3, <1>4, <1>5

\* What is known of the amount at every stage of the request.
Judged ==
    /\ amount \in Decimal
    /\ stage \in {"posted", "accepted", "rejected", "stored", "error"}
    /\ stage \in {"accepted", "stored", "error"} => Valid(amount)
    /\ stage = "stored" => Fits(amount) /\ column = Units(amount)
    /\ stage = "error" => ~ Fits(amount)

\* It is an invariant: each stage decides on the amount the next one sees.
LEMMA JudgedAlways == Spec => []Judged
<1>1. Init => Judged
  BY DEF Init, Judged
<1>2. Judged /\ [Next]_vars => Judged'
  <2> SUFFICES ASSUME Judged, [Next]_vars PROVE Judged'
    OBVIOUS
  <2>1. CASE Validate
    BY <2>1 DEF Judged, Validate
  <2>2. CASE Insert
    BY <2>2 DEF Judged, Insert
  <2>3. CASE UNCHANGED vars
    BY <2>3 DEF Judged, vars
  <2>4. QED
    BY <2>1, <2>2, <2>3 DEF Next
<1>3. QED
  BY <1>1, <1>2, PTL DEF Spec

\* The facts about an accepted amount that the theorems use.
LEMMA AcceptedIsRequest ==
    Judged /\ stage \in {"accepted", "stored", "error"} =>
        /\ amount \in [c : Coefficient, e : Int]
        /\ Valid(amount)
        /\ \A k \in 1 .. 3 : amount.c * Pow10[k] \in Coefficient
<1> SUFFICES ASSUME Judged, stage \in {"accepted", "stored", "error"}
             PROVE  /\ amount \in [c : Coefficient, e : Int]
                    /\ Valid(amount)
                    /\ \A k \in 1 .. 3 : amount.c * Pow10[k] \in Coefficient
  OBVIOUS
<1>1. amount \in Decimal /\ Valid(amount)
  BY DEF Judged
<1>2. amount.c > 0
  BY <1>1, Zenon DEF Valid
<1>3. QED
  BY <1>1, <1>2, InRequest

\* The amount in the database is the amount in the fingerprint, for every
\* precision of the decimal context above the column's, and every length of the
\* coefficient: two roundings, to digits and to the column's scale, that agree.
THEOREM StoredIsFingerprinted == Spec => []StoredAsFingerprinted
<1>1. Judged => StoredAsFingerprinted
  <2> SUFFICES ASSUME Judged, stage = "stored"
               PROVE  /\ column > 0 /\ Units(Normalize(amount)) = column
                      /\ Decimals(Normalize(amount)) <= Places
    BY DEF StoredAsFingerprinted
  <2>1. amount \in [c : Coefficient, e : Int] /\ Valid(amount) /\ column = Units(amount)
    BY AcceptedIsRequest DEF Judged
  <2>2. /\ Units(amount) \in Nat \ {0} /\ Units(Normalize(amount)) = Units(amount)
        /\ Decimals(Normalize(amount)) <= Places
    BY <2>1, AcceptedUnits
  <2>3. QED
    BY <2>1, <2>2
<1>2. QED
  BY <1>1, JudgedAlways, PTL

\* An amount written with more zeros is accepted like the amount, and has its
\* normalized form: the fingerprint of the request does not depend on the form.
THEOREM FormsAreEqual == Spec => []FormDoesNotMatter
<1>1. Judged => FormDoesNotMatter
  <2> SUFFICES ASSUME Judged, stage \in {"accepted", "stored"}, NEW n \in 1 .. 3
               PROVE  /\ Valid([c |-> amount.c * Pow10[n], e |-> amount.e - n])
                      /\ Normalize([c |-> amount.c * Pow10[n], e |-> amount.e - n])
                             = Normalize(amount)
    BY Zenon DEF FormDoesNotMatter
  <2>1. /\ amount \in [c : Coefficient, e : Int] /\ Valid(amount) /\ n \in Nat
        /\ amount.c * Pow10[n] \in Coefficient
    BY AcceptedIsRequest
  <2>2. Valid(Longer(amount, n)) /\ Normalize(Longer(amount, n)) = Normalize(amount)
    BY <2>1, LongerIsValid, NormalizeLonger
  <2>3. QED
    BY <2>2, Zenon DEF Longer
<1>2. QED
  BY <1>1, JudgedAlways, PTL

\* The database refuses no accepted amount of ordinary length.
THEOREM OrdinaryAmountsAreStored == Spec => []OrdinaryAmountsFit
<1>1. Judged => OrdinaryAmountsFit
  <2> SUFFICES ASSUME Judged, stage = "error" PROVE Length(amount.c) > Precision
    BY DEF OrdinaryAmountsFit
  <2>1. amount \in [c : Coefficient, e : Int] /\ Valid(amount) /\ ~ Fits(amount)
    BY AcceptedIsRequest DEF Judged
  <2>2. ~ (Units(amount) < Pow10[MaxDigits])
    BY <2>1 DEF Fits
  <2>3. ~ (Length(amount.c) <= Precision)
    BY <2>1, <2>2, AcceptedUnits
  <2>4. Length(amount.c) \in Nat
    BY <2>1, DigitsOf
  <2>5. QED
    BY <2>3, <2>4, Bounds
<1>2. QED
  BY <1>1, JudgedAlways, PTL
=============================================================================
