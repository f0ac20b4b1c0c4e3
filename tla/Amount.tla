------------------------------- MODULE Amount -------------------------------
(***************************************************************************)
(* The amount of a payment on its way from the request to the database:    *)
(* the schema's limits on digits, the normalized form that enters the      *)
(* request fingerprint, and the column Numeric(precision, scale).          *)
(*                                                                         *)
(* A decimal is a coefficient and an exponent, coefficient * 10^exponent,  *)
(* as in Python: 12.5, 12.50 and 1250E-2 are different forms of one value. *)
(* In the code Precision is 28 (the default decimal context), MaxDigits 18 *)
(* and Places 2.                                                           *)
(***************************************************************************)
EXTENDS Integers

CONSTANTS
    Precision,      \* significant digits that Decimal.normalize keeps
    MaxDigits,      \* max_digits of the schema, and precision of the column
    Places,         \* decimal_places of the schema, and scale of the column
    MaxLength,      \* bound: digits of a coefficient in a request
    MaxExponent     \* bound: size of an exponent

\* The context keeps more digits than the column has.  With as many as the column
\* it would be false that the value stored is the one in the fingerprint: at
\* three digits, 1.005 is normalized to 1 and stored as 1.01.
ASSUME AmountAssumption ==
    /\ {Precision, MaxDigits, Places, MaxLength, MaxExponent} \subseteq Nat
    /\ 0 < Places /\ Places < MaxDigits /\ MaxDigits < Precision

\* Powers of ten.
Pow10[n \in Nat] == IF n = 0 THEN 1 ELSE 10 * Pow10[n - 1]

VARIABLES
    amount,         \* the amount in the request
    stage,          \* posted, accepted, rejected, stored or error
    column          \* what is stored, in units of 10^-Places

vars == <<amount, stage, column>>

Decimal == [c : 0 .. Pow10[MaxLength] - 1, e : - MaxExponent .. MaxExponent]

Init == amount \in Decimal /\ stage = "posted" /\ column = 0
----------------------------------------------------------------------------
AtLeastZero(n) == IF n < 0 THEN 0 ELSE n

\* The digits of a positive coefficient (FormDoesNotMatter appends three), and
\* the zeros it ends with.
Length(c) == CHOOSE n \in 1 .. MaxLength + 3 : Pow10[n - 1] <= c /\ c < Pow10[n]
Zeros(c) == CHOOSE n \in 0 .. MaxLength + 3 : c % Pow10[n] = 0 /\ c % Pow10[n + 1] # 0

\* c / 10^n, rounded half to even, as the decimal context does.
Rounded(c, n) ==
    LET q == c \div Pow10[n]  twice == 2 * (c % Pow10[n])
    IN  IF twice > Pow10[n] \/ (twice = Pow10[n] /\ q % 2 = 1) THEN q + 1 ELSE q

\* Mutant: the amount enters the fingerprint as it was written.
NormalizeNothing(d) == d

\* Decimal.normalize of a positive amount: rounded to the precision, and no zeros at the end.
Normalize(d) ==
    LET n == AtLeastZero(Length(d.c) - Precision)
        c == Rounded(d.c, n)
    IN  [c |-> c \div Pow10[Zeros(c)], e |-> d.e + n + Zeros(c)]

\* Digits after the decimal point, all digits, and those before the point, as
\* the validator counts them.
Decimals(d) == AtLeastZero(- d.e)
Digits(d) ==
    IF d.e >= 0 THEN Length(d.c) + d.e
    ELSE IF Length(d.c) > Decimals(d) THEN Length(d.c) ELSE Decimals(d)
WholeDigits(d) == Digits(d) - Decimals(d)

\* Mutant: no limit on the digits before the point.
ValidAnyWhole(d) ==
    d.c > 0 /\
    LET n == Normalize(d)
    IN  /\ Digits(d) <= MaxDigits \/ Digits(n) <= MaxDigits
        /\ Decimals(d) <= Places \/ Decimals(n) <= Places

\* Field(gt=0, max_digits, decimal_places).  Each limit is met by the amount or
\* by its normalized form.
Valid(d) ==
    d.c > 0 /\
    LET n == Normalize(d)
    IN  /\ Digits(d) <= MaxDigits \/ Digits(n) <= MaxDigits
        /\ Decimals(d) <= Places \/ Decimals(n) <= Places
        /\ WholeDigits(d) <= MaxDigits - Places \/ WholeDigits(n) <= MaxDigits - Places

\* Mutant: the stored value is cut off, not rounded.
UnitsDown(d) ==
    IF d.e >= - Places THEN d.c * Pow10[d.e + Places] ELSE d.c \div Pow10[- d.e - Places]

\* The value in units of 10^-Places, rounded half up as the column does.
Units(d) ==
    IF d.e >= - Places THEN d.c * Pow10[d.e + Places]
    ELSE LET n == - d.e - Places IN (2 * d.c + Pow10[n]) \div (2 * Pow10[n])

\* The column refuses what needs more than precision - scale whole digits.
Fits(d) == Units(d) < Pow10[MaxDigits]

\* The validated request body, or 422.
Validate ==
    /\ stage = "posted"
    /\ stage' = IF Valid(amount) THEN "accepted" ELSE "rejected"
    /\ UNCHANGED <<amount, column>>

\* The INSERT of the payment, or a database error that nothing handles: 500.
Insert ==
    /\ stage = "accepted"
    /\ \/ Fits(amount) /\ stage' = "stored" /\ column' = Units(amount)
       \/ ~ Fits(amount) /\ stage' = "error" /\ UNCHANGED column
    /\ UNCHANGED amount

Next == Validate \/ Insert

Spec == Init /\ [][Next]_vars
----------------------------------------------------------------------------
\* What is stored is the value in the fingerprint: the column rounds to its
\* scale, normalize to its precision, and on accepted amounts they agree.  So
\* requests with one fingerprint have one amount, and different amounts in the
\* database had different fingerprints.
StoredAsFingerprinted ==
    stage = "stored" => column > 0 /\ Units(Normalize(amount)) = column
                        /\ Decimals(Normalize(amount)) <= Places

\* A client that repeats a request and writes the amount with more zeros repeats
\* the same request: it is no conflict.
FormDoesNotMatter ==
    stage \in {"accepted", "stored"} =>
        \A n \in 1 .. 3 :
            LET longer == [c |-> amount.c * Pow10[n], e |-> amount.e - n]
            IN  Valid(longer) /\ Normalize(longer) = Normalize(amount)

\* An amount of no more digits than normalize keeps is stored if it is accepted.
OrdinaryAmountsFit == stage = "error" => Length(amount.c) > Precision

\* The schema's limits are those of the column: what it accepts, the column
\* holds.
AcceptedAmountsFit == stage # "error"
=============================================================================
