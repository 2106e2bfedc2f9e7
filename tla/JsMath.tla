------------------------------- MODULE JsMath -------------------------------
(***************************************************************************)
(* Arithmetic, comparison and number conversion of JS-Forth                *)
(* (reference/jsforth.js).  A cell is a JavaScript number that the shift   *)
(* and bit operators take modulo 2^32 as a signed one, and that others     *)
(* leave as it is; here the cell has MathBits bits.  A number has Mantissa *)
(* significant bits (53), and what needs more is rounded to the nearest.   *)
(* A word is called on cells and leaves cells, both listed with the top of *)
(* the stack last.                                                         *)
(***************************************************************************)
EXTENDS Integers, Sequences

CONSTANTS
  MathBits,   \* bits of a cell
  Mantissa,   \* significant bits of a JavaScript number
  Corners,    \* cells the words on two doubles are called with
  Radixes     \* values of BASE

VARIABLES
  mathWord,     \* the word called, "" before
  mathArgs,
  mathResult    \* what it left

mathVars == <<mathWord, mathArgs, mathResult>>

MathInit == mathWord = "" /\ mathArgs = <<>> /\ mathResult = <<>>

Modulus == 2 ^ MathBits
Sign == 2 ^ (MathBits - 1)

\* The conversions of << | & ^ and of >>>.
Unsigned(n) == n % Modulus
Signed(n) == IF Unsigned(n) >= Sign THEN Unsigned(n) - Modulus ELSE Unsigned(n)
Bit(n, i) == (Unsigned(n) \div 2 ^ i) % 2

Cells == -Sign .. Sign - 1

\* A cell has bits, a number more than the sum of two cells needs, a run tries cells
\* and the radixes that the division of doubles is exact for, and a power of two is
\* twice the one before.
ASSUME MathAssumption ==
  /\ MathBits \in Nat \ {0}
  /\ Mantissa \in Nat /\ 2 ^ Mantissa \in Nat /\ 2 * Modulus < 2 ^ Mantissa
  /\ Corners \subseteq Cells
  /\ Radixes \subseteq 2 .. Sign \div 2
  /\ 2 ^ 0 = 1
  /\ \A i \in 1 .. 2 * MathBits : 2 ^ i = 2 * 2 ^ (i - 1)

Magnitude(n) == IF n < 0 THEN -n ELSE n
Flag(p) == IF p THEN -1 ELSE 0

\* The whole number nearest to n / d, the even one of two.
Nearest(n, d) ==
  LET q == n \div d
      twice == 2 * (n % d)
  IN IF twice > d \/ (twice = d /\ q % 2 = 1) THEN q + 1 ELSE q

\* What a number about n, from 2^Mantissa up, is a multiple of.
Unit(n) == CHOOSE u \in {2 ^ e : e \in 1 .. 3 * MathBits} :
             n \div u \in 2 ^ (Mantissa - 1) .. 2 ^ Mantissa - 1

\* The JavaScript number nearest to n.
Rounded(n) ==
  LET m == Magnitude(n)
      near == Nearest(m, Unit(m)) * Unit(m)
  IN IF m < 2 ^ Mantissa THEN n ELSE IF n < 0 THEN -near ELSE near

-----------------------------------------------------------------------------
(* Single cells. *)

\* Mutant: a negative quotient is rounded down.
Floored(q, exact) == IF exact THEN -q ELSE -q - 1

\* A negative quotient, of magnitude q: floor(x + 1 - 2^-53).  The sum rounds to
\* the next integer where x is a whole number below -1, and back to x where there
\* is none.
NegativeQuotient(q, exact) == IF exact /\ q \in 2 .. 2 ^ Mantissa THEN 1 - q ELSE -q

\* The number nearest to n / d, in parts of a cell's modulus, n being 2^Mantissa or
\* more and d a cell.
NearestRatio(n, d) ==
  LET parts == n * Modulus
      u == Unit(parts \div d)
  IN Nearest(parts, d * u) * u

\* n / d, its whole part and whether that is all.  Below 2^Mantissa the nearest
\* number to n / d is no whole one unless n / d is.
Ratio(n, d) ==
  IF n < 2 ^ Mantissa THEN [whole |-> n \div d, exact |-> n % d = 0]
  ELSE [whole |-> NearestRatio(n, d) \div Modulus, exact |-> NearestRatio(n, d) % Modulus = 0]

Quotient(n, d) ==
  LET q == Ratio(Magnitude(n), Magnitude(d))
  IN IF n * d < 0 THEN NegativeQuotient(q.whole, q.exact) ELSE q.whole

\* JavaScript's %, with the sign of the dividend.
Remainder(n, d) ==
  LET k == Magnitude(n) % Magnitude(d) IN IF n < 0 THEN -k ELSE k

shifted(n, u, left) ==
  IF u >= MathBits THEN 0
  ELSE IF left THEN Signed(n * 2 ^ (u % MathBits))
  ELSE Unsigned(n) \div 2 ^ (u % MathBits)

\* u<: a negative number is taken for the unsigned one with the same bits.
forthuless(u1, u2) ==
  LET Above(n) == IF n < 0 THEN n + Modulus ELSE n IN Flag(Above(u1) < Above(u2))

\* Is n in the range from lo up to hi, around the end of the cells if lo > hi?
forthwithin(n, lo, hi) ==
  Flag(\/ lo < hi /\ lo <= n /\ n < hi
       \/ lo > hi /\ (lo <= n \/ n < hi))

-----------------------------------------------------------------------------
(* Doubles, the less significant cell below. *)

forthstod(n) == <<n, IF Bit(n, MathBits - 1) = 1 THEN -1 ELSE 0>>

forthdnegate(lo, hi) == <<-lo, IF lo # 0 THEN -hi - 1 ELSE -hi>>

\* Mutant: the carry of the low cells is dropped.
CarryLost(low) == FALSE

\* A sum of exactly 2^32 is taken for one without a carry.
Carries(low) == low > Modulus

forthdplus(lo1, hi1, lo2, hi2) ==
  LET low == Unsigned(lo1) + Unsigned(lo2)
      high == Unsigned(hi1) + Unsigned(hi2)
  IN IF Carries(low) THEN <<Signed(low), Signed(high + 1)>> ELSE <<low, Signed(high)>>

\* The double shifted, and u1 added where there is a bit.  The sum of the low
\* cell, signed, and u1 tells the carry.
ShiftAdd(u1, bit, d) ==
  LET lo == Signed(2 * d[1])
      hi == Signed(2 * d[2]) + Bit(d[1], MathBits - 1)
  IN IF bit = 0 THEN <<lo, hi>>
     ELSE <<lo + u1, IF lo + u1 > Modulus - 1 THEN hi + 1 ELSE hi>>

\* Shift and add: the double after the i-th bit of u2.
forthummul(u1, u2) ==
  LET after[i \in 0 .. MathBits] ==
        IF i = 0 THEN <<0, 0>> ELSE ShiftAdd(u1, Bit(u2, MathBits - i), after[i - 1])
  IN after[MathBits]

forthmmul(n1, n2) ==
  LET d == forthummul(Magnitude(n1), Magnitude(n2))
  IN IF (n1 < 0) # (n2 < 0) THEN forthdnegate(d[1], d[2]) ELSE d

\* Low cells are compared as signed ones.
forthdless(lo1, hi1, lo2, hi2) == Flag(hi1 < hi2 \/ (hi1 = hi2 /\ lo1 < lo2))

\* Bits of the high cell skipped: as many as the divisor has leading ones.
Skipped(u) ==
  IF u = 0 THEN MathBits
  ELSE CHOOSE k \in 0 .. MathBits :
         /\ \A i \in 1 .. k : Bit(u, MathBits - i) = 1
         /\ k < MathBits => Bit(u, MathBits - k - 1) = 0

\* The k-th bit of the dividend, of the last bits of its high cell and the low one.
DividendBit(lo, hi, high, k) ==
  IF k <= high THEN Bit(hi, high - k) ELSE Bit(lo, high + MathBits - k)

\* <<remainder, quotient>>, shifted; the remainder is signed.
ShiftSubtract(u, bit, z) ==
  LET rest == Signed(2 * z[1]) + bit
      q == Signed(2 * z[2])
  IN IF rest >= u THEN <<rest - u, q + 1>> ELSE <<rest, q>>

\* Shift and subtract.
forthumslashmod(lo, hi, u) ==
  LET high == MathBits - Skipped(u)
      after[k \in 0 .. high + MathBits] ==
        IF k = 0 THEN <<0, 0>>
        ELSE ShiftSubtract(u, DividendBit(lo, hi, high, k), after[k - 1])
  IN after[high + MathBits]

\* The high cell, then the low one with the remainder above it.
forthudslashmod(lo, hi, u) ==
  LET first == forthumslashmod(hi, 0, u)
      second == forthumslashmod(lo, first[1], u)
  IN <<second[1], second[2], first[2]>>

-----------------------------------------------------------------------------
(* Number output and input. *)

\* # holds the character of the digit with this value, small letters after 9.
HeldDigit(v) == IF 9 < v THEN v + 39 + 48 ELSE v + 48

\* #: a digit is held before the others, unless they are all held.
HoldDigit(radix, h) ==
  LET z == forthudslashmod(h.lo, h.hi, radix)
  IN IF h.str # <<>> /\ h.lo = 0 /\ h.hi = 0 THEN h
     ELSE [str |-> <<HeldDigit(z[1])>> \o h.str, lo |-> z[2], hi |-> z[3]]

\* <# #s #>: digits are held, the last one first, until the double is 0.
forthhashs(lo, hi, radix) ==
  LET held[k \in 0 .. 2 * MathBits] ==
        IF k = 0 THEN [str |-> <<>>, lo |-> lo, hi |-> hi] ELSE HoldDigit(radix, held[k - 1])
  IN held[2 * MathBits].str

\* Mutant: small letters are worth what the capitals after them would be.
SmallLettersLarge(c) ==
  LET v == c - 48 IN IF v > 9 THEN (IF v < 17 THEN -1 ELSE v - 7) ELSE v

\* A digit's value, or what is no digit in any radix.
DigitValue(c) ==
  LET v == c - 48
      letter == v - 7
  IN IF v <= 9 THEN v
     ELSE IF v < 17 THEN -1
     ELSE IF letter > 41 THEN letter - 32 ELSE letter

\* ?number of a string: its value and -1, or 0.  The product and the sum are rounded
\* at each digit.
forthqsinglenumber(str, radix) ==
  LET minus == str[1] = 45
      digits == IF minus THEN Tail(str) ELSE str
      value[i \in 0 .. Len(digits)] ==
        IF i = 0 THEN 0
        ELSE Rounded(Rounded(value[i - 1] * radix) + DigitValue(digits[i]))
  IN IF \E i \in DOMAIN digits : DigitValue(digits[i]) \notin 0 .. radix - 1 THEN <<0>>
     ELSE <<Signed(IF minus THEN -value[Len(digits)] ELSE value[Len(digits)]), -1>>

-----------------------------------------------------------------------------
(* A call. *)

Computed(word, a) ==
  CASE word = "+"       -> <<a[1] + a[2]>>
    [] word = "-"       -> <<a[1] - a[2]>>
    [] word = "*"       -> <<Signed(Rounded(a[1] * a[2]))>>
    [] word = "/mod"    -> <<Remainder(a[1], a[2]), Quotient(a[1], a[2])>>
    [] word = "*/mod"   -> LET w == Rounded(a[1] * a[2])
                           IN <<Remainder(w, a[3]), Quotient(w, a[3])>>
    [] word = "lshift"  -> <<shifted(a[1], a[2], TRUE)>>
    [] word = "rshift"  -> <<shifted(a[1], a[2], FALSE)>>
    [] word = "2*"      -> <<Signed(2 * a[1])>>
    [] word = "2/"      -> <<Signed(a[1]) \div 2>>
    [] word = "u<"      -> <<forthuless(a[1], a[2])>>
    [] word = "within"  -> <<forthwithin(a[1], a[2], a[3])>>
    [] word = "s>d"     -> forthstod(a[1])
    [] word = "dnegate" -> forthdnegate(a[1], a[2])
    [] word = "d+"      -> forthdplus(a[1], a[2], a[3], a[4])
    [] word = "d<"      -> <<forthdless(a[1], a[2], a[3], a[4])>>
    [] word = "um*"     -> forthummul(a[1], a[2])
    [] word = "m*"      -> forthmmul(a[1], a[2])
    [] word = "um/mod"  -> forthumslashmod(a[1], a[2], a[3])
    [] word = "ud/mod"  -> forthudslashmod(a[1], a[2], a[3])
    [] word = "#s"      -> forthhashs(a[1], a[2], a[3])

\* The calls a run tries.
Calls ==
  {"s>d", "2*", "2/"} \X {<<n>> : n \in Cells}
  \cup {"u<", "+", "-", "*", "lshift", "rshift", "dnegate", "um*", "m*"} \X (Cells \X Cells)
  \cup {"/mod"} \X {a \in Cells \X Cells : a[2] # 0}
  \cup {"*/mod"} \X {a \in Corners \X Corners \X Cells : a[3] # 0}
  \cup {"within"} \X (Cells \X Corners \X Corners)
  \cup {"d+", "d<"} \X (Corners \X Corners \X Corners \X Corners)
  \cup {"um/mod"} \X (Corners \X Cells \X Cells)
  \cup {"ud/mod"} \X (Cells \X Corners \X Cells)
  \cup {"#s"} \X (Cells \X Cells \X Radixes)

MathNext ==
  /\ mathWord = ""
  /\ \E c \in Calls :
       /\ mathWord' = c[1] /\ mathArgs' = c[2]
       /\ mathResult' = Computed(c[1], c[2])

MathSpec == MathInit /\ [][MathNext]_mathVars

-----------------------------------------------------------------------------
(* Properties. *)

Double(lo, hi) == Unsigned(hi) * Modulus + Unsigned(lo)
SignedDouble(lo, hi) == Signed(hi) * Modulus + Unsigned(lo)
Truncated(n, d) == LET q == Magnitude(n) \div Magnitude(d) IN IF n * d < 0 THEN -q ELSE q

\* n is a number that JavaScript does not round.
Precise(n) == Magnitude(n) < 2 ^ Mantissa

\* Results are what the words' names say, modulo the cell: sums, products,
\* shifts and unsigned comparison, truncated quotients with remainders that make
\* up the dividend, and the circular range of WITHIN.  Two things are left out: a
\* product of 2^Mantissa or more, which is rounded before its low bits are taken
\* or it is divided, and a quotient that is a whole number below -1, which comes
\* out one too high, as -4 2 / gives -1.
SinglesExact ==
  LET a == mathArgs
      z == mathResult
      Divides(n, d) ==
        (n * d < 0 /\ n % Magnitude(d) = 0 /\ Magnitude(n) > Magnitude(d))
        \/ (z[2] = Truncated(n, d) /\ n = z[2] * d + z[1])
  IN CASE mathWord = "+" -> Unsigned(z[1]) = (a[1] + a[2]) % Modulus
       [] mathWord = "-" -> Unsigned(z[1]) = (a[1] - a[2]) % Modulus
       [] mathWord = "*" ->
            Precise(a[1] * a[2]) => Unsigned(z[1]) = (a[1] * a[2]) % Modulus
       [] mathWord = "lshift" ->
            a[2] \in 0 .. MathBits - 1 => Unsigned(z[1]) = (a[1] * 2 ^ a[2]) % Modulus
       [] mathWord = "rshift" ->
            a[2] \in 0 .. MathBits - 1 => Unsigned(z[1]) = Unsigned(a[1]) \div 2 ^ a[2]
       [] mathWord = "2*" -> Unsigned(z[1]) = (2 * a[1]) % Modulus
       [] mathWord = "2/" -> a[1] - 2 * z[1] \in {0, 1}
       [] mathWord = "u<" -> (z[1] = -1) = (Unsigned(a[1]) < Unsigned(a[2]))
       [] mathWord = "/mod" -> Divides(a[1], a[2])
       [] mathWord = "*/mod" -> Precise(a[1] * a[2]) => Divides(a[1] * a[2], a[3])
       [] mathWord = "within" ->
            (z[1] = -1) = (Unsigned(a[1] - a[2]) < Unsigned(a[3] - a[2]))
       [] OTHER -> TRUE

\* Double-cell results agree with arithmetic on the whole double where the code
\* gets them right: D+ but for low cells that add up to exactly 2^32, products
\* below 2^32, quotients by divisors up to a quarter of 2^32 that fit a cell, and
\* D< of doubles whose high cells differ or whose low ones have the same sign.
DoublesExact ==
  LET a == mathArgs
      z == mathResult
  IN CASE mathWord = "s>d" -> SignedDouble(z[1], z[2]) = a[1]
       [] mathWord = "dnegate" ->
            Double(z[1], z[2]) = (-Double(a[1], a[2])) % (Modulus * Modulus)
       [] mathWord = "d+" ->
            \/ Unsigned(a[1]) + Unsigned(a[3]) = Modulus
            \/ Double(z[1], z[2]) = (Double(a[1], a[2]) + Double(a[3], a[4])) % (Modulus * Modulus)
       [] mathWord = "d<" ->
            (a[2] # a[4] \/ (a[1] < 0) = (a[3] < 0)) =>
              (z[1] = -1) = (SignedDouble(a[1], a[2]) < SignedDouble(a[3], a[4]))
       [] mathWord = "um*" ->
            (a[1] >= 0 /\ a[2] >= 0 /\ a[1] * a[2] < Modulus) =>
              Double(z[1], z[2]) = a[1] * a[2]
       [] mathWord = "m*" ->
            Magnitude(a[1] * a[2]) < Modulus => SignedDouble(z[1], z[2]) = a[1] * a[2]
       [] mathWord = "um/mod" ->
            (a[3] \in 1 .. Sign \div 2 /\ Unsigned(a[2]) < a[3]) =>
              /\ Double(a[1], a[2]) = Unsigned(z[2]) * a[3] + z[1]
              /\ z[1] \in 0 .. a[3] - 1
       [] mathWord = "ud/mod" ->
            a[3] \in 1 .. Sign \div 2 =>
              /\ Double(a[1], a[2]) = Double(z[2], z[3]) * a[3] + z[1]
              /\ z[1] \in 0 .. a[3] - 1
       [] OTHER -> TRUE

\* What #S writes of a double below 2^Mantissa ?NUMBER reads back as its low cell,
\* in every radix either has digits for: the one takes quotients of doubles and
\* makes letters of digits, the other the values of letters and sums.  From
\* 2^Mantissa up ?NUMBER rounds: the digits of -1 -1 are read as 0.
NumbersReadBack ==
  (mathWord = "#s" /\ Precise(Double(mathArgs[1], mathArgs[2]))) =>
    forthqsinglenumber(mathResult, mathArgs[3]) = <<Signed(mathArgs[1]), -1>>

=============================================================================
