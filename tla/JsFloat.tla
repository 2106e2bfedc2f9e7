------------------------------ MODULE JsFloat ------------------------------
(***************************************************************************)
(* The floating point words of JS-Forth (reference/jsforth.js).  Floats    *)
(* have a stack of their own: the top is in ftos, the others in the array  *)
(* f, whose first element is what ftos was when the stack was empty.       *)
(*                                                                         *)
(* A float is <<n>>, a whole number, or what a function was applied to:    *)
(* the properties are about operands and their order, and about whole      *)
(* numbers that become cells and back.  A cell has FloatBits bits.         *)
(***************************************************************************)
EXTENDS JsStack

CONSTANTS
  FloatNumbers,  \* whole numbers that floats may be
  FloatCells,    \* bound: values of the items on the data stack
  FloatBits,     \* bits of a cell
  MaxItems,      \* bound: items on both stacks
  MaxHere        \* bound: floats compiled into the data space

\* A cell has bits, half of its values are negative, and what the bounds name
\* are values of a cell.
ASSUME FloatAssumption ==
  /\ FloatBits \in Nat \ {0} /\ MaxItems \in 0 .. MaxDepth
  /\ 2 ^ (FloatBits - 1) \in Nat \ {0} /\ 2 ^ FloatBits = 2 * 2 ^ (FloatBits - 1)
  /\ FloatNumbers \subseteq Int
  /\ FloatCells \cup StackCells \subseteq -(2 ^ (FloatBits - 1)) .. 2 ^ (FloatBits - 1) - 1

VARIABLES
  f, ftos,  \* the float stack
  fm        \* floats in the data space, from its start

floatOnly == <<f, ftos, fm>>
floatVars == <<stackVars, floatOnly>>

FloatInit == StackInit /\ f = <<>> /\ ftos = <<0>> /\ fm = <<>>

FloatModulus == 2 ^ FloatBits
LowCell(n) ==
  LET k == n % FloatModulus IN IF k >= FloatModulus \div 2 THEN k - FloatModulus ELSE k

Truth(p) == IF p THEN -1 ELSE 0
Whole(x) == Len(x) = 1

-----------------------------------------------------------------------------
(* The words, by the operands they take. *)

Unary == {"fnegate", "fabs", "fround", "fsin", "fcos", "ftan", "fasin", "fatan",
          "facos", "fln", "falog", "fsqrt", "1/f"}
Symmetric == {"f+", "f*", "fmin", "fmax"}
Ordered == {"f-", "f/", "f**", "fatan2"}
Comparisons == {"f=", "f<>", "f>", "f<"}
Tests == {"f0=", "f0<>", "f0<", "f0>"}
Movers == {"fdrop", "fdup", "fswap", "fover", "f.", "pi", "fdepth"}
Stores == {"f@", "f!", "f,"}
Conversions == {"d>f", "f>d", "s>f"}

FloatWords ==
  UNION {Unary, Symmetric, Ordered, Comparisons, Tests, Movers, Stores, Conversions}

\* Items a word takes from the data stack and from the float stack.
Takes(word) ==
  CASE word \in {"pi", "fdepth", "(flit)"} -> <<0, 0>>
    [] word \in {"f@", "s>f"} -> <<1, 0>>
    [] word = "d>f" -> <<2, 0>>
    [] word = "f!" -> <<1, 1>>
    [] word \in Symmetric \cup Ordered \cup Comparisons \cup {"fswap", "fover"} -> <<0, 2>>
    [] OTHER -> <<0, 1>>

-----------------------------------------------------------------------------
(* What a word leaves. *)

Leaves(a, p, top, q, ftop, fmem) ==
  [s |-> a, sp |-> p, tos |-> top, f |-> q, ftos |-> ftop, fm |-> fmem]

\* On the float stack q below ftop; with the data stack as it was, with n
\* pushed, or with one item or two taken.
OnFloats(q, ftop) == Leaves(s, sp, tos, q, ftop, fm)
WithCell(n, q, ftop) == Leaves(Pushed, sp + 1, n, q, ftop, fm)
WithoutCell(q, ftop) == Leaves(s, sp - 1, s[sp], q, ftop, fm)
WithoutDouble(q, ftop) == Leaves(s, sp - 2, s[sp - 1], q, ftop, fm)

FPushed == Append(f, ftos)
FPopped == AllBut(f, 1)
Second == f[Len(f)]

\* fdepth stores tos at sp and not above it: s[sp++] = tos.
DepthStored == IF sp = 0 THEN s ELSE Set(s, sp, tos)

\* Mutant: fover without f.push(ftos).
Lifted == OnFloats(f, Second)
Over == OnFloats(FPushed, Second)

FloatMover(word) ==
  CASE word \in {"fdrop", "f."} -> OnFloats(FPopped, Second)
    [] word = "fdup"   -> OnFloats(FPushed, ftos)
    [] word = "fswap"  -> OnFloats(Append(FPopped, ftos), Second)
    [] word = "fover"  -> Over
    [] word = "pi"     -> OnFloats(FPushed, <<"pi", <<>>>>)
    [] word = "fdepth" -> Leaves(DepthStored, sp + 1, Len(f), f, ftos, fm)

FloatStore(word) ==
  CASE word = "f@" -> WithoutCell(FPushed, fm[tos + 1])
    [] word = "f!" -> [WithoutCell(FPopped, Second) EXCEPT !.fm[tos + 1] = ftos]
    [] word = "f," -> [OnFloats(FPopped, Second) EXCEPT !.fm = Append(@, ftos)]

\* The second operand stays in ftos.
FloatComparison(word) ==
  LET x == ftos[1]
      y == Second[1]
  IN WithCell(Truth(CASE word = "f="  -> x = y
                      [] word = "f<>" -> x # y
                      [] word = "f>"  -> y > x
                      [] word = "f<"  -> y < x), FPopped, ftos)

Tested(p) == WithCell(Truth(p), FPopped, Second)

FloatTest(word) ==
  LET x == ftos[1]
  IN Tested(CASE word = "f0="  -> x = 0
              [] word = "f0<>" -> x # 0
              [] word = "f0<"  -> x < 0
              [] word = "f0>"  -> x > 0)

\* The function of the popped operand and ftos.
FloatFunction(word) ==
  CASE word \in Unary -> OnFloats(f, <<word, ftos>>)
    [] word \in Symmetric -> OnFloats(FPopped, <<word, {ftos, Second}>>)
    [] word \in Ordered -> OnFloats(FPopped, <<word, Second, ftos>>)

\* The high cell of f>d: floor(n / 2^32), or of floor(n / 2^32 + 1 - 1e-16) for
\* negative n, where the sum rounds to the next integer at a whole quotient
\* below -1.
HighCell(n) ==
  IF n >= 0 THEN n \div FloatModulus
  ELSE LET q == (-n) \div FloatModulus
       IN IF (-n) % FloatModulus = 0 /\ q > 1 THEN 1 - q ELSE -q

\* d>f adds the low cell as a signed number.
FloatConversion(word) ==
  CASE word = "s>f" -> WithoutCell(FPushed, <<tos>>)
    [] word = "d>f" -> WithoutDouble(FPushed, <<tos * FloatModulus + s[sp]>>)
    [] word = "f>d" -> Leaves(Set(Pushed, sp + 2, LowCell(ftos[1])), sp + 2,
                              HighCell(ftos[1]), FPopped, Second, fm)

FloatWord(word, u) ==
  CASE word = "(flit)" -> OnFloats(FPushed, <<u>>)
    [] word \in Movers -> FloatMover(word)
    [] word \in Stores -> FloatStore(word)
    [] word \in Comparisons -> FloatComparison(word)
    [] word \in Tests -> FloatTest(word)
    [] word \in Unary \cup Symmetric \cup Ordered -> FloatFunction(word)
    [] word \in Conversions -> FloatConversion(word)

-----------------------------------------------------------------------------
\* The stack of floats a program sees.
FloatStack == IF f = <<>> THEN <<>> ELSE Append(Tail(f), ftos)

\* Numbers are compared and converted, functions applied once.
OnWholes(word) ==
  word \in FloatWords \ (Movers \cup Stores \cup {"s>f", "d>f"}) =>
    \A x \in {LastOf(FloatStack, Takes(word)[2])[i] : i \in 1 .. Takes(word)[2]} : Whole(x)

InBounds(z) ==
  LET floats == Append(z.f \o z.fm, z.ftos)
      terms == {i \in 1 .. Len(floats) : ~Whole(floats[i])}
  IN /\ z.sp < MaxItems /\ z.sp + Len(z.f) <= MaxItems /\ Len(z.fm) <= MaxHere
     /\ z.tos \in FloatCells
     /\ \A i \in 1 .. Len(floats) : Whole(floats[i]) => floats[i][1] \in FloatNumbers
     /\ terms # {} => /\ z.sp = 0
                      /\ \A i \in DOMAIN z.s : z.s[i] = 0
                      /\ Len(z.f \o z.fm) < MaxItems
                      /\ \A i, k \in terms : i = k

\* A program executes a word its stacks have the items for.
FloatExecute(word, u) ==
  /\ Takes(word)[1] <= Len(DataStack) /\ Takes(word)[2] <= Len(FloatStack)
  /\ word \in {"f@", "f!"} => tos \in 0 .. Len(fm) - 1
  /\ OnWholes(word)
  /\ LET z == FloatWord(word, u)
     IN /\ f' = z.f /\ ftos' = z.ftos /\ fm' = z.fm
        /\ s' = z.s /\ sp' = z.sp /\ tos' = z.tos
        /\ InBounds(z)
  /\ UNCHANGED <<r, rp>>

FloatNext ==
  \/ \E u \in StackCells : sp + Len(f) < MaxItems - 1 /\ Execute("(lit)", u) /\ UNCHANGED floatOnly
  \/ \E x \in FloatNumbers : FloatExecute("(flit)", x)
  \/ \E word \in FloatWords : FloatExecute(word, 0)

FloatSpec == FloatInit /\ [][FloatNext]_floatVars

-----------------------------------------------------------------------------
(* What describe() says of the words. *)

\* The double d with its cells lo and hi.
TwoCells(lo, hi) == hi * FloatModulus + (lo % FloatModulus)

\* The cells a word leaves for those it takes, x being its float operands.
CellsLeft(word, x) ==
  CASE word = "fdepth" -> <<Len(FloatStack)>>
    [] word \in Comparisons \cup Tests ->
         LET a == x[1][1]
             b == IF word \in Tests THEN 0 ELSE x[2][1]
         IN <<Truth(CASE word \in {"f=", "f0="} -> a = b
                      [] word \in {"f<>", "f0<>"} -> a # b
                      [] word \in {"f>", "f0>"} -> a > b
                      [] word \in {"f<", "f0<"} -> a < b)>>
    [] OTHER -> <<>>

\* The floats it leaves, d being its operands from the data stack.
FloatsLeft(word, u, d, x) ==
  CASE word = "(flit)" -> <<<<u>>>>
    [] word = "fdup" -> <<x[1], x[1]>>
    [] word = "fswap" -> <<x[2], x[1]>>
    [] word = "fover" -> <<x[1], x[2], x[1]>>
    [] word = "pi" -> <<<<"pi", <<>>>>>>
    [] word = "f@" -> <<fm[d[1] + 1]>>
    [] word = "s>f" -> <<<<d[1]>>>>
    [] word = "d>f" -> <<<<TwoCells(d[1], d[2])>>>>
    [] word \in Unary -> <<<<word, x[1]>>>>
    [] word \in Symmetric -> <<<<word, {x[1], x[2]}>>>>
    [] word \in Ordered -> <<<<word, x[1], x[2]>>>>
    [] word = "fdepth" -> <<>>
    [] OTHER -> <<>>

FloatCalls == ({"(flit)"} \X FloatNumbers) \cup (FloatWords \X {0})

\* What does not have the described effect: the comparisons, which leave their
\* second operand; fdepth above an item; and the conversions of negative floats
\* and of doubles whose low cell has its top bit set.
AsDescribed(word) ==
  /\ word \notin Comparisons
  /\ word = "fdepth" => sp = 0
  /\ word = "d>f" => s[sp] >= 0
  /\ word = "f>d" => ftos[1] >= 0

\* Every other float word takes its operands off both stacks, in the order it is
\* described with, leaves its results there and moves nothing else, whatever
\* these words have left before; a double and the float it is converted from
\* are the same number.
FloatEffectsHold ==
  [][floatVars' # floatVars => \A c \in FloatCalls :
       ((floatOnly' # floatOnly \/ c[1] = "fdepth")
        /\ FloatExecute(c[1], c[2]) /\ AsDescribed(c[1])) =>
         LET n == Takes(c[1])
             d == LastOf(DataStack, n[1])
             x == LastOf(FloatStack, n[2])
         IN /\ FloatStack' = AllBut(FloatStack, n[2]) \o FloatsLeft(c[1], c[2], d, x)
            /\ IF c[1] = "f>d"
               THEN x = <<<<TwoCells(s'[sp'], tos')>>>> /\ AllBut(DataStack', 2) = DataStack
               ELSE DataStack' = AllBut(DataStack, n[1]) \o CellsLeft(c[1], x)]_floatVars

=============================================================================
