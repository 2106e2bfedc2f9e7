------------------------------ MODULE JsStack ------------------------------
(***************************************************************************)
(* The stacks of JS-Forth (reference/jsforth.js).  The top of the data     *)
(* stack is in tos, the rest in s below sp; s[1] is what tos was when the  *)
(* stack was empty.  Nothing checks for underflow: a program keeps to the  *)
(* stack effect each word is described with.                               *)
(***************************************************************************)
EXTENDS Integers, Sequences

CONSTANTS
  StackCells,   \* values of the items
  MaxDepth,     \* bound: items on the data stack
  MaxReturn     \* bound: items on the return stack

ASSUME StackAssumption == MaxDepth \in Nat /\ MaxReturn \in Nat /\ StackCells \subseteq Int

VARIABLES
  s, sp, tos,   \* the data stack
  r, rp         \* the return stack

stackVars == <<s, sp, tos, r, rp>>

StackInit ==
  /\ s = [i \in 1 .. MaxDepth + 1 |-> 0] /\ sp = 0 /\ tos = 0
  /\ r = [i \in 1 .. MaxReturn |-> 0] /\ rp = 0

-----------------------------------------------------------------------------
(* A word executed by the inner interpreter: what it leaves in s, sp, tos, *)
(* r and rp.  A word with an operand u finds it compiled before it.        *)

Set(f, i, x) == [f EXCEPT ![i] = x]

Data(a, p, top) == [s |-> a, sp |-> p, tos |-> top, r |-> r, rp |-> rp]
Both(a, p, top, b, q) == [s |-> a, sp |-> p, tos |-> top, r |-> b, rp |-> q]

\* s with tos pushed: s[++sp] = tos.
Pushed == Set(s, sp + 1, tos)

\* Mutant: -rot as rot.
Misrotated == Data(Set(Set(s, sp, tos), sp - 1, s[sp]), sp, s[sp - 1])
Rotated == Data(Set(Set(s, sp - 1, tos), sp, s[sp - 1]), sp, s[sp])

StackWord(word, u) ==
  CASE word = "(lit)" -> Data(Pushed, sp + 1, u)
    [] word = "dup"   -> Data(Pushed, sp + 1, tos)
    [] word = "?dup"  -> IF tos # 0 THEN Data(Pushed, sp + 1, tos) ELSE Data(s, sp, tos)
    [] word = "drop"  -> Data(s, sp - 1, s[sp])
    [] word = "swap"  -> Data(Set(s, sp, tos), sp, s[sp])
    [] word = "over"  -> Data(Pushed, sp + 1, s[sp])
    [] word = "rot"   -> Data(Set(Set(s, sp, tos), sp - 1, s[sp]), sp, s[sp - 1])
    [] word = "-rot"  -> Rotated
    [] word = "tuck"  -> Data(Set(Set(s, sp, tos), sp + 1, s[sp]), sp + 1, tos)
    [] word = "nip"   -> Data(s, sp - 1, tos)
    [] word = "2dup"  -> Data(Set(Pushed, sp + 2, s[sp]), sp + 2, tos)
    [] word = "2drop" -> Data(s, sp - 2, s[sp - 1])
    [] word = "2swap" -> Data([s EXCEPT ![sp - 1] = tos, ![sp - 2] = s[sp], ![sp] = s[sp - 2]],
                              sp, s[sp - 1])
    [] word = "2over" -> Data(Set(Pushed, sp + 2, s[sp - 2]), sp + 2, Pushed[sp - 1])
    [] word = "min"   -> Data(s, sp - 1, IF s[sp] < tos THEN s[sp] ELSE tos)
    [] word = "max"   -> Data(s, sp - 1, IF s[sp] > tos THEN s[sp] ELSE tos)
    [] word = ">r"    -> Both(s, sp - 1, s[sp], Set(r, rp + 1, tos), rp + 1)
    [] word = "r>"    -> Both(Pushed, sp + 1, r[rp], r, rp - 1)
    [] word = "r@"    -> Data(Pushed, sp + 1, r[rp])
    [] word = "rdrop" -> Both(s, sp, tos, r, rp - 1)
    [] word = "2>r"   -> Both(s, sp - 2, s[sp - 1],
                              Set(Set(r, rp + 1, s[sp]), rp + 2, tos), rp + 2)
    [] word = "2r>"   -> Both(Set(Pushed, sp + 2, r[rp - 1]), sp + 2, r[rp], r, rp - 2)
    [] word = "2r@"   -> Data(Set(Pushed, sp + 2, r[rp - 1]), sp + 2, r[rp])
    [] word = "depth" -> Data(Pushed, sp + 1, sp)
    [] word = "pick"  -> Data(Pushed, sp + 1, Pushed[sp + 1 - u])
    [] word = "roll"  -> Data([i \in DOMAIN s |->
                                 IF i \in sp + 1 - u .. sp THEN Pushed[i + 1] ELSE Pushed[i]],
                              sp, Pushed[sp + 1 - u])

-----------------------------------------------------------------------------
(* What describe() says of the words: items taken from the data stack and  *)
(* from the return stack, and the items left on them, by their numbers in  *)
(* the order data items, return items.                                     *)

StackMovers ==
  {"dup", "drop", "swap", "over", "rot", "-rot", "tuck", "nip", "2dup", "2drop", "2swap", "2over",
   ">r", "r>", "r@", "rdrop", "2>r", "2r>", "2r@"}

Described == [word \in StackMovers |->
  CASE word = "dup"   -> <<1, 0, <<1, 1>>, <<>>>>    [] word = "drop"  -> <<1, 0, <<>>, <<>>>>
    [] word = "swap"  -> <<2, 0, <<2, 1>>, <<>>>>    [] word = "over"  -> <<2, 0, <<1, 2, 1>>, <<>>>>
    [] word = "rot"   -> <<3, 0, <<2, 3, 1>>, <<>>>> [] word = "-rot"  -> <<3, 0, <<3, 1, 2>>, <<>>>>
    [] word = "tuck"  -> <<2, 0, <<2, 1, 2>>, <<>>>> [] word = "nip"   -> <<2, 0, <<2>>, <<>>>>
    [] word = "2dup"  -> <<2, 0, <<1, 2, 1, 2>>, <<>>>>
    [] word = "2drop" -> <<2, 0, <<>>, <<>>>>
    [] word = "2swap" -> <<4, 0, <<3, 4, 1, 2>>, <<>>>>
    [] word = "2over" -> <<4, 0, <<1, 2, 3, 4, 1, 2>>, <<>>>>
    [] word = ">r"    -> <<1, 0, <<>>, <<1>>>>       [] word = "r>"    -> <<0, 1, <<1>>, <<>>>>
    [] word = "r@"    -> <<0, 1, <<1>>, <<1>>>>      [] word = "rdrop" -> <<0, 1, <<1>>, <<>>>>
    [] word = "2>r"   -> <<2, 0, <<>>, <<1, 2>>>>    [] word = "2r>"   -> <<0, 2, <<1, 2>>, <<>>>>
    [] word = "2r@"   -> <<0, 2, <<1, 2>>, <<1, 2>>>>]

\* What the words do: rdrop leaves nothing, though it is described as leaving an
\* item, as r> is.
Effects == [Described EXCEPT !["rdrop"] = <<0, 1, <<>>, <<>>>>]

Counted == {"(lit)", "?dup", "min", "max", "depth", "pick", "roll"}

\* The stacks a program sees.
DataStack == IF sp = 0 THEN <<>> ELSE Append(SubSeq(s, 2, sp), tos)
ReturnStack == SubSeq(r, 1, rp)

\* The last n items of a stack, and the rest.
LastOf(q, n) == SubSeq(q, Len(q) - n + 1, Len(q))
AllBut(q, n) == SubSeq(q, 1, Len(q) - n)

\* Items a word needs, and the effect on the data stack d of those that count.
Needed(word, u) ==
  CASE word \in {"pick", "roll"} -> u + 1
    [] word \in {"min", "max"} -> 2
    [] word = "?dup" -> 1
    [] OTHER -> 0

CountedEffect(word, u, d) ==
  LET n == Len(d)
  IN CASE word = "(lit)" -> Append(d, u)
       [] word = "?dup" -> IF d[n] = 0 THEN d ELSE Append(d, d[n])
       [] word = "depth" -> Append(d, n)
       [] word = "pick" -> Append(d, d[n - u])
       [] word = "roll" -> AllBut(d, u + 1) \o LastOf(d, u) \o <<d[n - u]>>
       [] word = "min" -> Append(AllBut(d, 2), IF d[n] < d[n - 1] THEN d[n] ELSE d[n - 1])
       [] word = "max" -> Append(AllBut(d, 2), IF d[n] > d[n - 1] THEN d[n] ELSE d[n - 1])

\* The stacks after the effect e on the stacks d and q.
Rearranged(e, d, q) ==
  LET items == LastOf(d, e[1]) \o LastOf(q, e[2])
      Of(idx) == [k \in 1 .. Len(idx) |-> items[idx[k]]]
  IN <<AllBut(d, e[1]) \o Of(e[3]), AllBut(q, e[2]) \o Of(e[4])>>

StackEffect(word, u, d, q) ==
  IF word \in Counted THEN <<CountedEffect(word, u, d), q>> ELSE Rearranged(Effects[word], d, q)

-----------------------------------------------------------------------------
\* A program executes a word its stacks have the items for.
Execute(word, u) ==
  /\ IF word \in Counted THEN Needed(word, u) <= sp
     ELSE Effects[word][1] <= sp /\ Effects[word][2] <= rp
  /\ word = "depth" => sp \in StackCells
  /\ LET z == StackWord(word, u)
     IN /\ z.sp <= MaxDepth /\ z.rp <= MaxReturn
        /\ s' = z.s /\ sp' = z.sp /\ tos' = z.tos /\ r' = z.r /\ rp' = z.rp

\* The words of the source, with their operands.
Words ==
  (StackMovers \cup {"?dup", "min", "max", "depth"}) \X {0}
  \cup {"pick", "roll"} \X (0 .. MaxDepth - 1)
  \cup {"(lit)"} \X StackCells

StackNext == \E x \in Words : Execute(x[1], x[2])

StackSpec == StackInit /\ [][StackNext]_stackVars

-----------------------------------------------------------------------------
\* Every word but rdrop has the effect it is described with on both stacks,
\* whatever is left over above sp and below the first item.  rdrop, described as
\* -- x, drops an item of the return stack and touches no other.  A tos not stored, or stored
\* one place off, would show only some words later.
StackEffectsHold ==
  [][stackVars' # stackVars =>
       \A x \in Words : Execute(x[1], x[2]) =>
         <<DataStack', ReturnStack'>> = StackEffect(x[1], x[2], DataStack, ReturnStack)]_stackVars

=============================================================================
