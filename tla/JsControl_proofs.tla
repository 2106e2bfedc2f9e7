------------------------- MODULE JsControl_proofs -------------------------
(***************************************************************************)
(* Theorems about the control structures of JS-Forth, for definitions of   *)
(* any length and structures nested to any depth: execution lands on       *)
(* words, and every loop is left with its parameters dropped.  Both follow *)
(* from one invariant, that the words compiled can be labelled with the    *)
(* loops open at each and the cells the structures keep on the stack with  *)
(* what they stand for.                                                    *)
(***************************************************************************)
EXTENDS JsControl, TLAPS

-----------------------------------------------------------------------------
(* A definition is labelled with the number of loops open at each word.    *)
(* A branch resolved goes to a word with the same label, and LEAVE is given *)
(* the operand of a loop with one less.                                     *)

Dos == {"(do)", "(?do)", "(for)"}
Ends == {"(loop)", "(+loop)", "(next)"}
Straight == {"(branch)", "(0branch)", "(of)"}
Jumps == Dos \cup Ends \cup Straight
Exits == {"(leave)", "(?leave)"}
CodeWords == Jumps \cup Exits \cup {"drop", "operand"}

\* The index in a definition's cells of the cell with this address.
At(a) == a - Base + 1

\* At i a word starts or the definition ends.
Starts(co, i) == i \in 1 .. Len(co) + 1 /\ (i <= Len(co) => co[i] # "operand")

\* Cell i is the operand of a branch or loop compiled inside n loops.
Hole(co, d, i, n) ==
  i \in 2 .. Len(co) /\ co[i] = "operand" /\ co[i - 1] \in Jumps /\ d[i - 1] = n

\* The word at i falls through to one as many loops deep as the word says.
Falls(w, before, after) ==
  \/ w \in Dos /\ after = before + 1
  \/ w \in Ends /\ before = after + 1
  \/ w \in Straight \cup Exits /\ after = before

\* A branch or loop of i comes out where a word starts, as deep as it is itself.
Resolved(co, ce, d, i) ==
  Starts(co, i + 1 + ce[i + 1]) /\ d[i + 1 + ce[i + 1]] = d[i]

\* The operand at i is one to resolve, and 0 meanwhile.
Pending(ce, open, i) == i \in open /\ ce[i] = 0

WordIn(co, ce, d, open, i) ==
  /\ co[i] = "drop" => Starts(co, i + 1) /\ d[i + 1] = d[i]
  /\ co[i] \in Jumps \cup Exits =>
       /\ i < Len(co) /\ co[i + 1] = "operand"
       /\ Starts(co, i + 2) /\ Falls(co[i], d[i], d[i + 2])
  /\ co[i] \in Jumps => Pending(ce, open, i + 1) \/ Resolved(co, ce, d, i)
  /\ co[i] \in Exits => d[i] >= 1 /\ Hole(co, d, At(ce[i + 1]), d[i] - 1)

\* The definition's words, each d[i] loops deep, with the operands open to resolve.
Coded(co, ce, d, open) ==
  /\ co \in Seq(CodeWords) /\ ce \in Seq(Int) /\ Len(ce) = Len(co)
  /\ d \in [Nat -> Nat] /\ d[1] = 0
  /\ Starts(co, 1)
  /\ \A i \in 1 .. Len(co) : WordIn(co, ce, d, open, i)

\* The definition is longer now.
Grown(co, d, co2, d2) ==
  /\ co \in Seq(CodeWords) /\ co2 \in Seq(CodeWords) /\ Len(co) <= Len(co2)
  /\ \A i \in 1 .. Len(co) : co2[i] = co[i]
  /\ \A i \in 1 .. Len(co) + 1 : d2[i] = d[i]
  /\ Starts(co2, Len(co) + 1)

\* A cell to resolve stays one when the definition grows.
LEMMA HoleGrown ==
  ASSUME NEW co, NEW d, NEW co2, NEW d2, Grown(co, d, co2, d2), NEW i, NEW n, Hole(co, d, i, n)
  PROVE  Hole(co2, d2, i, n)
<1>1. Len(co) \in Nat /\ Len(co2) \in Nat BY DEF Grown
<1>2. /\ i \in 2 .. Len(co) /\ i \in 1 .. Len(co)
      /\ i - 1 \in 1 .. Len(co) /\ i - 1 \in 1 .. Len(co) + 1
  BY <1>1 DEF Hole
<1>3. i \in 2 .. Len(co2) BY <1>1, <1>2 DEF Grown
<1>4. co2[i] = co[i] /\ co2[i - 1] = co[i - 1] /\ d2[i - 1] = d[i - 1] BY <1>2 DEF Grown
<1> QED BY <1>3, <1>4 DEF Hole

\* Where a word starts one starts in the longer definition, as deep.
LEMMA StartsGrown ==
  ASSUME NEW co, NEW d, NEW co2, NEW d2, Grown(co, d, co2, d2), NEW i, Starts(co, i)
  PROVE  Starts(co2, i) /\ d2[i] = d[i]
<1>1. Len(co) \in Nat /\ Len(co2) \in Nat BY DEF Grown
<1>2. i \in 1 .. Len(co) + 1 BY DEF Starts
<1>3. d2[i] = d[i] BY <1>2 DEF Grown
<1>4. CASE i = Len(co) + 1 BY <1>3, <1>4 DEF Grown
<1>5. CASE i \in 1 .. Len(co)
  <2>1. co2[i] = co[i] /\ i \in 1 .. Len(co2) + 1 BY <1>1, <1>5 DEF Grown
  <2>2. co[i] # "operand" BY <1>5, <1>1 DEF Starts
  <2> QED BY <1>3, <2>1, <2>2 DEF Starts
<1> QED BY <1>1, <1>2, <1>4, <1>5

\* A word stays what it was, with its operand, when the definition grows.
LEMMA WordGrown ==
  ASSUME NEW co, NEW d, NEW co2, NEW d2, Grown(co, d, co2, d2),
         NEW ce, NEW ce2, \A i \in 1 .. Len(co) : ce2[i] = ce[i],
         NEW open, NEW i \in 1 .. Len(co), WordIn(co, ce, d, open, i)
  PROVE  WordIn(co2, ce2, d2, open, i)
<1>1. Len(co) \in Nat /\ Len(co2) \in Nat /\ i \in 1 .. Len(co) + 1 BY DEF Grown
<1>2. co2[i] = co[i] /\ d2[i] = d[i] BY <1>1 DEF Grown
<1>3. ASSUME co2[i] = "drop" PROVE Starts(co2, i + 1) /\ d2[i + 1] = d2[i]
  <2>1. Starts(co, i + 1) /\ d[i + 1] = d[i] BY <1>2, <1>3 DEF WordIn
  <2> QED BY <1>2, <2>1, StartsGrown
<1>4. ASSUME co2[i] \in Jumps \cup Exits
      PROVE  /\ i + 1 \in 1 .. Len(co) /\ i < Len(co2)
             /\ co2[i + 1] = "operand" /\ ce2[i + 1] = ce[i + 1]
             /\ Starts(co2, i + 2) /\ Falls(co2[i], d2[i], d2[i + 2])
  <2>1. i < Len(co) /\ co[i + 1] = "operand" /\ Starts(co, i + 2) /\ Falls(co[i], d[i], d[i + 2])
    BY <1>2, <1>4 DEF WordIn
  <2>2. i + 1 \in 1 .. Len(co) BY <1>1, <2>1
  <2>3. co2[i + 1] = co[i + 1] /\ Len(co) <= Len(co2) BY <2>2 DEF Grown
  <2>4. Starts(co2, i + 2) /\ d2[i + 2] = d[i + 2] BY <2>1, StartsGrown
  <2> QED BY <1>1, <1>2, <2>1, <2>2, <2>3, <2>4
<1>5. ASSUME co2[i] \in Jumps PROVE Pending(ce2, open, i + 1) \/ Resolved(co2, ce2, d2, i)
  <2>1. Pending(ce, open, i + 1) \/ Resolved(co, ce, d, i) BY <1>2, <1>5 DEF WordIn
  <2>2. ce2[i + 1] = ce[i + 1] BY <1>4, <1>5
  <2>3. ASSUME Resolved(co, ce, d, i) PROVE Resolved(co2, ce2, d2, i)
    BY <1>2, <2>2, <2>3, StartsGrown DEF Resolved
  <2>4. ASSUME Pending(ce, open, i + 1) PROVE Pending(ce2, open, i + 1)
    BY <2>2, <2>4 DEF Pending
  <2> QED BY <2>1, <2>3, <2>4
<1>6. ASSUME co2[i] \in Exits PROVE d2[i] >= 1 /\ Hole(co2, d2, At(ce2[i + 1]), d2[i] - 1)
  <2>1. d[i] >= 1 /\ Hole(co, d, At(ce[i + 1]), d[i] - 1) BY <1>2, <1>6 DEF WordIn
  <2>2. ce2[i + 1] = ce[i + 1] BY <1>4, <1>6
  <2> QED BY <1>2, <2>1, <2>2, HoleGrown
<1> QED BY <1>3, <1>4, <1>5, <1>6 DEF WordIn

\* Cell i is resolved to the definition's end, as deep as its word.
AtEnd(co, ce, d, i) == Hole(co, d, i, d[Len(co) + 1]) /\ ce[i] = Len(co) + 1 - i

\* Operands resolved to the definition's end.
LEMMA CodedResolved ==
  ASSUME NEW co, NEW ce, NEW d, NEW open, Coded(co, ce, d, open), NEW ce2 \in Seq(Int), NEW open2,
         Len(ce2) = Len(co),
         \A i \in 1 .. Len(co) : ce2[i] = ce[i] \/ AtEnd(co, ce2, d, i),
         \A i \in open : i \in open2 \/ AtEnd(co, ce2, d, i)
  PROVE  Coded(co, ce2, d, open2)
<1> DEFINE n == Len(co)
<1>1. co \in Seq(CodeWords) /\ n \in Nat /\ ce \in Seq(Int) BY DEF Coded
<1>2. Starts(co, n + 1) BY <1>1 DEF Starts
<1>3. ASSUME NEW i \in 1 .. n, AtEnd(co, ce2, d, i + 1)
      PROVE  Resolved(co, ce2, d, i)
  <2>1. i + 1 + ce2[i + 1] = n + 1 BY <1>1, <1>3 DEF AtEnd
  <2>2. (i + 1) - 1 = i BY <1>1
  <2>3. d[i] = d[n + 1] BY <1>3, <2>2 DEF AtEnd, Hole
  <2> QED BY <1>2, <2>1, <2>3 DEF Resolved
<1>4. ASSUME NEW i \in 1 .. n PROVE WordIn(co, ce2, d, open2, i)
  <2>1. WordIn(co, ce, d, open, i) BY DEF Coded
  <2>2. ASSUME co[i] \in Jumps \cup Exits PROVE i + 1 \in 1 .. n BY <1>1, <2>1, <2>2 DEF WordIn
  <2>3. ASSUME co[i] \in Jumps PROVE Pending(ce2, open2, i + 1) \/ Resolved(co, ce2, d, i)
    <3>1. i + 1 \in 1 .. n BY <2>2, <2>3
    <3>2. CASE Pending(ce, open, i + 1)
      <4>1. CASE AtEnd(co, ce2, d, i + 1) BY <1>3, <4>1
      <4>2. CASE ~ AtEnd(co, ce2, d, i + 1) BY <3>1, <3>2, <4>2 DEF Pending
      <4> QED BY <4>1, <4>2
    <3>3. CASE Resolved(co, ce, d, i)
      <4>1. CASE ce2[i + 1] = ce[i + 1] BY <3>3, <4>1 DEF Resolved
      <4>2. CASE ce2[i + 1] # ce[i + 1] BY <1>3, <3>1, <4>2
      <4> QED BY <4>1, <4>2
    <3> QED BY <2>1, <2>3, <3>2, <3>3 DEF WordIn
  <2>4. ASSUME co[i] \in Exits PROVE ce2[i + 1] = ce[i + 1]
    <3>1. i + 1 \in 1 .. n BY <2>2, <2>4
    <3>2. ~ AtEnd(co, ce2, d, i + 1)
      <4>1. (i + 1) - 1 = i BY <1>1
      <4>2. co[i] \notin Jumps BY <2>4 DEF Exits, Jumps, Dos, Ends, Straight
      <4> QED BY <4>1, <4>2 DEF AtEnd, Hole
    <3> QED BY <3>1, <3>2
  <2> QED BY <2>1, <2>3, <2>4 DEF WordIn
<1> QED BY <1>4 DEF Coded

\* Two elements are put at the end of a sequence.
LEMMA PairJoined ==
  ASSUME NEW S, NEW q \in Seq(S), NEW x \in S, NEW y \in S
  PROVE  /\ q \o <<x, y>> \in Seq(S) /\ Len(q \o <<x, y>>) = Len(q) + 2 /\ Len(q) \in Nat
         /\ \A i \in 1 .. Len(q) : (q \o <<x, y>>)[i] = q[i]
         /\ (q \o <<x, y>>)[Len(q) + 1] = x /\ (q \o <<x, y>>)[Len(q) + 2] = y
         /\ q \o <<x, y>> = Append(Append(q, x), y)
OBVIOUS

\* One value of a function on the naturals is changed.
LEMMA Set ==
  ASSUME NEW T, NEW f \in [Nat -> T], NEW i \in Nat, NEW x \in T
  PROVE  /\ [f EXCEPT ![i] = x] \in [Nat -> T] /\ [f EXCEPT ![i] = x][i] = x
         /\ \A j \in Nat : j # i => [f EXCEPT ![i] = x][j] = f[j]
OBVIOUS

\* A word with an operand is added, and n loops are open after it.
WithWord(co, d, w, n, co2, d2) ==
  /\ co2 = co \o <<w, "operand">>
  /\ d2 = [d EXCEPT ![Len(co) + 3] = n]

\* The operand is x.
WithOperand(co, ce, x, ce2) ==
  /\ ce2 \in Seq(Int) /\ Len(ce2) = Len(co) + 2
  /\ ce2[Len(co) + 2] = x /\ \A i \in 1 .. Len(co) : ce2[i] = ce[i]

\* The operand is open, or resolved, or the address of a loop's.
Operand(co, d, open, w, x) ==
  /\ w \in Jumps => \/ Len(co) + 2 \in open /\ x = 0
                    \/ Starts(co, Len(co) + 2 + x) /\ d[Len(co) + 2 + x] = d[Len(co) + 1]
  /\ w \in Exits => d[Len(co) + 1] >= 1 /\ Hole(co, d, At(x), d[Len(co) + 1] - 1)

\* What Compiles makes of a definition: its old words, and one with an operand.
LEMMA LongerFacts ==
  ASSUME NEW co, NEW ce, NEW d, NEW open, Coded(co, ce, d, open),
         NEW w \in Jumps \cup Exits, NEW n \in Nat, NEW co2, NEW d2, WithWord(co, d, w, n, co2, d2)
  PROVE  /\ Grown(co, d, co2, d2) /\ d2[Len(co2) + 1] = n /\ Len(co2) = Len(co) + 2
         /\ co2[Len(co) + 1] = w /\ co2[Len(co) + 2] = "operand"
         /\ d2 \in [Nat -> Nat] /\ d2[Len(co) + 3] = n
         /\ Starts(co2, Len(co) + 1) /\ Starts(co2, Len(co) + 3)
         /\ w \in Jumps => Hole(co2, d2, Len(co) + 2, d[Len(co) + 1])
<1> DEFINE k == Len(co)
<1>1. /\ co \in Seq(CodeWords) /\ k \in Nat /\ ce \in Seq(Int) /\ Len(ce) = k
      /\ d \in [Nat -> Nat] /\ d[1] = 0 /\ Starts(co, 1)
  BY DEF Coded
<1>2. w \in CodeWords /\ "operand" \in CodeWords /\ w # "operand" /\ w # "drop"
  BY DEF CodeWords, Jumps, Exits, Dos, Ends, Straight
<1>3. /\ co2 \in Seq(CodeWords) /\ Len(co2) = k + 2 /\ \A i \in 1 .. k : co2[i] = co[i]
      /\ co2[k + 1] = w /\ co2[k + 2] = "operand"
  <2>1. co2 = co \o <<w, "operand">> BY DEF WithWord
  <2> DEFINE q == co \o <<w, "operand">>
  <2>2. /\ q \in Seq(CodeWords) /\ Len(q) = k + 2 /\ \A i \in 1 .. k : q[i] = co[i]
        /\ q[k + 1] = w /\ q[k + 2] = "operand"
    BY <1>1, <1>2, PairJoined
  <2> HIDE DEF q, k
  <2>3. co2 = q BY <2>1 DEF q
  <2> QED BY <2>2, <2>3
<1>4. d2 \in [Nat -> Nat] /\ d2[k + 3] = n /\ \A i \in 1 .. k + 1 : d2[i] = d[i]
  <2> DEFINE f == [d EXCEPT ![k + 3] = n]
  <2>1. d2 = f BY DEF WithWord
  <2>2. k + 3 \in Nat /\ n \in Nat /\ \A i \in 1 .. k + 1 : i \in Nat /\ i # k + 3 BY <1>1
  <2>3. f \in [Nat -> Nat] /\ f[k + 3] = n /\ \A i \in Nat : i # k + 3 => f[i] = d[i]
    BY <1>1, <2>2, Set
  <2> HIDE DEF f, k
  <2> QED BY <2>1, <2>2, <2>3
<1>5. Starts(co2, k + 1) /\ Starts(co2, k + 3) BY <1>1, <1>2, <1>3 DEF Starts
<1>6. Grown(co, d, co2, d2) BY <1>1, <1>3, <1>4, <1>5 DEF Grown
<1>7. d2[Len(co2) + 1] = n
  <2>1. Len(co2) + 1 = k + 3 BY <1>1, <1>3
  <2> QED BY <1>4, <2>1
<1>8. ASSUME w \in Jumps PROVE Hole(co2, d2, k + 2, d[k + 1])
  <2>1. (k + 2) - 1 = k + 1 /\ k + 2 \in 2 .. k + 2 /\ k + 1 \in 1 .. k + 1 BY <1>1
  <2>2. k + 2 \in 2 .. Len(co2) BY <1>3, <2>1
  <2>3. co2[(k + 2) - 1] = w /\ d2[(k + 2) - 1] = d[k + 1] BY <1>3, <1>4, <2>1
  <2> QED BY <1>3, <1>8, <2>2, <2>3 DEF Hole
<1> QED BY <1>3, <1>4, <1>5, <1>6, <1>7, <1>8

\* A word is compiled whose operand is open or goes as deep as it should.
LEMMA CodedLonger ==
  ASSUME NEW co, NEW ce, NEW d, NEW open, Coded(co, ce, d, open),
         NEW w \in Jumps \cup Exits, NEW n \in Nat, Falls(w, d[Len(co) + 1], n),
         NEW x, NEW co2, NEW ce2, NEW d2, WithWord(co, d, w, n, co2, d2),
         WithOperand(co, ce, x, ce2),
         Operand(co, d, open, w, x)
  PROVE  Coded(co2, ce2, d2, open)
<1> DEFINE k == Len(co)
<1>1. /\ co \in Seq(CodeWords) /\ k \in Nat /\ ce \in Seq(Int) /\ Len(ce) = k
      /\ d \in [Nat -> Nat] /\ d[1] = 0 /\ Starts(co, 1)
  BY SMTT(30) DEF Coded
<1>2. w \in CodeWords /\ "operand" \in CodeWords /\ w # "operand" /\ w # "drop"
  BY DEF CodeWords, Jumps, Exits, Dos, Ends, Straight
<1>3. /\ co2 \in Seq(CodeWords) /\ Len(co2) = k + 2 /\ \A i \in 1 .. k : co2[i] = co[i]
      /\ co2[k + 1] = w /\ co2[k + 2] = "operand"
  BY LongerFacts DEF Grown
<1>4. d2 \in [Nat -> Nat] /\ d2[k + 3] = n /\ \A i \in 1 .. k + 1 : d2[i] = d[i]
  BY SMTT(30), LongerFacts DEF Grown
<1>11. /\ ce2 \in Seq(Int) /\ Len(ce2) = k + 2 /\ ce2[k + 2] = x
       /\ \A i \in 1 .. k : ce2[i] = ce[i]
  BY DEF WithOperand
<1>5. Starts(co2, k + 1) /\ Starts(co2, k + 3) BY LongerFacts
<1>6. Grown(co, d, co2, d2) BY LongerFacts
<1>7. Starts(co2, 1) /\ d2[1] = 0
  <2>1. d2[1] = d[1] BY <1>1, <1>4
  <2> QED BY <1>1, <1>6, <2>1, StartsGrown
<1>8. WordIn(co2, ce2, d2, open, k + 1)
  <2>1. (k + 1) + 1 = k + 2 /\ (k + 1) + 2 = k + 3 /\ k + 1 < Len(co2) BY <1>1, <1>3
  <2>2. d2[k + 1] = d[k + 1] BY <1>1, <1>4
  <2>3. Falls(w, d2[k + 1], d2[k + 3]) BY <1>4, <2>2
  <2>4. ASSUME w \in Jumps
        PROVE  Pending(ce2, open, (k + 1) + 1) \/ Resolved(co2, ce2, d2, k + 1)
    <3>1. ASSUME Starts(co, k + 2 + x), d[k + 2 + x] = d[k + 1]
          PROVE  Resolved(co2, ce2, d2, k + 1)
      <4>1. Starts(co2, k + 2 + x) /\ d2[k + 2 + x] = d[k + 2 + x] BY <1>6, <3>1, StartsGrown
      <4> QED BY <1>11, <2>1, <2>2, <3>1, <4>1 DEF Resolved
    <3>2. ASSUME k + 2 \in open, x = 0 PROVE Pending(ce2, open, (k + 1) + 1)
      BY <1>11, <2>1, <3>2 DEF Pending
    <3> QED BY <2>4, <3>1, <3>2 DEF Operand
  <2>5. ASSUME w \in Exits
        PROVE  d2[k + 1] >= 1 /\ Hole(co2, d2, At(ce2[(k + 1) + 1]), d2[k + 1] - 1)
    <3>1. d[k + 1] >= 1 /\ Hole(co, d, At(x), d[k + 1] - 1) BY <2>5 DEF Operand
    <3>2. Hole(co2, d2, At(x), d[k + 1] - 1) BY <1>6, <3>1, HoleGrown
    <3> QED BY <1>11, <2>1, <2>2, <3>1, <3>2
  <2> QED BY <1>2, <1>3, <1>5, <2>1, <2>3, <2>4, <2>5 DEF WordIn
<1>9. ASSUME NEW i \in 1 .. Len(co2) PROVE WordIn(co2, ce2, d2, open, i)
  <2>1. CASE i \in 1 .. k
    <3>1. WordIn(co, ce, d, open, i) BY <2>1 DEF Coded
    <3> QED BY <1>6, <1>11, <2>1, <3>1, WordGrown
  <2>2. CASE i = k + 1 BY <1>8, <2>2
  <2>3. CASE i = k + 2
    <3>1. co2[i] = "operand" BY <1>3, <2>3
    <3> QED BY <3>1 DEF WordIn, Jumps, Exits, Dos, Ends, Straight
  <2>4. i \in 1 .. k + 2
    <3>1. Len(co2) = k + 2 BY <1>3
    <3> HIDE DEF k
    <3> QED BY <1>9, <3>1
  <2>5. k \in Nat BY <1>1
  <2>6. i \in 1 .. k \/ i = k + 1 \/ i = k + 2
    <3> HIDE DEF k
    <3> QED BY <2>4, <2>5
  <2> QED BY <2>1, <2>2, <2>3, <2>6
<1> QED BY <1>3, <1>4, <1>6, <1>7, <1>9, <1>11 DEF Coded

\* DROP is added, as deep as what is before it.
WithDrop(co, ce, d, co2, ce2, d2) ==
  /\ co2 = Append(co, "drop")
  /\ ce2 \in Seq(Int) /\ Len(ce2) = Len(co) + 1 /\ \A i \in 1 .. Len(co) : ce2[i] = ce[i]
  /\ d2 = [d EXCEPT ![Len(co) + 2] = d[Len(co) + 1]]

\* DROP is compiled.
LEMMA CodedDrop ==
  ASSUME NEW co, NEW ce, NEW d, NEW open, Coded(co, ce, d, open),
         NEW co2, NEW ce2, NEW d2, WithDrop(co, ce, d, co2, ce2, d2)
  PROVE  Coded(co2, ce2, d2, open) /\ Grown(co, d, co2, d2) /\ d2[Len(co2) + 1] = d[Len(co) + 1]
<1> DEFINE k == Len(co)
<1>1. /\ co \in Seq(CodeWords) /\ k \in Nat /\ ce \in Seq(Int) /\ Len(ce) = k
      /\ d \in [Nat -> Nat] /\ d[1] = 0 /\ Starts(co, 1)
  BY DEF Coded
<1>2. "drop" \in CodeWords BY DEF CodeWords
<1>3. /\ co2 \in Seq(CodeWords) /\ Len(co2) = k + 1 /\ \A i \in 1 .. k : co2[i] = co[i]
      /\ co2[k + 1] = "drop"
  BY <1>1, <1>2 DEF WithDrop
<1>4. d2 \in [Nat -> Nat] /\ d2[k + 2] = d[k + 1] /\ \A i \in 1 .. k + 1 : d2[i] = d[i]
  <2> DEFINE f == [d EXCEPT ![k + 2] = d[k + 1]]
  <2>1. d2 = f BY DEF WithDrop
  <2>4. k \in Nat /\ d \in [Nat -> Nat] BY <1>1
  <2>2. k + 2 \in Nat /\ d[k + 1] \in Nat /\ \A i \in 1 .. k + 1 : i \in Nat /\ i # k + 2
    <3> HIDE DEF k
    <3> QED BY <2>4
  <2>3. f \in [Nat -> Nat] /\ f[k + 2] = d[k + 1] /\ \A i \in Nat : i # k + 2 => f[i] = d[i]
    BY <1>1, <2>2, Set
  <2> HIDE DEF f, k
  <2> QED BY <2>1, <2>2, <2>3
<1>11. ce2 \in Seq(Int) /\ Len(ce2) = k + 1 /\ \A i \in 1 .. k : ce2[i] = ce[i]
  BY DEF WithDrop
<1>5. Starts(co2, k + 1) /\ Starts(co2, k + 2) BY <1>1, <1>3 DEF Starts
<1>6. Grown(co, d, co2, d2) BY <1>1, <1>3, <1>4, <1>5 DEF Grown
<1>7. Starts(co2, 1) /\ d2[1] = 0
  <2>1. d2[1] = d[1] BY <1>1, <1>4
  <2> QED BY <1>1, <1>6, <2>1, StartsGrown
<1>8. WordIn(co2, ce2, d2, open, k + 1)
  <2>1. (k + 1) + 1 = k + 2 BY <1>1
  <2>2. d2[k + 1] = d[k + 1] BY <1>1, <1>4
  <2> QED BY <1>3, <1>4, <1>5, <2>1, <2>2 DEF WordIn, Jumps, Exits, Dos, Ends, Straight
<1>9. ASSUME NEW i \in 1 .. Len(co2) PROVE WordIn(co2, ce2, d2, open, i)
  <2>1. CASE i \in 1 .. k
    <3>1. WordIn(co, ce, d, open, i) BY <2>1 DEF Coded
    <3> QED BY <1>6, <1>11, <2>1, <3>1, WordGrown
  <2>2. CASE i = k + 1 BY <1>8, <2>2
  <2> QED BY <1>1, <1>3, <1>9, <2>1, <2>2
<1>10. d2[Len(co2) + 1] = d[k + 1]
  <2>1. Len(co2) + 1 = k + 2 BY <1>1, <1>3
  <2> QED BY <1>4, <2>1
<1> QED BY <1>3, <1>4, <1>6, <1>7, <1>9, <1>10, <1>11 DEF Coded

\* Fewer operands are resolved than may be.
LEMMA CodedWider ==
  ASSUME NEW co, NEW ce, NEW d, NEW open, Coded(co, ce, d, open), NEW open2, open \subseteq open2
  PROVE  Coded(co, ce, d, open2)
<1>1. ASSUME NEW i \in 1 .. Len(co) PROVE WordIn(co, ce, d, open2, i)
  <2>1. WordIn(co, ce, d, open, i) BY DEF Coded
  <2> QED BY <2>1 DEF WordIn, Pending
<1> QED BY <1>1 DEF Coded

\* A function on the first n numbers is a sequence.
LEMMA IntSeq ==
  ASSUME NEW n \in Nat, NEW f \in [1 .. n -> Int]
  PROVE  f \in Seq(Int) /\ Len(f) = n
OBVIOUS

\* A word is compiled: the cells at the addresses in A are resolved to its end.
LEMMA CompilesCoded ==
  ASSUME NEW d, NEW open, Coded(code, cell, d, open),
         NEW w \in Jumps \cup Exits, NEW x \in Int, NEW A, Compiles(w, x, A),
         NEW n \in Nat, Falls(w, d[Len(code) + 1], n), NEW d2, WithWord(code, d, w, n, code', d2),
         \A a \in A : a \in Int /\ Hole(code, d, At(a), n),
         NEW open2, \A i \in open : i \in open2 \/ \E a \in A : i = At(a),
         Operand(code, d, open2, w, x)
  PROVE  Coded(code', cell', d2, open2)
<1> DEFINE k == Len(code)
           ce1 == [i \in 1 .. k + 2 |-> IF i = k + 2 THEN x ELSE IF i <= k THEN cell[i] ELSE 0]
           wide == open \cup open2
<1>1. /\ code \in Seq(CodeWords) /\ k \in Nat /\ cell \in Seq(Int) /\ Len(cell) = k
      /\ \A i \in 1 .. k : cell[i] \in Int
  BY DEF Coded
<1>2. /\ ce1 \in Seq(Int) /\ Len(ce1) = k + 2 /\ ce1[k + 2] = x
      /\ \A i \in 1 .. k : ce1[i] = cell[i]
      /\ \A i \in 1 .. k + 2 : ce1[i] = IF i = k + 2 THEN x ELSE IF i <= k THEN cell[i] ELSE 0
  <2>1. ce1 \in [1 .. k + 2 -> Int]
    <3>1. k \in Nat /\ \A i \in 1 .. k : cell[i] \in Int BY <1>1
    <3> HIDE DEF k
    <3> QED BY <3>1
  <2>2. /\ ce1[k + 2] = x /\ \A i \in 1 .. k : ce1[i] = cell[i]
        /\ \A i \in 1 .. k + 2 : ce1[i] = IF i = k + 2 THEN x ELSE IF i <= k THEN cell[i] ELSE 0
    <3>1. k \in Nat BY <1>1
    <3> HIDE DEF k
    <3> QED BY <3>1
  <2>3. k + 2 \in Nat BY <1>1
  <2> HIDE DEF ce1, k
  <2> QED BY <2>1, <2>2, <2>3, IntSeq
<1>3. WithOperand(code, cell, x, ce1)
  <2> HIDE DEF ce1
  <2> QED BY <1>2 DEF WithOperand
<1>4. Coded(code, cell, d, wide) BY CodedWider
<1>5. Operand(code, d, wide, w, x) BY DEF Operand
<1>6. Coded(code', ce1, d2, wide) /\ Grown(code, d, code', d2) /\ d2[Len(code') + 1] = n
  <2> HIDE DEF ce1, wide
  <2> QED BY <1>3, <1>4, <1>5, CodedLonger, LongerFacts
<1>7. Len(code') = k + 2 /\ DOMAIN (code \o <<w, "operand">>) = 1 .. k + 2
  <2>1. code' = code \o <<w, "operand">> BY DEF Compiles
  <2>2. w \in CodeWords /\ "operand" \in CodeWords BY DEF CodeWords
  <2>3. Len(code \o <<w, "operand">>) = k + 2 /\ code \o <<w, "operand">> \in Seq(CodeWords)
    BY <1>1, <2>2, PairJoined
  <2> QED BY <2>1, <2>3
<1>8. /\ cell' = [i \in 1 .. k + 2 |->
                   IF i = k + 2 THEN x
                   ELSE IF Base + i - 1 \in A THEN (here + 2) - (Base + i - 1)
                   ELSE IF i <= k THEN cell[i] ELSE 0]
  <2> DEFINE q == code \o <<w, "operand">>
  <2>1. code' = q BY DEF Compiles
  <2>2. cell' = [i \in DOMAIN q |->
                   IF i = Len(q) THEN x
                   ELSE IF Base + i - 1 \in A THEN (here + 2) - (Base + i - 1)
                   ELSE IF i <= k THEN cell[i] ELSE 0]
    BY DEF Compiles
  <2>3. Len(q) = k + 2 /\ DOMAIN q = 1 .. k + 2 BY <1>7, <2>1
  <2> HIDE DEF q, k
  <2> QED BY <2>2, <2>3
<1>9. here = k + Base /\ here \in Int /\ Base \in Int /\ Base = 10 /\ k \in Nat
  BY <1>1 DEF here, Base
<1>10. \A i \in 1 .. k + 2 : i \in Int /\ Base + i - 1 \in Int /\ At(Base + i - 1) = i
  <2> HIDE DEF k
  <2> QED BY <1>9 DEF At
<1>11. cell' \in Seq(Int) /\ Len(cell') = k + 2
  <2> DEFINE f == [i \in 1 .. k + 2 |->
                   IF i = k + 2 THEN x
                   ELSE IF Base + i - 1 \in A THEN (here + 2) - (Base + i - 1)
                   ELSE IF i <= k THEN cell[i] ELSE 0]
  <2>1. f \in [1 .. k + 2 -> Int]
    <3>1. \A i \in 1 .. k : cell[i] \in Int BY <1>1
    <3>2. \A i \in 1 .. k + 2 : (here + 2) - (Base + i - 1) \in Int
      <4> HIDE DEF k
      <4> QED BY <1>9
    <3> HIDE DEF k
    <3> QED BY <1>9, <3>1, <3>2
  <2>2. k + 2 \in Nat BY <1>1
  <2>3. cell' = f BY <1>8
  <2> HIDE DEF f, k
  <2> QED BY <2>1, <2>2, <2>3, IntSeq
<1>12. ASSUME NEW i \in 1 .. k + 2, i # k + 2, Base + i - 1 \in A
       PROVE  AtEnd(code', cell', d2, i)
  <2>1. cell'[i] = (here + 2) - (Base + i - 1) BY <1>8, <1>12
  <2>2. (here + 2) - (Base + i - 1) = k + 3 - i
    <3> HIDE DEF k
    <3> QED BY <1>9
  <2>3. Hole(code, d, i, n) BY <1>10, <1>12
  <2>4. Hole(code', d2, i, n)
    <3> QED BY <1>6, <2>3, HoleGrown
  <2>5. Len(code') + 1 - i = k + 3 - i
    <3>1. Len(code') = k + 2 /\ k \in Nat /\ i \in Int BY <1>7, <1>9, <1>10
    <3> HIDE DEF k
    <3> QED BY <3>1
  <2>6. cell'[i] = Len(code') + 1 - i BY <2>1, <2>2, <2>5
  <2>7. n = d2[Len(code') + 1] BY <1>6
  <2> HIDE DEF k
  <2> QED BY <2>4, <2>6, <2>7 DEF AtEnd
<1>13. ASSUME NEW i \in 1 .. k + 2, i = k + 2 \/ Base + i - 1 \notin A PROVE cell'[i] = ce1[i]
  <2> HIDE DEF ce1
  <2> QED BY <1>2, <1>8, <1>13
<1>14. ASSUME NEW i \in wide, i \notin open2
       PROVE  AtEnd(code', cell', d2, i)
  <2>1. PICK a \in A : i = At(a) BY <1>14
  <2>2. a \in Int /\ Hole(code, d, i, n) BY <2>1
  <2>3. i \in 2 .. k /\ Base + i - 1 = a BY <1>9, <2>1, <2>2 DEF Hole, At
  <2>4. i \in 1 .. k + 2 /\ i # k + 2
    <3> HIDE DEF k
    <3> QED BY <1>9, <2>3
  <2> QED BY <1>12, <2>3, <2>4
<1>17. Coded(code', cell', d2, open2)
  <2>1. \A i \in 1 .. Len(code') : cell'[i] = ce1[i] \/ AtEnd(code', cell', d2, i)
    <3>1. Len(code') = k + 2 BY <1>7
    <3> HIDE DEF ce1, k
    <3> QED BY <3>1, <1>12, <1>13
  <2>2. \A i \in wide : i \in open2 \/ AtEnd(code', cell', d2, i) BY <1>14
  <2>3. Len(cell') = Len(code') BY <1>7, <1>11
  <2>4. Coded(code', ce1, d2, wide) BY <1>6
  <2> HIDE DEF ce1, wide
  <2> QED BY <1>11, <2>1, <2>2, <2>3, <2>4, CodedResolved
<1> QED BY <1>17

-----------------------------------------------------------------------------
(* What the structures keep on the stack, cell by cell, with a mark for    *)
(* each cell: its role, the loops open and the OFs of the innermost CASE    *)
(* there, and where this CASE's tag is.                                     *)

Roles == {"tag", "hole", "end", "back", "loop", "cases"}
Marks == [role : Roles, lev : Nat, cnt : Nat, base : Nat]
Mark(r, l, c, b) == [role |-> r, lev |-> l, cnt |-> c, base |-> b]

\* The operand of the innermost of n loops is at address a, or there is none.
Enclosing(co, d, a, n) == (a = 0 /\ n = 0) \/ (n >= 1 /\ Hole(co, d, At(a), n - 1))

CaseTag(st, g, p) == g[p].role = "tag" /\ st[p] = 7

\* The cells below the tag at p are its structure's.
Tagged(co, st, g, p) ==
  /\ p >= 2 /\ st[p] \in 1 .. 8
  /\ st[p] \in {1, 2, 4, 5, 6, 8} => g[p - 1].role = "hole"
  /\ st[p] = 3 => g[p - 1].role = "back"
  /\ st[p] = 4 => p >= 3 /\ g[p - 2].role = "back"
  /\ st[p] \in {5, 6} =>
       p >= 3 /\ g[p - 2].role = "loop" /\ co[At(st[p - 1]) - 1] \in Dos
  /\ st[p] = 7 => g[p - 1].role = "cases"

\* The cell at p is what its mark says, lev loops and cnt OFs in.
Item(co, d, st, g, p) ==
  /\ g[p].role = "tag" => Tagged(co, st, g, p)
  /\ g[p].role \in {"hole", "end"} => Hole(co, d, At(st[p]), g[p].lev)
  /\ g[p].role = "back" => Starts(co, At(st[p])) /\ d[At(st[p])] = g[p].lev
  /\ g[p].role = "loop" => Enclosing(co, d, st[p], g[p].lev)
  /\ g[p].role = "cases" => st[p] = g[p - 1].cnt
  /\ g[p - 1].role = "cases" => CaseTag(st, g, p)
  /\ g[p].lev = IF g[p].role = "tag" /\ st[p] \in {5, 6} THEN g[p - 1].lev + 1
                ELSE g[p - 1].lev
  /\ g[p].cnt = IF CaseTag(st, g, p) THEN 0
                ELSE IF g[p].role = "end" \/ (g[p].role = "tag" /\ st[p] = 8)
                THEN g[p - 1].cnt + 1 ELSE g[p - 1].cnt

\* The innermost CASE's tag up to p is at base, and there are no more OFs after
\* it than cells, nor as many unless ENDOF has left them all.
Cased(st, g, p) ==
  /\ g[p].base \in 0 .. p
  /\ g[p].base > 0 => CaseTag(st, g, g[p].base)
  /\ \A q \in g[p].base + 1 .. p : ~CaseTag(st, g, q)
  /\ g[p].cnt <= p - g[p].base
  /\ g[p].cnt = p - g[p].base =>
       /\ \A q \in g[p].base + 1 .. p : g[q].role = "end"
       /\ \A q \in g[p].base .. p : g[q].lev = g[p].lev

Stacked(co, d, st, g) ==
  /\ st \in Seq(Int) /\ g \in [Nat -> Marks]
  /\ g[0] = Mark("tag", 0, 0, 0)
  /\ \A p \in 1 .. Len(st) : Item(co, d, st, g, p) /\ Cased(st, g, p)

\* The operands to resolve.
Open(st, g) == {At(st[p]) : p \in {q \in 1 .. Len(st) : g[q].role \in {"hole", "end"}}}

\* The parts of a mark.
LEMMA MarkFacts ==
  ASSUME NEW r \in Roles, NEW l \in Nat, NEW c \in Nat, NEW b \in Nat
  PROVE  /\ Mark(r, l, c, b) \in Marks
         /\ Mark(r, l, c, b).role = r /\ Mark(r, l, c, b).lev = l
         /\ Mark(r, l, c, b).cnt = c /\ Mark(r, l, c, b).base = b
BY DEF Mark, Marks

\* The stack means what it did when the definition grows.
LEMMA StackedGrown ==
  ASSUME NEW co, NEW d, NEW co2, NEW d2, Grown(co, d, co2, d2),
         NEW st, NEW g, Stacked(co, d, st, g)
  PROVE  Stacked(co2, d2, st, g)
<1>1. ASSUME NEW p \in 1 .. Len(st) PROVE Item(co2, d2, st, g, p)
  <2>1. Item(co, d, st, g, p) BY DEF Stacked
  <2>2. ASSUME g[p].role \in {"hole", "end"} PROVE Hole(co2, d2, At(st[p]), g[p].lev)
    BY <2>1, <2>2, HoleGrown DEF Item
  <2>3. ASSUME g[p].role = "back"
        PROVE  Starts(co2, At(st[p])) /\ d2[At(st[p])] = g[p].lev
    <3>1. Starts(co, At(st[p])) /\ d[At(st[p])] = g[p].lev BY <2>1, <2>3 DEF Item
    <3> QED BY <3>1, StartsGrown
  <2>4. ASSUME g[p].role = "loop" PROVE Enclosing(co2, d2, st[p], g[p].lev)
    BY <2>1, <2>4, HoleGrown DEF Item, Enclosing
  <2>5. ASSUME g[p].role = "tag" PROVE Tagged(co2, st, g, p)
    <3>1. Tagged(co, st, g, p) BY <2>1, <2>5 DEF Item
    <3>2. ASSUME st[p] \in {5, 6} PROVE co2[At(st[p - 1]) - 1] \in Dos
      <4>1. g[p - 1].role = "hole" /\ co[At(st[p - 1]) - 1] \in Dos /\ p >= 3
        BY <3>1, <3>2 DEF Tagged
      <4>2. p - 1 \in 1 .. Len(st) BY <4>1 DEF Stacked
      <4>3. Item(co, d, st, g, p - 1) BY <4>2 DEF Stacked
      <4>4. Hole(co, d, At(st[p - 1]), g[p - 1].lev) BY <4>1, <4>3 DEF Item
      <4>5. At(st[p - 1]) \in 2 .. Len(co) /\ Len(co) \in Nat BY <4>4 DEF Hole, Grown
      <4>6. At(st[p - 1]) - 1 \in 1 .. Len(co) BY <4>5
      <4> QED BY <4>1, <4>6 DEF Grown
    <3> QED BY <3>1, <3>2 DEF Tagged
  <2> QED BY <2>1, <2>2, <2>3, <2>4, <2>5 DEF Item
<1> QED BY <1>1 DEF Stacked

\* Up to p the two stacks are the same.
Same(st, g, st2, g2, p) ==
  /\ \A q \in 1 .. p : st2[q] = st[q]
  /\ \A q \in 0 .. p : g2[q] = g[q]

\* A cell means the same on a stack that is the same up to it.
LEMMA ItemSame ==
  ASSUME NEW co, NEW d, NEW st, NEW g, NEW st2, NEW g2, NEW p \in Nat, p >= 1,
         Same(st, g, st2, g2, p), Item(co, d, st, g, p)
  PROVE  Item(co, d, st2, g2, p)
<1>1. st2[p] = st[p] /\ g2[p] = g[p] /\ g2[p - 1] = g[p - 1] BY DEF Same
<1>2. p >= 2 => st2[p - 1] = st[p - 1] BY DEF Same
<1>3. p >= 3 => g2[p - 2] = g[p - 2] BY DEF Same
<1>4. Tagged(co, st, g, p) => Tagged(co, st2, g2, p) BY <1>1, <1>2, <1>3 DEF Tagged
<1> QED BY <1>1, <1>4 DEF Item, CaseTag

\* So does the innermost CASE below it.
LEMMA CasedSame ==
  ASSUME NEW st, NEW g, NEW st2, NEW g2, NEW p \in Nat, p >= 1,
         Same(st, g, st2, g2, p), Cased(st, g, p)
  PROVE  Cased(st2, g2, p)
<1>1. g2[p] = g[p] BY DEF Same
<1>2. g[p].base \in 0 .. p BY DEF Cased
<1> DEFINE b == g[p].base
<1>3. \A q \in b + 1 .. p : q \in 1 .. p /\ q \in 0 .. p BY <1>2
<1>4. \A q \in b .. p : q \in 0 .. p BY <1>2
<1>5. b > 0 => b \in 1 .. p /\ b \in 0 .. p BY <1>2
<1>6. \A q \in 1 .. p : CaseTag(st2, g2, q) <=> CaseTag(st, g, q) BY DEF Same, CaseTag
<1>7. \A q \in 0 .. p : g2[q] = g[q] BY DEF Same
<1> QED BY <1>1, <1>2, <1>3, <1>4, <1>5, <1>6, <1>7 DEF Cased

\* Stacks that are the same up to n are so up to less.
LEMMA SameLess ==
  ASSUME NEW st, NEW g, NEW st2, NEW g2, NEW n \in Nat, Same(st, g, st2, g2, n), NEW p \in 0 .. n
  PROVE  Same(st, g, st2, g2, p)
BY DEF Same

\* The first k elements of a sequence.
LEMMA CutInts ==
  ASSUME NEW st \in Seq(Int), NEW k \in 0 .. Len(st)
  PROVE  /\ SubSeq(st, 1, k) \in Seq(Int) /\ Len(SubSeq(st, 1, k)) = k
         /\ \A i \in 1 .. k : SubSeq(st, 1, k)[i] = st[i]
OBVIOUS

\* Cells are taken off.
LEMMA StackedCut ==
  ASSUME NEW co, NEW d, NEW st, NEW g, Stacked(co, d, st, g), NEW k \in 0 .. Len(st)
  PROVE  /\ Stacked(co, d, SubSeq(st, 1, k), g)
         /\ \A i \in Open(st, g) :
              \/ i \in Open(SubSeq(st, 1, k), g)
              \/ \E p \in k + 1 .. Len(st) : g[p].role \in {"hole", "end"} /\ i = At(st[p])
<1> DEFINE st2 == SubSeq(st, 1, k)
<1>1. st \in Seq(Int) /\ Len(st) \in Nat /\ k \in Nat BY DEF Stacked
<1>2. st2 \in Seq(Int) /\ Len(st2) = k /\ \A i \in 1 .. k : st2[i] = st[i] BY <1>1, CutInts
<1> HIDE DEF st2
<1>3. Same(st, g, st2, g, k) BY <1>2 DEF Same
<1>4. ASSUME NEW p \in 1 .. k PROVE Item(co, d, st2, g, p) /\ Cased(st2, g, p)
  <2>1. p \in 0 .. k /\ p \in Nat /\ p >= 1 /\ p \in 1 .. Len(st) BY <1>1
  <2>2. Same(st, g, st2, g, p) BY <1>1, <1>3, <2>1, SameLess
  <2>3. Item(co, d, st, g, p) /\ Cased(st, g, p) BY <2>1 DEF Stacked
  <2> QED BY <2>1, <2>2, <2>3, ItemSame, CasedSame
<1>5. Stacked(co, d, st2, g) BY <1>2, <1>4 DEF Stacked
<1>6. ASSUME NEW i \in Open(st, g)
      PROVE  \/ i \in Open(st2, g)
             \/ \E p \in k + 1 .. Len(st) : g[p].role \in {"hole", "end"} /\ i = At(st[p])
  <2>1. PICK p \in 1 .. Len(st) : g[p].role \in {"hole", "end"} /\ i = At(st[p]) BY <1>6 DEF Open
  <2>2. CASE p \in 1 .. k
    <3>1. i = At(st2[p]) /\ p \in 1 .. Len(st2) BY <1>2, <2>1, <2>2
    <3> QED BY <2>1, <3>1 DEF Open
  <2>3. CASE p \notin 1 .. k
    <3>1. p \in k + 1 .. Len(st) BY <1>1, <2>3
    <3> QED BY <2>1, <3>1
  <2> QED BY <2>2, <2>3
<1> QED BY <1>5, <1>6 DEF st2

\* x is put on the stack, with mark m.
Put(st, g, x, m, st2, g2) ==
  /\ st2 = Append(st, x)
  /\ g2 = [g EXCEPT ![Len(st) + 1] = m]

\* The stack with x put on it.
LEMMA PutFacts ==
  ASSUME NEW st \in Seq(Int), NEW g \in [Nat -> Marks], NEW x \in Int, NEW m \in Marks,
         NEW st2, NEW g2, Put(st, g, x, m, st2, g2)
  PROVE  /\ st2 \in Seq(Int) /\ Len(st2) = Len(st) + 1 /\ Len(st) \in Nat
         /\ st2[Len(st) + 1] = x /\ g2 \in [Nat -> Marks] /\ g2[Len(st) + 1] = m
         /\ Same(st, g, st2, g2, Len(st))
<1> DEFINE k == Len(st) + 1
           q == Append(st, x)
           f == [g EXCEPT ![k] = m]
<1>1. st2 = q /\ g2 = f BY DEF Put
<1>2. /\ q \in Seq(Int) /\ Len(q) = k /\ Len(st) \in Nat /\ q[k] = x
      /\ \A i \in 1 .. Len(st) : q[i] = st[i]
  OBVIOUS
<1>3. k \in Nat /\ \A i \in 0 .. Len(st) : i \in Nat /\ i # k BY <1>2
<1>4. f \in [Nat -> Marks] /\ f[k] = m /\ \A i \in 0 .. Len(st) : f[i] = g[i]
  <2>1. f \in [Nat -> Marks] /\ f[k] = m /\ \A i \in Nat : i # k => f[i] = g[i]
    <3> HIDE DEF k
    <3> QED BY <1>3, Set
  <2> HIDE DEF f, k
  <2> QED BY <1>3, <2>1
<1> HIDE DEF q, f
<1> QED BY <1>1, <1>2, <1>4 DEF Same

\* A cell that means what its mark says is put on the stack.
LEMMA StackedPut ==
  ASSUME NEW co, NEW d, NEW st, NEW g, Stacked(co, d, st, g), NEW x \in Int, NEW m \in Marks,
         NEW st2, NEW g2, Put(st, g, x, m, st2, g2),
         Item(co, d, st2, g2, Len(st) + 1), Cased(st2, g2, Len(st) + 1)
  PROVE  /\ Stacked(co, d, st2, g2) /\ g2[Len(st2)] = m /\ Len(st2) = Len(st) + 1
         /\ Open(st, g) \subseteq Open(st2, g2)
         /\ m.role \in {"hole", "end"} => At(x) \in Open(st2, g2)
<1>1. st \in Seq(Int) /\ g \in [Nat -> Marks] /\ g[0] = Mark("tag", 0, 0, 0) BY DEF Stacked
<1>2. /\ st2 \in Seq(Int) /\ Len(st2) = Len(st) + 1 /\ Len(st) \in Nat
      /\ st2[Len(st) + 1] = x /\ g2 \in [Nat -> Marks] /\ g2[Len(st) + 1] = m
      /\ Same(st, g, st2, g2, Len(st))
  BY <1>1, PutFacts
<1>3. ASSUME NEW p \in 1 .. Len(st2) PROVE Item(co, d, st2, g2, p) /\ Cased(st2, g2, p)
  <2>1. CASE p \in 1 .. Len(st)
    <3>1. p \in 0 .. Len(st) /\ p \in Nat /\ p >= 1 BY <2>1
    <3>2. Same(st, g, st2, g2, p) BY <1>2, <3>1, SameLess
    <3>3. Item(co, d, st, g, p) /\ Cased(st, g, p) BY <2>1 DEF Stacked
    <3> QED BY <3>1, <3>2, <3>3, ItemSame, CasedSame
  <2>2. CASE p = Len(st) + 1 BY <2>2
  <2> QED BY <1>2, <2>1, <2>2
<1>4. g2[0] = g[0] BY <1>2 DEF Same
<1>5. ASSUME NEW i \in Open(st, g) PROVE i \in Open(st2, g2)
  <2>1. PICK p \in 1 .. Len(st) : g[p].role \in {"hole", "end"} /\ i = At(st[p]) BY <1>5 DEF Open
  <2>2. p \in 1 .. Len(st2) /\ p \in 0 .. Len(st) BY <1>2
  <2>3. st2[p] = st[p] /\ g2[p] = g[p] BY <1>2, <2>2 DEF Same
  <2> QED BY <2>1, <2>2, <2>3 DEF Open
<1>6. ASSUME m.role \in {"hole", "end"} PROVE At(x) \in Open(st2, g2)
  <2>1. Len(st) + 1 \in 1 .. Len(st2) BY <1>2
  <2> QED BY <1>2, <1>6, <2>1 DEF Open
<1> QED BY <1>1, <1>2, <1>3, <1>4, <1>5, <1>6 DEF Stacked

\* The marks of what is put above mark t.
As(r, t) == Mark(r, t.lev, t.cnt, t.base)
Counted(r, t) == Mark(r, t.lev, t.cnt + 1, t.base)
Deeper(t) == Mark("tag", t.lev + 1, t.cnt, t.base)

\* The parts of the marks put above another.
LEMMA AsFacts ==
  ASSUME NEW t \in Marks, NEW r \in Roles
  PROVE  /\ As(r, t) \in Marks /\ As(r, t).role = r /\ As(r, t).lev = t.lev
         /\ As(r, t).cnt = t.cnt /\ As(r, t).base = t.base
         /\ Counted(r, t) \in Marks /\ Counted(r, t).role = r /\ Counted(r, t).lev = t.lev
         /\ Counted(r, t).cnt = t.cnt + 1 /\ Counted(r, t).base = t.base
         /\ Deeper(t) \in Marks /\ Deeper(t).role = "tag" /\ Deeper(t).lev = t.lev + 1
         /\ Deeper(t).cnt = t.cnt /\ Deeper(t).base = t.base
<1>1. t.lev \in Nat /\ t.cnt \in Nat /\ t.base \in Nat BY DEF Marks
<1>2. t.lev + 1 \in Nat /\ t.cnt + 1 \in Nat /\ "tag" \in Roles BY <1>1 DEF Roles
<1> DEFINE l == t.lev
           c == t.cnt
           b == t.base
<1>3. l \in Nat /\ c \in Nat /\ b \in Nat /\ l + 1 \in Nat /\ c + 1 \in Nat BY <1>1
<1>4. /\ As(r, t) = Mark(r, l, c, b) /\ Counted(r, t) = Mark(r, l, c + 1, b)
      /\ Deeper(t) = Mark("tag", l + 1, c, b)
  BY DEF As, Counted, Deeper
<1> HIDE DEF l, c, b
<1>5. /\ As(r, t) \in Marks /\ As(r, t).role = r /\ As(r, t).lev = l
      /\ As(r, t).cnt = c /\ As(r, t).base = b
  BY <1>3, <1>4, MarkFacts
<1>6. /\ Counted(r, t) \in Marks /\ Counted(r, t).role = r /\ Counted(r, t).lev = l
      /\ Counted(r, t).cnt = c + 1 /\ Counted(r, t).base = b
  BY <1>3, <1>4, MarkFacts
<1>7. /\ Deeper(t) \in Marks /\ Deeper(t).role = "tag" /\ Deeper(t).lev = l + 1
      /\ Deeper(t).cnt = c /\ Deeper(t).base = b
  <2> DEFINE k == Mark("tag", l + 1, c, b)
  <2>1. "tag" \in Roles /\ l + 1 \in Nat /\ c \in Nat /\ b \in Nat BY <1>2, <1>3
  <2>2. k \in Marks /\ k.role = "tag" /\ k.lev = l + 1 /\ k.cnt = c /\ k.base = b
    BY <2>1, MarkFacts
  <2>3. Deeper(t) = k BY <1>4
  <2> HIDE DEF k
  <2> QED BY <2>2, <2>3
<1> QED BY <1>5, <1>6, <1>7 DEF l, c, b

\* The innermost CASE is where it was.
Unmoved(st, g, x, m) ==
  /\ m.base = g[Len(st)].base /\ ~(m.role = "tag" /\ x = 7)
  /\ \/ m.cnt < (Len(st) + 1) - m.base
     \/ m.role = "end" /\ m.cnt = g[Len(st)].cnt + 1 /\ m.lev = g[Len(st)].lev

\* The innermost CASE under a cell that is not another's tag.
LEMMA CasedPut ==
  ASSUME NEW co, NEW d, NEW st, NEW g, Stacked(co, d, st, g), NEW x \in Int, NEW m \in Marks,
         NEW st2, NEW g2, Put(st, g, x, m, st2, g2), Unmoved(st, g, x, m)
  PROVE  Cased(st2, g2, Len(st) + 1)
<1> DEFINE n == Len(st)
           b == m.base
<1>1. st \in Seq(Int) /\ g \in [Nat -> Marks] /\ g[0] = Mark("tag", 0, 0, 0) BY DEF Stacked
<1>2. /\ st2 \in Seq(Int) /\ Len(st2) = n + 1 /\ n \in Nat
      /\ st2[n + 1] = x /\ g2 \in [Nat -> Marks] /\ g2[n + 1] = m
      /\ Same(st, g, st2, g2, n)
  BY <1>1, PutFacts
<1>3. Cased(st, g, n)
  <2>1. CASE n \in 1 .. Len(st) BY <2>1 DEF Stacked
  <2>2. CASE n = 0
    <3>1. g[0].base = 0 /\ g[0].cnt = 0 BY <1>1 DEF Mark
    <3> QED BY <2>2, <3>1 DEF Cased
  <2> QED BY <1>2, <2>1, <2>2
<1>4. /\ b \in Nat /\ m.cnt \in Nat /\ g[n].base = b /\ g[n].cnt \in Nat
      /\ b \in 0 .. n
  <2>1. g[n] \in Marks BY <1>1, <1>2
  <2>2. g[n].base \in 0 .. n BY <1>3 DEF Cased
  <2>3. g[n].base = b BY DEF Unmoved
  <2> QED BY <2>1, <2>2, <2>3 DEF Marks
<1>5. b > 0 => CaseTag(st2, g2, b)
  <2>1. b > 0 => CaseTag(st, g, b) BY <1>3, <1>4 DEF Cased
  <2>2. b > 0 => b \in 1 .. n /\ b \in 0 .. n BY <1>2, <1>4
  <2> QED BY <1>2, <2>1, <2>2 DEF Same, CaseTag
<1>6. ASSUME NEW q \in b + 1 .. n + 1 PROVE ~CaseTag(st2, g2, q)
  <2>1. CASE q = n + 1 BY <1>2, <2>1 DEF CaseTag, Unmoved
  <2>2. CASE q # n + 1
    <3>1. q \in b + 1 .. n /\ q \in 1 .. n /\ q \in 0 .. n BY <1>2, <1>4, <2>2
    <3>2. ~CaseTag(st, g, q) BY <1>3, <1>4, <3>1 DEF Cased
    <3> QED BY <1>2, <3>1, <3>2 DEF Same, CaseTag
  <2> QED BY <2>1, <2>2
<1>7. g[n].cnt <= n - b BY <1>3, <1>4 DEF Cased
<1>11. n \in Nat BY <1>2
<1>12. \/ m.cnt < (n + 1) - b
       \/ m.role = "end" /\ m.cnt = g[n].cnt + 1 /\ m.lev = g[n].lev
  BY Zenon DEF Unmoved
<1>8. m.cnt <= (n + 1) - b
  <2> HIDE DEF n, b
  <2> QED BY <1>4, <1>7, <1>11, <1>12
<1>9. ASSUME m.cnt = (n + 1) - b
      PROVE  /\ \A q \in b + 1 .. n + 1 : g2[q].role = "end"
             /\ \A q \in b .. n + 1 : g2[q].lev = m.lev
  <2>1. m.role = "end" /\ m.cnt = g[n].cnt + 1 /\ m.lev = g[n].lev
    <3> HIDE DEF n, b
    <3> QED BY <1>4, <1>9, <1>11, <1>12
  <2>2. g[n].cnt = n - b
    <3> HIDE DEF n, b
    <3> QED BY <1>4, <1>9, <1>11, <2>1
  <2>3. /\ \A q \in b + 1 .. n : g[q].role = "end"
        /\ \A q \in b .. n : g[q].lev = g[n].lev
    BY <1>3, <1>4, <2>2 DEF Cased
  <2>4. \A q \in b + 1 .. n + 1 : q = n + 1 \/ (q \in b + 1 .. n /\ q \in 0 .. n)
    BY <1>2, <1>4
  <2>5. \A q \in b .. n + 1 : q = n + 1 \/ (q \in b .. n /\ q \in 0 .. n)
    BY <1>2, <1>4
  <2>6. \A q \in 0 .. n : g2[q] = g[q] BY <1>2 DEF Same
  <2> QED BY <1>2, <2>1, <2>3, <2>4, <2>5, <2>6
<1>10. b \in 0 .. n + 1 BY <1>2, <1>4
<1>13. g2[n + 1] = m BY <1>2
<1> HIDE DEF n
<1> QED BY <1>5, <1>6, <1>8, <1>9, <1>10, <1>13 DEF Cased, n

\* The mark on top: no more OFs are counted than there are cells above CASE.
LEMMA TopFacts ==
  ASSUME NEW co, NEW d, NEW st, NEW g, Stacked(co, d, st, g)
  PROVE  /\ Len(st) \in Nat /\ g[Len(st)] \in Marks
         /\ g[Len(st)].lev \in Nat /\ g[Len(st)].cnt \in Nat /\ g[Len(st)].base \in 0 .. Len(st)
         /\ g[Len(st)].cnt < (Len(st) + 1) - g[Len(st)].base
         /\ g[Len(st)].role = "hole" => g[Len(st)].cnt < Len(st) - g[Len(st)].base
         /\ Len(st) = 0 => g[Len(st)].role = "tag"
<1> DEFINE n == Len(st)
           t == g[n]
<1>1. n \in Nat /\ g \in [Nat -> Marks] /\ g[0] = Mark("tag", 0, 0, 0) BY DEF Stacked
<1>2. g[0].role = "tag" /\ g[0].cnt = 0 /\ g[0].base = 0 BY <1>1 DEF Mark
<1>3. t \in Marks /\ t.lev \in Nat /\ t.cnt \in Nat /\ t.base \in Nat
  <2>1. t \in Marks BY <1>1
  <2> HIDE DEF t
  <2> QED BY <2>1 DEF Marks
<1>4. n # 0 => Cased(st, g, n)
  <2>1. n # 0 => n \in 1 .. Len(st) BY <1>1
  <2> QED BY <2>1 DEF Stacked
<1>5. t.base \in 0 .. n /\ t.cnt <= n - t.base
  <2>1. CASE n = 0 BY <1>2, <2>1
  <2>2. CASE n # 0 BY <1>4, <2>2 DEF Cased
  <2> QED BY <2>1, <2>2
<1>6. ASSUME t.role = "hole" PROVE t.cnt # n - t.base
  <2>1. n # 0 /\ Cased(st, g, n) BY <1>2, <1>4, <1>6
  <2>2. t.base # n
    <3>1. t.base > 0 => g[t.base].role = "tag" BY <2>1 DEF Cased, CaseTag
    <3>2. t.base = n => t.base > 0 BY <1>1, <2>1
    <3> QED BY <1>6, <3>1, <3>2
  <2>3. n \in t.base + 1 .. n BY <1>1, <1>5, <2>2
  <2>4. t.cnt = n - t.base => t.role = "end" BY <2>1, <2>3 DEF Cased
  <2> QED BY <1>6, <2>4
<1>7. t.cnt < (n + 1) - t.base
  <2> DEFINE c == t.cnt
             b == t.base
  <2>1. c \in Nat /\ b \in Nat /\ n \in Nat /\ c <= n - b BY <1>1, <1>3, <1>5
  <2> HIDE DEF c, b, n
  <2> QED BY <2>1 DEF c, b
<1>8. t.role = "hole" => t.cnt < n - t.base
  <2> DEFINE c == t.cnt
             b == t.base
  <2>1. c \in Nat /\ b \in Nat /\ n \in Nat /\ c <= n - b BY <1>1, <1>3, <1>5
  <2>2. t.role = "hole" => c # n - b BY <1>6
  <2> HIDE DEF c, b, n
  <2> QED BY <2>1, <2>2 DEF c, b
<1> QED BY <1>1, <1>2, <1>3, <1>5, <1>7, <1>8

\* What a cell above mark t means that is not a tag.
Means(co, d, t, r, x) ==
  /\ r \in {"hole", "end"} => Hole(co, d, At(x), t.lev)
  /\ r = "back" => Starts(co, At(x)) /\ d[At(x)] = t.lev
  /\ r = "loop" => Enclosing(co, d, x, t.lev)
  /\ r = "cases" => x = t.cnt

\* The mark of a cell above mark t that is not a tag, and of one that is.
PlainMark(r, t) == IF r = "end" THEN Counted(r, t) ELSE As(r, t)
TagMark(x, t) ==
  IF x \in {5, 6} THEN Deeper(t) ELSE IF x = 8 THEN Counted("tag", t) ELSE As("tag", t)

\* A cell that is not a tag is put on the stack.
LEMMA PlainPut ==
  ASSUME NEW co, NEW d, NEW st, NEW g, Stacked(co, d, st, g), g[Len(st)].role # "cases",
         NEW x \in Int, NEW r \in Roles, r # "tag", Means(co, d, g[Len(st)], r, x),
         NEW st2, NEW g2, Put(st, g, x, PlainMark(r, g[Len(st)]), st2, g2)
  PROVE  /\ Stacked(co, d, st2, g2) /\ g2[Len(st2)] = PlainMark(r, g[Len(st)])
         /\ Len(st2) = Len(st) + 1
         /\ Open(st, g) \subseteq Open(st2, g2)
         /\ r \in {"hole", "end"} => At(x) \in Open(st2, g2)
<1> DEFINE t == g[Len(st)]
           m == PlainMark(r, t)
           n == Len(st)
           k == Len(st) + 1
<1>1. st \in Seq(Int) /\ g \in [Nat -> Marks] BY DEF Stacked
<1>2. /\ n \in Nat /\ t \in Marks /\ t.lev \in Nat /\ t.cnt \in Nat /\ t.base \in 0 .. n
      /\ t.cnt < k - t.base
  BY TopFacts
<1>3. /\ m \in Marks /\ m.role = r /\ m.lev = t.lev /\ m.base = t.base
      /\ m.cnt = IF r = "end" THEN t.cnt + 1 ELSE t.cnt
  <2> HIDE DEF t
  <2> QED BY <1>2, AsFacts DEF PlainMark
<1> HIDE DEF m
<1>4. Put(st, g, x, m, st2, g2) BY DEF m
<1>5. /\ st2[k] = x /\ g2[k] = m /\ Same(st, g, st2, g2, n) BY <1>1, <1>3, <1>4, PutFacts
<1>6. g2[k - 1] = t
  <2>1. k - 1 = n /\ n \in 0 .. n BY <1>2
  <2>2. g2[n] = t BY <1>5, <2>1 DEF Same
  <2> QED BY <2>1, <2>2
<1>7. Item(co, d, st2, g2, k)
  <2>1. Means(co, d, t, r, x) /\ r \in Roles /\ r # "tag" /\ t.role # "cases" OBVIOUS
  <2> HIDE DEF t, k
  <2>2. m.role \in {"hole", "end"} => Hole(co, d, At(st2[k]), m.lev) BY <1>3, <1>5, <2>1 DEF Means
  <2>3. m.role = "back" => Starts(co, At(st2[k])) /\ d[At(st2[k])] = m.lev
    BY <1>3, <1>5, <2>1 DEF Means
  <2>4. m.role = "loop" => Enclosing(co, d, st2[k], m.lev) BY <1>3, <1>5, <2>1 DEF Means
  <2>5. m.role = "cases" => st2[k] = t.cnt BY <1>3, <1>5, <2>1 DEF Means
  <2> QED BY <1>3, <1>5, <1>6, <2>1, <2>2, <2>3, <2>4, <2>5 DEF Item, CaseTag
<1>8. Unmoved(st, g, x, m)
  <2>1. m.base = t.base /\ m.role # "tag" BY <1>3
  <2>2. CASE r = "end" BY <1>3, <2>1, <2>2 DEF Unmoved
  <2>3. CASE r # "end" BY <1>2, <1>3, <2>1, <2>3 DEF Unmoved
  <2> QED BY <2>2, <2>3
<1>9. Cased(st2, g2, k) BY <1>3, <1>4, <1>8, CasedPut
<1>10. /\ Stacked(co, d, st2, g2) /\ g2[Len(st2)] = m /\ Len(st2) = Len(st) + 1
       /\ Open(st, g) \subseteq Open(st2, g2)
       /\ m.role \in {"hole", "end"} => At(x) \in Open(st2, g2)
  BY <1>3, <1>4, <1>7, <1>9, StackedPut
<1> QED BY <1>3, <1>10 DEF m

\* The tag x can be put on the stack st.
Ready(co, st, g, x) ==
  /\ x \in {1, 2, 3, 4, 5, 6, 8} /\ Len(st) >= 1
  /\ x \in {1, 2, 4, 5, 6, 8} => g[Len(st)].role = "hole"
  /\ x = 3 => g[Len(st)].role = "back"
  /\ x = 4 => Len(st) >= 2 /\ g[Len(st) - 1].role = "back"
  /\ x \in {5, 6} =>
       Len(st) >= 2 /\ g[Len(st) - 1].role = "loop" /\ co[At(st[Len(st)]) - 1] \in Dos

\* A tag other than CASE's is put above what it needs.
LEMMA TagPut ==
  ASSUME NEW co, NEW d, NEW st, NEW g, Stacked(co, d, st, g), NEW x, Ready(co, st, g, x),
         NEW st2, NEW g2, Put(st, g, x, TagMark(x, g[Len(st)]), st2, g2)
  PROVE  /\ Stacked(co, d, st2, g2) /\ g2[Len(st2)] = TagMark(x, g[Len(st)])
         /\ Len(st2) = Len(st) + 1
         /\ Open(st, g) \subseteq Open(st2, g2)
<1> DEFINE t == g[Len(st)]
           m == TagMark(x, t)
           n == Len(st)
           k == Len(st) + 1
<1>1. st \in Seq(Int) /\ g \in [Nat -> Marks] BY DEF Stacked
<1>2. /\ n \in Nat /\ t \in Marks /\ t.lev \in Nat /\ t.cnt \in Nat /\ t.base \in 0 .. n
      /\ t.cnt < k - t.base /\ (t.role = "hole" => t.cnt < n - t.base)
  BY TopFacts
<1>3. /\ m \in Marks /\ m.role = "tag" /\ m.base = t.base
      /\ m.lev = IF x \in {5, 6} THEN t.lev + 1 ELSE t.lev
      /\ m.cnt = IF x = 8 THEN t.cnt + 1 ELSE t.cnt
  <2>1. "tag" \in Roles BY DEF Roles
  <2> HIDE DEF t
  <2>2. CASE x \in {5, 6} BY <1>2, <2>1, <2>2, AsFacts DEF TagMark
  <2>3. CASE x = 8 BY <1>2, <2>1, <2>3, AsFacts DEF TagMark
  <2>4. CASE x \notin {5, 6, 8} BY <1>2, <2>1, <2>4, AsFacts DEF TagMark
  <2> QED BY <2>2, <2>3, <2>4
<1> HIDE DEF m
<1>4. Put(st, g, x, m, st2, g2) /\ x \in Int /\ x \in 1 .. 8 /\ x # 7 BY DEF m, Ready
<1>5. /\ st2[k] = x /\ g2[k] = m /\ Same(st, g, st2, g2, n)
  BY SMTT(30), <1>1, <1>3, <1>4, PutFacts
<1>6. /\ k - 1 = n /\ n \in 0 .. n /\ n \in 1 .. n /\ k >= 2 /\ g2[n] = t /\ st2[n] = st[n]
      /\ n >= 2 => k >= 3 /\ k - 2 = n - 1 /\ g2[n - 1] = g[n - 1]
  <2>1. n >= 1 BY DEF Ready
  <2>2. k - 1 = n /\ n \in 0 .. n /\ n \in 1 .. n /\ k >= 2 BY <1>2, <2>1
  <2>3. n >= 2 => k >= 3 /\ k - 2 = n - 1 /\ n - 1 \in 0 .. n BY <1>2
  <2> HIDE DEF n, k
  <2> QED BY <1>5, <2>2, <2>3 DEF Same, n
<1>7. Item(co, d, st2, g2, k)
  <2>1. Tagged(co, st2, g2, k)
    <3>1. /\ x \in {1, 2, 4, 5, 6, 8} => t.role = "hole"
          /\ x = 3 => t.role = "back"
          /\ x = 4 => n >= 2 /\ g[n - 1].role = "back"
          /\ x \in {5, 6} => n >= 2 /\ g[n - 1].role = "loop" /\ co[At(st[n]) - 1] \in Dos
      BY DEF Ready
    <3> HIDE DEF t, n, k
    <3> QED BY <1>4, <1>5, <1>6, <3>1 DEF Tagged
  <2>2. t.role # "cases" BY <1>4 DEF Ready
  <2> HIDE DEF t, n, k
  <2> QED BY <1>3, <1>4, <1>5, <1>6, <2>1, <2>2 DEF Item, CaseTag
<1>8. Unmoved(st, g, x, m)
  <2>1. m.cnt < k - t.base
    <3>1. CASE x = 8
      <4>1. t.cnt < n - t.base /\ m.cnt = t.cnt + 1 BY <1>2, <1>3, <3>1 DEF Ready
      <4> DEFINE c == t.cnt
                 b == t.base
      <4>2. c \in Nat /\ b \in Nat /\ n \in Nat /\ c < n - b /\ k = n + 1 BY <1>2, <4>1
      <4>3. c + 1 < k - b
        <5> HIDE DEF c, b, n, k
        <5> QED BY <4>2
      <4> QED BY <4>1, <4>3
    <3>2. CASE x # 8 BY <1>2, <1>3, <3>2
    <3> QED BY <3>1, <3>2
  <2> QED BY <1>3, <1>4, <2>1 DEF Unmoved
<1>9. Cased(st2, g2, k) BY <1>3, <1>4, <1>8, CasedPut
<1>10. /\ Stacked(co, d, st2, g2) /\ g2[Len(st2)] = m /\ Len(st2) = Len(st) + 1
       /\ Open(st, g) \subseteq Open(st2, g2)
  BY <1>3, <1>4, <1>7, <1>9, StackedPut
<1> QED BY <1>10 DEF m

\* The mark of a CASE's tag, the k-th cell.
CaseMark(k, t) == Mark("tag", t.lev, 0, k)

\* CASE's tag is put above the count of the CASE outside.
LEMMA CasePut ==
  ASSUME NEW co, NEW d, NEW st, NEW g, Stacked(co, d, st, g), g[Len(st)].role = "cases",
         NEW st2, NEW g2, Put(st, g, 7, CaseMark(Len(st) + 1, g[Len(st)]), st2, g2)
  PROVE  /\ Stacked(co, d, st2, g2) /\ g2[Len(st2)] = CaseMark(Len(st) + 1, g[Len(st)])
         /\ Len(st2) = Len(st) + 1
         /\ Open(st, g) \subseteq Open(st2, g2)
<1> DEFINE t == g[Len(st)]
           n == Len(st)
           k == Len(st) + 1
           m == CaseMark(k, t)
<1>1. st \in Seq(Int) /\ g \in [Nat -> Marks] /\ t.role = "cases" BY DEF Stacked
<1>2. n \in Nat /\ t \in Marks /\ t.lev \in Nat /\ n # 0
  <2>1. /\ Len(st) \in Nat /\ g[Len(st)] \in Marks /\ g[Len(st)].lev \in Nat
        /\ Len(st) = 0 => g[Len(st)].role = "tag"
    BY TopFacts
  <2> QED BY <1>1, <2>1
<1>3. m \in Marks /\ m.role = "tag" /\ m.base = k /\ m.lev = t.lev /\ m.cnt = 0
  <2>1. "tag" \in Roles /\ 0 \in Nat /\ k \in Nat BY <1>2 DEF Roles
  <2> DEFINE l == t.lev
  <2>2. l \in Nat BY <1>2
  <2>3. m = Mark("tag", l, 0, k) BY DEF CaseMark
  <2> HIDE DEF l, k, m
  <2>4. LET q == Mark("tag", l, 0, k)
        IN  q \in Marks /\ q.role = "tag" /\ q.base = k /\ q.lev = l /\ q.cnt = 0
    BY <2>1, <2>2, MarkFacts
  <2> QED BY <2>3, <2>4 DEF l
<1> HIDE DEF m
<1>4. Put(st, g, 7, m, st2, g2) BY DEF m
<1>5. /\ st2[k] = 7 /\ g2[k] = m /\ Same(st, g, st2, g2, n) BY <1>1, <1>3, <1>4, PutFacts
<1>6. k - 1 = n /\ k >= 2 /\ k \in Nat /\ g2[n] = t
  <2>1. k - 1 = n /\ n \in 0 .. n /\ k >= 2 /\ k \in Nat BY <1>2
  <2>2. g2[n] = t BY <1>5, <2>1 DEF Same
  <2> QED BY <2>1, <2>2
<1>7. Item(co, d, st2, g2, k)
  <2> HIDE DEF t, n, k
  <2>1. Tagged(co, st2, g2, k) BY <1>1, <1>5, <1>6 DEF Tagged
  <2> QED BY <1>3, <1>5, <1>6, <2>1 DEF Item, CaseTag
<1>8. Cased(st2, g2, k)
  <2> HIDE DEF t, n, k
  <2>1. \A q \in k + 1 .. k : FALSE BY <1>6
  <2>2. \A q \in k .. k : q = k BY <1>6
  <2>3. k \in 0 .. k /\ 0 <= k - k BY <1>6
  <2> QED BY <1>3, <1>5, <2>1, <2>2, <2>3 DEF Cased, CaseTag
<1>9. /\ Stacked(co, d, st2, g2) /\ g2[Len(st2)] = m /\ Len(st2) = Len(st) + 1
      /\ Open(st, g) \subseteq Open(st2, g2)
  BY <1>3, <1>4, <1>7, <1>8, StackedPut
<1> QED BY <1>9 DEF m

\* The stack ends l loops and c OFs in.
Over(co, d, st, g, l, c) ==
  /\ Stacked(co, d, st, g) /\ g[Len(st)].role # "cases"
  /\ g[Len(st)].lev = l /\ g[Len(st)].cnt = c

\* What follows for the top of a stack.
LEMMA OverFacts ==
  ASSUME NEW co, NEW d, NEW st, NEW g, NEW l, NEW c, Over(co, d, st, g, l, c)
  PROVE  /\ Stacked(co, d, st, g) /\ g[Len(st)].role # "cases" /\ Len(st) \in Nat
         /\ st \in Seq(Int) /\ g[Len(st)] \in Marks /\ l \in Nat /\ c \in Nat
         /\ g[Len(st)].lev = l /\ g[Len(st)].cnt = c
BY TopFacts DEF Over, Stacked

\* There is a marking with one more mark.
LEMMA PutExists ==
  ASSUME NEW st, NEW g, NEW x, NEW m
  PROVE  \E g2 : Put(st, g, x, m, Append(st, x), g2)
BY DEF Put

\* A cell that is not a tag, on top.
LEMMA PlainOver ==
  ASSUME NEW co, NEW d, NEW st, NEW g, NEW l, NEW c, Over(co, d, st, g, l, c),
         NEW x \in Int, NEW r \in Roles, r # "tag", Means(co, d, g[Len(st)], r, x)
  PROVE  \E g2 : /\ Stacked(co, d, Append(st, x), g2)
                 /\ g2[Len(Append(st, x))].role = r /\ g2[Len(Append(st, x))].lev = l
                 /\ g2[Len(Append(st, x))].cnt = IF r = "end" THEN c + 1 ELSE c
                 /\ Len(Append(st, x)) = Len(st) + 1
                 /\ \A i \in 0 .. Len(st) : g2[i] = g[i]
                 /\ Open(st, g) \subseteq Open(Append(st, x), g2)
                 /\ r \in {"hole", "end"} => At(x) \in Open(Append(st, x), g2)
<1> DEFINE t == g[Len(st)]
           m == PlainMark(r, t)
           q == Append(st, x)
<1>1. /\ Stacked(co, d, st, g) /\ t.role # "cases" /\ t \in Marks
      /\ t.lev = l /\ t.cnt = c /\ st \in Seq(Int) /\ g \in [Nat -> Marks]
  BY OverFacts DEF Stacked
<1>2. m \in Marks /\ m.role = r /\ m.lev = l /\ m.cnt = IF r = "end" THEN c + 1 ELSE c
  <2> HIDE DEF t
  <2> QED BY <1>1, AsFacts DEF PlainMark
<1> HIDE DEF m, q
<1>3. PICK g2 : Put(st, g, x, m, q, g2) BY PutExists DEF q
<1>4. /\ Stacked(co, d, q, g2) /\ g2[Len(q)] = m /\ Len(q) = Len(st) + 1
      /\ Open(st, g) \subseteq Open(q, g2)
      /\ r \in {"hole", "end"} => At(x) \in Open(q, g2)
  BY <1>1, <1>3, PlainPut DEF m
<1>5. \A i \in 0 .. Len(st) : g2[i] = g[i] BY <1>1, <1>2, <1>3, PutFacts DEF Same
<1> QED BY <1>2, <1>4, <1>5 DEF q

\* A tag, on top.
LEMMA TagOver ==
  ASSUME NEW co, NEW d, NEW st, NEW g, NEW l, NEW c, Over(co, d, st, g, l, c),
         NEW x, Ready(co, st, g, x)
  PROVE  \E g2 : /\ Over(co, d, Append(st, x), g2, IF x \in {5, 6} THEN l + 1 ELSE l,
                         IF x = 8 THEN c + 1 ELSE c)
                 /\ Open(st, g) \subseteq Open(Append(st, x), g2)
<1> DEFINE t == g[Len(st)]
           m == TagMark(x, t)
           q == Append(st, x)
<1>1. /\ Stacked(co, d, st, g) /\ t \in Marks /\ t.lev = l /\ t.cnt = c
  BY OverFacts DEF Stacked
<1>2. /\ m.role = "tag" /\ m.lev = (IF x \in {5, 6} THEN l + 1 ELSE l)
      /\ m.cnt = IF x = 8 THEN c + 1 ELSE c
  <2>1. "tag" \in Roles BY DEF Roles
  <2> HIDE DEF t
  <2>2. CASE x \in {5, 6} BY <1>1, <2>1, <2>2, AsFacts DEF TagMark
  <2>3. CASE x = 8 BY <1>1, <2>1, <2>3, AsFacts DEF TagMark
  <2>4. CASE x \notin {5, 6, 8} BY <1>1, <2>1, <2>4, AsFacts DEF TagMark
  <2> QED BY <2>2, <2>3, <2>4
<1> HIDE DEF m, q
<1>3. PICK g2 : Put(st, g, x, m, q, g2) BY PutExists DEF q
<1>4. Stacked(co, d, q, g2) /\ g2[Len(q)] = m /\ Open(st, g) \subseteq Open(q, g2)
  BY <1>1, <1>3, TagPut DEF m
<1>5. g2[Len(q)].role # "cases" BY <1>2, <1>4
<1> QED BY <1>2, <1>4, <1>5 DEF q, Over

\* IF, ELSE, WHILE, OF: a branch's operand and its tag.
LEMMA HoleTagOver ==
  ASSUME NEW co, NEW d, NEW st, NEW g, NEW l, NEW c, Over(co, d, st, g, l, c),
         NEW a \in Int, Hole(co, d, At(a), l), NEW x, x \in {1, 2, 4, 8},
         x = 4 => Len(st) >= 1 /\ g[Len(st)].role = "back"
  PROVE  \E g2 : /\ Over(co, d, st \o <<a, x>>, g2, l, IF x = 8 THEN c + 1 ELSE c)
                 /\ Open(st, g) \subseteq Open(st \o <<a, x>>, g2)
                 /\ At(a) \in Open(st \o <<a, x>>, g2)
<1> DEFINE q == Append(st, a)
           s == Append(Append(st, a), x)
           n == Len(st)
<1>1. st \in Seq(Int) /\ n \in Nat /\ g[n].lev = l /\ c \in Nat /\ x \in Int BY OverFacts
<1>2. st \o <<a, x>> = s BY <1>1, PairJoined
<1>3. Means(co, d, g[n], "hole", a) BY <1>1 DEF Means
<1>4. "hole" \in Roles BY DEF Roles
<1>5. PICK g1 : /\ Stacked(co, d, q, g1) /\ g1[Len(q)].role = "hole" /\ g1[Len(q)].lev = l
                /\ g1[Len(q)].cnt = c /\ Len(q) = n + 1
                /\ \A i \in 0 .. n : g1[i] = g[i]
                /\ Open(st, g) \subseteq Open(q, g1) /\ At(a) \in Open(q, g1)
  BY <1>3, <1>4, PlainOver
<1> HIDE DEF q
<1>6. Over(co, d, q, g1, l, c) BY <1>5 DEF Over
<1>7. Ready(co, q, g1, x)
  <2>1. Len(q) >= 1 /\ Len(q) - 1 = n /\ n \in 0 .. n BY <1>1, <1>5
  <2>2. x = 4 => Len(q) >= 2 /\ g1[Len(q) - 1].role = "back" BY <1>1, <1>5, <2>1
  <2> QED BY <1>5, <2>1, <2>2 DEF Ready
<1>8. PICK g2 : /\ Over(co, d, Append(q, x), g2, l, IF x = 8 THEN c + 1 ELSE c)
                /\ Open(q, g1) \subseteq Open(Append(q, x), g2)
  <2>1. x \notin {5, 6} OBVIOUS
  <2> QED BY <1>6, <1>7, <2>1, TagOver
<1>9. s = Append(q, x) BY DEF q
<1> HIDE DEF s
<1> QED BY <1>2, <1>5, <1>8, <1>9

\* BEGIN.
LEMMA BackTagOver ==
  ASSUME NEW co, NEW d, NEW st, NEW g, NEW l, NEW c, Over(co, d, st, g, l, c),
         NEW a \in Int, Starts(co, At(a)), d[At(a)] = l
  PROVE  \E g2 : /\ Over(co, d, st \o <<a, 3>>, g2, l, c)
                 /\ Open(st, g) \subseteq Open(st \o <<a, 3>>, g2)
<1> DEFINE q == Append(st, a)
           s == Append(Append(st, a), 3)
           n == Len(st)
<1>1. st \in Seq(Int) /\ n \in Nat /\ g[n].lev = l /\ c \in Nat /\ 3 \in Int BY OverFacts
<1>2. st \o <<a, 3>> = s BY <1>1, PairJoined
<1>3. Means(co, d, g[n], "back", a) BY <1>1 DEF Means
<1>4. "back" \in Roles BY DEF Roles
<1>5. PICK g1 : /\ Stacked(co, d, q, g1) /\ g1[Len(q)].role = "back" /\ g1[Len(q)].lev = l
                /\ g1[Len(q)].cnt = c /\ Len(q) = n + 1
                /\ Open(st, g) \subseteq Open(q, g1)
  BY <1>3, <1>4, PlainOver
<1> HIDE DEF q
<1>6. Over(co, d, q, g1, l, c) BY <1>5 DEF Over
<1>7. Ready(co, q, g1, 3) BY <1>1, <1>5 DEF Ready
<1>8. PICK g2 : /\ Over(co, d, Append(q, 3), g2, l, c)
                /\ Open(q, g1) \subseteq Open(Append(q, 3), g2)
  BY <1>6, <1>7, TagOver
<1>9. s = Append(q, 3) BY DEF q
<1> HIDE DEF s
<1> QED BY <1>2, <1>5, <1>8, <1>9

\* Elements put at a sequence's end are appended one by one.
LEMMA TripleJoined ==
  ASSUME NEW st \in Seq(Int), NEW x \in Int, NEW y \in Int, NEW z \in Int
  PROVE  /\ st \o <<x, y, z>> = Append(Append(Append(st, x), y), z)
         /\ st \o <<x>> = Append(st, x)
OBVIOUS

\* DO, FOR: the loop outside, the loop's operand and its tag.
LEMMA LoopTagOver ==
  ASSUME NEW co, NEW d, NEW st, NEW g, NEW l, NEW c, Over(co, d, st, g, l, c),
         NEW outer \in Int, Enclosing(co, d, outer, l),
         NEW a \in Int, Hole(co, d, At(a), l), co[At(a) - 1] \in Dos, NEW x, x \in {5, 6}
  PROVE  \E g2 : /\ Over(co, d, st \o <<outer, a, x>>, g2, l + 1, c)
                 /\ Open(st, g) \subseteq Open(st \o <<outer, a, x>>, g2)
                 /\ At(a) \in Open(st \o <<outer, a, x>>, g2)
<1> DEFINE p == Append(st, outer)
           q == Append(Append(st, outer), a)
           s == Append(Append(Append(st, outer), a), x)
           n == Len(st)
<1>1. /\ st \in Seq(Int) /\ n \in Nat /\ g[n].lev = l /\ c \in Nat /\ x \in Int /\ l \in Nat
      /\ p \in Seq(Int) /\ Len(p) = n + 1
      /\ q[Len(q)] = a
  BY OverFacts
<1>2. st \o <<outer, a, x>> = s BY SMTT(30), <1>1, TripleJoined
<1>3. Means(co, d, g[n], "loop", outer) BY <1>1 DEF Means
<1>4. "hole" \in Roles /\ "loop" \in Roles BY DEF Roles
<1>5. PICK g1 : /\ Stacked(co, d, p, g1) /\ g1[Len(p)].role = "loop" /\ g1[Len(p)].lev = l
                /\ g1[Len(p)].cnt = c /\ Len(p) = n + 1
                /\ Open(st, g) \subseteq Open(p, g1)
  BY <1>3, <1>4, PlainOver
<1>6. q = Append(p, a) OBVIOUS
<1>7. s = Append(q, x) OBVIOUS
<1> HIDE DEF p
<1>8. Over(co, d, p, g1, l, c) BY <1>5 DEF Over
<1>9. Means(co, d, g1[Len(p)], "hole", a) BY <1>5 DEF Means
<1>10. PICK g2 : /\ Stacked(co, d, Append(p, a), g2) /\ g2[Len(Append(p, a))].role = "hole"
                 /\ g2[Len(Append(p, a))].lev = l
                 /\ g2[Len(Append(p, a))].cnt = c /\ Len(Append(p, a)) = Len(p) + 1
                 /\ \A i \in 0 .. Len(p) : g2[i] = g1[i]
                 /\ Open(p, g1) \subseteq Open(Append(p, a), g2)
                 /\ At(a) \in Open(Append(p, a), g2)
  BY <1>4, <1>8, <1>9, PlainOver
<1> HIDE DEF q, s
<1>11. /\ Stacked(co, d, q, g2) /\ g2[Len(q)].role = "hole" /\ g2[Len(q)].lev = l
       /\ g2[Len(q)].cnt = c /\ Len(q) = n + 2
       /\ g2[n + 1].role = "loop"
       /\ Open(st, g) \subseteq Open(q, g2) /\ At(a) \in Open(q, g2)
  <2>1. n + 1 \in 0 .. Len(p) /\ Len(p) + 1 = n + 2 BY <1>1
  <2>2. g2[n + 1] = g1[Len(p)] BY <1>5, <1>10, <2>1
  <2> QED BY <1>5, <1>6, <1>10, <2>1, <2>2
<1>12. Over(co, d, q, g2, l, c) BY <1>11 DEF Over
<1>13. Ready(co, q, g2, x)
  <2>1. Len(q) >= 2 /\ Len(q) - 1 = n + 1 BY <1>1, <1>11
  <2>2. co[At(q[Len(q)]) - 1] \in Dos BY <1>1
  <2> QED BY <1>11, <2>1, <2>2 DEF Ready
<1>14. PICK g3 : /\ Over(co, d, Append(q, x), g3, l + 1, c)
                 /\ Open(q, g2) \subseteq Open(Append(q, x), g3)
  <2>1. x \in {5, 6} /\ x # 8 OBVIOUS
  <2> QED BY <1>12, <1>13, <2>1, TagOver
<1> QED BY <1>2, <1>7, <1>11, <1>14

\* CASE: the OFs of the CASE outside, and the tag.
LEMMA CaseTagOver ==
  ASSUME NEW co, NEW d, NEW st, NEW g, NEW l, NEW c, Over(co, d, st, g, l, c)
  PROVE  \E g2 : /\ Over(co, d, st \o <<c, 7>>, g2, l, 0)
                 /\ Open(st, g) \subseteq Open(st \o <<c, 7>>, g2)
<1> DEFINE q == Append(st, c)
           s == Append(Append(st, c), 7)
           n == Len(st)
<1>1. /\ st \in Seq(Int) /\ n \in Nat /\ g[n].cnt = c /\ c \in Nat /\ c \in Int /\ 7 \in Int
      /\ l \in Nat
  BY OverFacts
<1>2. st \o <<c, 7>> = s BY <1>1, PairJoined
<1>3. Means(co, d, g[n], "cases", c) BY <1>1 DEF Means
<1>4. "cases" \in Roles /\ "tag" \in Roles BY DEF Roles
<1>5. PICK g1 : /\ Stacked(co, d, q, g1) /\ g1[Len(q)].role = "cases" /\ g1[Len(q)].lev = l
                /\ Len(q) = n + 1
                /\ Open(st, g) \subseteq Open(q, g1)
  BY <1>1, <1>3, <1>4, PlainOver
<1>6. s = Append(q, 7) OBVIOUS
<1> HIDE DEF q
<1> DEFINE m == CaseMark(Len(q) + 1, g1[Len(q)])
<1>7. m.role = "tag" /\ m.lev = l /\ m.cnt = 0
  <2>1. Len(q) + 1 \in Nat BY <1>1, <1>5
  <2>2. m = Mark("tag", l, 0, Len(q) + 1) BY <1>5 DEF CaseMark
  <2> DEFINE k == Len(q) + 1
  <2>3. k \in Nat /\ 0 \in Nat /\ l \in Nat /\ "tag" \in Roles BY <1>1, <1>4, <2>1
  <2> HIDE DEF m, k
  <2>4. LET f == Mark("tag", l, 0, k) IN f.role = "tag" /\ f.lev = l /\ f.cnt = 0
    BY <2>3, MarkFacts
  <2> QED BY <2>2, <2>4 DEF k
<1> HIDE DEF m, s
<1>8. PICK g2 : Put(q, g1, 7, m, Append(q, 7), g2) BY PutExists
<1>9. /\ Stacked(co, d, Append(q, 7), g2) /\ g2[Len(Append(q, 7))] = m
      /\ Open(q, g1) \subseteq Open(Append(q, 7), g2)
  <2>1. Stacked(co, d, q, g1) /\ g1[Len(q)].role = "cases" BY <1>5
  <2> DEFINE r == Append(q, 7)
  <2>2. Put(q, g1, 7, CaseMark(Len(q) + 1, g1[Len(q)]), r, g2) BY <1>8 DEF m
  <2> HIDE DEF r
  <2>3. /\ Stacked(co, d, r, g2) /\ g2[Len(r)] = CaseMark(Len(q) + 1, g1[Len(q)])
        /\ Open(q, g1) \subseteq Open(r, g2)
    BY <2>1, <2>2, CasePut
  <2> QED BY <2>3 DEF m, r
<1>10. Over(co, d, Append(q, 7), g2, l, 0)
  <2>1. /\ g2[Len(Append(q, 7))].role = "tag" /\ g2[Len(Append(q, 7))].lev = l
        /\ g2[Len(Append(q, 7))].cnt = 0
    BY <1>7, <1>9
  <2> QED BY <1>9, <2>1 DEF Over
<1> QED BY <1>2, <1>5, <1>6, <1>9, <1>10

\* ENDOF: the operand of the branch over the rest of its CASE.
LEMMA EndOver ==
  ASSUME NEW co, NEW d, NEW st, NEW g, NEW l, NEW c, Over(co, d, st, g, l, c),
         NEW a \in Int, Hole(co, d, At(a), l)
  PROVE  \E g2 : /\ Over(co, d, st \o <<a>>, g2, l, c + 1)
                 /\ Open(st, g) \subseteq Open(st \o <<a>>, g2)
                 /\ At(a) \in Open(st \o <<a>>, g2)
<1> DEFINE q == Append(st, a)
           n == Len(st)
<1>1. /\ st \in Seq(Int) /\ n \in Nat /\ g[n].lev = l /\ c \in Nat /\ st \o <<a>> = q
  BY OverFacts, TripleJoined
<1>2. Means(co, d, g[n], "end", a) BY <1>1 DEF Means
<1>3. "end" \in Roles BY DEF Roles
<1>4. PICK g2 : /\ Stacked(co, d, q, g2) /\ g2[Len(q)].role = "end" /\ g2[Len(q)].lev = l
                /\ g2[Len(q)].cnt = c + 1
                /\ Open(st, g) \subseteq Open(q, g2) /\ At(a) \in Open(q, g2)
  BY <1>2, <1>3, PlainOver
<1>5. Over(co, d, q, g2, l, c + 1)
  <2> HIDE DEF q
  <2> QED BY <1>4 DEF Over
<1> HIDE DEF q
<1> QED BY <1>1, <1>4, <1>5

\* What is at the p-th cell when it is not a tag.
LEMMA PlainItem ==
  ASSUME NEW co, NEW d, NEW st, NEW g, Stacked(co, d, st, g), NEW p \in 1 .. Len(st),
         g[p].role # "tag"
  PROVE  /\ g[p - 1].role # "cases" /\ g[p].lev = g[p - 1].lev
         /\ g[p].role # "end" => g[p].cnt = g[p - 1].cnt
         /\ g[p].role \in {"hole", "end"} => Hole(co, d, At(st[p]), g[p].lev)
         /\ g[p].role = "back" => Starts(co, At(st[p])) /\ d[At(st[p])] = g[p].lev
         /\ g[p].role = "loop" => Enclosing(co, d, st[p], g[p].lev)
         /\ g[p].role = "cases" => st[p] = g[p - 1].cnt
         /\ st[p] \in 1 .. 8 => g[p].role = "cases"
<1>1. Item(co, d, st, g, p) /\ st[p] \in Int /\ g[p] \in Marks BY DEF Stacked
<1>2. ASSUME st[p] \in 1 .. 8, g[p].role # "cases" PROVE FALSE
  <2>1. At(st[p]) < 1 BY <1>1, <1>2 DEF At, Base
  <2>2. ~Starts(co, At(st[p])) /\ ~\E n : Hole(co, d, At(st[p]), n)
    <3>1. \A i : i \in 1 .. Len(co) + 1 \/ i \in 2 .. Len(co) => ~(i < 1) OBVIOUS
    <3> QED BY <2>1, <3>1 DEF Starts, Hole
  <2>3. st[p] # 0 BY <1>2
  <2>4. g[p].role \in Roles BY <1>1 DEF Marks
  <2> QED BY <1>1, <1>2, <2>2, <2>3, <2>4 DEF Item, Roles, Enclosing
<1> QED BY <1>1, <1>2 DEF Item, CaseTag

\* On top of a stack that does not end in CASE's count, a number up to 8 is a tag.
LEMMA TopTag ==
  ASSUME NEW co, NEW d, NEW st, NEW g, NEW l, NEW c, Over(co, d, st, g, l, c),
         st # <<>>, st[Len(st)] \in 1 .. 8
  PROVE  /\ Len(st) >= 2 /\ Len(st) - 1 \in 1 .. Len(st) /\ Tagged(co, st, g, Len(st))
         /\ g[Len(st) - 1].lev = IF st[Len(st)] \in {5, 6} THEN l - 1 ELSE l
         /\ st[Len(st)] \in {5, 6} => l >= 1
         /\ st[Len(st)] # 7 => g[Len(st) - 1].cnt = IF st[Len(st)] = 8 THEN c - 1 ELSE c
         /\ g[Len(st)].role = "tag"
<1> DEFINE n == Len(st)
           x == st[n]
<1>1. /\ Stacked(co, d, st, g) /\ g[n].role # "cases" /\ n \in Nat /\ st \in Seq(Int)
      /\ g[n].lev = l /\ g[n].cnt = c /\ l \in Nat /\ c \in Nat
  BY OverFacts
<1>2. n \in 1 .. n
  <2>1. n # 0 BY <1>1
  <2> QED BY <1>1, <2>1
<1>3. g[n].role = "tag" BY <1>1, <1>2, PlainItem
<1>4. Item(co, d, st, g, n) BY <1>1, <1>2 DEF Stacked
<1>5. Tagged(co, st, g, n) BY <1>3, <1>4 DEF Item
<1>6. n >= 2 /\ n - 1 \in 1 .. n /\ n - 1 \in Nat BY <1>1, <1>5 DEF Tagged
<1>7. g[n - 1].lev \in Nat /\ g[n - 1].cnt \in Nat
  <2>1. g[n - 1] \in Marks BY <1>1, <1>6 DEF Stacked
  <2> QED BY <2>1 DEF Marks
<1>8. g[n].lev = IF x \in {5, 6} THEN g[n - 1].lev + 1 ELSE g[n - 1].lev BY <1>3, <1>4 DEF Item
<1>9. x # 7 => g[n].cnt = IF x = 8 THEN g[n - 1].cnt + 1 ELSE g[n - 1].cnt
  BY <1>3, <1>4 DEF Item, CaseTag
<1>10. /\ g[n - 1].lev = IF x \in {5, 6} THEN l - 1 ELSE l
       /\ x \in {5, 6} => l >= 1
       /\ x # 7 => g[n - 1].cnt = IF x = 8 THEN c - 1 ELSE c
  <2> DEFINE b == g[n - 1].lev
             e == g[n - 1].cnt
  <2>1. b \in Nat /\ e \in Nat /\ l \in Nat /\ c \in Nat BY <1>1, <1>7
  <2>2. l = (IF x \in {5, 6} THEN b + 1 ELSE b) /\ (x # 7 => c = IF x = 8 THEN e + 1 ELSE e)
    BY <1>1, <1>8, <1>9
  <2> HIDE DEF b, e, x, n
  <2>3. /\ b = IF x \in {5, 6} THEN l - 1 ELSE l
        /\ x \in {5, 6} => l >= 1
        /\ x # 7 => e = IF x = 8 THEN c - 1 ELSE c
    BY <2>1, <2>2
  <2> QED BY <2>3 DEF b, e
<1> QED BY <1>1, <1>3, <1>5, <1>6, <1>10

\* A stack cut back to k cells ends where its k-th mark says.
LEMMA CutOver ==
  ASSUME NEW co, NEW d, NEW st, NEW g, Stacked(co, d, st, g), NEW k \in 0 .. Len(st),
         g[k].role # "cases", NEW l, NEW c, g[k].lev = l, g[k].cnt = c
  PROVE  Over(co, d, SubSeq(st, 1, k), g, l, c)
<1> DEFINE q == SubSeq(st, 1, k)
<1>1. Stacked(co, d, q, g) BY StackedCut
<1>2. Len(q) = k BY CutInts DEF Stacked
<1> HIDE DEF q
<1> QED BY <1>1, <1>2 DEF Over, q

\* A branch's operand is under the tag: IF, ELSE, OF.
LEMMA BranchTop ==
  ASSUME NEW co, NEW d, NEW st, NEW g, NEW l, NEW c, Over(co, d, st, g, l, c),
         st # <<>>, st[Len(st)] \in {1, 2, 8}
  PROVE  /\ Len(st) - 1 \in 1 .. Len(st) /\ st[Len(st) - 1] \in Int
         /\ Hole(co, d, At(st[Len(st) - 1]), l)
         /\ Over(co, d, SubSeq(st, 1, Len(st) - 2), g, l, IF st[Len(st)] = 8 THEN c - 1 ELSE c)
         /\ \A i \in Open(st, g) : \/ i \in Open(SubSeq(st, 1, Len(st) - 2), g)
                                   \/ i = At(st[Len(st) - 1])
<1> DEFINE n == Len(st)
           x == st[n]
           e == IF x = 8 THEN c - 1 ELSE c
<1>1. Stacked(co, d, st, g) /\ n \in Nat /\ st \in Seq(Int) /\ x \in 1 .. 8 BY OverFacts
<1>2. /\ n >= 2 /\ n - 1 \in 1 .. n /\ Tagged(co, st, g, n)
      /\ g[n - 1].lev = l /\ g[n - 1].cnt = e /\ g[n].role = "tag"
  BY <1>1, TopTag
<1>3. g[n - 1].role = "hole" BY <1>2 DEF Tagged
<1>4. /\ Hole(co, d, At(st[n - 1]), g[n - 1].lev) /\ g[(n - 1) - 1].role # "cases"
      /\ g[n - 1].lev = g[(n - 1) - 1].lev /\ g[n - 1].cnt = g[(n - 1) - 1].cnt
  BY SMTT(30), <1>1, <1>2, <1>3, PlainItem
<1>5. (n - 1) - 1 = n - 2 /\ n - 2 \in 0 .. n BY <1>1, <1>2
<1>6. Over(co, d, SubSeq(st, 1, n - 2), g, l, e)
  <2>1. g[n - 2].role # "cases" /\ g[n - 2].lev = l /\ g[n - 2].cnt = e BY <1>2, <1>4, <1>5
  <2> HIDE DEF e
  <2> QED BY <1>1, <1>5, <2>1, CutOver
<1>7. ASSUME NEW i \in Open(st, g), i \notin Open(SubSeq(st, 1, n - 2), g)
      PROVE  i = At(st[n - 1])
  <2>1. PICK p \in (n - 2) + 1 .. n : g[p].role \in {"hole", "end"} /\ i = At(st[p])
    BY SMTT(30), <1>1, <1>5, <1>7, StackedCut
  <2>2. p # n BY <1>2, <2>1
  <2>3. p = n - 1 BY <1>1, <2>2
  <2> QED BY <2>1, <2>3
<1>8. st[n - 1] \in Int BY <1>1, <1>2
<1> QED BY <1>2, <1>4, <1>6, <1>7, <1>8

\* BEGIN's address is under the tag.
LEMMA BackTop ==
  ASSUME NEW co, NEW d, NEW st, NEW g, NEW l, NEW c, Over(co, d, st, g, l, c),
         st # <<>>, st[Len(st)] = 3
  PROVE  /\ Len(st) - 1 \in 1 .. Len(st) /\ st[Len(st) - 1] \in Int
         /\ Starts(co, At(st[Len(st) - 1])) /\ d[At(st[Len(st) - 1])] = l
         /\ g[Len(st) - 1].role = "back"
         /\ Over(co, d, SubSeq(st, 1, Len(st) - 1), g, l, c)
         /\ Open(st, g) \subseteq Open(SubSeq(st, 1, Len(st) - 1), g)
         /\ Over(co, d, SubSeq(st, 1, Len(st) - 2), g, l, c)
         /\ Open(st, g) \subseteq Open(SubSeq(st, 1, Len(st) - 2), g)
<1> DEFINE n == Len(st)
<1>1. Stacked(co, d, st, g) /\ n \in Nat /\ st \in Seq(Int) /\ st[n] \in 1 .. 8 BY OverFacts
<1>2. /\ n >= 2 /\ n - 1 \in 1 .. n /\ Tagged(co, st, g, n)
      /\ g[n - 1].lev = l /\ g[n - 1].cnt = c /\ g[n].role = "tag"
  <2>1. /\ n >= 2 /\ n - 1 \in 1 .. n /\ Tagged(co, st, g, n)
        /\ g[n - 1].lev = (IF st[n] \in {5, 6} THEN l - 1 ELSE l)
        /\ st[n] # 7 => g[n - 1].cnt = IF st[n] = 8 THEN c - 1 ELSE c
        /\ g[n].role = "tag"
    BY SMTT(30), <1>1, TopTag
  <2> QED BY <2>1
<1>3. g[n - 1].role = "back" BY <1>2 DEF Tagged
<1>4. /\ Starts(co, At(st[n - 1])) /\ d[At(st[n - 1])] = g[n - 1].lev
      /\ g[(n - 1) - 1].role # "cases"
      /\ g[n - 1].lev = g[(n - 1) - 1].lev /\ g[n - 1].cnt = g[(n - 1) - 1].cnt
  <2>1. n - 1 \in 1 .. Len(st) /\ g[n - 1].role # "tag" /\ g[n - 1].role # "end"
    BY <1>2, <1>3
  <2>2. /\ g[n - 1].role = "back" => Starts(co, At(st[n - 1])) /\ d[At(st[n - 1])] = g[n - 1].lev
        /\ g[(n - 1) - 1].role # "cases" /\ g[n - 1].lev = g[(n - 1) - 1].lev
        /\ g[n - 1].role # "end" => g[n - 1].cnt = g[(n - 1) - 1].cnt
    BY <1>1, <2>1, PlainItem
  <2> QED BY <1>3, <2>1, <2>2
<1>5. (n - 1) - 1 = n - 2 /\ n - 2 \in 0 .. n /\ n - 1 \in 0 .. n BY <1>1, <1>2
<1>6. Over(co, d, SubSeq(st, 1, n - 2), g, l, c)
  <2>1. g[n - 2].role # "cases" /\ g[n - 2].lev = l /\ g[n - 2].cnt = c BY <1>2, <1>4, <1>5
  <2> QED BY <1>1, <1>5, <2>1, CutOver
<1>7. Over(co, d, SubSeq(st, 1, n - 1), g, l, c)
  <2>1. g[n - 1].role # "cases" /\ g[n - 1].lev = l /\ g[n - 1].cnt = c BY <1>2, <1>3
  <2> QED BY <1>1, <1>5, <2>1, CutOver
<1>8. ASSUME NEW i \in Open(st, g) PROVE i \in Open(SubSeq(st, 1, n - 2), g)
  <2>1. ASSUME NEW p \in (n - 2) + 1 .. n PROVE g[p].role \notin {"hole", "end"}
    <3>1. p = n \/ p = n - 1 BY <1>1
    <3> QED BY <1>2, <1>3, <3>1
  <2> QED BY <1>1, <1>5, <2>1, StackedCut
<1>9. ASSUME NEW i \in Open(st, g) PROVE i \in Open(SubSeq(st, 1, n - 1), g)
  <2>1. ASSUME NEW p \in (n - 1) + 1 .. n PROVE g[p].role \notin {"hole", "end"}
    <3>1. p = n BY <1>1
    <3> QED BY <1>2, <3>1
  <2> QED BY <1>1, <1>5, <2>1, StackedCut
<1>10. st[n - 1] \in Int /\ d[At(st[n - 1])] = l BY <1>1, <1>2, <1>4
<1> QED BY <1>2, <1>3, <1>4, <1>6, <1>7, <1>8, <1>9, <1>10

\* WHILE's operand and BEGIN's address are under the tag, or a loop's operand
\* and the loop outside.
LEMMA LoopTop ==
  ASSUME NEW co, NEW d, NEW st, NEW g, NEW l, NEW c, Over(co, d, st, g, l, c),
         st # <<>>, st[Len(st)] \in {4, 5, 6}, NEW e, e = IF st[Len(st)] = 4 THEN l ELSE l - 1
  PROVE  /\ Len(st) - 1 \in 1 .. Len(st) /\ Len(st) - 2 \in 1 .. Len(st)
         /\ st[Len(st) - 1] \in Int /\ st[Len(st) - 2] \in Int /\ e \in Nat
         /\ Hole(co, d, At(st[Len(st) - 1]), e)
         /\ st[Len(st)] = 4 =>
              Starts(co, At(st[Len(st) - 2])) /\ d[At(st[Len(st) - 2])] = l
         /\ st[Len(st)] # 4 =>
              co[At(st[Len(st) - 1]) - 1] \in Dos /\ Enclosing(co, d, st[Len(st) - 2], e)
         /\ Over(co, d, SubSeq(st, 1, Len(st) - 3), g, e, c)
         /\ \A i \in Open(st, g) : \/ i \in Open(SubSeq(st, 1, Len(st) - 3), g)
                                   \/ i = At(st[Len(st) - 1])
<1> DEFINE n == Len(st)
           x == st[n]
<1>1. /\ Stacked(co, d, st, g) /\ n \in Nat /\ st \in Seq(Int) /\ x \in {4, 5, 6} /\ x \in 1 .. 8
      /\ l \in Nat
  BY OverFacts
<1>2. /\ n >= 2 /\ n - 1 \in 1 .. n /\ Tagged(co, st, g, n)
      /\ g[n - 1].lev = e /\ g[n - 1].cnt = c /\ g[n].role = "tag" /\ e \in Nat
  <2>1. /\ n >= 2 /\ n - 1 \in 1 .. n /\ Tagged(co, st, g, n)
        /\ g[n - 1].lev = (IF x \in {5, 6} THEN l - 1 ELSE l)
        /\ x \in {5, 6} => l >= 1
        /\ x # 7 => g[n - 1].cnt = IF x = 8 THEN c - 1 ELSE c
        /\ g[n].role = "tag"
    BY <1>1, TopTag
  <2> HIDE DEF x
  <2>2. e = IF x = 4 THEN l ELSE l - 1 BY DEF x
  <2> QED BY <1>1, <2>1, <2>2
<1>3. /\ g[n - 1].role = "hole" /\ n >= 3
      /\ x = 4 => g[n - 2].role = "back"
      /\ x # 4 => g[n - 2].role = "loop" /\ co[At(st[n - 1]) - 1] \in Dos
  BY <1>1, <1>2 DEF Tagged
<1>4. /\ (n - 1) - 1 = n - 2 /\ (n - 2) - 1 = n - 3 /\ n - 3 \in 0 .. n /\ n - 2 \in 1 .. n
  BY <1>1, <1>3
<1>5. /\ Hole(co, d, At(st[n - 1]), e)
      /\ g[n - 2].lev = e /\ g[n - 2].cnt = c
  <2>1. /\ Hole(co, d, At(st[n - 1]), g[n - 1].lev)
        /\ g[n - 1].lev = g[(n - 1) - 1].lev /\ g[n - 1].cnt = g[(n - 1) - 1].cnt
    <3> DEFINE k == n - 1
    <3>1. Stacked(co, d, st, g) /\ k \in 1 .. Len(st) /\ g[k].role = "hole" BY <1>1, <1>2, <1>3
    <3> HIDE DEF k
    <3>2. Hole(co, d, At(st[k]), g[k].lev) /\ g[k].lev = g[k - 1].lev /\ g[k].cnt = g[k - 1].cnt
      BY <3>1, PlainItem
    <3> QED BY <3>2 DEF k
  <2> QED BY <1>2, <1>4, <2>1
<1>6. /\ g[n - 3].role # "cases" /\ g[n - 3].lev = e /\ g[n - 3].cnt = c
      /\ x = 4 => Starts(co, At(st[n - 2])) /\ d[At(st[n - 2])] = e
      /\ x # 4 => Enclosing(co, d, st[n - 2], e)
      /\ g[n - 2].role \in {"back", "loop"}
  <2>1. g[n - 2].role # "tag" /\ g[n - 2].role # "end" /\ g[n - 2].role \in {"back", "loop"}
    BY <1>1, <1>3
  <2>2. /\ g[(n - 2) - 1].role # "cases"
        /\ g[n - 2].lev = g[(n - 2) - 1].lev /\ g[n - 2].cnt = g[(n - 2) - 1].cnt
        /\ g[n - 2].role = "back" => Starts(co, At(st[n - 2])) /\ d[At(st[n - 2])] = g[n - 2].lev
        /\ g[n - 2].role = "loop" => Enclosing(co, d, st[n - 2], g[n - 2].lev)
    BY SMTT(30), <1>1, <1>4, <2>1, PlainItem
  <2> QED BY <1>3, <1>4, <1>5, <2>1, <2>2
<1>7. Over(co, d, SubSeq(st, 1, n - 3), g, e, c) BY <1>1, <1>4, <1>6, CutOver
<1>8. ASSUME NEW i \in Open(st, g), i \notin Open(SubSeq(st, 1, n - 3), g)
      PROVE  i = At(st[n - 1])
  <2>1. PICK p \in (n - 3) + 1 .. n : g[p].role \in {"hole", "end"} /\ i = At(st[p])
    <3> DEFINE k == n - 3
    <3>1. k \in 0 .. Len(st) BY <1>4
    <3> HIDE DEF k
    <3>2. \/ i \in Open(SubSeq(st, 1, k), g)
          \/ \E p \in k + 1 .. Len(st) : g[p].role \in {"hole", "end"} /\ i = At(st[p])
      BY <1>1, <1>8, <3>1, StackedCut
    <3> QED BY <1>8, <3>2 DEF k
  <2>2. p # n /\ p # n - 2 BY <1>2, <1>6, <2>1
  <2>3. p = n - 1 BY <1>1, <2>2
  <2> QED BY <2>1, <2>3
<1>9. st[n - 1] \in Int /\ st[n - 2] \in Int BY <1>1, <1>2, <1>4
<1>10. x = 4 => e = l OBVIOUS
<1> QED BY <1>2, <1>3, <1>4, <1>5, <1>6, <1>7, <1>8, <1>9, <1>10

-----------------------------------------------------------------------------
(* The inductive invariant.  A definition's words can be labelled with the   *)
(* loops open at each, and what is on the stack marked, so that a branch     *)
(* resolved goes as deep as it comes from, and one to resolve is marked.     *)

Controlled(d, g) ==
  /\ Coded(code, cell, d, Open(cs, g))
  /\ Over(code, d, cs, g, d[Len(code) + 1], innercase)
  /\ innerloop \in Int /\ Enclosing(code, d, innerloop, d[Len(code) + 1])

\* To a word n loops deep, or the operand of a structure left open.
Reaches(d, g, to, n) == (Starts(code, to) /\ d[to] = n) \/ to \in Open(cs, g)

\* While it runs, two cells are on the return stack for each loop open.
Executed(d, g) ==
  \/ mode = "compiling" /\ ip = 1 /\ rs = <<>>
  \/ /\ mode = "running" /\ rs \in Seq(Int)
     /\ \E n \in Nat : Reaches(d, g, ip, n) /\ Len(rs) = 2 * n

ControlInv == \E d, g : Controlled(d, g) /\ Executed(d, g)

\* The types, and the addresses of here.
LEMMA Labels ==
  ASSUME NEW d, NEW g, Controlled(d, g)
  PROVE  /\ code \in Seq(CodeWords) /\ cell \in Seq(Int) /\ Len(cell) = Len(code)
         /\ Len(code) \in Nat /\ d \in [Nat -> Nat] /\ d[Len(code) + 1] \in Nat
         /\ cs \in Seq(Int) /\ Len(cs) \in Nat /\ innercase \in Nat /\ innerloop \in Int
         /\ here \in Int /\ At(here) = Len(code) + 1 /\ At(here + 1) = Len(code) + 2
         /\ here = Base + Len(code) /\ Base \in Int
         /\ Starts(code, Len(code) + 1)
<1>1. code \in Seq(CodeWords) /\ cell \in Seq(Int) /\ Len(cell) = Len(code) /\ d \in [Nat -> Nat]
  BY DEF Controlled, Coded
<1>2. Len(code) \in Nat /\ d[Len(code) + 1] \in Nat BY <1>1
<1>3. cs \in Seq(Int) /\ Len(cs) \in Nat /\ innercase \in Nat BY OverFacts DEF Controlled
<1>4. /\ here \in Int /\ At(here) = Len(code) + 1 /\ At(here + 1) = Len(code) + 2
      /\ here = Base + Len(code) /\ Base \in Int
  BY <1>2 DEF here, At, Base
<1>5. Starts(code, Len(code) + 1) BY <1>2 DEF Starts
<1> QED BY <1>1, <1>2, <1>3, <1>4, <1>5 DEF Controlled

\* There are labels for the definition with a word more.
LEMMA WordStarts ==
  ASSUME NEW d, NEW g, Controlled(d, g), NEW w, NEW x, NEW A, Compiles(w, x, A), NEW n
  PROVE  \E d2 : WithWord(code, d, w, n, code', d2)
BY DEF Compiles, WithWord

\* The top of the stack means what it did when the definition grows.
LEMMA OverGrown ==
  ASSUME NEW co, NEW d, NEW co2, NEW d2, Grown(co, d, co2, d2),
         NEW st, NEW g, NEW l, NEW c, Over(co, d, st, g, l, c)
  PROVE  Over(co2, d2, st, g, l, c)
BY StackedGrown DEF Over

\* A word is compiled, and the stack is as it should be.
LEMMA WordDone ==
  ASSUME NEW d, NEW g, Controlled(d, g),
         NEW w \in Jumps \cup Exits, NEW x \in Int, NEW A, Compiles(w, x, A),
         NEW n \in Nat, Falls(w, d[Len(code) + 1], n), NEW d2, WithWord(code, d, w, n, code', d2),
         \A a \in A : a \in Int /\ Hole(code, d, At(a), n),
         NEW g2, Over(code', d2, cs', g2, n, innercase'),
         \A i \in Open(cs, g) : i \in Open(cs', g2) \/ \E a \in A : i = At(a),
         Operand(code, d, Open(cs', g2), w, x),
         innerloop' \in Int, Enclosing(code', d2, innerloop', n)
  PROVE  Controlled(d2, g2)'
<1>1. Coded(code, cell, d, Open(cs, g)) BY DEF Controlled
<1>2. d2[Len(code') + 1] = n BY <1>1, LongerFacts
<1> DEFINE open2 == Open(cs', g2)
<1>3. Coded(code', cell', d2, open2)
  <2>1. \A i \in Open(cs, g) : i \in open2 \/ \E a \in A : i = At(a) OBVIOUS
  <2>2. Operand(code, d, open2, w, x) OBVIOUS
  <2> HIDE DEF open2
  <2> QED BY <1>1, <2>1, <2>2, CompilesCoded
<1> QED BY <1>2, <1>3 DEF Controlled

\* The longer definition still has innerloop's operand in it.
LEMMA ControlledGrown ==
  ASSUME NEW d, NEW g, Controlled(d, g),
         NEW w \in Jumps \cup Exits, NEW n \in Nat, NEW d2, WithWord(code, d, w, n, code', d2)
  PROVE  /\ Grown(code, d, code', d2) /\ d2 \in [Nat -> Nat]
         /\ code'[Len(code) + 1] = w
         /\ w \in Jumps => Hole(code', d2, Len(code) + 2, d[Len(code) + 1])
         /\ Enclosing(code', d2, innerloop, d[Len(code) + 1])
<1>1. Coded(code, cell, d, Open(cs, g)) BY DEF Controlled
<1>2. /\ Grown(code, d, code', d2) /\ d2 \in [Nat -> Nat] /\ code'[Len(code) + 1] = w
      /\ w \in Jumps => Hole(code', d2, Len(code) + 2, d[Len(code) + 1])
  BY <1>1, LongerFacts
<1>3. Enclosing(code', d2, innerloop, d[Len(code) + 1])
  BY <1>2, HoleGrown DEF Controlled, Enclosing
<1> QED BY <1>2, <1>3

\* The cells under the top, by their places.
LEMMA Tops ==
  ASSUME NEW d, NEW g, Controlled(d, g)
  PROVE  /\ Top(1) = cs[Len(cs)] /\ Top(2) = cs[Len(cs) - 1] /\ Top(3) = cs[Len(cs) - 2]
         /\ \A n : Under(n) = SubSeq(cs, 1, Len(cs) - n)
<1>1. Len(cs) \in Nat BY Labels
<1>2. /\ Len(cs) - 1 + 1 = Len(cs) /\ Len(cs) - 2 + 1 = Len(cs) - 1
      /\ Len(cs) - 3 + 1 = Len(cs) - 2
  BY <1>1
<1> QED BY <1>2 DEF Top, Under

\* A branch and what is on the stack under its operand and tag.
BranchOn(st, g, x, c) ==
  /\ x \in {1, 2, 4, 8} /\ (x = 4 => Len(st) >= 1 /\ g[Len(st)].role = "back")
  /\ cs' = st \o <<here + 1, x>>
  /\ innercase' = IF x = 8 THEN c + 1 ELSE c
  /\ innerloop' = innerloop

\* A branch forward is compiled, its operand and tag put on the stack.
LEMMA BranchStep ==
  ASSUME NEW d, NEW g, Controlled(d, g), NEW w \in Straight, NEW A, Compiles(w, 0, A),
         NEW st, NEW c, Over(code, d, st, g, d[Len(code) + 1], c),
         NEW x, BranchOn(st, g, x, c),
         \A b \in A : b \in Int /\ Hole(code, d, At(b), d[Len(code) + 1]),
         \A i \in Open(cs, g) : i \in Open(st, g) \/ \E b \in A : i = At(b)
  PROVE  \E d2, g2 : Controlled(d2, g2)'
<1> DEFINE l == d[Len(code) + 1]
           a == here + 1
           e == IF x = 8 THEN c + 1 ELSE c
           q == st \o <<a, x>>
<1>1. cs' = q /\ innerloop' = innerloop /\ innercase' = e BY DEF BranchOn
<1>2. /\ w \in Jumps \cup Exits /\ w \in Jumps /\ w \notin Exits
      /\ Falls(w, l, l) /\ l \in Nat /\ 0 \in Int
  <2>1. l \in Nat /\ 0 \in Int BY Labels
  <2> HIDE DEF l
  <2>2. w \in Straight OBVIOUS
  <2>3. w \in Jumps \cup Exits /\ w \in Jumps /\ w \notin Exits
    BY <2>2 DEF Jumps, Exits, Dos, Ends, Straight
  <2> QED BY <2>1, <2>2, <2>3 DEF Falls
<1>3. Over(code, d, st, g, l, c) /\ \A b \in A : b \in Int /\ Hole(code, d, At(b), l)
  OBVIOUS
<1> HIDE DEF l, a
<1>4. PICK d2 : WithWord(code, d, w, l, code', d2) BY WordStarts
<1>5. /\ Grown(code, d, code', d2) /\ Hole(code', d2, Len(code) + 2, l)
      /\ Enclosing(code', d2, innerloop, l)
  BY <1>2, <1>4, ControlledGrown DEF l
<1>6. a \in Int /\ At(a) = Len(code) + 2 BY Labels DEF a
<1>7. Over(code', d2, st, g, l, c) BY <1>3, <1>5, OverGrown
<1>8. PICK g2 : /\ Over(code', d2, q, g2, l, e)
                /\ Open(st, g) \subseteq Open(q, g2)
                /\ Len(code) + 2 \in Open(q, g2)
  <2>1. Hole(code', d2, At(a), l) BY <1>5, <1>6
  <2>3. x \in {1, 2, 4, 8} /\ (x = 4 => Len(st) >= 1 /\ g[Len(st)].role = "back")
    BY DEF BranchOn
  <2>2. \E g2 : /\ Over(code', d2, q, g2, l, e)
                /\ Open(st, g) \subseteq Open(q, g2)
                /\ At(a) \in Open(q, g2)
    BY <1>6, <1>7, <2>1, <2>3, HoleTagOver
  <2> QED BY <1>6, <2>2
<1> HIDE DEF q, e
<1>9. Operand(code, d, Open(cs', g2), w, 0) BY <1>1, <1>2, <1>8 DEF Operand
<1>10. Controlled(d2, g2)'
  <2>1. Over(code', d2, cs', g2, l, innercase') BY <1>1, <1>8
  <2>2. Falls(w, d[Len(code) + 1], l) BY <1>2 DEF l
  <2>3. \A i \in Open(cs, g) : i \in Open(cs', g2) \/ \E b \in A : i = At(b) BY <1>1, <1>8
  <2>4. innerloop' \in Int /\ Enclosing(code', d2, innerloop', l) BY <1>1, <1>5, Labels
  <2> QED BY <1>2, <1>3, <1>4, <1>9, <2>1, <2>2, <2>3, <2>4, WordDone
<1> QED BY <1>10

\* IF, ELSE, WHILE and OF.
LEMMA BranchesStep ==
  ASSUME NEW d, NEW g, Controlled(d, g), IfWord \/ ElseWord \/ WhileWord \/ OfWord
  PROVE  \E d2, g2 : Controlled(d2, g2)'
<1> DEFINE l == d[Len(code) + 1]
<1>1. Over(code, d, cs, g, l, innercase) BY DEF Controlled
<1>2. "(0branch)" \in Straight /\ "(branch)" \in Straight /\ "(of)" \in Straight BY DEF Straight
<1>3. CASE IfWord
  <2>1. Compiles("(0branch)", 0, {}) /\ BranchOn(cs, g, 1, innercase) BY <1>3 DEF IfWord, BranchOn
  <2> HIDE DEF l
  <2>2. Over(code, d, cs, g, d[Len(code) + 1], innercase) BY <1>1 DEF l
  <2> QED BY <1>2, <2>1, <2>2, BranchStep
<1>4. CASE OfWord
  <2>1. Compiles("(of)", 0, {}) /\ BranchOn(cs, g, 8, innercase) BY <1>4 DEF OfWord, BranchOn
  <2> HIDE DEF l
  <2>2. Over(code, d, cs, g, d[Len(code) + 1], innercase) BY <1>1 DEF l
  <2> QED BY <1>2, <2>1, <2>2, BranchStep
<1>5. CASE ElseWord
  <2> DEFINE a == cs[Len(cs) - 1]
             st == SubSeq(cs, 1, Len(cs) - 2)
  <2>1. cs # <<>> /\ cs[Len(cs)] = 1 /\ cs[Len(cs)] \in {1, 2, 8}
    BY <1>5, Tops DEF ElseWord, Structured
  <2>2. Compiles("(branch)", 0, {a}) BY <1>5, Tops DEF ElseWord
  <2>3. cs' = st \o <<here + 1, 2>> /\ innercase' = innercase /\ innerloop' = innerloop
    BY <1>5, Tops DEF ElseWord
  <2>4. /\ a \in Int /\ Hole(code, d, At(a), l) /\ Over(code, d, st, g, l, innercase)
        /\ \A i \in Open(cs, g) : i \in Open(st, g) \/ i = At(a)
    <3>1. /\ a \in Int /\ Hole(code, d, At(a), l)
          /\ Over(code, d, st, g, l, IF cs[Len(cs)] = 8 THEN innercase - 1 ELSE innercase)
          /\ \A i \in Open(cs, g) : i \in Open(st, g) \/ i = At(a)
      BY <1>1, <2>1, BranchTop
    <3> QED BY <2>1, <3>1
  <2> HIDE DEF a, st
  <2>5. BranchOn(st, g, 2, innercase) BY <2>3 DEF BranchOn
  <2> QED BY <1>2, <2>2, <2>4, <2>5, BranchStep
<1>6. CASE WhileWord
  <2> DEFINE st == SubSeq(cs, 1, Len(cs) - 1)
  <2>1. cs # <<>> /\ cs[Len(cs)] = 3 BY <1>6, Tops DEF WhileWord, Structured
  <2>2. Compiles("(0branch)", 0, {}) BY <1>6 DEF WhileWord
  <2>3. cs' = st \o <<here + 1, 4>> /\ innercase' = innercase /\ innerloop' = innerloop
    BY <1>6, Tops DEF WhileWord
  <2>4. /\ Over(code, d, st, g, l, innercase) /\ Open(cs, g) \subseteq Open(st, g)
        /\ g[Len(cs) - 1].role = "back" /\ Len(cs) - 1 \in 1 .. Len(cs)
    BY <1>1, <2>1, BackTop
  <2>5. Len(st) = Len(cs) - 1
    <3>1. Len(cs) - 1 \in 0 .. Len(cs) /\ cs \in Seq(Int) BY <2>4, Labels
    <3> QED BY <3>1, CutInts
  <2> HIDE DEF st
  <2>7. Len(st) >= 1 /\ g[Len(st)].role = "back" BY <2>4, <2>5
  <2>6. BranchOn(st, g, 4, innercase) BY <2>3, <2>7 DEF BranchOn
  <2>8. \A i \in Open(cs, g) : i \in Open(st, g) BY <2>4
  <2> QED BY <1>2, <2>2, <2>4, <2>6, <2>8, BranchStep
<1> QED BY <1>3, <1>4, <1>5, <1>6

\* A branch or loop back to address a, and what is left on the stack.
BackOn(st, n, a, d) ==
  /\ cs' = st /\ innercase' = innercase
  /\ a \in Int /\ Starts(code, At(a)) /\ d[At(a)] = d[Len(code) + 1]
  /\ innerloop' \in Int /\ Enclosing(code, d, innerloop', n)

\* A branch or loop back is compiled, with what it closes taken off the stack.
LEMMA BackStep ==
  ASSUME NEW d, NEW g, Controlled(d, g), NEW w \in Jumps, NEW n \in Nat,
         Falls(w, d[Len(code) + 1], n), NEW a, NEW A, Compiles(w, Back(a), A),
         NEW st, Over(code, d, st, g, n, innercase), BackOn(st, n, a, d),
         \A b \in A : b \in Int /\ Hole(code, d, At(b), n),
         \A i \in Open(cs, g) : i \in Open(st, g) \/ \E b \in A : i = At(b)
  PROVE  \E d2, g2 : Controlled(d2, g2)'
<1>1. w \in Jumps \cup Exits /\ w \in Jumps /\ w \notin Exits
  <2>1. w \in Jumps OBVIOUS
  <2> QED BY <2>1 DEF Jumps, Exits, Dos, Ends, Straight
<1>2. PICK d2 : WithWord(code, d, w, n, code', d2) BY WordStarts
<1>3. Grown(code, d, code', d2) BY <1>1, <1>2, ControlledGrown
<1>4. a \in Int /\ Back(a) \in Int /\ Len(code) + 2 + Back(a) = At(a)
  <2>1. a \in Int BY DEF BackOn
  <2>2. Base = 10 /\ here = Base + Len(code) /\ Len(code) \in Nat BY Labels DEF Base
  <2> QED BY <2>1, <2>2 DEF Back, At
<1>5. Over(code', d2, cs', g, n, innercase')
  <2>1. Over(code', d2, st, g, n, innercase) BY <1>3, OverGrown
  <2> QED BY <2>1 DEF BackOn
<1>6. Operand(code, d, Open(cs', g), w, Back(a)) BY <1>1, <1>4 DEF Operand, BackOn
<1>7. innerloop' \in Int /\ Enclosing(code', d2, innerloop', n)
  <2>1. innerloop' \in Int /\ Enclosing(code, d, innerloop', n) BY DEF BackOn
  <2> QED BY <1>3, <2>1, HoleGrown DEF Enclosing
<1>8. \A i \in Open(cs, g) : i \in Open(cs', g) \/ \E b \in A : i = At(b) BY DEF BackOn
<1>9. Controlled(d2, g)' BY <1>1, <1>2, <1>4, <1>5, <1>6, <1>7, <1>8, WordDone
<1> QED BY <1>9

\* REPEAT, AGAIN, UNTIL.
LEMMA RepeatsStep ==
  ASSUME NEW d, NEW g, Controlled(d, g),
         RepeatWord \/ AgainWord("(branch)") \/ AgainWord("(0branch)")
  PROVE  \E d2, g2 : Controlled(d2, g2)'
<1> DEFINE l == d[Len(code) + 1]
<1>1. Over(code, d, cs, g, l, innercase) /\ innerloop \in Int /\ Enclosing(code, d, innerloop, l)
  BY DEF Controlled
<1>2. l \in Nat BY Labels
<1>3. ASSUME NEW w, w \in {"(branch)", "(0branch)"}, AgainWord(w)
      PROVE  \E d2, g2 : Controlled(d2, g2)'
  <2> DEFINE a == cs[Len(cs) - 1]
             st == SubSeq(cs, 1, Len(cs) - 2)
  <2>1. cs # <<>> /\ cs[Len(cs)] = 3 BY <1>3, Tops DEF AgainWord, Structured
  <2>2. Compiles(w, Back(a), {}) BY <1>3, Tops DEF AgainWord
  <2>3. cs' = st /\ innercase' = innercase /\ innerloop' = innerloop BY <1>3, Tops DEF AgainWord
  <2>4. /\ a \in Int /\ Starts(code, At(a)) /\ d[At(a)] = l
        /\ Over(code, d, st, g, l, innercase) /\ Open(cs, g) \subseteq Open(st, g)
    BY <1>1, <2>1, BackTop
  <2>5. w \in Jumps /\ Falls(w, l, l) BY <1>3 DEF Jumps, Straight, Falls
  <2> HIDE DEF a, st
  <2>6. BackOn(st, l, a, d) BY <1>1, <2>3, <2>4 DEF BackOn
  <2>7. \A i \in Open(cs, g) : i \in Open(st, g) BY <2>4
  <2>8. Falls(w, d[Len(code) + 1], l) BY <2>5
  <2> HIDE DEF l
  <2> QED BY <1>2, <2>2, <2>4, <2>5, <2>6, <2>7, <2>8, BackStep
<1>4. CASE RepeatWord
  <2> DEFINE a == cs[Len(cs) - 2]
             b == cs[Len(cs) - 1]
             st == SubSeq(cs, 1, Len(cs) - 3)
  <2>1. cs # <<>> /\ cs[Len(cs)] = 4 BY <1>4, Tops DEF RepeatWord, Structured
  <2>2. Compiles("(branch)", Back(a), {b}) BY <1>4, Tops DEF RepeatWord
  <2>3. cs' = st /\ innercase' = innercase /\ innerloop' = innerloop BY <1>4, Tops DEF RepeatWord
  <2>4. /\ a \in Int /\ b \in Int /\ Hole(code, d, At(b), l)
        /\ Starts(code, At(a)) /\ d[At(a)] = l
        /\ Over(code, d, st, g, l, innercase)
        /\ \A i \in Open(cs, g) : i \in Open(st, g) \/ i = At(b)
    <3>1. cs[Len(cs)] \in {4, 5, 6} /\ l = (IF cs[Len(cs)] = 4 THEN l ELSE l - 1) BY <2>1
    <3> HIDE DEF l
    <3> QED BY <1>1, <2>1, <3>1, LoopTop
  <2>5. "(branch)" \in Jumps /\ Falls("(branch)", l, l) BY DEF Jumps, Straight, Falls
  <2> HIDE DEF a, b, st
  <2>6. BackOn(st, l, a, d) BY <1>1, <2>3, <2>4 DEF BackOn
  <2>7. Falls("(branch)", d[Len(code) + 1], l) BY <2>5
  <2> HIDE DEF l
  <2> QED BY <1>2, <2>2, <2>4, <2>5, <2>6, <2>7, BackStep
<1> QED BY <1>3, <1>4

\* LOOP, +LOOP, NEXT.
LEMMA LoopsStep ==
  ASSUME NEW d, NEW g, Controlled(d, g), NEW w \in Ends, NEW tag \in {5, 6}, LoopWord(w, tag)
  PROVE  \E d2, g2 : Controlled(d2, g2)'
<1> DEFINE l == d[Len(code) + 1]
           n == l - 1
           b == cs[Len(cs) - 1]
           outer == cs[Len(cs) - 2]
           st == SubSeq(cs, 1, Len(cs) - 3)
<1>1. Over(code, d, cs, g, l, innercase) /\ Coded(code, cell, d, Open(cs, g)) BY DEF Controlled
<1>2. l \in Nat BY Labels
<1>3. cs # <<>> /\ cs[Len(cs)] = tag BY Tops DEF LoopWord, Structured
<1>4. Compiles(w, Back(b + 1), {b}) BY Tops DEF LoopWord
<1>5. cs' = st /\ innercase' = innercase /\ innerloop' = outer BY Tops DEF LoopWord
<1>6. /\ b \in Int /\ outer \in Int /\ n \in Nat /\ Hole(code, d, At(b), n)
      /\ code[At(b) - 1] \in Dos /\ Enclosing(code, d, outer, n)
      /\ Over(code, d, st, g, n, innercase)
      /\ \A i \in Open(cs, g) : i \in Open(st, g) \/ i = At(b)
  <2>1. cs[Len(cs)] \in {4, 5, 6} /\ cs[Len(cs)] # 4 /\ n = (IF cs[Len(cs)] = 4 THEN l ELSE l - 1)
    BY <1>3
  <2> HIDE DEF l, n
  <2> QED BY <1>1, <1>3, <2>1, LoopTop
<1>7. Starts(code, At(b + 1)) /\ d[At(b + 1)] = l
  <2> DEFINE i == At(b) - 1
  <2>1. At(b) \in 2 .. Len(code) /\ Len(code) \in Nat BY <1>6, Labels DEF Hole
  <2>2. i \in 1 .. Len(code) /\ i + 2 = At(b) + 1 /\ At(b + 1) = At(b) + 1
    <3>1. b \in Int BY <1>6
    <3>2. At(b + 1) = At(b) + 1 /\ At(b) \in Int
      <4> HIDE DEF b
      <4> QED BY <3>1 DEF At, Base
    <3> HIDE DEF b
    <3> QED BY <2>1, <3>2
  <2>3. WordIn(code, cell, d, Open(cs, g), i) BY <1>1, <2>2 DEF Coded
  <2>4. code[i] \in Jumps \cup Exits BY <1>6 DEF Jumps
  <2>5. Starts(code, i + 2) /\ Falls(code[i], d[i], d[i + 2]) BY <2>3, <2>4 DEF WordIn
  <2>6. d[i + 2] = d[i] + 1
    <3>1. code[i] \in Dos BY <1>6
    <3> HIDE DEF i
    <3> QED BY <2>5, <3>1 DEF Falls, Dos, Ends, Straight, Exits
  <2>7. d[i] = n BY <1>6 DEF Hole
  <2>8. n + 1 = l BY <1>2
  <2> QED BY <2>2, <2>5, <2>6, <2>7, <2>8
<1>8. w \in Jumps /\ Falls(w, l, n) BY <1>2 DEF Jumps, Falls
<1> HIDE DEF n, b, outer, st
<1>9. BackOn(st, n, b + 1, d) BY <1>5, <1>6, <1>7 DEF BackOn
<1>10. Falls(w, d[Len(code) + 1], n) BY <1>8
<1> HIDE DEF l
<1> QED BY <1>4, <1>6, <1>8, <1>9, <1>10, BackStep

\* DO, ?DO, FOR.
LEMMA DosStep ==
  ASSUME NEW d, NEW g, Controlled(d, g), NEW w \in Dos, NEW tag \in {5, 6}, DoWord(w, tag)
  PROVE  \E d2, g2 : Controlled(d2, g2)'
<1> DEFINE l == d[Len(code) + 1]
           a == here + 1
           q == cs \o <<innerloop, a, tag>>
<1>1. Over(code, d, cs, g, l, innercase) BY DEF Controlled
<1>2. l \in Nat /\ l + 1 \in Nat /\ (l + 1) - 1 = l /\ l + 1 >= 1
  <2>1. l \in Nat BY Labels
  <2> HIDE DEF l
  <2> QED BY <2>1
<1>3. Compiles(w, 0, {}) /\ cs' = q /\ innerloop' = a /\ innercase' = innercase BY DEF DoWord
<1>4. w \in Jumps \cup Exits /\ w \in Jumps /\ w \notin Exits /\ Falls(w, l, l + 1)
  <2>1. w \in Dos OBVIOUS
  <2> QED BY <2>1 DEF Jumps, Exits, Dos, Ends, Straight, Falls
<1>5. a \in Int /\ At(a) = Len(code) + 2 /\ At(a) - 1 = Len(code) + 1 /\ innerloop \in Int
  <2>1. here \in Int /\ At(a) = Len(code) + 2 /\ Len(code) \in Nat /\ innerloop \in Int BY Labels
  <2>2. a \in Int BY <2>1
  <2> HIDE DEF a
  <2> QED BY <2>1, <2>2
<1> DEFINE n == l + 1
<1>6. Falls(w, d[Len(code) + 1], n) /\ n \in Nat BY <1>2, <1>4
<1> HIDE DEF n
<1>7. PICK d2 : WithWord(code, d, w, n, code', d2) BY <1>3, WordStarts
<1>8. /\ Grown(code, d, code', d2) /\ Hole(code', d2, Len(code) + 2, l)
      /\ Enclosing(code', d2, innerloop, l) /\ code'[Len(code) + 1] = w
  BY <1>4, <1>6, <1>7, ControlledGrown
<1>9. Over(code', d2, cs, g, l, innercase) BY <1>1, <1>8, OverGrown
<1>10. PICK g2 : /\ Over(code', d2, q, g2, l + 1, innercase)
                 /\ Open(cs, g) \subseteq Open(q, g2)
                 /\ At(a) \in Open(q, g2)
  <2>1. Hole(code', d2, At(a), l) /\ code'[At(a) - 1] \in Dos BY <1>5, <1>8
  <2> HIDE DEF l, a
  <2> QED BY <1>5, <1>8, <1>9, <2>1, LoopTagOver
<1>11. Enclosing(code', d2, a, n)
  <2>1. Hole(code', d2, At(a), n - 1) BY <1>2, <1>5, <1>8 DEF n
  <2>2. n >= 1 BY <1>2 DEF n
  <2> QED BY <2>1, <2>2 DEF Enclosing
<1> HIDE DEF q
<1>12. Operand(code, d, Open(cs', g2), w, 0)
  <2>1. Len(code) + 2 \in Open(cs', g2) BY <1>3, <1>5, <1>10
  <2> QED BY <1>4, <2>1 DEF Operand
<1>13. Controlled(d2, g2)'
  <2>1. Over(code', d2, cs', g2, n, innercase') BY <1>3, <1>10 DEF n
  <2>2. \A i \in Open(cs, g) : i \in Open(cs', g2) BY <1>3, <1>10
  <2>3. innerloop' \in Int /\ Enclosing(code', d2, innerloop', n) BY <1>3, <1>5, <1>11
  <2> HIDE DEF l, a
  <2> QED BY <1>3, <1>4, <1>6, <1>7, <1>12, <2>1, <2>2, <2>3, WordDone
<1> QED BY <1>13

\* LEAVE, ?LEAVE.
LEMMA LeavesStep ==
  ASSUME NEW d, NEW g, Controlled(d, g), NEW w \in Exits, LeaveWord(w)
  PROVE  \E d2, g2 : Controlled(d2, g2)'
<1> DEFINE l == d[Len(code) + 1]
<1>1. /\ Over(code, d, cs, g, l, innercase) /\ innerloop \in Int /\ Enclosing(code, d, innerloop, l)
      /\ l \in Nat
  BY Labels DEF Controlled
<1>2. Compiles(w, innerloop, {}) /\ innerloop # 0 BY DEF LeaveWord
<1>3. cs' = cs /\ innerloop' = innerloop /\ innercase' = innercase BY DEF LeaveWord
<1>4. w \in Jumps \cup Exits /\ w \notin Jumps /\ Falls(w, l, l)
  <2>1. w \in Exits OBVIOUS
  <2> HIDE DEF l
  <2> QED BY <2>1 DEF Jumps, Exits, Dos, Ends, Straight, Falls
<1>5. Falls(w, d[Len(code) + 1], l) BY <1>4
<1>6. PICK d2 : WithWord(code, d, w, l, code', d2) BY <1>2, WordStarts
<1>7. Grown(code, d, code', d2) /\ Enclosing(code', d2, innerloop, l)
  BY <1>1, <1>4, <1>6, ControlledGrown
<1>8. Over(code', d2, cs', g, l, innercase') BY <1>1, <1>3, <1>7, OverGrown
<1>9. Operand(code, d, Open(cs', g), w, innerloop) BY <1>1, <1>2, <1>4 DEF Operand, Enclosing
<1>10. \A i \in Open(cs, g) : i \in Open(cs', g) BY <1>3
<1>11. innerloop' \in Int /\ Enclosing(code', d2, innerloop', l) BY <1>1, <1>3, <1>7
<1>12. Controlled(d2, g)'
  <2> HIDE DEF l
  <2> QED BY <1>1, <1>2, <1>4, <1>5, <1>6, <1>8, <1>9, <1>10, <1>11, WordDone
<1> QED BY <1>12

\* ENDOF.
LEMMA EndofStep ==
  ASSUME NEW d, NEW g, Controlled(d, g), EndofWord
  PROVE  \E d2, g2 : Controlled(d2, g2)'
<1> DEFINE l == d[Len(code) + 1]
           a == here + 1
           b == cs[Len(cs) - 1]
           c == innercase - 1
           st == SubSeq(cs, 1, Len(cs) - 2)
           q == st \o <<a>>
           w == "(branch)"
<1>1. Over(code, d, cs, g, l, innercase) /\ l \in Nat /\ innercase \in Nat BY Labels DEF Controlled
<1>2. cs # <<>> /\ cs[Len(cs)] = 8 BY Tops DEF EndofWord, Structured
<1>3. Compiles(w, 0, {b}) BY Tops DEF EndofWord
<1>4. cs' = q /\ innercase' = innercase /\ innerloop' = innerloop BY Tops DEF EndofWord
<1>5. /\ b \in Int /\ Hole(code, d, At(b), l) /\ Over(code, d, st, g, l, c)
      /\ \A i \in Open(cs, g) : i \in Open(st, g) \/ i = At(b)
  <2>1. cs[Len(cs)] \in {1, 2, 8} /\ c = (IF cs[Len(cs)] = 8 THEN innercase - 1 ELSE innercase)
    BY <1>2
  <2> HIDE DEF l, c
  <2> QED BY <1>1, <1>2, <2>1, BranchTop
<1>6. w \in Jumps \cup Exits /\ w \in Jumps /\ w \notin Exits /\ Falls(w, l, l)
  <2> HIDE DEF l
  <2> QED BY DEF Jumps, Exits, Dos, Ends, Straight, Falls
<1>7. a \in Int /\ At(a) = Len(code) + 2 /\ innerloop \in Int BY Labels
<1>8. Falls(w, d[Len(code) + 1], l) BY <1>6
<1> HIDE DEF w, b, c, st, a
<1>9. PICK d2 : WithWord(code, d, w, l, code', d2) BY <1>3, WordStarts
<1>10. /\ Grown(code, d, code', d2) /\ Hole(code', d2, Len(code) + 2, l)
       /\ Enclosing(code', d2, innerloop, l)
  BY <1>1, <1>6, <1>9, ControlledGrown
<1>11. Over(code', d2, st, g, l, c) BY <1>5, <1>10, OverGrown
<1>12. PICK g2 : /\ Over(code', d2, q, g2, l, c + 1) /\ Open(st, g) \subseteq Open(q, g2)
                 /\ At(a) \in Open(q, g2)
  <2>1. Hole(code', d2, At(a), l) BY <1>7, <1>10
  <2> HIDE DEF l
  <2> QED BY <1>7, <1>11, <2>1, EndOver
<1>13. c + 1 = innercase BY <1>1 DEF c
<1> HIDE DEF q
<1>14. Operand(code, d, Open(cs', g2), w, 0)
  <2>1. Len(code) + 2 \in Open(cs', g2) BY <1>4, <1>7, <1>12
  <2> QED BY <1>6, <2>1 DEF Operand
<1>15. Controlled(d2, g2)'
  <2>1. Over(code', d2, cs', g2, l, innercase') BY <1>4, <1>12, <1>13
  <2>2. \A i \in Open(cs, g) : i \in Open(cs', g2) \/ \E e \in {b} : i = At(e)
    BY <1>4, <1>5, <1>12
  <2>3. innerloop' \in Int /\ Enclosing(code', d2, innerloop', l) BY <1>4, <1>7, <1>10
  <2>4. \A e \in {b} : e \in Int /\ Hole(code, d, At(e), l) BY <1>5
  <2> HIDE DEF l
  <2> QED BY <1>1, <1>3, <1>6, <1>8, <1>9, <1>14, <2>1, <2>2, <2>3, <2>4, WordDone
<1> QED BY <1>15

\* Under as many cells as there were OFs lies CASE's tag.
TagUnder(st, c, m) == m = Len(st) - c /\ m >= 2 /\ st[m] = 7

\* Then these cells are the operands of ENDOF's branches, and nothing is left open.
LEMMA CaseTop ==
  ASSUME NEW co, NEW d, NEW st, NEW g, NEW l, NEW c, Over(co, d, st, g, l, c),
         NEW m, TagUnder(st, c, m)
  PROVE  /\ m \in Nat /\ m - 2 \in 0 .. Len(st) /\ st[m - 1] \in Int
         /\ \A p \in m + 1 .. Len(st) : Hole(co, d, At(st[p]), l)
         /\ Over(co, d, SubSeq(st, 1, m - 2), g, l, st[m - 1])
         /\ \A i \in Open(st, g) : \/ i \in Open(SubSeq(st, 1, m - 2), g)
                                   \/ \E p \in m + 1 .. Len(st) : i = At(st[p])
<1> DEFINE n == Len(st)
           b == g[n].base
<1>1. /\ Stacked(co, d, st, g) /\ g[n].role # "cases" /\ n \in Nat /\ st \in Seq(Int)
      /\ g[n].lev = l /\ g[n].cnt = c /\ c \in Nat /\ g[n] \in Marks
  BY OverFacts
<1>2. m \in Nat /\ m \in 2 .. n /\ m \in 1 .. n /\ n \in 1 .. n /\ c = n - m
  <2>1. n \in Nat /\ c \in Nat /\ m = n - c /\ m >= 2 BY <1>1 DEF TagUnder
  <2> HIDE DEF n
  <2> QED BY <2>1
<1>3. Cased(st, g, n) /\ Item(co, d, st, g, m) BY <1>1, <1>2 DEF Stacked
<1>4. b \in Nat /\ b <= m
  <2>1. b \in Nat /\ c <= n - b BY <1>1, <1>3 DEF Cased, Marks
  <2> HIDE DEF b, n
  <2> QED BY <1>1, <1>2, <2>1
<1>5. \A q \in b + 1 .. n : ~CaseTag(st, g, q) BY <1>3 DEF Cased
<1>6. g[m].role = "tag"
  <2>1. ASSUME g[m].role # "tag" PROVE FALSE
    <3>1. g[m].role = "cases"
      <4>1. st[m] = 7 /\ st[m] \in 1 .. 8 BY DEF TagUnder
      <4> QED BY <1>1, <1>2, <2>1, <4>1, PlainItem
    <3>2. m # n BY <1>1, <3>1
    <3>3. m + 1 \in 1 .. n /\ m + 1 \in b + 1 .. n /\ (m + 1) - 1 = m
      <4> HIDE DEF b, n
      <4> QED BY <1>1, <1>2, <1>4, <3>2
    <3>4. Item(co, d, st, g, m + 1) BY <1>1, <3>3 DEF Stacked
    <3>5. CaseTag(st, g, m + 1) BY <3>1, <3>3, <3>4 DEF Item
    <3> QED BY <1>5, <3>3, <3>5
  <2> QED BY <2>1
<1>7. m = b
  <2>1. CaseTag(st, g, m) BY <1>6 DEF CaseTag, TagUnder
  <2>2. m \notin b + 1 .. n BY <1>5, <2>1
  <2> HIDE DEF b, n
  <2> QED BY <1>1, <1>2, <1>4, <2>2
<1>8. /\ \A q \in m + 1 .. n : g[q].role = "end"
      /\ \A q \in m .. n : g[q].lev = l
  BY <1>1, <1>2, <1>3, <1>7 DEF Cased
<1>9. ASSUME NEW p \in m + 1 .. n PROVE Hole(co, d, At(st[p]), l)
  <2>1. p \in 1 .. n /\ p \in m .. n BY <1>1, <1>2
  <2>2. g[p].role = "end" /\ g[p].role # "tag" /\ g[p].lev = l BY <1>8, <2>1
  <2> QED BY <1>1, <2>1, <2>2, PlainItem
<1>10. g[m - 1].role = "cases" /\ g[m - 1].lev = l /\ m - 1 \in 1 .. n /\ (m - 1) - 1 = m - 2
  <2>1. Tagged(co, st, g, m) /\ st[m] = 7 BY <1>3, <1>6 DEF Item, TagUnder
  <2>2. g[m - 1].role = "cases" BY <2>1 DEF Tagged
  <2>3. m \in m .. n BY <1>1, <1>2
  <2>4. g[m].lev = l BY <1>8, <2>3
  <2>5. g[m].lev = g[m - 1].lev BY <1>3, <2>1 DEF Item
  <2>6. m - 1 \in 1 .. n /\ (m - 1) - 1 = m - 2 BY <1>1, <1>2
  <2> QED BY <2>2, <2>4, <2>5, <2>6
<1>11. /\ g[m - 2].role # "cases" /\ g[m - 2].lev = l /\ g[m - 2].cnt = st[m - 1]
       /\ st[m - 1] \in Int
  <2>1. g[m - 1].role # "tag" BY <1>10
  <2>2. /\ g[(m - 1) - 1].role # "cases" /\ g[m - 1].lev = g[(m - 1) - 1].lev
        /\ st[m - 1] = g[(m - 1) - 1].cnt
    BY SMTT(30), <1>1, <1>10, <2>1, PlainItem
  <2>3. st[m - 1] \in Int BY <1>1, <1>10
  <2> QED BY <1>10, <2>2, <2>3
<1>12. m - 2 \in 0 .. n BY <1>1, <1>2
<1>13. Over(co, d, SubSeq(st, 1, m - 2), g, l, st[m - 1]) BY <1>1, <1>11, <1>12, CutOver
<1>14. ASSUME NEW i \in Open(st, g), i \notin Open(SubSeq(st, 1, m - 2), g)
       PROVE  \E p \in m + 1 .. n : i = At(st[p])
  <2>1. PICK p \in (m - 2) + 1 .. n : g[p].role \in {"hole", "end"} /\ i = At(st[p])
    <3> DEFINE k == m - 2
    <3>1. k \in 0 .. Len(st) BY <1>12
    <3> HIDE DEF k
    <3>2. \/ i \in Open(SubSeq(st, 1, k), g)
          \/ \E p \in k + 1 .. Len(st) : g[p].role \in {"hole", "end"} /\ i = At(st[p])
      BY <1>1, <1>14, <3>1, StackedCut
    <3> QED BY <1>14, <3>2 DEF k
  <2>2. p # m /\ p # m - 1 BY <1>6, <1>10, <2>1
  <2>3. p \in m + 1 .. n
    <3> HIDE DEF n
    <3> QED BY <1>1, <1>2, <2>2
  <2> QED BY <2>1, <2>3
<1> QED BY <1>2, <1>9, <1>11, <1>12, <1>13, <1>14

\* A step of a definition that stays labelled as it is.
LEMMA Restacked ==
  ASSUME NEW d, NEW g, Controlled(d, g), code' = code, cell' = cell, innerloop' = innerloop,
         NEW g2, Over(code, d, cs', g2, d[Len(code) + 1], innercase'),
         Open(cs, g) \subseteq Open(cs', g2)
  PROVE  Controlled(d, g2)'
<1> DEFINE o == Open(cs', g2)
<1>1. Coded(code, cell, d, Open(cs, g)) BY DEF Controlled
<1>2. Open(cs, g) \subseteq o OBVIOUS
<1> HIDE DEF o
<1>3. Coded(code, cell, d, o) BY <1>1, <1>2, CodedWider
<1> QED BY <1>3 DEF Controlled, o

\* BEGIN and CASE compile nothing.
LEMMA OpensStep ==
  ASSUME NEW d, NEW g, Controlled(d, g), BeginWord \/ CaseWord
  PROVE  \E d2, g2 : Controlled(d2, g2)'
<1> DEFINE l == d[Len(code) + 1]
<1>1. Over(code, d, cs, g, l, innercase) BY DEF Controlled
<1>2. CASE BeginWord
  <2> DEFINE a == here
             q == cs \o <<a, 3>>
  <2>1. a \in Int /\ Starts(code, At(a)) /\ d[At(a)] = l BY Labels
  <2>2. /\ cs' = q /\ code' = code /\ cell' = cell /\ innerloop' = innerloop
        /\ innercase' = innercase
    BY <1>2 DEF BeginWord
  <2> HIDE DEF a
  <2>3. PICK g2 : Over(code, d, q, g2, l, innercase) /\ Open(cs, g) \subseteq Open(q, g2)
    <3> HIDE DEF l
    <3> QED BY <1>1, <2>1, BackTagOver
  <2> HIDE DEF q
  <2>4. Over(code, d, cs', g2, d[Len(code) + 1], innercase') BY <2>2, <2>3
  <2>5. Open(cs, g) \subseteq Open(cs', g2) BY <2>2, <2>3
  <2> QED BY <2>2, <2>4, <2>5, Restacked
<1>3. CASE CaseWord
  <2> DEFINE q == cs \o <<innercase, 7>>
  <2>1. /\ cs' = q /\ code' = code /\ cell' = cell /\ innerloop' = innerloop
        /\ innercase' = 0
    BY <1>3 DEF CaseWord
  <2>2. PICK g2 : Over(code, d, q, g2, l, 0) /\ Open(cs, g) \subseteq Open(q, g2)
    <3> HIDE DEF l
    <3> QED BY <1>1, CaseTagOver
  <2> HIDE DEF q
  <2>3. Over(code, d, cs', g2, d[Len(code) + 1], innercase') BY <2>1, <2>2
  <2>4. Open(cs, g) \subseteq Open(cs', g2) BY <2>1, <2>2
  <2> QED BY <2>1, <2>3, <2>4, Restacked
<1> QED BY <1>2, <1>3

\* One element of a sequence is changed.
LEMMA Update ==
  ASSUME NEW ce \in Seq(Int), NEW i \in 1 .. Len(ce), NEW x \in Int
  PROVE  /\ [ce EXCEPT ![i] = x] \in Seq(Int) /\ Len([ce EXCEPT ![i] = x]) = Len(ce)
         /\ [ce EXCEPT ![i] = x][i] = x
         /\ \A j \in 1 .. Len(ce) : j # i => [ce EXCEPT ![i] = x][j] = ce[j]
OBVIOUS

\* THEN.
LEMMA ThenStep ==
  ASSUME NEW d, NEW g, Controlled(d, g), ThenWord
  PROVE  \E d2, g2 : Controlled(d2, g2)'
<1> DEFINE l == d[Len(code) + 1]
           a == cs[Len(cs) - 1]
           st == SubSeq(cs, 1, Len(cs) - 2)
           i == At(a)
           x == here - a
           ce == [cell EXCEPT ![i] = x]
           open == Open(cs, g)
           open2 == Open(st, g)
<1>1. Over(code, d, cs, g, l, innercase) /\ Coded(code, cell, d, open) BY DEF Controlled
<1>2. cs # <<>> /\ cs[Len(cs)] \in {1, 2} BY Tops DEF ThenWord, Structured
<1>3. /\ cs' = st /\ code' = code /\ innerloop' = innerloop /\ innercase' = innercase
      /\ cell' = ce
  BY Tops DEF ThenWord, Patched, At
<1>4. /\ a \in Int /\ Hole(code, d, i, l) /\ Over(code, d, st, g, l, innercase)
      /\ \A j \in open : j \in open2 \/ j = i
  <2>1. cs[Len(cs)] \in {1, 2, 8} /\ cs[Len(cs)] # 8 BY <1>2
  <2> HIDE DEF l
  <2> QED BY <1>1, <1>2, <2>1, BranchTop
<1>5. /\ cell \in Seq(Int) /\ Len(cell) = Len(code) /\ Len(code) \in Nat
      /\ here \in Int /\ here = Base + Len(code)
  BY Labels
<1>6. i \in 1 .. Len(cell) /\ i \in Int
  <2>1. i \in 2 .. Len(code) BY <1>4 DEF Hole
  <2> HIDE DEF i
  <2> QED BY <1>5, <2>1
<1>7. x \in Int /\ x = Len(code) + 1 - i
  <2>1. a \in Int BY <1>4
  <2> HIDE DEF a
  <2> QED BY <1>5, <2>1 DEF At, Base
<1>8. /\ ce \in Seq(Int) /\ Len(ce) = Len(code) /\ ce[i] = x
      /\ \A j \in 1 .. Len(code) : j # i => ce[j] = cell[j]
  <2> HIDE DEF i, x
  <2> QED BY <1>5, <1>6, <1>7, Update
<1>9. AtEnd(code, ce, d, i)
  <2> HIDE DEF ce, x, i
  <2> QED BY <1>4, <1>7, <1>8 DEF AtEnd
<1> HIDE DEF ce, x, i, open, open2
<1>10. Coded(code, ce, d, open2)
  <2>1. \A j \in 1 .. Len(code) : ce[j] = cell[j] \/ AtEnd(code, ce, d, j) BY <1>8, <1>9
  <2>2. \A j \in open : j \in open2 \/ AtEnd(code, ce, d, j) BY <1>4, <1>9
  <2> QED BY <1>1, <1>8, <2>1, <2>2, CodedResolved
<1>11. Coded(code', cell', d, Open(cs', g)) BY <1>3, <1>10 DEF open2
<1>12. Over(code', d, cs', g, d[Len(code') + 1], innercase') BY <1>3, <1>4
<1>13. innerloop' \in Int /\ Enclosing(code', d, innerloop', d[Len(code') + 1])
  BY <1>3 DEF Controlled
<1>14. Controlled(d, g)' BY <1>11, <1>12, <1>13 DEF Controlled
<1> QED BY <1>14

\* What ENDCASE finds when its tag is where it looks for it.
LEMMA EndcaseTops ==
  ASSUME NEW d, NEW g, Controlled(d, g), EndcaseWord, NEW m, m = Len(cs) - innercase
  PROVE  /\ TagUnder(cs, innercase, m)
         /\ innercase' = cs[m - 1] /\ cs' = SubSeq(cs, 1, m - 2)
         /\ EndofBranches = {cs[p] : p \in m + 1 .. Len(cs)}
<1> DEFINE n == Len(cs)
           c == innercase
<1>1. n \in Nat /\ c \in Nat BY Labels
<1>2. n >= c + 2 BY DEF EndcaseWord
<1> HIDE DEF n, c
<1>3. m = n - c BY DEF n, c
<1>4. /\ m >= 2 /\ n - (c + 1) + 1 = m /\ n - (c + 2) + 1 = m - 1 /\ n - (c + 2) = m - 2
  BY <1>1, <1>2, <1>3
<1>5. Top(c + 1) = cs[m] /\ Top(c + 2) = cs[m - 1] /\ Under(c + 2) = SubSeq(cs, 1, m - 2)
  BY <1>4 DEF Top, Under, n
<1>6. cs[m] = 7 /\ innercase' = cs[m - 1] /\ cs' = SubSeq(cs, 1, m - 2)
  BY <1>5 DEF EndcaseWord, c
<1>7. ASSUME NEW i \in 1 .. c PROVE \E p \in m + 1 .. n : Top(i) = cs[p]
  <2>1. n - i + 1 \in m + 1 .. n BY <1>1, <1>3
  <2>2. Top(i) = cs[n - i + 1] BY DEF Top, n
  <2> QED BY <2>1, <2>2
<1>8. ASSUME NEW p \in m + 1 .. n PROVE \E i \in 1 .. c : cs[p] = Top(i)
  <2>1. n - p + 1 \in 1 .. c /\ n - (n - p + 1) + 1 = p BY <1>1, <1>3
  <2>2. Top(n - p + 1) = cs[p] BY <2>1 DEF Top, n
  <2> QED BY <2>1, <2>2
<1>9. EndofBranches = {cs[p] : p \in m + 1 .. n}
  <2>1. EndofBranches = {Top(i) : i \in 1 .. c} BY DEF EndofBranches, c
  <2> QED BY <1>7, <1>8, <2>1
<1> QED BY <1>3, <1>4, <1>6, <1>9 DEF TagUnder, n, c

\* ENDCASE.
LEMMA EndcaseStep ==
  ASSUME NEW d, NEW g, Controlled(d, g), EndcaseWord
  PROVE  \E d2, g2 : Controlled(d2, g2)'
<1> DEFINE l == d[Len(code) + 1]
           k == Len(code)
           m == Len(cs) - innercase
           st == SubSeq(cs, 1, m - 2)
           ce1 == [i \in 1 .. k + 1 |-> IF i <= k THEN cell[i] ELSE 0]
           open == Open(cs, g)
           open2 == Open(st, g)
           branches == {cs[p] : p \in m + 1 .. Len(cs)}
<1>1. Over(code, d, cs, g, l, innercase) /\ Coded(code, cell, d, open) BY DEF Controlled
<1>2. /\ cell \in Seq(Int) /\ Len(cell) = k /\ k \in Nat /\ code \in Seq(CodeWords)
      /\ here = Base + k /\ Base = 10 /\ d \in [Nat -> Nat]
      /\ Len(cs) \in Nat /\ innercase \in Nat /\ cs \in Seq(Int)
  BY Labels DEF Base
<1> HIDE DEF m
<1>3. TagUnder(cs, innercase, m) /\ innercase' = cs[m - 1] /\ cs' = st /\ EndofBranches = branches
  BY EndcaseTops DEF m
<1> HIDE DEF l, open, open2
<1>4. /\ \A p \in m + 1 .. Len(cs) : Hole(code, d, At(cs[p]), l)
      /\ Over(code, d, st, g, l, cs[m - 1])
      /\ \A i \in open : i \in open2 \/ \E p \in m + 1 .. Len(cs) : i = At(cs[p])
      /\ m \in Nat
  BY <1>1, <1>3, CaseTop DEF open, open2
<1>5. /\ code' = Append(code, "drop") /\ innerloop' = innerloop
      /\ code' \in Seq(CodeWords) /\ Len(code') = k + 1 /\ DOMAIN code' = 1 .. k + 1
  <2>1. code' = Append(code, "drop") /\ innerloop' = innerloop BY DEF EndcaseWord
  <2>2. "drop" \in CodeWords BY DEF CodeWords
  <2> DEFINE q == Append(code, "drop")
  <2>3. q \in Seq(CodeWords) /\ Len(q) = k + 1 /\ DOMAIN q = 1 .. k + 1 BY <1>2, <2>2
  <2> HIDE DEF q
  <2> QED BY <2>1, <2>3 DEF q
<1>6. cell' = [i \in 1 .. k + 1 |->
                 IF Base + i - 1 \in branches THEN here + (1 - (Base + i - 1))
                 ELSE IF i <= k THEN cell[i] ELSE 0]
  <2>1. cell' = [i \in DOMAIN code' |->
                 IF Base + i - 1 \in EndofBranches THEN here + (1 - (Base + i - 1))
                 ELSE IF i <= k THEN cell[i] ELSE 0]
    BY DEF EndcaseWord
  <2> HIDE DEF branches, k
  <2> QED BY <1>3, <1>5, <2>1
<1>7. ce1 \in Seq(Int) /\ Len(ce1) = k + 1 /\ \A i \in 1 .. k : ce1[i] = cell[i]
  <2>1. k \in Nat /\ \A i \in 1 .. k : cell[i] \in Int BY <1>2
  <2>2. ce1 \in [1 .. k + 1 -> Int] /\ \A i \in 1 .. k : ce1[i] = cell[i]
    <3> HIDE DEF k
    <3> QED BY <2>1
  <2>3. k + 1 \in Nat BY <2>1
  <2> HIDE DEF ce1, k
  <2> QED BY <2>2, <2>3, IntSeq
<1>8. PICK d2 : WithDrop(code, cell, d, code', ce1, d2)
  <2> HIDE DEF ce1
  <2> QED BY <1>5, <1>7 DEF WithDrop
<1> HIDE DEF branches, st
<1>9. Coded(code', ce1, d2, open) /\ Grown(code, d, code', d2) /\ d2[Len(code') + 1] = l
  <2> HIDE DEF ce1
  <2> QED BY <1>1, <1>8, CodedDrop DEF l
<1>10. cell' \in Seq(Int) /\ Len(cell') = k + 1
  <2> DEFINE f == [i \in 1 .. k + 1 |->
                     IF Base + i - 1 \in branches THEN here + (1 - (Base + i - 1))
                     ELSE IF i <= k THEN cell[i] ELSE 0]
  <2>1. f \in [1 .. k + 1 -> Int]
    <3>1. k \in Nat /\ \A i \in 1 .. k : cell[i] \in Int BY <1>2
    <3> HIDE DEF k
    <3> QED BY <1>2, <3>1
  <2>2. k + 1 \in Nat BY <1>2
  <2>3. cell' = f BY <1>6
  <2> HIDE DEF f, k
  <2> QED BY <2>1, <2>2, <2>3, IntSeq
<1>11. ASSUME NEW i \in 1 .. k + 1, Base + i - 1 \in branches
       PROVE  AtEnd(code', cell', d2, i)
  <2>1. cell'[i] = here + (1 - (Base + i - 1)) BY <1>6, <1>11
  <2>2. k \in Nat /\ i \in Int /\ Len(code') = k + 1 BY <1>2, <1>5
  <2>3. here + (1 - (Base + i - 1)) = Len(code') + 1 - i /\ At(Base + i - 1) = i
    <3> HIDE DEF k
    <3> QED BY <1>2, <2>2 DEF At
  <2>4. Hole(code, d, i, l) BY <1>4, <1>11, <2>3 DEF branches
  <2>5. Hole(code', d2, i, l) BY <1>9, <2>4, HoleGrown
  <2> QED BY <1>9, <2>1, <2>3, <2>5 DEF AtEnd
<1>12. ASSUME NEW i \in 1 .. k + 1, Base + i - 1 \notin branches PROVE cell'[i] = ce1[i]
  BY <1>6, <1>12
<1>13. ASSUME NEW i \in open, i \notin open2 PROVE AtEnd(code', cell', d2, i)
  <2>1. PICK p \in m + 1 .. Len(cs) : i = At(cs[p]) BY <1>4, <1>13
  <2>2. Hole(code, d, i, l) /\ cs[p] \in branches BY <1>4, <2>1 DEF branches
  <2>3. cs[p] \in Int BY <1>2, <1>4
  <2>4. i \in 1 .. k BY <1>2, <2>2 DEF Hole
  <2>5. Base + i - 1 = cs[p] /\ i \in 1 .. k + 1
    <3> DEFINE a == cs[p]
    <3>1. i = At(a) /\ a \in Int BY <2>1, <2>3
    <3> HIDE DEF a, k
    <3>2. Base + i - 1 = a BY <1>2, <3>1 DEF At
    <3>3. i \in 1 .. k + 1 BY <1>2, <2>4
    <3> QED BY <3>2, <3>3 DEF a
  <2> QED BY <1>11, <2>2, <2>5
<1>14. Coded(code', cell', d2, open2)
  <2>1. \A i \in 1 .. Len(code') : cell'[i] = ce1[i] \/ AtEnd(code', cell', d2, i)
    <3> HIDE DEF ce1, k
    <3> QED BY <1>5, <1>11, <1>12
  <2>2. \A i \in open : i \in open2 \/ AtEnd(code', cell', d2, i) BY <1>13
  <2>3. Len(cell') = Len(code') BY <1>5, <1>10
  <2> HIDE DEF ce1
  <2> QED BY <1>9, <1>10, <2>1, <2>2, <2>3, CodedResolved
<1>15. Coded(code', cell', d2, Open(cs', g)) BY <1>3, <1>14 DEF open2
<1>16. Over(code', d2, cs', g, d2[Len(code') + 1], innercase')
  <2>1. Over(code', d2, st, g, l, cs[m - 1]) BY <1>4, <1>9, OverGrown
  <2> QED BY <1>3, <1>9, <2>1
<1>17. innerloop' \in Int /\ Enclosing(code', d2, innerloop', d2[Len(code') + 1])
  <2>1. innerloop \in Int /\ Enclosing(code, d, innerloop, l) BY DEF Controlled, l
  <2>2. Enclosing(code', d2, innerloop, l) BY <1>9, <2>1, HoleGrown DEF Enclosing
  <2> QED BY <1>5, <1>9, <2>1, <2>2
<1>18. Controlled(d2, g)' BY <1>15, <1>16, <1>17 DEF Controlled
<1> QED BY <1>18

\* A definition given up, or not begun.
LEMMA Nothing ==
  \E d, g : /\ Coded(<<>>, <<>>, d, Open(<<>>, g)) /\ Over(<<>>, d, <<>>, g, 0, 0)
                   /\ Enclosing(<<>>, d, 0, 0) /\ d[1] = 0 /\ Len(<<>>) + 1 = 1
<1> DEFINE d == [i \in Nat |-> 0]
           z == Mark("tag", 0, 0, 0)
           g == [i \in Nat |-> z]
<1>1. d \in [Nat -> Nat] /\ \A i \in Nat : d[i] = 0 OBVIOUS
<1>2. z \in Marks /\ z.role = "tag" /\ z.lev = 0 /\ z.cnt = 0 BY DEF Mark, Marks, Roles
<1>3. g \in [Nat -> Marks] /\ \A i \in Nat : g[i] = z BY <1>2
<1>4. Len(<<>>) = 0 /\ <<>> \in Seq(Int) /\ <<>> \in Seq(CodeWords) /\ 1 .. 0 = {} OBVIOUS
<1> HIDE DEF d, g, z
<1>5. Starts(<<>>, 1) BY <1>4 DEF Starts
<1>6. Coded(<<>>, <<>>, d, Open(<<>>, g)) BY <1>1, <1>4, <1>5 DEF Coded
<1>7. Stacked(<<>>, d, <<>>, g) BY <1>3, <1>4 DEF Stacked, z
<1>8. g[0] = z /\ d[1] = 0 BY <1>1, <1>3
<1>9. Over(<<>>, d, <<>>, g, 0, 0) BY <1>2, <1>4, <1>7, <1>8 DEF Over
<1>10. Len(<<>>) + 1 = 1 BY <1>4
<1>11. Enclosing(<<>>, d, 0, 0) BY DEF Enclosing
<1> QED BY <1>6, <1>8, <1>9, <1>10, <1>11

\* unstructured, and LEAVE outside a loop.
LEMMA ThrowsStep ==
  ASSUME ControlInv, Throws
  PROVE  ControlInv'
<1>1. mode = "compiling" /\ mode' = mode /\ ip' = ip /\ rs' = rs BY DEF Throws
<1>2. ip = 1 /\ rs = <<>>
  <2>1. PICK d, g : Controlled(d, g) /\ Executed(d, g) BY DEF ControlInv
  <2> QED BY <1>1, <2>1 DEF Executed
<1>3. code' = <<>> /\ cell' = <<>> /\ cs' = <<>> /\ innerloop' = 0 /\ innercase' = 0
  BY DEF Throws
<1>4. PICK d, g : /\ Coded(<<>>, <<>>, d, Open(<<>>, g)) /\ Over(<<>>, d, <<>>, g, 0, 0)
                  /\ Enclosing(<<>>, d, 0, 0) /\ d[1] = 0 /\ Len(<<>>) + 1 = 1
  BY Nothing
<1>5. Controlled(d, g)' BY <1>3, <1>4 DEF Controlled
<1>6. Executed(d, g)' BY <1>1, <1>2 DEF Executed
<1> QED BY <1>5, <1>6 DEF ControlInv

\* The immediate words.
LEMMA ImmediateStep ==
  ASSUME ControlInv, Immediate
  PROVE  ControlInv'
<1>1. PICK d, g : Controlled(d, g) /\ Executed(d, g) BY DEF ControlInv
<1>2. mode = "compiling" /\ mode' = mode /\ ip' = ip /\ rs' = rs BY DEF Immediate
<1>3. \A d2, g2 : Executed(d2, g2)' BY <1>1, <1>2 DEF Executed
<1>4. \E d2, g2 : Controlled(d2, g2)'
  <2>1. CASE IfWord \/ ElseWord \/ WhileWord \/ OfWord BY <1>1, <2>1, BranchesStep
  <2>2. CASE ThenWord BY <1>1, <2>2, ThenStep
  <2>3. CASE BeginWord \/ CaseWord BY <1>1, <2>3, OpensStep
  <2>4. CASE RepeatWord \/ AgainWord("(branch)") \/ AgainWord("(0branch)")
    BY <1>1, <2>4, RepeatsStep
  <2>5. CASE DoWord("(do)", 5) \/ DoWord("(?do)", 5) \/ DoWord("(for)", 6)
    <3>1. \A w \in Dos, tag \in {5, 6} : DoWord(w, tag) => \E d2, g2 : Controlled(d2, g2)'
      BY <1>1, DosStep
    <3> QED BY <2>5, <3>1 DEF Dos
  <2>6. CASE LoopWord("(loop)", 5) \/ LoopWord("(+loop)", 5) \/ LoopWord("(next)", 6)
    <3>1. \A w \in Ends, tag \in {5, 6} : LoopWord(w, tag) => \E d2, g2 : Controlled(d2, g2)'
      BY <1>1, LoopsStep
    <3> QED BY <2>6, <3>1 DEF Ends
  <2>7. CASE LeaveWord("(leave)") \/ LeaveWord("(?leave)")
    <3>1. \A w \in Exits : LeaveWord(w) => \E d2, g2 : Controlled(d2, g2)' BY <1>1, LeavesStep
    <3> QED BY <2>7, <3>1 DEF Exits
  <2>8. CASE EndofWord BY <1>1, <2>8, EndofStep
  <2>9. CASE EndcaseWord BY <1>1, <2>9, EndcaseStep
  <2> QED BY <2>1, <2>2, <2>3, <2>4, <2>5, <2>6, <2>7, <2>8, <2>9 DEF Immediate
<1> QED BY <1>3, <1>4 DEF ControlInv

\* A definition run from its first word.
LEMMA RunStep ==
  ASSUME ControlInv, Run
  PROVE  ControlInv'
<1>1. PICK d, g : Controlled(d, g) /\ Executed(d, g) BY DEF ControlInv
<1>2. /\ mode = "compiling" /\ mode' = "running" /\ code' = code /\ cell' = cell
      /\ cs' = cs /\ innerloop' = innerloop /\ innercase' = innercase /\ ip' = ip /\ rs' = rs
  BY DEF Run
<1>3. ip = 1 /\ rs = <<>> BY <1>1, <1>2 DEF Executed
<1>4. Reaches(d, g, 1, 0)' BY <1>1, <1>2 DEF Controlled, Coded, Reaches
<1>5. Len(<<>>) = 2 * 0 /\ <<>> \in Seq(Int) OBVIOUS
<1>6. Executed(d, g)'
  <2>1. rs' \in Seq(Int) /\ Len(rs') = 2 * 0 /\ 0 \in Nat BY <1>2, <1>3, <1>5
  <2>2. Reaches(d, g, ip, 0)' BY <1>2, <1>3, <1>4
  <2>3. \E n \in Nat : Reaches(d, g, ip, n)' /\ Len(rs') = 2 * n BY <2>1, <2>2
  <2> QED BY <1>2, <2>1, <2>3 DEF Executed
<1>7. Controlled(d, g)' BY <1>1, <1>2 DEF Controlled
<1> QED BY <1>6, <1>7 DEF ControlInv

-----------------------------------------------------------------------------
(* The run-time words. *)

\* What is known of the word about to be executed.
Ran(d, g) ==
  /\ Controlled(d, g) /\ mode = "running"
  /\ Starts(code, ip) /\ rs \in Seq(Int) /\ Len(rs) = 2 * d[ip]

\* Where the inner interpreter goes next, with what on the return stack.
LEMMA Moves ==
  ASSUME NEW d, NEW g, Ran(d, g), NEW to, Goes(to), NEW n \in Nat, Reaches(d, g, to, n),
         rs' \in Seq(Int), Len(rs') = 2 * n
  PROVE  ControlInv'
<1>1. /\ ip' = to /\ code' = code /\ cell' = cell /\ cs' = cs /\ innerloop' = innerloop
      /\ innercase' = innercase /\ mode' = mode
  BY DEF Goes
<1>2. Controlled(d, g)' BY <1>1 DEF Ran, Controlled
<1>3. Reaches(d, g, ip, n)' BY <1>1 DEF Reaches
<1>4. \E m \in Nat : Reaches(d, g, ip, m)' /\ Len(rs') = 2 * m BY <1>3
<1>5. Executed(d, g)' BY <1>1, <1>4 DEF Ran, Executed
<1> QED BY <1>2, <1>5 DEF ControlInv

\* An operand to resolve is a cell of the definition that the stack has the
\* address of.
LEMMA OpenCells ==
  ASSUME NEW d, NEW g, Controlled(d, g), NEW i \in Open(cs, g)
  PROVE  /\ i \in 2 .. Len(code) /\ code[i] = "operand" /\ Len(code) \in Nat
         /\ Base + i - 1 \in LeftOpen
<1>1. PICK p \in 1 .. Len(cs) : g[p].role \in {"hole", "end"} /\ i = At(cs[p]) BY DEF Open
<1>2. Item(code, d, cs, g, p) BY <1>1 DEF Controlled, Over, Stacked
<1>3. i \in 2 .. Len(code) /\ code[i] = "operand" BY <1>1, <1>2 DEF Item, Hole
<1>4. Len(code) \in Nat /\ cs \in Seq(Int) BY Labels
<1>5. cs[p] \in Int /\ p \in DOMAIN cs BY <1>1, <1>4
<1>6. Base + i - 1 = cs[p]
  <2> DEFINE a == cs[p]
  <2>1. a \in Int /\ i = At(a) BY <1>1, <1>5
  <2> HIDE DEF a
  <2>2. Base + i - 1 = a BY <2>1 DEF At, Base
  <2> QED BY <2>2 DEF a
<1>7. Base + i - 1 \in LeftOpen BY <1>5, <1>6 DEF LeftOpen
<1> QED BY <1>3, <1>4, <1>7

\* The definition that runs, with the operands left open in it.
LEMMA Closes ==
  ASSUME NEW d, NEW g, Ran(d, g)
  PROVE  /\ Coded(code, cell, d, Open(cs, g)) /\ Len(code) \in Nat /\ ip \in 1 .. Len(code) + 1
         /\ ip \in Nat /\ d \in [Nat -> Nat] /\ d[ip] \in Nat
<1>1. Controlled(d, g) BY DEF Ran
<1>2. Coded(code, cell, d, Open(cs, g)) BY <1>1 DEF Controlled
<1>3. Len(code) \in Nat /\ d \in [Nat -> Nat] BY <1>1, Labels
<1>4. ip \in 1 .. Len(code) + 1 BY DEF Ran, Starts
<1>5. ip \in Nat BY <1>3, <1>4
<1> QED BY <1>2, <1>3, <1>4, <1>5

\* Where the branch or loop with its operand at o goes.
LEMMA Resolves ==
  ASSUME NEW d, NEW g, NEW i, NEW o, o = i + 1, i \in Int, o + cell[o] \in Int,
         Pending(cell, Open(cs, g), i + 1) \/ Resolved(code, cell, d, i)
  PROVE  Reaches(d, g, o + cell[o], d[i])
<1>1. CASE Resolved(code, cell, d, i) BY <1>1 DEF Resolved, Reaches
<1>2. CASE Pending(cell, Open(cs, g), i + 1)
  <2>1. cell[o] = 0 /\ o \in Open(cs, g) BY <1>2 DEF Pending
  <2>2. o + cell[o] = o BY <2>1
  <2> QED BY <2>1, <2>2 DEF Reaches
<1> QED BY <1>1, <1>2

\* Branches and loops, taken or fallen through.
LEMMA JumpMoves ==
  ASSUME NEW d, NEW g, Ran(d, g), ip <= Len(code), code[ip] \in Jumps
  PROVE  /\ Reaches(d, g, Target, d[ip])
         /\ Starts(code, Past) /\ Falls(code[ip], d[ip], d[Past]) /\ d[Past] \in Nat
<1>1. /\ Coded(code, cell, d, Open(cs, g)) /\ ip \in 1 .. Len(code) /\ d \in [Nat -> Nat]
      /\ Len(code) \in Nat
  <2>1. /\ Coded(code, cell, d, Open(cs, g)) /\ ip \in 1 .. Len(code) + 1 /\ d \in [Nat -> Nat]
        /\ Len(code) \in Nat
    BY Closes
  <2>2. ip \in 1 .. Len(code) BY <2>1
  <2> QED BY <2>1, <2>2
<1>2. WordIn(code, cell, d, Open(cs, g), ip) BY <1>1 DEF Coded
<1>3. /\ Pending(cell, Open(cs, g), ip + 1) \/ Resolved(code, cell, d, ip)
      /\ ip + 1 \in 1 .. Len(code)
      /\ Starts(code, ip + 2) /\ Falls(code[ip], d[ip], d[ip + 2])
  <2>1. ip < Len(code) BY <1>2 DEF WordIn
  <2>2. ip + 1 \in 1 .. Len(code) BY <1>1, <2>1
  <2> QED BY <1>2, <2>2 DEF WordIn
<1>4. ip + 2 \in Nat /\ ip \in Int BY <1>1
<1>5. cell[ip + 1] \in Int
  <2>1. cell \in Seq(Int) /\ Len(cell) = Len(code) BY <1>1 DEF Coded
  <2> QED BY <1>3, <2>1
<1>6. Target = (ip + 1) + cell[ip + 1] /\ Target \in Int BY <1>4, <1>5 DEF Target
<1>7. Reaches(d, g, Target, d[ip]) BY <1>3, <1>4, <1>6, Resolves
<1> QED BY <1>1, <1>3, <1>4, <1>7 DEF Past

\* LEAVE and ?LEAVE, through the loop's own operand.
LEMMA ExitMoves ==
  ASSUME NEW d, NEW g, Ran(d, g), ip <= Len(code), code[ip] \in Exits
  PROVE  /\ Reaches(d, g, LeaveTarget, d[ip] - 1) /\ d[ip] >= 1
         /\ Starts(code, Past) /\ d[Past] = d[ip]
<1> DEFINE o == At(cell[ip + 1])
           i == o - 1
<1>1. Coded(code, cell, d, Open(cs, g)) /\ ip \in 1 .. Len(code) /\ Len(code) \in Nat
  <2>1. Coded(code, cell, d, Open(cs, g)) /\ ip \in 1 .. Len(code) + 1 /\ Len(code) \in Nat
    BY Closes
  <2>2. ip \in 1 .. Len(code) BY <2>1
  <2> QED BY <2>1, <2>2
<1>2. WordIn(code, cell, d, Open(cs, g), ip) BY <1>1 DEF Coded
<1>3. /\ Starts(code, ip + 2) /\ Falls(code[ip], d[ip], d[ip + 2]) /\ d[ip] >= 1
      /\ Hole(code, d, o, d[ip] - 1)
  BY <1>2 DEF WordIn
<1>4. d[ip + 2] = d[ip] BY <1>3 DEF Falls, Exits, Dos, Ends
<1> HIDE DEF o
<1>5. /\ i \in 1 .. Len(code) /\ code[i] \in Jumps /\ d[i] = d[ip] - 1 /\ o = i + 1
      /\ i \in Int /\ o \in 1 .. Len(code)
  BY <1>1, <1>3 DEF Hole
<1>6. Pending(cell, Open(cs, g), i + 1) \/ Resolved(code, cell, d, i)
  <2>1. WordIn(code, cell, d, Open(cs, g), i) BY <1>1, <1>5 DEF Coded
  <2> QED BY <1>5, <2>1 DEF WordIn
<1>7. o + cell[o] \in Int
  <2>1. cell \in Seq(Int) /\ Len(cell) = Len(code) BY <1>1 DEF Coded
  <2>2. cell[o] \in Int BY <1>5, <2>1
  <2>3. o \in Int BY <1>5
  <2> QED BY <2>2, <2>3
<1>8. Reaches(d, g, o + cell[o], d[i])
  <2> HIDE DEF i
  <2> QED BY <1>5, <1>6, <1>7, Resolves
<1>9. LeaveTarget = o + cell[o] BY DEF LeaveTarget, o, At
<1> QED BY <1>3, <1>4, <1>5, <1>8, <1>9 DEF Past

\* A loop's two cells on the return stack.
LEMMA Parameters ==
  ASSUME NEW r \in Seq(Int), NEW n \in Nat, Len(r) = 2 * n
  PROVE  /\ \A x, y \in Int : r \o <<x, y>> \in Seq(Int) /\ Len(r \o <<x, y>>) = 2 * (n + 1)
         /\ n >= 1 =>
              /\ r[Len(r)] \in Int /\ r[Len(r) - 1] \in Int
              /\ SubSeq(r, 1, Len(r) - 2) \in Seq(Int)
              /\ Len(SubSeq(r, 1, Len(r) - 2)) = 2 * (n - 1)
              /\ \A x \in Int : /\ [r EXCEPT ![Len(r)] = x] \in Seq(Int)
                                /\ Len([r EXCEPT ![Len(r)] = x]) = 2 * n
<1> DEFINE k == Len(r)
<1>1. k \in Nat /\ k = 2 * n OBVIOUS
<1>2. ASSUME NEW x \in Int, NEW y \in Int
      PROVE  r \o <<x, y>> \in Seq(Int) /\ Len(r \o <<x, y>>) = 2 * (n + 1)
  <2> DEFINE q == r \o <<x, y>>
  <2>1. q \in Seq(Int) /\ Len(q) = k + 2 BY PairJoined
  <2> HIDE DEF q, k
  <2> QED BY <1>1, <2>1 DEF q
<1>3. ASSUME n >= 1
      PROVE  /\ r[k] \in Int /\ r[k - 1] \in Int
             /\ SubSeq(r, 1, k - 2) \in Seq(Int) /\ Len(SubSeq(r, 1, k - 2)) = 2 * (n - 1)
             /\ \A x \in Int : [r EXCEPT ![k] = x] \in Seq(Int) /\ Len([r EXCEPT ![k] = x]) = 2 * n
  <2>1. k \in 1 .. k /\ k - 1 \in 1 .. k /\ k - 2 \in 0 .. k /\ k - 2 = 2 * (n - 1)
    <3> HIDE DEF k
    <3> QED BY <1>1, <1>3
  <2>2. r[k] \in Int /\ r[k - 1] \in Int BY <2>1
  <2>3. SubSeq(r, 1, k - 2) \in Seq(Int) /\ Len(SubSeq(r, 1, k - 2)) = k - 2 BY <2>1, CutInts
  <2>4. ASSUME NEW x \in Int
        PROVE  [r EXCEPT ![k] = x] \in Seq(Int) /\ Len([r EXCEPT ![k] = x]) = k
    BY <2>1, Update
  <2> HIDE DEF k
  <2> QED BY <1>1, <2>1, <2>2, <2>3, <2>4
<1> QED BY <1>2, <1>3

\* The run-time words of branches, and of loops that begin or are left out.
LEMMA StraightStep ==
  ASSUME NEW d, NEW g, Ran(d, g),
         \/ forthbranch \/ forth0branch \/ forthdrop \/ forthbrfor \/ forthbrdo \/ forthbrqdo
  PROVE  ControlInv'
<1>1. rs \in Seq(Int) /\ Len(rs) = 2 * d[ip] /\ d[ip] \in Nat BY Closes DEF Ran
<1>2. CASE forthbranch
  <2>1. ip <= Len(code) /\ code[ip] = "(branch)" /\ Goes(Target) /\ rs' = rs
    BY <1>2 DEF forthbranch, Executing
  <2>2. code[ip] \in Jumps BY <2>1 DEF Jumps, Straight
  <2>3. Reaches(d, g, Target, d[ip]) BY <2>1, <2>2, JumpMoves
  <2> HIDE DEF Target
  <2> QED BY <1>1, <2>1, <2>3, Moves
<1>3. CASE forth0branch
  <2>1. PICK to \in {Past, Target} : Goes(to) BY <1>3 DEF forth0branch
  <2>2. ip <= Len(code) /\ code[ip] \in {"(0branch)", "(of)"} /\ rs' = rs
    BY <1>3 DEF forth0branch, Executing
  <2>3. code[ip] \in Straight /\ code[ip] \in Jumps /\ code[ip] \notin Dos \cup Ends
    BY <2>2 DEF Jumps, Straight, Dos, Ends
  <2>4. /\ Reaches(d, g, Target, d[ip])
        /\ Starts(code, Past) /\ Falls(code[ip], d[ip], d[Past])
    BY <2>2, <2>3, JumpMoves
  <2>5. Reaches(d, g, Past, d[ip]) BY <2>3, <2>4 DEF Falls, Reaches
  <2>6. Reaches(d, g, to, d[ip]) BY <2>1, <2>4, <2>5
  <2> QED BY <1>1, <2>1, <2>2, <2>6, Moves
<1>4. CASE forthdrop
  <2>1. ip <= Len(code) /\ code[ip] = "drop" /\ Goes(ip + 1) /\ rs' = rs
    BY <1>4 DEF forthdrop, Executing
  <2>2. Coded(code, cell, d, Open(cs, g)) /\ ip \in 1 .. Len(code) BY <2>1, Closes
  <2>3. WordIn(code, cell, d, Open(cs, g), ip) BY <2>2 DEF Coded
  <2>4. Reaches(d, g, ip + 1, d[ip]) BY <2>1, <2>3 DEF WordIn, Reaches
  <2> QED BY <1>1, <2>1, <2>4, Moves
<1>5. ASSUME ip <= Len(code), code[ip] \in Dos, Goes(Past),
             NEW x \in Int, NEW y \in Int, rs' = rs \o <<x, y>>
      PROVE  ControlInv'
  <2>1. code[ip] \in Jumps /\ code[ip] \notin Ends /\ code[ip] \notin Straight \cup Exits
    BY <1>5 DEF Jumps, Straight, Dos, Ends, Exits
  <2>2. Starts(code, Past) /\ Falls(code[ip], d[ip], d[Past]) BY <1>5, <2>1, JumpMoves
  <2>3. d[Past] = d[ip] + 1 BY <2>1, <2>2 DEF Falls
  <2> DEFINE n == d[ip]
  <2>4. rs' \in Seq(Int) /\ Len(rs') = 2 * (n + 1) /\ n + 1 \in Nat
    <3>1. n \in Nat /\ rs \in Seq(Int) /\ Len(rs) = 2 * n BY <1>1
    <3> HIDE DEF n
    <3> QED BY <1>5, <3>1, Parameters
  <2>5. Reaches(d, g, Past, n + 1) BY <2>2, <2>3 DEF Reaches
  <2> QED BY <1>5, <2>4, <2>5, Moves
<1>6. CASE forthbrfor
  <2>1. PICK n \in {1, 2} : rs' = rs \o <<n, n>> BY <1>6 DEF forthbrfor
  <2>2. ip <= Len(code) /\ code[ip] \in Dos /\ Goes(Past)
    BY <1>6 DEF forthbrfor, Executing, Dos
  <2>3. n \in Int BY <2>1
  <2> QED BY <1>5, <2>1, <2>2, <2>3
<1>7. CASE forthbrdo
  <2>1. PICK limit \in {1, 2} : rs' = rs \o <<limit, 0>> BY <1>7 DEF forthbrdo
  <2>2. ip <= Len(code) /\ code[ip] \in Dos /\ Goes(Past)
    BY <1>7 DEF forthbrdo, Executing, Dos
  <2>3. limit \in Int /\ 0 \in Int BY <2>1
  <2> QED BY <1>5, <2>1, <2>2, <2>3
<1>8. CASE forthbrqdo
  <2>1. ip <= Len(code) /\ code[ip] = "(?do)" /\ Goes(Target) /\ rs' = rs
    BY <1>8 DEF forthbrqdo, Executing
  <2>2. code[ip] \in Jumps BY <2>1 DEF Jumps, Dos
  <2>3. Reaches(d, g, Target, d[ip]) BY <2>1, <2>2, JumpMoves
  <2> QED BY <1>1, <2>1, <2>3, Moves
<1> QED BY <1>2, <1>3, <1>4, <1>6, <1>7, <1>8

\* (loop), (+loop) and (next): around, or out with the parameters dropped.
LEMMA EndsStep ==
  ASSUME NEW d, NEW g, Ran(d, g), forthbrnext \/ forthbrloop \/ forthbrplusloop
  PROVE  ControlInv'
<1> DEFINE n == d[ip]
<1>1. /\ rs \in Seq(Int) /\ Len(rs) = 2 * n /\ n \in Nat
      /\ ip <= Len(code) /\ code[ip] \in Ends
  BY Closes DEF Ran, forthbrnext, forthbrloop, forthbrplusloop, Executing, Ends
<1>2. code[ip] \in Jumps /\ code[ip] \notin Dos /\ code[ip] \notin Straight \cup Exits
  BY <1>1 DEF Jumps, Straight, Dos, Ends, Exits
<1>3. /\ Reaches(d, g, Target, n)
      /\ Starts(code, Past) /\ d[Past] \in Nat /\ n = d[Past] + 1
  <2>1. /\ Reaches(d, g, Target, n)
        /\ Starts(code, Past) /\ Falls(code[ip], n, d[Past]) /\ d[Past] \in Nat
    BY <1>1, <1>2, JumpMoves
  <2> HIDE DEF n
  <2> QED BY <1>2, <2>1 DEF Falls
<1>4. n >= 1 /\ n - 1 = d[Past]
  <2> DEFINE e == d[Past]
  <2>1. e \in Nat /\ n = e + 1 BY <1>3
  <2> HIDE DEF e, n
  <2>2. n >= 1 /\ n - 1 = e BY <2>1
  <2> QED BY <2>2 DEF e
<1>5. /\ Index \in Int /\ Unlooped \in Seq(Int) /\ Len(Unlooped) = 2 * (n - 1)
      /\ \A x \in Int : /\ [rs EXCEPT ![Len(rs)] = x] \in Seq(Int)
                        /\ Len([rs EXCEPT ![Len(rs)] = x]) = 2 * n
  <2> HIDE DEF n
  <2> QED BY <1>1, <1>4, Parameters DEF Index, Unlooped
<1>6. ASSUME Goes(Past), rs' = Unlooped PROVE ControlInv'
  <2>1. rs' \in Seq(Int) /\ Len(rs') = 2 * d[Past] BY <1>4, <1>5, <1>6
  <2>2. Reaches(d, g, Past, d[Past]) BY <1>3 DEF Reaches
  <2> QED BY <1>3, <1>6, <2>1, <2>2, Moves
<1>7. ASSUME Goes(Target), NEW x \in Int, rs' = [rs EXCEPT ![Len(rs)] = x] PROVE ControlInv'
  <2>1. rs' \in Seq(Int) /\ Len(rs') = 2 * n BY <1>5, <1>7
  <2> HIDE DEF n
  <2> QED BY <1>1, <1>3, <1>7, <2>1, Moves
<1>8. CASE forthbrnext
  <2>1. \/ Goes(Target) /\ rs' = [rs EXCEPT ![Len(rs)] = Index - 1]
        \/ Goes(Past) /\ rs' = Unlooped
    BY <1>8 DEF forthbrnext, Index
  <2>2. Index - 1 \in Int BY <1>5
  <2> QED BY <1>6, <1>7, <2>1, <2>2
<1>9. CASE forthbrloop
  <2>1. \/ Goes(Target) /\ rs' = [rs EXCEPT ![Len(rs)] = Index + 1]
        \/ Goes(Past) /\ rs' = Unlooped
    BY <1>9 DEF forthbrloop, Index
  <2>2. Index + 1 \in Int BY <1>5
  <2> QED BY <1>6, <1>7, <2>1, <2>2
<1>10. CASE forthbrplusloop
  <2>1. \E m \in {0, 1, 2} :
          \/ Goes(Target) /\ rs' = [rs EXCEPT ![Len(rs)] = Index + m]
          \/ Goes(Past) /\ rs' = Unlooped
    BY <1>10 DEF forthbrplusloop, Index
  <2>2. \A m \in {0, 1, 2} : Index + m \in Int BY <1>5
  <2> QED BY <1>6, <1>7, <2>1, <2>2
<1> QED BY <1>8, <1>9, <1>10

\* (leave) and (?leave).
LEMMA ExitsStep ==
  ASSUME NEW d, NEW g, Ran(d, g), forthbrleave \/ forthbrqleave
  PROVE  ControlInv'
<1> DEFINE n == d[ip]
<1>1. /\ rs \in Seq(Int) /\ Len(rs) = 2 * n /\ n \in Nat
      /\ ip <= Len(code) /\ code[ip] \in Exits
  BY Closes DEF Ran, forthbrleave, forthbrqleave, Executing, Exits
<1>2. /\ Reaches(d, g, LeaveTarget, n - 1) /\ n >= 1
      /\ Starts(code, Past) /\ d[Past] = n
  BY <1>1, ExitMoves
<1>3. CASE forthbrleave
  <2>1. Goes(LeaveTarget) /\ rs' = Unlooped BY <1>3 DEF forthbrleave, ParametersDropped
  <2>2. Unlooped \in Seq(Int) /\ Len(Unlooped) = 2 * (n - 1) /\ n - 1 \in Nat
    <3> HIDE DEF n
    <3> QED BY <1>1, <1>2, Parameters DEF Unlooped
  <2> QED BY <1>2, <2>1, <2>2, Moves
<1>4. CASE forthbrqleave
  <2>1. Goes(Past) /\ rs' = rs BY <1>4 DEF forthbrqleave
  <2>2. Reaches(d, g, Past, n) BY <1>2 DEF Reaches
  <2> QED BY <1>1, <2>1, <2>2, Moves
<1> QED BY <1>3, <1>4

\* A word that is executed is one that ControlInv describes.
LEMMA Runs ==
  ASSUME NEW d, NEW g, Controlled(d, g), Executed(d, g),
         NEW words, Executing(words), "operand" \notin words
  PROVE  Ran(d, g)
<1>1. mode = "running" /\ code[ip] # "operand" BY DEF Executing
<1>2. PICK n \in Nat : Reaches(d, g, ip, n) /\ Len(rs) = 2 * n BY <1>1 DEF Executed
<1>3. rs \in Seq(Int) BY <1>1 DEF Executed
<1>4. ip \notin Open(cs, g) BY <1>1, OpenCells
<1>5. Starts(code, ip) /\ d[ip] = n BY <1>2, <1>4 DEF Reaches
<1> QED BY <1>1, <1>2, <1>3, <1>5 DEF Ran

-----------------------------------------------------------------------------
(* The theorems. *)

\* The definition compiled and run (the immediate words of forthif to
\* forthendcase and the words they compile) keeps ControlInv.
THEOREM ControlInvariant == ControlSpec => []ControlInv
<1>1. ControlInit => ControlInv
  <2> SUFFICES ASSUME ControlInit PROVE ControlInv OBVIOUS
  <2>1. PICK d, g : /\ Coded(<<>>, <<>>, d, Open(<<>>, g)) /\ Over(<<>>, d, <<>>, g, 0, 0)
                    /\ Enclosing(<<>>, d, 0, 0) /\ d[1] = 0 /\ Len(<<>>) + 1 = 1
    BY Nothing
  <2>2. Controlled(d, g) BY <2>1 DEF Controlled, ControlInit
  <2>3. Executed(d, g) BY DEF Executed, ControlInit
  <2> QED BY <2>2, <2>3 DEF ControlInv
<1>2. ControlInv /\ [ControlNext]_controlVars => ControlInv'
  <2> SUFFICES ASSUME ControlInv, [ControlNext]_controlVars PROVE ControlInv' OBVIOUS
  <2>1. CASE Immediate BY <2>1, ImmediateStep
  <2>2. CASE Throws BY <2>2, ThrowsStep
  <2>3. CASE Run BY <2>3, RunStep
  <2>4. PICK d, g : Controlled(d, g) /\ Executed(d, g) BY DEF ControlInv
  <2> DEFINE words == CodeWords \ {"operand"}
  <2>9. /\ "operand" \notin words
        /\ \A w : Executing(w) /\ w \subseteq words => Executing(words)
    BY DEF Executing
  <2>5. CASE \/ forthbranch \/ forth0branch \/ forthdrop \/ forthbrfor \/ forthbrdo \/ forthbrqdo
    <3>1. Executing(words)
      BY <2>5 DEF forthbranch, forth0branch, forthdrop, forthbrfor, forthbrdo, forthbrqdo,
                  Executing, CodeWords, Jumps, Dos, Straight
    <3> HIDE DEF words
    <3> QED BY <2>4, <2>5, <2>9, <3>1, Runs, StraightStep
  <2>6. CASE forthbrnext \/ forthbrloop \/ forthbrplusloop
    <3>1. Executing(words)
      BY <2>6 DEF forthbrnext, forthbrloop, forthbrplusloop, Executing, CodeWords, Jumps, Ends
    <3> HIDE DEF words
    <3> QED BY <2>4, <2>6, <2>9, <3>1, Runs, EndsStep
  <2>7. CASE forthbrleave \/ forthbrqleave
    <3>1. Executing(words)
      BY <2>7 DEF forthbrleave, forthbrqleave, Executing, CodeWords, Exits
    <3> HIDE DEF words
    <3> QED BY <2>4, <2>7, <2>9, <3>1, Runs, ExitsStep
  <2>8. CASE UNCHANGED controlVars
    <3>1. Controlled(d, g)' BY <2>4, <2>8 DEF Controlled, controlVars
    <3>2. Executed(d, g)' BY <2>4, <2>8 DEF Executed, Reaches, controlVars
    <3> QED BY <3>1, <3>2 DEF ControlInv
  <2> QED BY <2>1, <2>2, <2>3, <2>5, <2>6, <2>7, <2>8 DEF ControlNext
<1> QED BY <1>1, <1>2, PTL DEF ControlSpec

\* forthinner takes every word of a definition from a cell that holds one, or
\* from the operand of a structure that ; found open.
THEOREM DefinitionsLandOnWords == ControlSpec => []LandsOnWords
<1>1. ControlInv => LandsOnWords
  <2> SUFFICES ASSUME ControlInv, mode = "running"
               PROVE  /\ ip \in 1 .. Len(code) + 1
                      /\ ip <= Len(code) /\ code[ip] = "operand" => Base + ip - 1 \in LeftOpen
    BY DEF LandsOnWords
  <2>1. PICK d, g : Controlled(d, g) /\ Executed(d, g) BY DEF ControlInv
  <2>2. CASE ip \in Open(cs, g)
    <3>1. ip \in 2 .. Len(code) /\ Len(code) \in Nat /\ Base + ip - 1 \in LeftOpen
      BY <2>1, <2>2, OpenCells
    <3> QED BY <3>1
  <2>3. CASE Starts(code, ip) BY <2>3 DEF Starts
  <2> QED BY <2>1, <2>2, <2>3 DEF Executed, Reaches
<1> QED BY <1>1, ControlInvariant, PTL

\* At the end of a definition without a loop left open forthexit finds the
\* caller's ip on the return stack.
THEOREM DefinitionsUnwound == ControlSpec => []LoopsUnwound
<1>1. ControlInv => LoopsUnwound
  <2> SUFFICES ASSUME ControlInv, mode = "running", ip = Len(code) + 1, innerloop = 0
               PROVE  rs = <<>>
    BY DEF LoopsUnwound
  <2>1. PICK d, g : Controlled(d, g) /\ Executed(d, g) BY DEF ControlInv
  <2>2. ip \notin Open(cs, g)
    <3>1. ASSUME ip \in Open(cs, g) PROVE FALSE
      <4>1. ip \in 2 .. Len(code) /\ Len(code) \in Nat BY <2>1, <3>1, OpenCells
      <4> QED BY <4>1
    <3> QED BY <3>1
  <2>3. d[ip] = 0
    <3>1. Enclosing(code, d, 0, d[ip]) BY <2>1 DEF Controlled
    <3>2. At(0) \notin 2 .. Len(code) BY DEF At, Base
    <3> QED BY <3>1, <3>2 DEF Enclosing, Hole
  <2>4. rs \in Seq(Int) /\ Len(rs) = 0
    <3>1. PICK n \in Nat : Reaches(d, g, ip, n) /\ Len(rs) = 2 * n BY <2>1 DEF Executed
    <3>2. n = 0 BY <2>2, <2>3, <3>1 DEF Reaches
    <3> QED BY <2>1, <3>1, <3>2 DEF Executed
  <2> QED BY <2>4
<1> QED BY <1>1, ControlInvariant, PTL

=============================================================================
