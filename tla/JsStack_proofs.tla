--------------------------- MODULE JsStack_proofs ---------------------------
(***************************************************************************)
(* Theorems about the words that move items on the stacks of JS-Forth, for *)
(* stacks of any size, numbers of any value and cells of any width: every  *)
(* one of them but rdrop, and every float word but those that AsDescribed  *)
(* names, has the effect that it is described with on every stack.  The    *)
(* invariant only gives the variables their types: that no item lies where *)
(* a word does not look for it is shown word by word, item by item.        *)
(***************************************************************************)
EXTENDS JsFloat, TLAPS

\* The type invariant of the stacks.
StackTyped ==
  /\ s \in [1 .. MaxDepth + 1 -> Int] /\ sp \in 0 .. MaxDepth /\ tos \in Int
  /\ r \in [1 .. MaxReturn -> Int] /\ rp \in 0 .. MaxReturn

\* The stacks a program sees with these values in the variables.
SeenData(a, p, top) == IF p = 0 THEN <<>> ELSE Append(SubSeq(a, 2, p), top)
\* Item k of the data stack.
Cell(a, p, top, k) == IF k = p THEN top ELSE a[k + 1]
SeenReturn(b, q) == SubSeq(b, 1, q)

\* The values that a word leaves are of the right types.
WellTyped(z) ==
  /\ z.s \in [1 .. MaxDepth + 1 -> Int] /\ z.sp \in 0 .. MaxDepth /\ z.tos \in Int
  /\ z.r \in [1 .. MaxReturn -> Int] /\ z.rp \in 0 .. MaxReturn

\* The stack z is the stack b with its last c items replaced by those that idx
\* picks from items.
Splices(z, b, c, items, idx) ==
  /\ Len(z) = Len(b) - c + Len(idx)
  /\ \A k \in 1 .. Len(b) - c : z[k] = b[k]
  /\ \A k \in 1 .. Len(idx) : z[Len(b) - c + k] = items[idx[k]]

\* The data stack a program sees, item by item.
LEMMA SeenDataIs ==
  ASSUME NEW a \in [1 .. MaxDepth + 1 -> Int], NEW p \in 0 .. MaxDepth, NEW top \in Int
  PROVE  /\ SeenData(a, p, top) \in Seq(Int)
         /\ Len(SeenData(a, p, top)) = p
         /\ \A k \in 1 .. p : SeenData(a, p, top)[k] = Cell(a, p, top, k)
<1>0. MaxDepth \in Nat BY StackAssumption
<1> USE DEF Cell
<1>1. CASE p = 0 BY <1>1 DEF SeenData
<1>2. CASE p # 0
  <2>1. a \in Seq(Int) /\ Len(a) = MaxDepth + 1 BY <1>0
  <2>2. SubSeq(a, 2, p) \in Seq(Int) /\ Len(SubSeq(a, 2, p)) = p - 1
        /\ \A k \in 1 .. p - 1 : SubSeq(a, 2, p)[k] = a[k + 1]
    BY <1>0, <1>2, <2>1
  <2> HIDE DEF SeenData
  <2>3. SeenData(a, p, top) = Append(SubSeq(a, 2, p), top) BY <1>2 DEF SeenData
  <2> QED BY <2>2, <2>3, <1>2
<1> QED BY <1>1, <1>2

\* The return stack it sees.
LEMMA SeenReturnIs ==
  ASSUME NEW b \in [1 .. MaxReturn -> Int], NEW q \in 0 .. MaxReturn
  PROVE  /\ SeenReturn(b, q) \in Seq(Int)
         /\ Len(SeenReturn(b, q)) = q
         /\ \A k \in 1 .. q : SeenReturn(b, q)[k] = b[k]
<1>0. MaxReturn \in Nat BY StackAssumption
<1>1. b \in Seq(Int) /\ Len(b) = MaxReturn BY <1>0
<1> QED BY <1>0, <1>1 DEF SeenReturn

\* The last items and the rest of a stack.
LEMMA PartsOf ==
  ASSUME NEW T, NEW q \in Seq(T), NEW n \in 0 .. Len(q)
  PROVE  /\ AllBut(q, n) \in Seq(T) /\ Len(AllBut(q, n)) = Len(q) - n
         /\ \A k \in 1 .. Len(q) - n : AllBut(q, n)[k] = q[k]
         /\ LastOf(q, n) \in Seq(T) /\ Len(LastOf(q, n)) = n
         /\ \A k \in 1 .. n : LastOf(q, n)[k] = q[Len(q) - n + k]
<1>1. Len(q) \in Nat OBVIOUS
<1>2. 1 .. Len(q) - n \subseteq 1 .. Len(q) BY <1>1
<1>3. AllBut(q, n) \in Seq(T) /\ Len(AllBut(q, n)) = Len(q) - n
      /\ \A k \in 1 .. Len(q) - n : AllBut(q, n)[k] = q[k]
  BY <1>1 DEF AllBut
<1>4. LastOf(q, n) \in Seq(T) /\ Len(LastOf(q, n)) = n
  BY <1>1 DEF LastOf
<1>5. \A k \in 1 .. n : LastOf(q, n)[k] = q[Len(q) - n + k]
  BY <1>1 DEF LastOf
<1> QED BY <1>3, <1>4, <1>5

\* The same of a stack of numbers.
LEMMA NumberParts ==
  ASSUME NEW q \in Seq(Int), NEW n \in 0 .. Len(q)
  PROVE  /\ AllBut(q, n) \in Seq(Int) /\ Len(AllBut(q, n)) = Len(q) - n
         /\ \A k \in 1 .. Len(q) - n : AllBut(q, n)[k] = q[k]
         /\ LastOf(q, n) \in Seq(Int) /\ Len(LastOf(q, n)) = n
         /\ \A k \in 1 .. n : LastOf(q, n)[k] = q[Len(q) - n + k]
BY PartsOf

\* An item of a sequence.
LEMMA ElementIn ==
  ASSUME NEW T, NEW q \in Seq(T), NEW k \in 1 .. Len(q)
  PROVE  q[k] \in T
OBVIOUS

\* Two sequences with the same items are equal.
LEMMA SameItems ==
  ASSUME NEW T, NEW x \in Seq(T), NEW y \in Seq(T), Len(x) = Len(y),
         \A k \in 1 .. Len(x) : x[k] = y[k]
  PROVE  x = y
OBVIOUS

\* The items of two sequences, one after the other.
LEMMA Joined ==
  ASSUME NEW x \in Seq(Int), NEW y \in Seq(Int)
  PROVE  /\ x \o y \in Seq(Int) /\ Len(x \o y) = Len(x) + Len(y)
         /\ \A k \in 1 .. Len(x) : (x \o y)[k] = x[k]
         /\ \A i \in 1 .. Len(y) : (x \o y)[Len(x) + i] = y[i]
<1>0. Len(x) \in Nat /\ Len(y) \in Nat OBVIOUS
<1>1. x \o y \in Seq(Int) /\ Len(x \o y) = Len(x) + Len(y) OBVIOUS
<1>2. \A k \in 1 .. Len(x) : (x \o y)[k] = x[k] BY <1>0
<1>3. ASSUME NEW i \in 1 .. Len(y) PROVE (x \o y)[Len(x) + i] = y[i]
  <2>1. Len(x) + i \in 1 .. Len(x) + Len(y) /\ Len(x) + i > Len(x) BY <1>0
  <2>2. (x \o y)[Len(x) + i] = y[Len(x) + i - Len(x)] BY <2>1, <1>0
  <2>3. Len(x) + i - Len(x) = i BY <1>0
  <2> QED BY <2>2, <2>3
<1> QED BY <1>1, <1>2, <1>3

\* A spliced stack is the rest of the old one with the items appended.
LEMMA Spliced ==
  ASSUME NEW z \in Seq(Int), NEW b \in Seq(Int), NEW c \in 0 .. Len(b),
         NEW items \in Seq(Int), NEW idx \in Seq(1 .. Len(items)),
         Splices(z, b, c, items, idx)
  PROVE  z = AllBut(b, c) \o [k \in 1 .. Len(idx) |-> items[idx[k]]]
<1> DEFINE left == AllBut(b, c)
           new == [k \in 1 .. Len(idx) |-> items[idx[k]]]
<1>0. Len(b) \in Nat /\ Len(idx) \in Nat /\ Len(items) \in Nat OBVIOUS
<1>1. left \in Seq(Int) /\ Len(left) = Len(b) - c /\ \A k \in 1 .. Len(b) - c : left[k] = b[k]
  BY NumberParts
<1>2. \A k \in 1 .. Len(idx) : idx[k] \in 1 .. Len(items) OBVIOUS
<1>3. new \in [1 .. Len(idx) -> Int] BY <1>2, <1>0
<1>4. new \in Seq(Int) /\ Len(new) = Len(idx) /\ \A k \in 1 .. Len(idx) : new[k] = items[idx[k]]
  BY <1>3, <1>0
<1> DEFINE m == Len(b) - c
<1>m. m \in Nat BY <1>0
<1> HIDE DEF left, new
<1>5. left \o new \in Seq(Int) /\ Len(left \o new) = m + Len(idx)
      /\ (\A k \in 1 .. m : (left \o new)[k] = left[k])
      /\ \A i \in 1 .. Len(idx) : (left \o new)[m + i] = new[i]
  <2> HIDE DEF m
  <2>1. Len(left) = m /\ Len(new) = Len(idx) BY <1>1, <1>4 DEF m
  <2>2. left \in Seq(Int) /\ new \in Seq(Int) BY <1>1, <1>4
  <2>3. /\ left \o new \in Seq(Int) /\ Len(left \o new) = Len(left) + Len(new)
        /\ \A k \in 1 .. Len(left) : (left \o new)[k] = left[k]
        /\ \A i \in 1 .. Len(new) : (left \o new)[Len(left) + i] = new[i]
    BY <2>2, Joined
  <2> QED BY <2>1, <2>3
<1>6. ASSUME NEW k \in 1 .. Len(z) PROVE z[k] = (left \o new)[k]
  <2>0. Len(z) = m + Len(idx) /\ (\A j \in 1 .. m : z[j] = b[j])
        /\ \A i \in 1 .. Len(idx) : z[m + i] = items[idx[i]]
    BY DEF Splices
  <2>z. Len(z) \in Nat OBVIOUS
  <2>i. \A j \in 1 .. m : left[j] = b[j] BY <1>1
  <2> HIDE DEF m
  <2>1. CASE k <= m
    <3>1. k \in 1 .. m BY <2>1, <2>z, <1>m
    <3> QED BY <3>1, <2>0, <2>i, <1>5
  <2>2. CASE k > m
    <3> DEFINE i == k - m
    <3>1. i \in 1 .. Len(idx) /\ k = m + i BY <1>m, <1>0, <2>0, <2>2
    <3> HIDE DEF i
    <3>2. z[m + i] = items[idx[i]] BY <3>1, <2>0
    <3>3. (left \o new)[m + i] = new[i] BY <3>1, <1>5
    <3> QED BY <3>1, <3>2, <3>3, <1>4
  <2>3. k \in Int /\ m \in Int BY <2>z, <1>m
  <2>4. k <= m \/ k > m BY <2>3
  <2> QED BY <2>1, <2>2, <2>4
<1>7. z = left \o new BY <1>5, <1>6, SameItems DEF Splices
<1> QED BY <1>7 DEF left, new

\* The items that a word takes from both stacks, one by one.
LEMMA ItemsAre ==
  ASSUME NEW d \in Seq(Int), NEW q \in Seq(Int), NEW n \in 0 .. Len(d), NEW m \in 0 .. Len(q)
  PROVE  LET items == LastOf(d, n) \o LastOf(q, m)
         IN /\ items \in Seq(Int) /\ Len(items) = n + m
            /\ \A k \in 1 .. n : items[k] = d[Len(d) - n + k]
            /\ \A k \in 1 .. m : items[n + k] = q[Len(q) - m + k]
<1>1. LastOf(d, n) \in Seq(Int) /\ Len(LastOf(d, n)) = n
      /\ \A k \in 1 .. n : LastOf(d, n)[k] = d[Len(d) - n + k]
  BY NumberParts
<1>2. LastOf(q, m) \in Seq(Int) /\ Len(LastOf(q, m)) = m
      /\ \A k \in 1 .. m : LastOf(q, m)[k] = q[Len(q) - m + k]
  BY NumberParts
<1> DEFINE x == LastOf(d, n)
           y == LastOf(q, m)
<1>3. x \in Seq(Int) /\ y \in Seq(Int) /\ Len(x) = n /\ Len(y) = m BY <1>1, <1>2
<1>4. /\ x \o y \in Seq(Int) /\ Len(x \o y) = Len(x) + Len(y)
      /\ \A k \in 1 .. Len(x) : (x \o y)[k] = x[k]
      /\ \A i \in 1 .. Len(y) : (x \o y)[Len(x) + i] = y[i]
  BY <1>3, Joined
<1> QED BY <1>1, <1>2, <1>3, <1>4

\* Item j of the n and the m that a word takes from the two stacks.
Item(n, m, j) == IF j <= n THEN Cell(s, sp, tos, sp - n + j) ELSE r[rp - m + j - n]

\* The values z leave all but n and m items of the stacks alone.
Kept(z, n, m) ==
  /\ \A k \in 1 .. sp - n : Cell(z.s, z.sp, z.tos, k) = Cell(s, sp, tos, k)
  /\ \A k \in 1 .. rp - m : z.r[k] = r[k]

\* The values z are the effect e, item by item.
HasEffect(z, e) ==
  /\ z.sp = sp - e[1] + Len(e[3]) /\ z.rp = rp - e[2] + Len(e[4])
  /\ Kept(z, e[1], e[2])
  /\ \A k \in 1 .. Len(e[3]) : Cell(z.s, z.sp, z.tos, sp - e[1] + k) = Item(e[1], e[2], e[3][k])
  /\ \A k \in 1 .. Len(e[4]) : z.r[rp - e[2] + k] = Item(e[1], e[2], e[4][k])

\* The words have their effects item by item.
LEMMA MoversMove ==
  ASSUME StackTyped, NEW w \in StackMovers, Effects[w][1] <= sp, Effects[w][2] <= rp,
         StackWord(w, 0).sp <= MaxDepth, StackWord(w, 0).rp <= MaxReturn
  PROVE  WellTyped(StackWord(w, 0)) /\ HasEffect(StackWord(w, 0), Effects[w])
<1> DEFINE z == StackWord(w, 0)
<1>0. MaxDepth \in Nat /\ MaxReturn \in Nat BY StackAssumption
<1>b. z.sp <= MaxDepth /\ z.rp <= MaxReturn OBVIOUS
<1>e. Effects[w][1] <= sp /\ Effects[w][2] <= rp OBVIOUS
<1> HIDE DEF z
<1>N. MaxDepth + 1 \in Nat /\ MaxReturn \in Nat BY <1>0
<1>n. /\ MaxDepth \in Int /\ 0 <= MaxDepth /\ MaxReturn \in Int /\ 0 <= MaxReturn
      /\ sp \in Int /\ 0 <= sp /\ sp <= MaxDepth /\ rp \in Int /\ 0 <= rp /\ rp <= MaxReturn
  BY <1>0 DEF StackTyped
<1>s. s \in [1 .. MaxDepth + 1 -> Int] /\ r \in [1 .. MaxReturn -> Int] /\ tos \in Int
  BY DEF StackTyped
<1>1. CASE w = "dup"
  <2>1. Effects[w] = <<1, 0, <<1, 1>>, <<>>>> BY <1>1 DEF Effects, Described, StackMovers
  <2>2. /\ z.s = Pushed
        /\ z.sp = sp + 1 /\ z.tos = tos
        /\ z.r = r /\ z.rp = rp
    BY <1>1 DEF z, StackWord, Data, Both
  <2>f. sp + 1 <= MaxDepth /\ rp <= MaxReturn BY <1>b, <2>2
  <2>b. 1 <= sp /\ 0 <= rp BY <2>1, <1>e
  <2>8. /\ z.s \in [1 .. MaxDepth + 1 -> Int]
        /\ \A k \in 1 .. MaxDepth + 1 :
             z.s[k] = IF k = sp + 1 THEN tos ELSE s[k]
    <3>1. sp + 1 \in 1 .. MaxDepth + 1 /\ tos \in Int BY <1>n, <1>s, <2>b, <2>f
    <3> DEFINE a == Set(s, sp + 1, tos)
    <3>4. /\ a \in [1 .. MaxDepth + 1 -> Int]
          /\ \A k \in 1 .. MaxDepth + 1 : a[k] = IF k = sp + 1 THEN tos ELSE s[k]
      BY <1>N, <1>n, <1>s, <3>1 DEF Set
    <3>5. z.s = a BY <2>2 DEF Pushed
    <3> HIDE DEF a
    <3> QED BY <3>4, <3>5
  <2>9. z.r \in [1 .. MaxReturn -> Int] BY <1>s, <2>2
  <2>10. z.tos \in Int BY <1>n, <1>b, <1>s, <2>b, <2>2 DEF Pushed, Set
  <2>12. z.sp \in 0 .. MaxDepth /\ z.rp \in 0 .. MaxReturn BY <1>n, <1>b, <2>b, <2>2
  <2>3. WellTyped(z) BY <2>8, <2>9, <2>10, <2>12 DEF WellTyped
  <2>4. /\ Cell(z.s, z.sp, z.tos, sp - 1 + 1) = Item(1, 0, 1)
        /\ Cell(z.s, z.sp, z.tos, sp - 1 + 2) = Item(1, 0, 1)
    BY <1>n, <1>b, <1>s, <2>b, <2>2 DEF Cell, Item, Set, Pushed
  <2>c. ASSUME NEW k \in 1 .. sp - 1 PROVE Cell(z.s, z.sp, z.tos, k) = Cell(s, sp, tos, k)
    <3>1. k \in Int /\ 1 <= k /\ k <= sp - 1 BY <1>n
    <3>2. k + 1 \in 1 .. MaxDepth + 1 BY <1>n, <3>1, <2>b
    <3>i. k + 1 # sp + 1 BY <1>n, <3>1
    <3>3. k # z.sp => z.s[k + 1] = s[k + 1] BY <1>n, <2>b, <2>2, <2>8, <3>1, <3>2, <3>i
    <3> QED BY <1>n, <2>b, <2>2, <3>1, <3>3 DEF Cell
  <2>d. \A k \in 1 .. rp - 0 : z.r[k] = r[k] BY <2>2
  <2>6. Kept(z, 1, 0) BY <2>c, <2>d DEF Kept
  <2>7. z.sp = sp + 1 /\ z.rp = rp BY <2>2
  <2>11. HasEffect(z, <<1, 0, <<1, 1>>, <<>>>>)
    <3>1. \A k \in 1 .. Len(<<1, 1>>) : k = 1 \/ k = 2 OBVIOUS
    <3>2. \A k \in 1 .. Len(<<1, 1>>) : Cell(z.s, z.sp, z.tos, sp - 1 + k) = Item(1, 0, <<1, 1>>[k])
      BY <3>1, <2>4
    <3>5. z.sp = sp - 1 + 2 /\ z.rp = rp - 0 + 0 BY <1>n, <2>7
    <3>6. Len(<<1, 1>>) = 2 /\ Len(<<>>) = 0 OBVIOUS
    <3> QED BY <3>2, <3>5, <3>6, <2>6 DEF HasEffect
  <2> QED BY <2>1, <2>3, <2>11 DEF z
<1>2. CASE w = "drop"
  <2>1. Effects[w] = <<1, 0, <<>>, <<>>>> BY <1>2 DEF Effects, Described, StackMovers
  <2>2. /\ z.s = s
        /\ z.sp = sp - 1 /\ z.tos = s[sp]
        /\ z.r = r /\ z.rp = rp
    BY <1>2 DEF z, StackWord, Data, Both
  <2>f. sp - 1 <= MaxDepth /\ rp <= MaxReturn BY <1>b, <2>2
  <2>b. 1 <= sp /\ 0 <= rp BY <2>1, <1>e
  <2>8. z.s \in [1 .. MaxDepth + 1 -> Int] BY <1>s, <2>2
  <2>9. z.r \in [1 .. MaxReturn -> Int] BY <1>s, <2>2
  <2>10. z.tos \in Int BY <1>n, <1>b, <1>s, <2>b, <2>2 DEF Pushed, Set
  <2>12. z.sp \in 0 .. MaxDepth /\ z.rp \in 0 .. MaxReturn BY <1>n, <1>b, <2>b, <2>2
  <2>3. WellTyped(z) BY <2>8, <2>9, <2>10, <2>12 DEF WellTyped
  <2>c. ASSUME NEW k \in 1 .. sp - 1 PROVE Cell(z.s, z.sp, z.tos, k) = Cell(s, sp, tos, k)
    <3>1. k \in Int /\ 1 <= k /\ k <= sp - 1 BY <1>n
    <3>2. k + 1 \in 1 .. MaxDepth + 1 BY <1>n, <3>1, <2>b
    <3>3. k # z.sp => z.s[k + 1] = s[k + 1] BY <1>n, <2>b, <2>2, <2>8, <3>1, <3>2
    <3> QED BY <1>n, <2>b, <2>2, <3>1, <3>3 DEF Cell
  <2>d. \A k \in 1 .. rp - 0 : z.r[k] = r[k] BY <2>2
  <2>6. Kept(z, 1, 0) BY <2>c, <2>d DEF Kept
  <2>7. z.sp = sp - 1 /\ z.rp = rp BY <2>2
  <2>11. HasEffect(z, <<1, 0, <<>>, <<>>>>)
    <3>5. z.sp = sp - 1 + 0 /\ z.rp = rp - 0 + 0 BY <1>n, <2>7
    <3>6. Len(<<>>) = 0 /\ Len(<<>>) = 0 OBVIOUS
    <3> QED BY <3>5, <3>6, <2>6 DEF HasEffect
  <2> QED BY <2>1, <2>3, <2>11 DEF z
<1>3. CASE w = "swap"
  <2>1. Effects[w] = <<2, 0, <<2, 1>>, <<>>>> BY <1>3 DEF Effects, Described, StackMovers
  <2>2. /\ z.s = Set(s, sp, tos)
        /\ z.sp = sp /\ z.tos = s[sp]
        /\ z.r = r /\ z.rp = rp
    BY <1>3 DEF z, StackWord, Data, Both
  <2>f. sp <= MaxDepth /\ rp <= MaxReturn BY <1>b, <2>2
  <2>b. 2 <= sp /\ 0 <= rp BY <2>1, <1>e
  <2>8. /\ z.s \in [1 .. MaxDepth + 1 -> Int]
        /\ \A k \in 1 .. MaxDepth + 1 :
             z.s[k] = IF k = sp THEN tos ELSE s[k]
    <3>1. sp \in 1 .. MaxDepth + 1 /\ tos \in Int BY <1>n, <1>s, <2>b, <2>f
    <3> DEFINE a == Set(s, sp, tos)
    <3>4. /\ a \in [1 .. MaxDepth + 1 -> Int]
          /\ \A k \in 1 .. MaxDepth + 1 : a[k] = IF k = sp THEN tos ELSE s[k]
      BY <1>N, <1>n, <1>s, <3>1 DEF Set
    <3>5. z.s = a BY <2>2 DEF Pushed
    <3> HIDE DEF a
    <3> QED BY <3>4, <3>5
  <2>9. z.r \in [1 .. MaxReturn -> Int] BY <1>s, <2>2
  <2>10. z.tos \in Int BY <1>n, <1>b, <1>s, <2>b, <2>2 DEF Pushed, Set
  <2>12. z.sp \in 0 .. MaxDepth /\ z.rp \in 0 .. MaxReturn BY <1>n, <1>b, <2>b, <2>2
  <2>3. WellTyped(z) BY <2>8, <2>9, <2>10, <2>12 DEF WellTyped
  <2>4. /\ Cell(z.s, z.sp, z.tos, sp - 2 + 1) = Item(2, 0, 2)
        /\ Cell(z.s, z.sp, z.tos, sp - 2 + 2) = Item(2, 0, 1)
    BY <1>n, <1>b, <1>s, <2>b, <2>2 DEF Cell, Item, Set, Pushed
  <2>c. ASSUME NEW k \in 1 .. sp - 2 PROVE Cell(z.s, z.sp, z.tos, k) = Cell(s, sp, tos, k)
    <3>1. k \in Int /\ 1 <= k /\ k <= sp - 2 BY <1>n
    <3>2. k + 1 \in 1 .. MaxDepth + 1 BY <1>n, <3>1, <2>b
    <3>i. k + 1 # sp BY <1>n, <3>1
    <3>3. k # z.sp => z.s[k + 1] = s[k + 1] BY <1>n, <2>b, <2>2, <2>8, <3>1, <3>2, <3>i
    <3> QED BY <1>n, <2>b, <2>2, <3>1, <3>3 DEF Cell
  <2>d. \A k \in 1 .. rp - 0 : z.r[k] = r[k] BY <2>2
  <2>6. Kept(z, 2, 0) BY <2>c, <2>d DEF Kept
  <2>7. z.sp = sp /\ z.rp = rp BY <2>2
  <2>11. HasEffect(z, <<2, 0, <<2, 1>>, <<>>>>)
    <3>1. \A k \in 1 .. Len(<<2, 1>>) : k = 1 \/ k = 2 OBVIOUS
    <3>2. \A k \in 1 .. Len(<<2, 1>>) : Cell(z.s, z.sp, z.tos, sp - 2 + k) = Item(2, 0, <<2, 1>>[k])
      BY <3>1, <2>4
    <3>5. z.sp = sp - 2 + 2 /\ z.rp = rp - 0 + 0 BY <1>n, <2>7
    <3>6. Len(<<2, 1>>) = 2 /\ Len(<<>>) = 0 OBVIOUS
    <3> QED BY <3>2, <3>5, <3>6, <2>6 DEF HasEffect
  <2> QED BY <2>1, <2>3, <2>11 DEF z
<1>4. CASE w = "over"
  <2>1. Effects[w] = <<2, 0, <<1, 2, 1>>, <<>>>> BY <1>4 DEF Effects, Described, StackMovers
  <2>2. /\ z.s = Pushed
        /\ z.sp = sp + 1 /\ z.tos = s[sp]
        /\ z.r = r /\ z.rp = rp
    BY <1>4 DEF z, StackWord, Data, Both
  <2>f. sp + 1 <= MaxDepth /\ rp <= MaxReturn BY <1>b, <2>2
  <2>b. 2 <= sp /\ 0 <= rp BY <2>1, <1>e
  <2>8. /\ z.s \in [1 .. MaxDepth + 1 -> Int]
        /\ \A k \in 1 .. MaxDepth + 1 :
             z.s[k] = IF k = sp + 1 THEN tos ELSE s[k]
    <3>1. sp + 1 \in 1 .. MaxDepth + 1 /\ tos \in Int BY <1>n, <1>s, <2>b, <2>f
    <3> DEFINE a == Set(s, sp + 1, tos)
    <3>4. /\ a \in [1 .. MaxDepth + 1 -> Int]
          /\ \A k \in 1 .. MaxDepth + 1 : a[k] = IF k = sp + 1 THEN tos ELSE s[k]
      BY <1>N, <1>n, <1>s, <3>1 DEF Set
    <3>5. z.s = a BY <2>2 DEF Pushed
    <3> HIDE DEF a
    <3> QED BY <3>4, <3>5
  <2>9. z.r \in [1 .. MaxReturn -> Int] BY <1>s, <2>2
  <2>10. z.tos \in Int BY <1>n, <1>b, <1>s, <2>b, <2>2 DEF Pushed, Set
  <2>12. z.sp \in 0 .. MaxDepth /\ z.rp \in 0 .. MaxReturn BY <1>n, <1>b, <2>b, <2>2
  <2>3. WellTyped(z) BY <2>8, <2>9, <2>10, <2>12 DEF WellTyped
  <2>4. /\ Cell(z.s, z.sp, z.tos, sp - 2 + 1) = Item(2, 0, 1)
        /\ Cell(z.s, z.sp, z.tos, sp - 2 + 2) = Item(2, 0, 2)
        /\ Cell(z.s, z.sp, z.tos, sp - 2 + 3) = Item(2, 0, 1)
    <3>1. Cell(z.s, z.sp, z.tos, sp - 2 + 1) = Item(2, 0, 1)
      BY <1>n, <1>b, <1>s, <2>b, <2>2 DEF Cell, Item, Set, Pushed
    <3>2. Cell(z.s, z.sp, z.tos, sp - 2 + 2) = Item(2, 0, 2)
      BY <1>n, <1>b, <1>s, <2>b, <2>2 DEF Cell, Item, Set, Pushed
    <3>3. Cell(z.s, z.sp, z.tos, sp - 2 + 3) = Item(2, 0, 1)
      BY <1>n, <1>b, <1>s, <2>b, <2>2 DEF Cell, Item, Set, Pushed
    <3> QED BY <3>1, <3>2, <3>3
  <2>c. ASSUME NEW k \in 1 .. sp - 2 PROVE Cell(z.s, z.sp, z.tos, k) = Cell(s, sp, tos, k)
    <3>1. k \in Int /\ 1 <= k /\ k <= sp - 2 BY <1>n
    <3>2. k + 1 \in 1 .. MaxDepth + 1 BY <1>n, <3>1, <2>b
    <3>i. k + 1 # sp + 1 BY <1>n, <3>1
    <3>3. k # z.sp => z.s[k + 1] = s[k + 1] BY <1>n, <2>b, <2>2, <2>8, <3>1, <3>2, <3>i
    <3> QED BY <1>n, <2>b, <2>2, <3>1, <3>3 DEF Cell
  <2>d. \A k \in 1 .. rp - 0 : z.r[k] = r[k] BY <2>2
  <2>6. Kept(z, 2, 0) BY <2>c, <2>d DEF Kept
  <2>7. z.sp = sp + 1 /\ z.rp = rp BY <2>2
  <2>11. HasEffect(z, <<2, 0, <<1, 2, 1>>, <<>>>>)
    <3>1. \A k \in 1 .. Len(<<1, 2, 1>>) : k = 1 \/ k = 2 \/ k = 3 OBVIOUS
    <3>2. \A k \in 1 .. Len(<<1, 2, 1>>) :
               Cell(z.s, z.sp, z.tos, sp - 2 + k) = Item(2, 0, <<1, 2, 1>>[k])
      BY <3>1, <2>4
    <3>5. z.sp = sp - 2 + 3 /\ z.rp = rp - 0 + 0 BY <1>n, <2>7
    <3>6. Len(<<1, 2, 1>>) = 3 /\ Len(<<>>) = 0 OBVIOUS
    <3> QED BY <3>2, <3>5, <3>6, <2>6 DEF HasEffect
  <2> QED BY <2>1, <2>3, <2>11 DEF z
<1>5. CASE w = "rot"
  <2>1. Effects[w] = <<3, 0, <<2, 3, 1>>, <<>>>> BY <1>5 DEF Effects, Described, StackMovers
  <2>2. /\ z.s = Set(Set(s, sp, tos), sp - 1, s[sp])
        /\ z.sp = sp /\ z.tos = s[sp - 1]
        /\ z.r = r /\ z.rp = rp
    BY <1>5 DEF z, StackWord, Data, Both
  <2>f. sp <= MaxDepth /\ rp <= MaxReturn BY <1>b, <2>2
  <2>b. 3 <= sp /\ 0 <= rp BY <2>1, <1>e
  <2>8. /\ z.s \in [1 .. MaxDepth + 1 -> Int]
        /\ \A k \in 1 .. MaxDepth + 1 :
             z.s[k] = IF k = sp - 1 THEN s[sp] ELSE IF k = sp THEN tos ELSE s[k]
    <3>1. sp - 1 \in 1 .. MaxDepth + 1 /\ s[sp] \in Int BY <1>n, <1>s, <2>b, <2>f
    <3>2. sp \in 1 .. MaxDepth + 1 /\ tos \in Int BY <1>n, <1>s, <2>b, <2>f
    <3> DEFINE a == Set(Set(s, sp, tos), sp - 1, s[sp])
    <3>4. /\ a \in [1 .. MaxDepth + 1 -> Int]
          /\ \A k \in 1 .. MaxDepth + 1 :
                     a[k] = IF k = sp - 1 THEN s[sp] ELSE IF k = sp THEN tos ELSE s[k]
      BY <1>N, <1>n, <1>s, <3>1, <3>2 DEF Set
    <3>5. z.s = a BY <2>2 DEF Pushed
    <3> HIDE DEF a
    <3> QED BY <3>4, <3>5
  <2>9. z.r \in [1 .. MaxReturn -> Int] BY <1>s, <2>2
  <2>10. z.tos \in Int BY <1>n, <1>b, <1>s, <2>b, <2>2 DEF Pushed, Set
  <2>12. z.sp \in 0 .. MaxDepth /\ z.rp \in 0 .. MaxReturn BY <1>n, <1>b, <2>b, <2>2
  <2>3. WellTyped(z) BY <2>8, <2>9, <2>10, <2>12 DEF WellTyped
  <2>4. /\ Cell(z.s, z.sp, z.tos, sp - 3 + 1) = Item(3, 0, 2)
        /\ Cell(z.s, z.sp, z.tos, sp - 3 + 2) = Item(3, 0, 3)
        /\ Cell(z.s, z.sp, z.tos, sp - 3 + 3) = Item(3, 0, 1)
    <3>1. Cell(z.s, z.sp, z.tos, sp - 3 + 1) = Item(3, 0, 2)
      BY <1>n, <1>b, <1>s, <2>b, <2>2 DEF Cell, Item, Set, Pushed
    <3>2. Cell(z.s, z.sp, z.tos, sp - 3 + 2) = Item(3, 0, 3)
      BY <1>n, <1>b, <1>s, <2>b, <2>2 DEF Cell, Item, Set, Pushed
    <3>3. Cell(z.s, z.sp, z.tos, sp - 3 + 3) = Item(3, 0, 1)
      BY <1>n, <1>b, <1>s, <2>b, <2>2 DEF Cell, Item, Set, Pushed
    <3> QED BY <3>1, <3>2, <3>3
  <2>c. ASSUME NEW k \in 1 .. sp - 3 PROVE Cell(z.s, z.sp, z.tos, k) = Cell(s, sp, tos, k)
    <3>1. k \in Int /\ 1 <= k /\ k <= sp - 3 BY <1>n
    <3>2. k + 1 \in 1 .. MaxDepth + 1 BY <1>n, <3>1, <2>b
    <3>i. k + 1 # sp - 1 /\ k + 1 # sp BY <1>n, <3>1
    <3>3. k # z.sp => z.s[k + 1] = s[k + 1] BY <1>n, <2>b, <2>2, <2>8, <3>1, <3>2, <3>i
    <3> QED BY <1>n, <2>b, <2>2, <3>1, <3>3 DEF Cell
  <2>d. \A k \in 1 .. rp - 0 : z.r[k] = r[k] BY <2>2
  <2>6. Kept(z, 3, 0) BY <2>c, <2>d DEF Kept
  <2>7. z.sp = sp /\ z.rp = rp BY <2>2
  <2>11. HasEffect(z, <<3, 0, <<2, 3, 1>>, <<>>>>)
    <3>1. \A k \in 1 .. Len(<<2, 3, 1>>) : k = 1 \/ k = 2 \/ k = 3 OBVIOUS
    <3>2. \A k \in 1 .. Len(<<2, 3, 1>>) :
               Cell(z.s, z.sp, z.tos, sp - 3 + k) = Item(3, 0, <<2, 3, 1>>[k])
      BY <3>1, <2>4
    <3>5. z.sp = sp - 3 + 3 /\ z.rp = rp - 0 + 0 BY <1>n, <2>7
    <3>6. Len(<<2, 3, 1>>) = 3 /\ Len(<<>>) = 0 OBVIOUS
    <3> QED BY <3>2, <3>5, <3>6, <2>6 DEF HasEffect
  <2> QED BY <2>1, <2>3, <2>11 DEF z
<1>6. CASE w = "-rot"
  <2>1. Effects[w] = <<3, 0, <<3, 1, 2>>, <<>>>> BY <1>6 DEF Effects, Described, StackMovers
  <2>2. /\ z.s = Set(Set(s, sp - 1, tos), sp, s[sp - 1])
        /\ z.sp = sp /\ z.tos = s[sp]
        /\ z.r = r /\ z.rp = rp
    BY <1>6 DEF z, StackWord, Data, Both, Rotated
  <2>f. sp <= MaxDepth /\ rp <= MaxReturn BY <1>b, <2>2
  <2>b. 3 <= sp /\ 0 <= rp BY <2>1, <1>e
  <2>8. /\ z.s \in [1 .. MaxDepth + 1 -> Int]
        /\ \A k \in 1 .. MaxDepth + 1 :
             z.s[k] = IF k = sp THEN s[sp - 1] ELSE IF k = sp - 1 THEN tos ELSE s[k]
    <3>1. sp \in 1 .. MaxDepth + 1 /\ s[sp - 1] \in Int BY <1>n, <1>s, <2>b, <2>f
    <3>2. sp - 1 \in 1 .. MaxDepth + 1 /\ tos \in Int BY <1>n, <1>s, <2>b, <2>f
    <3> DEFINE a == Set(Set(s, sp - 1, tos), sp, s[sp - 1])
    <3>4. /\ a \in [1 .. MaxDepth + 1 -> Int]
          /\ \A k \in 1 .. MaxDepth + 1 :
                     a[k] = IF k = sp THEN s[sp - 1] ELSE IF k = sp - 1 THEN tos ELSE s[k]
      BY <1>N, <1>n, <1>s, <3>1, <3>2 DEF Set
    <3>5. z.s = a BY <2>2 DEF Pushed
    <3> HIDE DEF a
    <3> QED BY <3>4, <3>5
  <2>9. z.r \in [1 .. MaxReturn -> Int] BY <1>s, <2>2
  <2>10. z.tos \in Int BY <1>n, <1>b, <1>s, <2>b, <2>2 DEF Pushed, Set
  <2>12. z.sp \in 0 .. MaxDepth /\ z.rp \in 0 .. MaxReturn BY <1>n, <1>b, <2>b, <2>2
  <2>3. WellTyped(z) BY <2>8, <2>9, <2>10, <2>12 DEF WellTyped
  <2>4. /\ Cell(z.s, z.sp, z.tos, sp - 3 + 1) = Item(3, 0, 3)
        /\ Cell(z.s, z.sp, z.tos, sp - 3 + 2) = Item(3, 0, 1)
        /\ Cell(z.s, z.sp, z.tos, sp - 3 + 3) = Item(3, 0, 2)
    <3>1. Cell(z.s, z.sp, z.tos, sp - 3 + 1) = Item(3, 0, 3)
      BY <1>n, <1>b, <1>s, <2>b, <2>2 DEF Cell, Item, Set, Pushed
    <3>2. Cell(z.s, z.sp, z.tos, sp - 3 + 2) = Item(3, 0, 1)
      BY <1>n, <1>b, <1>s, <2>b, <2>2 DEF Cell, Item, Set, Pushed
    <3>3. Cell(z.s, z.sp, z.tos, sp - 3 + 3) = Item(3, 0, 2)
      BY <1>n, <1>b, <1>s, <2>b, <2>2 DEF Cell, Item, Set, Pushed
    <3> QED BY <3>1, <3>2, <3>3
  <2>c. ASSUME NEW k \in 1 .. sp - 3 PROVE Cell(z.s, z.sp, z.tos, k) = Cell(s, sp, tos, k)
    <3>1. k \in Int /\ 1 <= k /\ k <= sp - 3 BY <1>n
    <3>2. k + 1 \in 1 .. MaxDepth + 1 BY <1>n, <3>1, <2>b
    <3>i. k + 1 # sp /\ k + 1 # sp - 1 BY <1>n, <3>1
    <3>3. k # z.sp => z.s[k + 1] = s[k + 1] BY <1>n, <2>b, <2>2, <2>8, <3>1, <3>2, <3>i
    <3> QED BY <1>n, <2>b, <2>2, <3>1, <3>3 DEF Cell
  <2>d. \A k \in 1 .. rp - 0 : z.r[k] = r[k] BY <2>2
  <2>6. Kept(z, 3, 0) BY <2>c, <2>d DEF Kept
  <2>7. z.sp = sp /\ z.rp = rp BY <2>2
  <2>11. HasEffect(z, <<3, 0, <<3, 1, 2>>, <<>>>>)
    <3>1. \A k \in 1 .. Len(<<3, 1, 2>>) : k = 1 \/ k = 2 \/ k = 3 OBVIOUS
    <3>2. \A k \in 1 .. Len(<<3, 1, 2>>) :
               Cell(z.s, z.sp, z.tos, sp - 3 + k) = Item(3, 0, <<3, 1, 2>>[k])
      BY <3>1, <2>4
    <3>5. z.sp = sp - 3 + 3 /\ z.rp = rp - 0 + 0 BY <1>n, <2>7
    <3>6. Len(<<3, 1, 2>>) = 3 /\ Len(<<>>) = 0 OBVIOUS
    <3> QED BY <3>2, <3>5, <3>6, <2>6 DEF HasEffect
  <2> QED BY <2>1, <2>3, <2>11 DEF z
<1>7. CASE w = "tuck"
  <2>1. Effects[w] = <<2, 0, <<2, 1, 2>>, <<>>>> BY <1>7 DEF Effects, Described, StackMovers
  <2>2. /\ z.s = Set(Set(s, sp, tos), sp + 1, s[sp])
        /\ z.sp = sp + 1 /\ z.tos = tos
        /\ z.r = r /\ z.rp = rp
    BY <1>7 DEF z, StackWord, Data, Both
  <2>f. sp + 1 <= MaxDepth /\ rp <= MaxReturn BY <1>b, <2>2
  <2>b. 2 <= sp /\ 0 <= rp BY <2>1, <1>e
  <2>8. /\ z.s \in [1 .. MaxDepth + 1 -> Int]
        /\ \A k \in 1 .. MaxDepth + 1 :
             z.s[k] = IF k = sp + 1 THEN s[sp] ELSE IF k = sp THEN tos ELSE s[k]
    <3>1. sp + 1 \in 1 .. MaxDepth + 1 /\ s[sp] \in Int BY <1>n, <1>s, <2>b, <2>f
    <3>2. sp \in 1 .. MaxDepth + 1 /\ tos \in Int BY <1>n, <1>s, <2>b, <2>f
    <3> DEFINE a == Set(Set(s, sp, tos), sp + 1, s[sp])
    <3>4. /\ a \in [1 .. MaxDepth + 1 -> Int]
          /\ \A k \in 1 .. MaxDepth + 1 :
                     a[k] = IF k = sp + 1 THEN s[sp] ELSE IF k = sp THEN tos ELSE s[k]
      BY <1>N, <1>n, <1>s, <3>1, <3>2 DEF Set
    <3>5. z.s = a BY <2>2 DEF Pushed
    <3> HIDE DEF a
    <3> QED BY <3>4, <3>5
  <2>9. z.r \in [1 .. MaxReturn -> Int] BY <1>s, <2>2
  <2>10. z.tos \in Int BY <1>n, <1>b, <1>s, <2>b, <2>2 DEF Pushed, Set
  <2>12. z.sp \in 0 .. MaxDepth /\ z.rp \in 0 .. MaxReturn BY <1>n, <1>b, <2>b, <2>2
  <2>3. WellTyped(z) BY <2>8, <2>9, <2>10, <2>12 DEF WellTyped
  <2>4. /\ Cell(z.s, z.sp, z.tos, sp - 2 + 1) = Item(2, 0, 2)
        /\ Cell(z.s, z.sp, z.tos, sp - 2 + 2) = Item(2, 0, 1)
        /\ Cell(z.s, z.sp, z.tos, sp - 2 + 3) = Item(2, 0, 2)
    <3>1. Cell(z.s, z.sp, z.tos, sp - 2 + 1) = Item(2, 0, 2)
      BY <1>n, <1>b, <1>s, <2>b, <2>2 DEF Cell, Item, Set, Pushed
    <3>2. Cell(z.s, z.sp, z.tos, sp - 2 + 2) = Item(2, 0, 1)
      BY <1>n, <1>b, <1>s, <2>b, <2>2 DEF Cell, Item, Set, Pushed
    <3>3. Cell(z.s, z.sp, z.tos, sp - 2 + 3) = Item(2, 0, 2)
      BY <1>n, <1>b, <1>s, <2>b, <2>2 DEF Cell, Item, Set, Pushed
    <3> QED BY <3>1, <3>2, <3>3
  <2>c. ASSUME NEW k \in 1 .. sp - 2 PROVE Cell(z.s, z.sp, z.tos, k) = Cell(s, sp, tos, k)
    <3>1. k \in Int /\ 1 <= k /\ k <= sp - 2 BY <1>n
    <3>2. k + 1 \in 1 .. MaxDepth + 1 BY <1>n, <3>1, <2>b
    <3>i. k + 1 # sp + 1 /\ k + 1 # sp BY <1>n, <3>1
    <3>3. k # z.sp => z.s[k + 1] = s[k + 1] BY <1>n, <2>b, <2>2, <2>8, <3>1, <3>2, <3>i
    <3> QED BY <1>n, <2>b, <2>2, <3>1, <3>3 DEF Cell
  <2>d. \A k \in 1 .. rp - 0 : z.r[k] = r[k] BY <2>2
  <2>6. Kept(z, 2, 0) BY <2>c, <2>d DEF Kept
  <2>7. z.sp = sp + 1 /\ z.rp = rp BY <2>2
  <2>11. HasEffect(z, <<2, 0, <<2, 1, 2>>, <<>>>>)
    <3>1. \A k \in 1 .. Len(<<2, 1, 2>>) : k = 1 \/ k = 2 \/ k = 3 OBVIOUS
    <3>2. \A k \in 1 .. Len(<<2, 1, 2>>) :
               Cell(z.s, z.sp, z.tos, sp - 2 + k) = Item(2, 0, <<2, 1, 2>>[k])
      BY <3>1, <2>4
    <3>5. z.sp = sp - 2 + 3 /\ z.rp = rp - 0 + 0 BY <1>n, <2>7
    <3>6. Len(<<2, 1, 2>>) = 3 /\ Len(<<>>) = 0 OBVIOUS
    <3> QED BY <3>2, <3>5, <3>6, <2>6 DEF HasEffect
  <2> QED BY <2>1, <2>3, <2>11 DEF z
<1>8. CASE w = "nip"
  <2>1. Effects[w] = <<2, 0, <<2>>, <<>>>> BY <1>8 DEF Effects, Described, StackMovers
  <2>2. /\ z.s = s
        /\ z.sp = sp - 1 /\ z.tos = tos
        /\ z.r = r /\ z.rp = rp
    BY <1>8 DEF z, StackWord, Data, Both
  <2>f. sp - 1 <= MaxDepth /\ rp <= MaxReturn BY <1>b, <2>2
  <2>b. 2 <= sp /\ 0 <= rp BY <2>1, <1>e
  <2>8. z.s \in [1 .. MaxDepth + 1 -> Int] BY <1>s, <2>2
  <2>9. z.r \in [1 .. MaxReturn -> Int] BY <1>s, <2>2
  <2>10. z.tos \in Int BY <1>n, <1>b, <1>s, <2>b, <2>2 DEF Pushed, Set
  <2>12. z.sp \in 0 .. MaxDepth /\ z.rp \in 0 .. MaxReturn BY <1>n, <1>b, <2>b, <2>2
  <2>3. WellTyped(z) BY <2>8, <2>9, <2>10, <2>12 DEF WellTyped
  <2>4. /\ Cell(z.s, z.sp, z.tos, sp - 2 + 1) = Item(2, 0, 2)
    BY <1>n, <1>b, <1>s, <2>b, <2>2 DEF Cell, Item, Set, Pushed
  <2>c. ASSUME NEW k \in 1 .. sp - 2 PROVE Cell(z.s, z.sp, z.tos, k) = Cell(s, sp, tos, k)
    <3>1. k \in Int /\ 1 <= k /\ k <= sp - 2 BY <1>n
    <3>2. k + 1 \in 1 .. MaxDepth + 1 BY <1>n, <3>1, <2>b
    <3>3. k # z.sp => z.s[k + 1] = s[k + 1] BY <1>n, <2>b, <2>2, <2>8, <3>1, <3>2
    <3> QED BY <1>n, <2>b, <2>2, <3>1, <3>3 DEF Cell
  <2>d. \A k \in 1 .. rp - 0 : z.r[k] = r[k] BY <2>2
  <2>6. Kept(z, 2, 0) BY <2>c, <2>d DEF Kept
  <2>7. z.sp = sp - 1 /\ z.rp = rp BY <2>2
  <2>11. HasEffect(z, <<2, 0, <<2>>, <<>>>>)
    <3>1. \A k \in 1 .. Len(<<2>>) : k = 1 OBVIOUS
    <3>2. \A k \in 1 .. Len(<<2>>) : Cell(z.s, z.sp, z.tos, sp - 2 + k) = Item(2, 0, <<2>>[k])
      BY <3>1, <2>4
    <3>5. z.sp = sp - 2 + 1 /\ z.rp = rp - 0 + 0 BY <1>n, <2>7
    <3>6. Len(<<2>>) = 1 /\ Len(<<>>) = 0 OBVIOUS
    <3> QED BY <3>2, <3>5, <3>6, <2>6 DEF HasEffect
  <2> QED BY <2>1, <2>3, <2>11 DEF z
<1>9. CASE w = "2dup"
  <2>1. Effects[w] = <<2, 0, <<1, 2, 1, 2>>, <<>>>> BY <1>9 DEF Effects, Described, StackMovers
  <2>2. /\ z.s = Set(Pushed, sp + 2, s[sp])
        /\ z.sp = sp + 2 /\ z.tos = tos
        /\ z.r = r /\ z.rp = rp
    BY <1>9 DEF z, StackWord, Data, Both
  <2>f. sp + 2 <= MaxDepth /\ rp <= MaxReturn BY <1>b, <2>2
  <2>b. 2 <= sp /\ 0 <= rp BY <2>1, <1>e
  <2>8. /\ z.s \in [1 .. MaxDepth + 1 -> Int]
        /\ \A k \in 1 .. MaxDepth + 1 :
             z.s[k] = IF k = sp + 2 THEN s[sp] ELSE IF k = sp + 1 THEN tos ELSE s[k]
    <3>1. sp + 2 \in 1 .. MaxDepth + 1 /\ s[sp] \in Int BY <1>n, <1>s, <2>b, <2>f
    <3>2. sp + 1 \in 1 .. MaxDepth + 1 /\ tos \in Int BY <1>n, <1>s, <2>b, <2>f
    <3> DEFINE a == Set(Set(s, sp + 1, tos), sp + 2, s[sp])
    <3>4. /\ a \in [1 .. MaxDepth + 1 -> Int]
          /\ \A k \in 1 .. MaxDepth + 1 :
                     a[k] = IF k = sp + 2 THEN s[sp] ELSE IF k = sp + 1 THEN tos ELSE s[k]
      BY <1>N, <1>n, <1>s, <3>1, <3>2 DEF Set
    <3>5. z.s = a BY <2>2 DEF Pushed
    <3> HIDE DEF a
    <3> QED BY <3>4, <3>5
  <2>9. z.r \in [1 .. MaxReturn -> Int] BY <1>s, <2>2
  <2>10. z.tos \in Int BY <1>n, <1>b, <1>s, <2>b, <2>2 DEF Pushed, Set
  <2>12. z.sp \in 0 .. MaxDepth /\ z.rp \in 0 .. MaxReturn BY <1>n, <1>b, <2>b, <2>2
  <2>3. WellTyped(z) BY <2>8, <2>9, <2>10, <2>12 DEF WellTyped
  <2>4. /\ Cell(z.s, z.sp, z.tos, sp - 2 + 1) = Item(2, 0, 1)
        /\ Cell(z.s, z.sp, z.tos, sp - 2 + 2) = Item(2, 0, 2)
        /\ Cell(z.s, z.sp, z.tos, sp - 2 + 3) = Item(2, 0, 1)
        /\ Cell(z.s, z.sp, z.tos, sp - 2 + 4) = Item(2, 0, 2)
    <3>1. Cell(z.s, z.sp, z.tos, sp - 2 + 1) = Item(2, 0, 1)
      BY <1>n, <1>b, <1>s, <2>b, <2>2 DEF Cell, Item, Set, Pushed
    <3>2. Cell(z.s, z.sp, z.tos, sp - 2 + 2) = Item(2, 0, 2)
      BY <1>n, <1>b, <1>s, <2>b, <2>2 DEF Cell, Item, Set, Pushed
    <3>3. Cell(z.s, z.sp, z.tos, sp - 2 + 3) = Item(2, 0, 1)
      BY <1>n, <1>b, <1>s, <2>b, <2>2 DEF Cell, Item, Set, Pushed
    <3>4. Cell(z.s, z.sp, z.tos, sp - 2 + 4) = Item(2, 0, 2)
      BY <1>n, <1>b, <1>s, <2>b, <2>2 DEF Cell, Item, Set, Pushed
    <3> QED BY <3>1, <3>2, <3>3, <3>4
  <2>c. ASSUME NEW k \in 1 .. sp - 2 PROVE Cell(z.s, z.sp, z.tos, k) = Cell(s, sp, tos, k)
    <3>1. k \in Int /\ 1 <= k /\ k <= sp - 2 BY <1>n
    <3>2. k + 1 \in 1 .. MaxDepth + 1 BY <1>n, <3>1, <2>b
    <3>i. k + 1 # sp + 2 /\ k + 1 # sp + 1 BY <1>n, <3>1
    <3>3. k # z.sp => z.s[k + 1] = s[k + 1] BY <1>n, <2>b, <2>2, <2>8, <3>1, <3>2, <3>i
    <3> QED BY <1>n, <2>b, <2>2, <3>1, <3>3 DEF Cell
  <2>d. \A k \in 1 .. rp - 0 : z.r[k] = r[k] BY <2>2
  <2>6. Kept(z, 2, 0) BY <2>c, <2>d DEF Kept
  <2>7. z.sp = sp + 2 /\ z.rp = rp BY <2>2
  <2>11. HasEffect(z, <<2, 0, <<1, 2, 1, 2>>, <<>>>>)
    <3>1. \A k \in 1 .. Len(<<1, 2, 1, 2>>) : k = 1 \/ k = 2 \/ k = 3 \/ k = 4 OBVIOUS
    <3>2. \A k \in 1 .. Len(<<1, 2, 1, 2>>) :
               Cell(z.s, z.sp, z.tos, sp - 2 + k) = Item(2, 0, <<1, 2, 1, 2>>[k])
      BY <3>1, <2>4
    <3>5. z.sp = sp - 2 + 4 /\ z.rp = rp - 0 + 0 BY <1>n, <2>7
    <3>6. Len(<<1, 2, 1, 2>>) = 4 /\ Len(<<>>) = 0 OBVIOUS
    <3> QED BY <3>2, <3>5, <3>6, <2>6 DEF HasEffect
  <2> QED BY <2>1, <2>3, <2>11 DEF z
<1>10. CASE w = "2drop"
  <2>1. Effects[w] = <<2, 0, <<>>, <<>>>> BY <1>10 DEF Effects, Described, StackMovers
  <2>2. /\ z.s = s
        /\ z.sp = sp - 2 /\ z.tos = s[sp - 1]
        /\ z.r = r /\ z.rp = rp
    BY <1>10 DEF z, StackWord, Data, Both
  <2>f. sp - 2 <= MaxDepth /\ rp <= MaxReturn BY <1>b, <2>2
  <2>b. 2 <= sp /\ 0 <= rp BY <2>1, <1>e
  <2>8. z.s \in [1 .. MaxDepth + 1 -> Int] BY <1>s, <2>2
  <2>9. z.r \in [1 .. MaxReturn -> Int] BY <1>s, <2>2
  <2>10. z.tos \in Int BY <1>n, <1>b, <1>s, <2>b, <2>2 DEF Pushed, Set
  <2>12. z.sp \in 0 .. MaxDepth /\ z.rp \in 0 .. MaxReturn BY <1>n, <1>b, <2>b, <2>2
  <2>3. WellTyped(z) BY <2>8, <2>9, <2>10, <2>12 DEF WellTyped
  <2>c. ASSUME NEW k \in 1 .. sp - 2 PROVE Cell(z.s, z.sp, z.tos, k) = Cell(s, sp, tos, k)
    <3>1. k \in Int /\ 1 <= k /\ k <= sp - 2 BY <1>n
    <3>2. k + 1 \in 1 .. MaxDepth + 1 BY <1>n, <3>1, <2>b
    <3>3. k # z.sp => z.s[k + 1] = s[k + 1] BY <1>n, <2>b, <2>2, <2>8, <3>1, <3>2
    <3> QED BY <1>n, <2>b, <2>2, <3>1, <3>3 DEF Cell
  <2>d. \A k \in 1 .. rp - 0 : z.r[k] = r[k] BY <2>2
  <2>6. Kept(z, 2, 0) BY <2>c, <2>d DEF Kept
  <2>7. z.sp = sp - 2 /\ z.rp = rp BY <2>2
  <2>11. HasEffect(z, <<2, 0, <<>>, <<>>>>)
    <3>5. z.sp = sp - 2 + 0 /\ z.rp = rp - 0 + 0 BY <1>n, <2>7
    <3>6. Len(<<>>) = 0 /\ Len(<<>>) = 0 OBVIOUS
    <3> QED BY <3>5, <3>6, <2>6 DEF HasEffect
  <2> QED BY <2>1, <2>3, <2>11 DEF z
<1>11. CASE w = "2swap"
  <2>1. Effects[w] = <<4, 0, <<3, 4, 1, 2>>, <<>>>> BY <1>11 DEF Effects, Described, StackMovers
  <2>2. /\ z.s = [s EXCEPT ![sp - 1] = tos, ![sp - 2] = s[sp], ![sp] = s[sp - 2]]
        /\ z.sp = sp /\ z.tos = s[sp - 1]
        /\ z.r = r /\ z.rp = rp
    BY <1>11 DEF z, StackWord, Data, Both
  <2>f. sp <= MaxDepth /\ rp <= MaxReturn BY <1>b, <2>2
  <2>b. 4 <= sp /\ 0 <= rp BY <2>1, <1>e
  <2>8. /\ z.s \in [1 .. MaxDepth + 1 -> Int]
        /\ \A k \in 1 .. MaxDepth + 1 :
             z.s[k] = IF k = sp - 1 THEN tos
                        ELSE IF k = sp - 2 THEN s[sp] ELSE IF k = sp THEN s[sp - 2] ELSE s[k]
    <3>1. sp - 1 \in 1 .. MaxDepth + 1 /\ tos \in Int BY <1>n, <1>s, <2>b, <2>f
    <3>2. sp - 2 \in 1 .. MaxDepth + 1 /\ s[sp] \in Int BY <1>n, <1>s, <2>b, <2>f
    <3>3. sp \in 1 .. MaxDepth + 1 /\ s[sp - 2] \in Int BY <1>n, <1>s, <2>b, <2>f
    <3> DEFINE a == [s EXCEPT ![sp - 1] = tos, ![sp - 2] = s[sp], ![sp] = s[sp - 2]]
    <3>6. DOMAIN a = 1 .. MaxDepth + 1 BY <1>s
    <3>7. sp - 1 # sp /\ sp - 2 # sp /\ sp - 1 # sp - 2 BY <1>n
    <3>8. ASSUME NEW k \in 1 .. MaxDepth + 1
          PROVE  a[k] = IF k = sp - 1 THEN tos
                     ELSE IF k = sp - 2 THEN s[sp] ELSE IF k = sp THEN s[sp - 2] ELSE s[k]
      BY <1>s, <3>1, <3>2, <3>3, <3>7
    <3>9. \A k \in 1 .. MaxDepth + 1 : a[k] \in Int BY <1>s, <3>1, <3>2, <3>3, <3>8
    <3>5. z.s = a BY <2>2
    <3>10. a = [k \in 1 .. MaxDepth + 1 |-> a[k]] BY <3>6
    <3> HIDE DEF a
    <3> QED BY <3>5, <3>8, <3>9, <3>10
  <2>9. z.r \in [1 .. MaxReturn -> Int] BY <1>s, <2>2
  <2>10. z.tos \in Int BY <1>n, <1>b, <1>s, <2>b, <2>2 DEF Pushed, Set
  <2>12. z.sp \in 0 .. MaxDepth /\ z.rp \in 0 .. MaxReturn BY <1>n, <1>b, <2>b, <2>2
  <2>3. WellTyped(z) BY <2>8, <2>9, <2>10, <2>12 DEF WellTyped
  <2>4. /\ Cell(z.s, z.sp, z.tos, sp - 4 + 1) = Item(4, 0, 3)
        /\ Cell(z.s, z.sp, z.tos, sp - 4 + 2) = Item(4, 0, 4)
        /\ Cell(z.s, z.sp, z.tos, sp - 4 + 3) = Item(4, 0, 1)
        /\ Cell(z.s, z.sp, z.tos, sp - 4 + 4) = Item(4, 0, 2)
    <3>1. Cell(z.s, z.sp, z.tos, sp - 4 + 1) = Item(4, 0, 3)
      BY <1>n, <1>b, <1>s, <2>b, <2>2 DEF Cell, Item, Set, Pushed
    <3>2. Cell(z.s, z.sp, z.tos, sp - 4 + 2) = Item(4, 0, 4)
      BY <1>n, <1>b, <1>s, <2>b, <2>2 DEF Cell, Item, Set, Pushed
    <3>3. Cell(z.s, z.sp, z.tos, sp - 4 + 3) = Item(4, 0, 1)
      BY <1>n, <1>b, <1>s, <2>b, <2>2 DEF Cell, Item, Set, Pushed
    <3>4. Cell(z.s, z.sp, z.tos, sp - 4 + 4) = Item(4, 0, 2)
      BY <1>n, <1>b, <1>s, <2>b, <2>2 DEF Cell, Item, Set, Pushed
    <3> QED BY <3>1, <3>2, <3>3, <3>4
  <2>c. ASSUME NEW k \in 1 .. sp - 4 PROVE Cell(z.s, z.sp, z.tos, k) = Cell(s, sp, tos, k)
    <3>1. k \in Int /\ 1 <= k /\ k <= sp - 4 BY <1>n
    <3>2. k + 1 \in 1 .. MaxDepth + 1 BY <1>n, <3>1, <2>b
    <3>i. k + 1 # sp - 1 /\ k + 1 # sp - 2 /\ k + 1 # sp BY <1>n, <3>1
    <3>3. k # z.sp => z.s[k + 1] = s[k + 1] BY <1>n, <2>b, <2>2, <2>8, <3>1, <3>2, <3>i
    <3> QED BY <1>n, <2>b, <2>2, <3>1, <3>3 DEF Cell
  <2>d. \A k \in 1 .. rp - 0 : z.r[k] = r[k] BY <2>2
  <2>6. Kept(z, 4, 0) BY <2>c, <2>d DEF Kept
  <2>7. z.sp = sp /\ z.rp = rp BY <2>2
  <2>11. HasEffect(z, <<4, 0, <<3, 4, 1, 2>>, <<>>>>)
    <3>1. \A k \in 1 .. Len(<<3, 4, 1, 2>>) : k = 1 \/ k = 2 \/ k = 3 \/ k = 4 OBVIOUS
    <3>2. \A k \in 1 .. Len(<<3, 4, 1, 2>>) :
               Cell(z.s, z.sp, z.tos, sp - 4 + k) = Item(4, 0, <<3, 4, 1, 2>>[k])
      BY <3>1, <2>4
    <3>5. z.sp = sp - 4 + 4 /\ z.rp = rp - 0 + 0 BY <1>n, <2>7
    <3>6. Len(<<3, 4, 1, 2>>) = 4 /\ Len(<<>>) = 0 OBVIOUS
    <3> QED BY <3>2, <3>5, <3>6, <2>6 DEF HasEffect
  <2> QED BY <2>1, <2>3, <2>11 DEF z
<1>12. CASE w = "2over"
  <2>1. Effects[w] = <<4, 0, <<1, 2, 3, 4, 1, 2>>, <<>>>> BY <1>12 DEF Effects, Described, StackMovers
  <2>2. /\ z.s = Set(Pushed, sp + 2, s[sp - 2])
        /\ z.sp = sp + 2 /\ z.tos = Pushed[sp - 1]
        /\ z.r = r /\ z.rp = rp
    BY <1>12 DEF z, StackWord, Data, Both
  <2>f. sp + 2 <= MaxDepth /\ rp <= MaxReturn BY <1>b, <2>2
  <2>b. 4 <= sp /\ 0 <= rp BY <2>1, <1>e
  <2>8. /\ z.s \in [1 .. MaxDepth + 1 -> Int]
        /\ \A k \in 1 .. MaxDepth + 1 :
             z.s[k] = IF k = sp + 2 THEN s[sp - 2] ELSE IF k = sp + 1 THEN tos ELSE s[k]
    <3>1. sp + 2 \in 1 .. MaxDepth + 1 /\ s[sp - 2] \in Int BY <1>n, <1>s, <2>b, <2>f
    <3>2. sp + 1 \in 1 .. MaxDepth + 1 /\ tos \in Int BY <1>n, <1>s, <2>b, <2>f
    <3> DEFINE a == Set(Set(s, sp + 1, tos), sp + 2, s[sp - 2])
    <3>4. /\ a \in [1 .. MaxDepth + 1 -> Int]
          /\ \A k \in 1 .. MaxDepth + 1 :
                     a[k] = IF k = sp + 2 THEN s[sp - 2] ELSE IF k = sp + 1 THEN tos ELSE s[k]
      BY <1>N, <1>n, <1>s, <3>1, <3>2 DEF Set
    <3>5. z.s = a BY <2>2 DEF Pushed
    <3> HIDE DEF a
    <3> QED BY <3>4, <3>5
  <2>9. z.r \in [1 .. MaxReturn -> Int] BY <1>s, <2>2
  <2>10. z.tos \in Int BY <1>n, <1>b, <1>s, <2>b, <2>2 DEF Pushed, Set
  <2>12. z.sp \in 0 .. MaxDepth /\ z.rp \in 0 .. MaxReturn BY <1>n, <1>b, <2>b, <2>2
  <2>3. WellTyped(z) BY <2>8, <2>9, <2>10, <2>12 DEF WellTyped
  <2>4. /\ Cell(z.s, z.sp, z.tos, sp - 4 + 1) = Item(4, 0, 1)
        /\ Cell(z.s, z.sp, z.tos, sp - 4 + 2) = Item(4, 0, 2)
        /\ Cell(z.s, z.sp, z.tos, sp - 4 + 3) = Item(4, 0, 3)
        /\ Cell(z.s, z.sp, z.tos, sp - 4 + 4) = Item(4, 0, 4)
        /\ Cell(z.s, z.sp, z.tos, sp - 4 + 5) = Item(4, 0, 1)
        /\ Cell(z.s, z.sp, z.tos, sp - 4 + 6) = Item(4, 0, 2)
    <3>1. Cell(z.s, z.sp, z.tos, sp - 4 + 1) = Item(4, 0, 1)
      BY <1>n, <1>b, <1>s, <2>b, <2>2 DEF Cell, Item, Set, Pushed
    <3>2. Cell(z.s, z.sp, z.tos, sp - 4 + 2) = Item(4, 0, 2)
      BY <1>n, <1>b, <1>s, <2>b, <2>2 DEF Cell, Item, Set, Pushed
    <3>3. Cell(z.s, z.sp, z.tos, sp - 4 + 3) = Item(4, 0, 3)
      BY <1>n, <1>b, <1>s, <2>b, <2>2 DEF Cell, Item, Set, Pushed
    <3>4. Cell(z.s, z.sp, z.tos, sp - 4 + 4) = Item(4, 0, 4)
      BY <1>n, <1>b, <1>s, <2>b, <2>2 DEF Cell, Item, Set, Pushed
    <3>5. Cell(z.s, z.sp, z.tos, sp - 4 + 5) = Item(4, 0, 1)
      BY <1>n, <1>b, <1>s, <2>b, <2>2 DEF Cell, Item, Set, Pushed
    <3>6. Cell(z.s, z.sp, z.tos, sp - 4 + 6) = Item(4, 0, 2)
      BY <1>n, <1>b, <1>s, <2>b, <2>2 DEF Cell, Item, Set, Pushed
    <3> QED BY <3>1, <3>2, <3>3, <3>4, <3>5, <3>6
  <2>c. ASSUME NEW k \in 1 .. sp - 4 PROVE Cell(z.s, z.sp, z.tos, k) = Cell(s, sp, tos, k)
    <3>1. k \in Int /\ 1 <= k /\ k <= sp - 4 BY <1>n
    <3>2. k + 1 \in 1 .. MaxDepth + 1 BY <1>n, <3>1, <2>b
    <3>i. k + 1 # sp + 2 /\ k + 1 # sp + 1 BY <1>n, <3>1
    <3>3. k # z.sp => z.s[k + 1] = s[k + 1] BY <1>n, <2>b, <2>2, <2>8, <3>1, <3>2, <3>i
    <3> QED BY <1>n, <2>b, <2>2, <3>1, <3>3 DEF Cell
  <2>d. \A k \in 1 .. rp - 0 : z.r[k] = r[k] BY <2>2
  <2>6. Kept(z, 4, 0) BY <2>c, <2>d DEF Kept
  <2>7. z.sp = sp + 2 /\ z.rp = rp BY <2>2
  <2>11. HasEffect(z, <<4, 0, <<1, 2, 3, 4, 1, 2>>, <<>>>>)
    <3>1. \A k \in 1 .. Len(<<1, 2, 3, 4, 1, 2>>) :
               k = 1 \/ k = 2 \/ k = 3 \/ k = 4 \/ k = 5 \/ k = 6 OBVIOUS
    <3>2. \A k \in 1 .. Len(<<1, 2, 3, 4, 1, 2>>) :
               Cell(z.s, z.sp, z.tos, sp - 4 + k) = Item(4, 0, <<1, 2, 3, 4, 1, 2>>[k])
      BY <3>1, <2>4
    <3>5. z.sp = sp - 4 + 6 /\ z.rp = rp - 0 + 0 BY <1>n, <2>7
    <3>6. Len(<<1, 2, 3, 4, 1, 2>>) = 6 /\ Len(<<>>) = 0 OBVIOUS
    <3> QED BY <3>2, <3>5, <3>6, <2>6 DEF HasEffect
  <2> QED BY <2>1, <2>3, <2>11 DEF z
<1>13. CASE w = ">r"
  <2>1. Effects[w] = <<1, 0, <<>>, <<1>>>> BY <1>13 DEF Effects, Described, StackMovers
  <2>2. /\ z.s = s
        /\ z.sp = sp - 1 /\ z.tos = s[sp]
        /\ z.r = Set(r, rp + 1, tos) /\ z.rp = rp + 1
    BY <1>13 DEF z, StackWord, Data, Both
  <2>f. sp - 1 <= MaxDepth /\ rp + 1 <= MaxReturn BY <1>b, <2>2
  <2>b. 1 <= sp /\ 0 <= rp BY <2>1, <1>e
  <2>8. z.s \in [1 .. MaxDepth + 1 -> Int] BY <1>s, <2>2
  <2>9. /\ z.r \in [1 .. MaxReturn -> Int]
        /\ \A k \in 1 .. MaxReturn :
             z.r[k] = IF k = rp + 1 THEN tos ELSE r[k]
    <3>1. rp + 1 \in 1 .. MaxReturn /\ tos \in Int BY <1>n, <1>s, <2>b, <2>f
    <3> DEFINE a == Set(r, rp + 1, tos)
    <3>4. /\ a \in [1 .. MaxReturn -> Int]
          /\ \A k \in 1 .. MaxReturn : a[k] = IF k = rp + 1 THEN tos ELSE r[k]
      BY <1>N, <1>n, <1>s, <3>1 DEF Set
    <3>5. z.r = a BY <2>2 DEF Pushed
    <3> HIDE DEF a
    <3> QED BY <3>4, <3>5
  <2>10. z.tos \in Int BY <1>n, <1>b, <1>s, <2>b, <2>2 DEF Pushed, Set
  <2>12. z.sp \in 0 .. MaxDepth /\ z.rp \in 0 .. MaxReturn BY <1>n, <1>b, <2>b, <2>2
  <2>3. WellTyped(z) BY <2>8, <2>9, <2>10, <2>12 DEF WellTyped
  <2>5. /\ z.r[rp - 0 + 1] = Item(1, 0, 1)
    BY <1>n, <1>b, <1>s, <2>b, <2>2 DEF Cell, Item, Set, Pushed
  <2>c. ASSUME NEW k \in 1 .. sp - 1 PROVE Cell(z.s, z.sp, z.tos, k) = Cell(s, sp, tos, k)
    <3>1. k \in Int /\ 1 <= k /\ k <= sp - 1 BY <1>n
    <3>2. k + 1 \in 1 .. MaxDepth + 1 BY <1>n, <3>1, <2>b
    <3>3. k # z.sp => z.s[k + 1] = s[k + 1] BY <1>n, <2>b, <2>2, <2>8, <3>1, <3>2
    <3> QED BY <1>n, <2>b, <2>2, <3>1, <3>3 DEF Cell
  <2>d. ASSUME NEW k \in 1 .. rp - 0 PROVE z.r[k] = r[k]
    <3>1. k \in 1 .. MaxReturn /\ k <= rp BY <1>n, <2>b
    <3>2. k # rp + 1 /\ k # rp + 2 BY <1>n, <3>1
    <3> QED BY <2>9, <3>1, <3>2
  <2>6. Kept(z, 1, 0) BY <2>c, <2>d DEF Kept
  <2>7. z.sp = sp - 1 /\ z.rp = rp + 1 BY <2>2
  <2>11. HasEffect(z, <<1, 0, <<>>, <<1>>>>)
    <3>3. \A k \in 1 .. Len(<<1>>) : k = 1 OBVIOUS
    <3>4. \A k \in 1 .. Len(<<1>>) : z.r[rp - 0 + k] = Item(1, 0, <<1>>[k])
      BY <3>3, <2>5
    <3>5. z.sp = sp - 1 + 0 /\ z.rp = rp - 0 + 1 BY <1>n, <2>7
    <3>6. Len(<<>>) = 0 /\ Len(<<1>>) = 1 OBVIOUS
    <3> QED BY <3>4, <3>5, <3>6, <2>6 DEF HasEffect
  <2> QED BY <2>1, <2>3, <2>11 DEF z
<1>14. CASE w = "r>"
  <2>1. Effects[w] = <<0, 1, <<1>>, <<>>>> BY <1>14 DEF Effects, Described, StackMovers
  <2>2. /\ z.s = Pushed
        /\ z.sp = sp + 1 /\ z.tos = r[rp]
        /\ z.r = r /\ z.rp = rp - 1
    BY <1>14 DEF z, StackWord, Data, Both
  <2>f. sp + 1 <= MaxDepth /\ rp - 1 <= MaxReturn BY <1>b, <2>2
  <2>b. 0 <= sp /\ 1 <= rp BY <2>1, <1>e
  <2>8. /\ z.s \in [1 .. MaxDepth + 1 -> Int]
        /\ \A k \in 1 .. MaxDepth + 1 :
             z.s[k] = IF k = sp + 1 THEN tos ELSE s[k]
    <3>1. sp + 1 \in 1 .. MaxDepth + 1 /\ tos \in Int BY <1>n, <1>s, <2>b, <2>f
    <3> DEFINE a == Set(s, sp + 1, tos)
    <3>4. /\ a \in [1 .. MaxDepth + 1 -> Int]
          /\ \A k \in 1 .. MaxDepth + 1 : a[k] = IF k = sp + 1 THEN tos ELSE s[k]
      BY <1>N, <1>n, <1>s, <3>1 DEF Set
    <3>5. z.s = a BY <2>2 DEF Pushed
    <3> HIDE DEF a
    <3> QED BY <3>4, <3>5
  <2>9. z.r \in [1 .. MaxReturn -> Int] BY <1>s, <2>2
  <2>10. z.tos \in Int BY <1>n, <1>b, <1>s, <2>b, <2>2 DEF Pushed, Set
  <2>12. z.sp \in 0 .. MaxDepth /\ z.rp \in 0 .. MaxReturn BY <1>n, <1>b, <2>b, <2>2
  <2>3. WellTyped(z) BY <2>8, <2>9, <2>10, <2>12 DEF WellTyped
  <2>4. /\ Cell(z.s, z.sp, z.tos, sp - 0 + 1) = Item(0, 1, 1)
    BY <1>n, <1>b, <1>s, <2>b, <2>2 DEF Cell, Item, Set, Pushed
  <2>c. ASSUME NEW k \in 1 .. sp - 0 PROVE Cell(z.s, z.sp, z.tos, k) = Cell(s, sp, tos, k)
    <3>1. k \in Int /\ 1 <= k /\ k <= sp - 0 BY <1>n
    <3>2. k + 1 \in 1 .. MaxDepth + 1 BY <1>n, <3>1, <2>b
    <3>3. z.s[k + 1] = IF k = sp THEN tos ELSE s[k + 1]
      <4>1. k + 1 = sp + 1 <=> k = sp BY <1>n, <3>1
      <4> QED BY <4>1, <3>2, <2>8
    <3> QED BY <1>n, <2>b, <2>2, <3>1, <3>3 DEF Cell
  <2>d. \A k \in 1 .. rp - 1 : z.r[k] = r[k] BY <2>2
  <2>6. Kept(z, 0, 1) BY <2>c, <2>d DEF Kept
  <2>7. z.sp = sp + 1 /\ z.rp = rp - 1 BY <2>2
  <2>11. HasEffect(z, <<0, 1, <<1>>, <<>>>>)
    <3>1. \A k \in 1 .. Len(<<1>>) : k = 1 OBVIOUS
    <3>2. \A k \in 1 .. Len(<<1>>) : Cell(z.s, z.sp, z.tos, sp - 0 + k) = Item(0, 1, <<1>>[k])
      BY <3>1, <2>4
    <3>5. z.sp = sp - 0 + 1 /\ z.rp = rp - 1 + 0 BY <1>n, <2>7
    <3>6. Len(<<1>>) = 1 /\ Len(<<>>) = 0 OBVIOUS
    <3> QED BY <3>2, <3>5, <3>6, <2>6 DEF HasEffect
  <2> QED BY <2>1, <2>3, <2>11 DEF z
<1>15. CASE w = "r@"
  <2>1. Effects[w] = <<0, 1, <<1>>, <<1>>>> BY <1>15 DEF Effects, Described, StackMovers
  <2>2. /\ z.s = Pushed
        /\ z.sp = sp + 1 /\ z.tos = r[rp]
        /\ z.r = r /\ z.rp = rp
    BY <1>15 DEF z, StackWord, Data, Both
  <2>f. sp + 1 <= MaxDepth /\ rp <= MaxReturn BY <1>b, <2>2
  <2>b. 0 <= sp /\ 1 <= rp BY <2>1, <1>e
  <2>8. /\ z.s \in [1 .. MaxDepth + 1 -> Int]
        /\ \A k \in 1 .. MaxDepth + 1 :
             z.s[k] = IF k = sp + 1 THEN tos ELSE s[k]
    <3>1. sp + 1 \in 1 .. MaxDepth + 1 /\ tos \in Int BY <1>n, <1>s, <2>b, <2>f
    <3> DEFINE a == Set(s, sp + 1, tos)
    <3>4. /\ a \in [1 .. MaxDepth + 1 -> Int]
          /\ \A k \in 1 .. MaxDepth + 1 : a[k] = IF k = sp + 1 THEN tos ELSE s[k]
      BY <1>N, <1>n, <1>s, <3>1 DEF Set
    <3>5. z.s = a BY <2>2 DEF Pushed
    <3> HIDE DEF a
    <3> QED BY <3>4, <3>5
  <2>9. z.r \in [1 .. MaxReturn -> Int] BY <1>s, <2>2
  <2>10. z.tos \in Int BY <1>n, <1>b, <1>s, <2>b, <2>2 DEF Pushed, Set
  <2>12. z.sp \in 0 .. MaxDepth /\ z.rp \in 0 .. MaxReturn BY <1>n, <1>b, <2>b, <2>2
  <2>3. WellTyped(z) BY <2>8, <2>9, <2>10, <2>12 DEF WellTyped
  <2>4. /\ Cell(z.s, z.sp, z.tos, sp - 0 + 1) = Item(0, 1, 1)
    BY <1>n, <1>b, <1>s, <2>b, <2>2 DEF Cell, Item, Set, Pushed
  <2>5. /\ z.r[rp - 1 + 1] = Item(0, 1, 1)
    BY <1>n, <1>b, <1>s, <2>b, <2>2 DEF Cell, Item, Set, Pushed
  <2>c. ASSUME NEW k \in 1 .. sp - 0 PROVE Cell(z.s, z.sp, z.tos, k) = Cell(s, sp, tos, k)
    <3>1. k \in Int /\ 1 <= k /\ k <= sp - 0 BY <1>n
    <3>2. k + 1 \in 1 .. MaxDepth + 1 BY <1>n, <3>1, <2>b
    <3>3. z.s[k + 1] = IF k = sp THEN tos ELSE s[k + 1]
      <4>1. k + 1 = sp + 1 <=> k = sp BY <1>n, <3>1
      <4> QED BY <4>1, <3>2, <2>8
    <3> QED BY <1>n, <2>b, <2>2, <3>1, <3>3 DEF Cell
  <2>d. \A k \in 1 .. rp - 1 : z.r[k] = r[k] BY <2>2
  <2>6. Kept(z, 0, 1) BY <2>c, <2>d DEF Kept
  <2>7. z.sp = sp + 1 /\ z.rp = rp BY <2>2
  <2>11. HasEffect(z, <<0, 1, <<1>>, <<1>>>>)
    <3>1. \A k \in 1 .. Len(<<1>>) : k = 1 OBVIOUS
    <3>2. \A k \in 1 .. Len(<<1>>) : Cell(z.s, z.sp, z.tos, sp - 0 + k) = Item(0, 1, <<1>>[k])
      BY <3>1, <2>4
    <3>3. \A k \in 1 .. Len(<<1>>) : k = 1 OBVIOUS
    <3>4. \A k \in 1 .. Len(<<1>>) : z.r[rp - 1 + k] = Item(0, 1, <<1>>[k])
      BY <3>3, <2>5
    <3>5. z.sp = sp - 0 + 1 /\ z.rp = rp - 1 + 1 BY <1>n, <2>7
    <3>6. Len(<<1>>) = 1 /\ Len(<<1>>) = 1 OBVIOUS
    <3> QED BY <3>2, <3>4, <3>5, <3>6, <2>6 DEF HasEffect
  <2> QED BY <2>1, <2>3, <2>11 DEF z
<1>16. CASE w = "rdrop"
  <2>1. Effects[w] = <<0, 1, <<>>, <<>>>> BY <1>16 DEF Effects, Described, StackMovers
  <2>2. /\ z.s = s
        /\ z.sp = sp /\ z.tos = tos
        /\ z.r = r /\ z.rp = rp - 1
    BY <1>16 DEF z, StackWord, Data, Both
  <2>f. sp <= MaxDepth /\ rp - 1 <= MaxReturn BY <1>b, <2>2
  <2>b. 0 <= sp /\ 1 <= rp BY <2>1, <1>e
  <2>8. z.s \in [1 .. MaxDepth + 1 -> Int] BY <1>s, <2>2
  <2>9. z.r \in [1 .. MaxReturn -> Int] BY <1>s, <2>2
  <2>10. z.tos \in Int BY <1>n, <1>b, <1>s, <2>b, <2>2 DEF Pushed, Set
  <2>12. z.sp \in 0 .. MaxDepth /\ z.rp \in 0 .. MaxReturn BY <1>n, <1>b, <2>b, <2>2
  <2>3. WellTyped(z) BY <2>8, <2>9, <2>10, <2>12 DEF WellTyped
  <2>c. ASSUME NEW k \in 1 .. sp - 0 PROVE Cell(z.s, z.sp, z.tos, k) = Cell(s, sp, tos, k)
    <3>1. k \in Int /\ 1 <= k /\ k <= sp - 0 BY <1>n
    <3>2. k + 1 \in 1 .. MaxDepth + 1 BY <1>n, <3>1, <2>b
    <3>3. k # z.sp => z.s[k + 1] = s[k + 1] BY <1>n, <2>b, <2>2, <2>8, <3>1, <3>2
    <3> QED BY <1>n, <2>b, <2>2, <3>1, <3>3 DEF Cell
  <2>d. \A k \in 1 .. rp - 1 : z.r[k] = r[k] BY <2>2
  <2>6. Kept(z, 0, 1) BY <2>c, <2>d DEF Kept
  <2>7. z.sp = sp /\ z.rp = rp - 1 BY <2>2
  <2>11. HasEffect(z, <<0, 1, <<>>, <<>>>>)
    <3>5. z.sp = sp - 0 + 0 /\ z.rp = rp - 1 + 0 BY <1>n, <2>7
    <3>6. Len(<<>>) = 0 /\ Len(<<>>) = 0 OBVIOUS
    <3> QED BY <3>5, <3>6, <2>6 DEF HasEffect
  <2> QED BY <2>1, <2>3, <2>11 DEF z
<1>17. CASE w = "2>r"
  <2>1. Effects[w] = <<2, 0, <<>>, <<1, 2>>>> BY <1>17 DEF Effects, Described, StackMovers
  <2>2. /\ z.s = s
        /\ z.sp = sp - 2 /\ z.tos = s[sp - 1]
        /\ z.r = Set(Set(r, rp + 1, s[sp]), rp + 2, tos) /\ z.rp = rp + 2
    BY <1>17 DEF z, StackWord, Data, Both
  <2>f. sp - 2 <= MaxDepth /\ rp + 2 <= MaxReturn BY <1>b, <2>2
  <2>b. 2 <= sp /\ 0 <= rp BY <2>1, <1>e
  <2>8. z.s \in [1 .. MaxDepth + 1 -> Int] BY <1>s, <2>2
  <2>9. /\ z.r \in [1 .. MaxReturn -> Int]
        /\ \A k \in 1 .. MaxReturn :
             z.r[k] = IF k = rp + 2 THEN tos ELSE IF k = rp + 1 THEN s[sp] ELSE r[k]
    <3>1. rp + 2 \in 1 .. MaxReturn /\ tos \in Int BY <1>n, <1>s, <2>b, <2>f
    <3>2. rp + 1 \in 1 .. MaxReturn /\ s[sp] \in Int BY <1>n, <1>s, <2>b, <2>f
    <3> DEFINE a == Set(Set(r, rp + 1, s[sp]), rp + 2, tos)
    <3>4. /\ a \in [1 .. MaxReturn -> Int]
          /\ \A k \in 1 .. MaxReturn :
                     a[k] = IF k = rp + 2 THEN tos ELSE IF k = rp + 1 THEN s[sp] ELSE r[k]
      BY <1>N, <1>n, <1>s, <3>1, <3>2 DEF Set
    <3>5. z.r = a BY <2>2 DEF Pushed
    <3> HIDE DEF a
    <3> QED BY <3>4, <3>5
  <2>10. z.tos \in Int BY <1>n, <1>b, <1>s, <2>b, <2>2 DEF Pushed, Set
  <2>12. z.sp \in 0 .. MaxDepth /\ z.rp \in 0 .. MaxReturn BY <1>n, <1>b, <2>b, <2>2
  <2>3. WellTyped(z) BY <2>8, <2>9, <2>10, <2>12 DEF WellTyped
  <2>5. /\ z.r[rp - 0 + 1] = Item(2, 0, 1)
        /\ z.r[rp - 0 + 2] = Item(2, 0, 2)
    BY <1>n, <1>b, <1>s, <2>b, <2>2 DEF Cell, Item, Set, Pushed
  <2>c. ASSUME NEW k \in 1 .. sp - 2 PROVE Cell(z.s, z.sp, z.tos, k) = Cell(s, sp, tos, k)
    <3>1. k \in Int /\ 1 <= k /\ k <= sp - 2 BY <1>n
    <3>2. k + 1 \in 1 .. MaxDepth + 1 BY <1>n, <3>1, <2>b
    <3>3. k # z.sp => z.s[k + 1] = s[k + 1] BY <1>n, <2>b, <2>2, <2>8, <3>1, <3>2
    <3> QED BY <1>n, <2>b, <2>2, <3>1, <3>3 DEF Cell
  <2>d. ASSUME NEW k \in 1 .. rp - 0 PROVE z.r[k] = r[k]
    <3>1. k \in 1 .. MaxReturn /\ k <= rp BY <1>n, <2>b
    <3>2. k # rp + 1 /\ k # rp + 2 BY <1>n, <3>1
    <3> QED BY <2>9, <3>1, <3>2
  <2>6. Kept(z, 2, 0) BY <2>c, <2>d DEF Kept
  <2>7. z.sp = sp - 2 /\ z.rp = rp + 2 BY <2>2
  <2>11. HasEffect(z, <<2, 0, <<>>, <<1, 2>>>>)
    <3>3. \A k \in 1 .. Len(<<1, 2>>) : k = 1 \/ k = 2 OBVIOUS
    <3>4. \A k \in 1 .. Len(<<1, 2>>) : z.r[rp - 0 + k] = Item(2, 0, <<1, 2>>[k])
      BY <3>3, <2>5
    <3>5. z.sp = sp - 2 + 0 /\ z.rp = rp - 0 + 2 BY <1>n, <2>7
    <3>6. Len(<<>>) = 0 /\ Len(<<1, 2>>) = 2 OBVIOUS
    <3> QED BY <3>4, <3>5, <3>6, <2>6 DEF HasEffect
  <2> QED BY <2>1, <2>3, <2>11 DEF z
<1>18. CASE w = "2r>"
  <2>1. Effects[w] = <<0, 2, <<1, 2>>, <<>>>> BY <1>18 DEF Effects, Described, StackMovers
  <2>2. /\ z.s = Set(Pushed, sp + 2, r[rp - 1])
        /\ z.sp = sp + 2 /\ z.tos = r[rp]
        /\ z.r = r /\ z.rp = rp - 2
    BY <1>18 DEF z, StackWord, Data, Both
  <2>f. sp + 2 <= MaxDepth /\ rp - 2 <= MaxReturn BY <1>b, <2>2
  <2>b. 0 <= sp /\ 2 <= rp BY <2>1, <1>e
  <2>8. /\ z.s \in [1 .. MaxDepth + 1 -> Int]
        /\ \A k \in 1 .. MaxDepth + 1 :
             z.s[k] = IF k = sp + 2 THEN r[rp - 1] ELSE IF k = sp + 1 THEN tos ELSE s[k]
    <3>1. sp + 2 \in 1 .. MaxDepth + 1 /\ r[rp - 1] \in Int BY <1>n, <1>s, <2>b, <2>f
    <3>2. sp + 1 \in 1 .. MaxDepth + 1 /\ tos \in Int BY <1>n, <1>s, <2>b, <2>f
    <3> DEFINE a == Set(Set(s, sp + 1, tos), sp + 2, r[rp - 1])
    <3>4. /\ a \in [1 .. MaxDepth + 1 -> Int]
          /\ \A k \in 1 .. MaxDepth + 1 :
                     a[k] = IF k = sp + 2 THEN r[rp - 1] ELSE IF k = sp + 1 THEN tos ELSE s[k]
      BY <1>N, <1>n, <1>s, <3>1, <3>2 DEF Set
    <3>5. z.s = a BY <2>2 DEF Pushed
    <3> HIDE DEF a
    <3> QED BY <3>4, <3>5
  <2>9. z.r \in [1 .. MaxReturn -> Int] BY <1>s, <2>2
  <2>10. z.tos \in Int BY <1>n, <1>b, <1>s, <2>b, <2>2 DEF Pushed, Set
  <2>12. z.sp \in 0 .. MaxDepth /\ z.rp \in 0 .. MaxReturn BY <1>n, <1>b, <2>b, <2>2
  <2>3. WellTyped(z) BY <2>8, <2>9, <2>10, <2>12 DEF WellTyped
  <2>4. /\ Cell(z.s, z.sp, z.tos, sp - 0 + 1) = Item(0, 2, 1)
        /\ Cell(z.s, z.sp, z.tos, sp - 0 + 2) = Item(0, 2, 2)
    BY <1>n, <1>b, <1>s, <2>b, <2>2 DEF Cell, Item, Set, Pushed
  <2>c. ASSUME NEW k \in 1 .. sp - 0 PROVE Cell(z.s, z.sp, z.tos, k) = Cell(s, sp, tos, k)
    <3>1. k \in Int /\ 1 <= k /\ k <= sp - 0 BY <1>n
    <3>2. k + 1 \in 1 .. MaxDepth + 1 BY <1>n, <3>1, <2>b
    <3>3. k # z.sp => z.s[k + 1] = IF k = sp THEN tos ELSE s[k + 1]
      BY <1>n, <2>b, <2>2, <2>8, <3>1, <3>2
    <3> QED BY <1>n, <2>b, <2>2, <3>1, <3>3 DEF Cell
  <2>d. \A k \in 1 .. rp - 2 : z.r[k] = r[k] BY <2>2
  <2>6. Kept(z, 0, 2) BY <2>c, <2>d DEF Kept
  <2>7. z.sp = sp + 2 /\ z.rp = rp - 2 BY <2>2
  <2>11. HasEffect(z, <<0, 2, <<1, 2>>, <<>>>>)
    <3>1. \A k \in 1 .. Len(<<1, 2>>) : k = 1 \/ k = 2 OBVIOUS
    <3>2. \A k \in 1 .. Len(<<1, 2>>) : Cell(z.s, z.sp, z.tos, sp - 0 + k) = Item(0, 2, <<1, 2>>[k])
      BY <3>1, <2>4
    <3>5. z.sp = sp - 0 + 2 /\ z.rp = rp - 2 + 0 BY <1>n, <2>7
    <3>6. Len(<<1, 2>>) = 2 /\ Len(<<>>) = 0 OBVIOUS
    <3> QED BY <3>2, <3>5, <3>6, <2>6 DEF HasEffect
  <2> QED BY <2>1, <2>3, <2>11 DEF z
<1>19. CASE w = "2r@"
  <2>1. Effects[w] = <<0, 2, <<1, 2>>, <<1, 2>>>> BY <1>19 DEF Effects, Described, StackMovers
  <2>2. /\ z.s = Set(Pushed, sp + 2, r[rp - 1])
        /\ z.sp = sp + 2 /\ z.tos = r[rp]
        /\ z.r = r /\ z.rp = rp
    BY <1>19 DEF z, StackWord, Data, Both
  <2>f. sp + 2 <= MaxDepth /\ rp <= MaxReturn BY <1>b, <2>2
  <2>b. 0 <= sp /\ 2 <= rp BY <2>1, <1>e
  <2>8. /\ z.s \in [1 .. MaxDepth + 1 -> Int]
        /\ \A k \in 1 .. MaxDepth + 1 :
             z.s[k] = IF k = sp + 2 THEN r[rp - 1] ELSE IF k = sp + 1 THEN tos ELSE s[k]
    <3>1. sp + 2 \in 1 .. MaxDepth + 1 /\ r[rp - 1] \in Int BY <1>n, <1>s, <2>b, <2>f
    <3>2. sp + 1 \in 1 .. MaxDepth + 1 /\ tos \in Int BY <1>n, <1>s, <2>b, <2>f
    <3> DEFINE a == Set(Set(s, sp + 1, tos), sp + 2, r[rp - 1])
    <3>4. /\ a \in [1 .. MaxDepth + 1 -> Int]
          /\ \A k \in 1 .. MaxDepth + 1 :
                     a[k] = IF k = sp + 2 THEN r[rp - 1] ELSE IF k = sp + 1 THEN tos ELSE s[k]
      BY <1>N, <1>n, <1>s, <3>1, <3>2 DEF Set
    <3>5. z.s = a BY <2>2 DEF Pushed
    <3> HIDE DEF a
    <3> QED BY <3>4, <3>5
  <2>9. z.r \in [1 .. MaxReturn -> Int] BY <1>s, <2>2
  <2>10. z.tos \in Int BY <1>n, <1>b, <1>s, <2>b, <2>2 DEF Pushed, Set
  <2>12. z.sp \in 0 .. MaxDepth /\ z.rp \in 0 .. MaxReturn BY <1>n, <1>b, <2>b, <2>2
  <2>3. WellTyped(z) BY <2>8, <2>9, <2>10, <2>12 DEF WellTyped
  <2>4. /\ Cell(z.s, z.sp, z.tos, sp - 0 + 1) = Item(0, 2, 1)
        /\ Cell(z.s, z.sp, z.tos, sp - 0 + 2) = Item(0, 2, 2)
    BY <1>n, <1>b, <1>s, <2>b, <2>2 DEF Cell, Item, Set, Pushed
  <2>5. /\ z.r[rp - 2 + 1] = Item(0, 2, 1)
        /\ z.r[rp - 2 + 2] = Item(0, 2, 2)
    BY <1>n, <1>b, <1>s, <2>b, <2>2 DEF Cell, Item, Set, Pushed
  <2>c. ASSUME NEW k \in 1 .. sp - 0 PROVE Cell(z.s, z.sp, z.tos, k) = Cell(s, sp, tos, k)
    <3>1. k \in Int /\ 1 <= k /\ k <= sp - 0 BY <1>n
    <3>2. k + 1 \in 1 .. MaxDepth + 1 BY <1>n, <3>1, <2>b
    <3>3. k # z.sp => z.s[k + 1] = IF k = sp THEN tos ELSE s[k + 1]
      BY <1>n, <2>b, <2>2, <2>8, <3>1, <3>2
    <3> QED BY <1>n, <2>b, <2>2, <3>1, <3>3 DEF Cell
  <2>d. \A k \in 1 .. rp - 2 : z.r[k] = r[k] BY <2>2
  <2>6. Kept(z, 0, 2) BY <2>c, <2>d DEF Kept
  <2>7. z.sp = sp + 2 /\ z.rp = rp BY <2>2
  <2>11. HasEffect(z, <<0, 2, <<1, 2>>, <<1, 2>>>>)
    <3>1. \A k \in 1 .. Len(<<1, 2>>) : k = 1 \/ k = 2 OBVIOUS
    <3>2. \A k \in 1 .. Len(<<1, 2>>) : Cell(z.s, z.sp, z.tos, sp - 0 + k) = Item(0, 2, <<1, 2>>[k])
      BY <3>1, <2>4
    <3>3. \A k \in 1 .. Len(<<1, 2>>) : k = 1 \/ k = 2 OBVIOUS
    <3>4. \A k \in 1 .. Len(<<1, 2>>) : z.r[rp - 2 + k] = Item(0, 2, <<1, 2>>[k])
      BY <3>3, <2>5
    <3>5. z.sp = sp - 0 + 2 /\ z.rp = rp - 2 + 2 BY <1>n, <2>7
    <3>6. Len(<<1, 2>>) = 2 /\ Len(<<1, 2>>) = 2 OBVIOUS
    <3> QED BY <3>2, <3>4, <3>5, <3>6, <2>6 DEF HasEffect
  <2> QED BY <2>1, <2>3, <2>11 DEF z
<1> QED
  BY <1>1, <1>2, <1>3, <1>4, <1>5, <1>6, <1>7, <1>8, <1>9, <1>10, <1>11, <1>12, <1>13, <1>14,
     <1>15, <1>16, <1>17, <1>18, <1>19 DEF z, StackMovers

\* What the words are described with picks from the items that they take.
LEMMA EffectsAre ==
  ASSUME NEW w \in StackMovers
  PROVE  LET e == Effects[w]
         IN /\ e[1] \in Nat /\ e[2] \in Nat
            /\ e[3] \in Seq(1 .. e[1] + e[2]) /\ e[4] \in Seq(1 .. e[1] + e[2])
<1>1. CASE w = "dup"
  <2>1. Effects[w] = <<1, 0, <<1, 1>>, <<>>>> BY <1>1 DEF Effects, Described, StackMovers
  <2> QED BY <2>1
<1>2. CASE w = "drop"
  <2>1. Effects[w] = <<1, 0, <<>>, <<>>>> BY <1>2 DEF Effects, Described, StackMovers
  <2> QED BY <2>1
<1>3. CASE w = "swap"
  <2>1. Effects[w] = <<2, 0, <<2, 1>>, <<>>>> BY <1>3 DEF Effects, Described, StackMovers
  <2> QED BY <2>1
<1>4. CASE w = "over"
  <2>1. Effects[w] = <<2, 0, <<1, 2, 1>>, <<>>>> BY <1>4 DEF Effects, Described, StackMovers
  <2> QED BY <2>1
<1>5. CASE w = "rot"
  <2>1. Effects[w] = <<3, 0, <<2, 3, 1>>, <<>>>> BY <1>5 DEF Effects, Described, StackMovers
  <2> QED BY <2>1
<1>6. CASE w = "-rot"
  <2>1. Effects[w] = <<3, 0, <<3, 1, 2>>, <<>>>> BY <1>6 DEF Effects, Described, StackMovers
  <2> QED BY <2>1
<1>7. CASE w = "tuck"
  <2>1. Effects[w] = <<2, 0, <<2, 1, 2>>, <<>>>> BY <1>7 DEF Effects, Described, StackMovers
  <2> QED BY <2>1
<1>8. CASE w = "nip"
  <2>1. Effects[w] = <<2, 0, <<2>>, <<>>>> BY <1>8 DEF Effects, Described, StackMovers
  <2> QED BY <2>1
<1>9. CASE w = "2dup"
  <2>1. Effects[w] = <<2, 0, <<1, 2, 1, 2>>, <<>>>> BY <1>9 DEF Effects, Described, StackMovers
  <2> QED BY <2>1
<1>10. CASE w = "2drop"
  <2>1. Effects[w] = <<2, 0, <<>>, <<>>>> BY <1>10 DEF Effects, Described, StackMovers
  <2> QED BY <2>1
<1>11. CASE w = "2swap"
  <2>1. Effects[w] = <<4, 0, <<3, 4, 1, 2>>, <<>>>> BY <1>11 DEF Effects, Described, StackMovers
  <2> QED BY <2>1
<1>12. CASE w = "2over"
  <2>1. Effects[w] = <<4, 0, <<1, 2, 3, 4, 1, 2>>, <<>>>> BY <1>12 DEF Effects, Described, StackMovers
  <2> QED BY <2>1
<1>13. CASE w = ">r"
  <2>1. Effects[w] = <<1, 0, <<>>, <<1>>>> BY <1>13 DEF Effects, Described, StackMovers
  <2> QED BY <2>1
<1>14. CASE w = "r>"
  <2>1. Effects[w] = <<0, 1, <<1>>, <<>>>> BY <1>14 DEF Effects, Described, StackMovers
  <2> QED BY <2>1
<1>15. CASE w = "r@"
  <2>1. Effects[w] = <<0, 1, <<1>>, <<1>>>> BY <1>15 DEF Effects, Described, StackMovers
  <2> QED BY <2>1
<1>16. CASE w = "rdrop"
  <2>1. Effects[w] = <<0, 1, <<>>, <<>>>> BY <1>16 DEF Effects, Described, StackMovers
  <2> QED BY <2>1
<1>17. CASE w = "2>r"
  <2>1. Effects[w] = <<2, 0, <<>>, <<1, 2>>>> BY <1>17 DEF Effects, Described, StackMovers
  <2> QED BY <2>1
<1>18. CASE w = "2r>"
  <2>1. Effects[w] = <<0, 2, <<1, 2>>, <<>>>> BY <1>18 DEF Effects, Described, StackMovers
  <2> QED BY <2>1
<1>19. CASE w = "2r@"
  <2>1. Effects[w] = <<0, 2, <<1, 2>>, <<1, 2>>>> BY <1>19 DEF Effects, Described, StackMovers
  <2> QED BY <2>1
<1> QED
  BY <1>1, <1>2, <1>3, <1>4, <1>5, <1>6, <1>7, <1>8, <1>9, <1>10, <1>11, <1>12, <1>13, <1>14,
     <1>15, <1>16, <1>17, <1>18, <1>19 DEF StackMovers

\* The item taken from the data stack or the return stack.
LEMMA ItemIs ==
  ASSUME StackTyped, NEW n \in 0 .. sp, NEW m \in 0 .. rp, NEW j \in 1 .. n + m
  PROVE  (LastOf(SeenData(s, sp, tos), n) \o LastOf(SeenReturn(r, rp), m))[j] = Item(n, m, j)
<1> DEFINE d == SeenData(s, sp, tos)
           q == SeenReturn(r, rp)
           items == LastOf(d, n) \o LastOf(q, m)
<1>n. sp \in Nat /\ rp \in Nat /\ n \in Nat /\ m \in Nat BY DEF StackTyped
<1>1. d \in Seq(Int) /\ Len(d) = sp /\ \A k \in 1 .. sp : d[k] = Cell(s, sp, tos, k)
  BY SeenDataIs DEF StackTyped
<1>2. q \in Seq(Int) /\ Len(q) = rp /\ \A k \in 1 .. rp : q[k] = r[k]
  BY SeenReturnIs DEF StackTyped
<1> HIDE DEF d, q
<1>3. /\ \A k \in 1 .. n : items[k] = d[sp - n + k]
      /\ \A k \in 1 .. m : items[n + k] = q[rp - m + k]
  BY <1>1, <1>2, ItemsAre
<1> HIDE DEF items
<1>4. CASE j <= n
  <2>1. j \in 1 .. n /\ sp - n + j \in 1 .. sp BY <1>n, <1>4
  <2> QED BY <2>1, <1>4, <1>3, <1>1 DEF Item, items, d, q
<1>5. CASE ~(j <= n)
  <2> DEFINE k == j - n
  <2>1. k \in 1 .. m /\ j = n + k /\ rp - m + k \in 1 .. rp /\ rp - m + j - n = rp - m + k
    BY <1>n, <1>5
  <2> HIDE DEF k
  <2>2. items[j] = q[rp - m + k] BY <2>1, <1>3
  <2> QED BY <2>1, <2>2, <1>5, <1>2 DEF Item, items, d, q
<1> QED BY <1>4, <1>5

\* What has an effect item by item has it on the stacks that a program sees.
LEMMA EffectSeen ==
  ASSUME StackTyped, NEW w \in StackMovers, Effects[w][1] <= sp, Effects[w][2] <= rp,
         NEW z, WellTyped(z), HasEffect(z, Effects[w])
  PROVE  <<SeenData(z.s, z.sp, z.tos), SeenReturn(z.r, z.rp)>>
           = StackEffect(w, 0, SeenData(s, sp, tos), SeenReturn(r, rp))
<1> DEFINE e == Effects[w]
           d == SeenData(s, sp, tos)
           q == SeenReturn(r, rp)
           d2 == SeenData(z.s, z.sp, z.tos)
           q2 == SeenReturn(z.r, z.rp)
           items == LastOf(d, e[1]) \o LastOf(q, e[2])
<1>1. d \in Seq(Int) /\ Len(d) = sp /\ \A k \in 1 .. sp : d[k] = Cell(s, sp, tos, k)
  BY SeenDataIs DEF StackTyped
<1>2. q \in Seq(Int) /\ Len(q) = rp /\ \A k \in 1 .. rp : q[k] = r[k]
  BY SeenReturnIs DEF StackTyped
<1>3. d2 \in Seq(Int) /\ Len(d2) = z.sp /\ \A k \in 1 .. z.sp : d2[k] = Cell(z.s, z.sp, z.tos, k)
  <2>1. z.s \in [1 .. MaxDepth + 1 -> Int] /\ z.sp \in 0 .. MaxDepth /\ z.tos \in Int
    BY DEF WellTyped
  <2>2. /\ SeenData(z.s, z.sp, z.tos) \in Seq(Int) /\ Len(SeenData(z.s, z.sp, z.tos)) = z.sp
        /\ \A k \in 1 .. z.sp :
             SeenData(z.s, z.sp, z.tos)[k] = Cell(z.s, z.sp, z.tos, k)
    BY <2>1, SeenDataIs
  <2> QED BY <2>2
<1>4. q2 \in Seq(Int) /\ Len(q2) = z.rp /\ \A k \in 1 .. z.rp : q2[k] = z.r[k]
  BY SeenReturnIs DEF WellTyped
<1>5. /\ e[1] \in 0 .. sp /\ e[2] \in 0 .. rp /\ sp \in Nat /\ rp \in Nat
      /\ e[3] \in Seq(1 .. e[1] + e[2]) /\ e[4] \in Seq(1 .. e[1] + e[2])
  BY EffectsAre DEF StackTyped
<1>6. \A j \in 1 .. e[1] + e[2] : items[j] = Item(e[1], e[2], j) BY <1>5, ItemIs
<1>a. z.sp = sp - e[1] + Len(e[3]) /\ z.rp = rp - e[2] + Len(e[4]) BY DEF HasEffect
<1>h. /\ z.sp = sp - e[1] + Len(e[3]) /\ z.rp = rp - e[2] + Len(e[4])
      /\ \A k \in 1 .. sp - e[1] : Cell(z.s, z.sp, z.tos, k) = Cell(s, sp, tos, k)
      /\ \A k \in 1 .. rp - e[2] : z.r[k] = r[k]
      /\ \A k \in 1 .. Len(e[3]) :
           Cell(z.s, z.sp, z.tos, sp - e[1] + k) = Item(e[1], e[2], e[3][k])
      /\ \A k \in 1 .. Len(e[4]) : z.r[rp - e[2] + k] = Item(e[1], e[2], e[4][k])
  BY DEF HasEffect, Kept
<1> HIDE DEF d, q, d2, q2, e
<1>7. items \in Seq(Int) /\ Len(items) = e[1] + e[2] 
  <2> DEFINE n == e[1]
             m == e[2]
  <2>1. n \in 0 .. Len(d) /\ m \in 0 .. Len(q) /\ d \in Seq(Int) /\ q \in Seq(Int)
    BY <1>1, <1>2, <1>5
  <2> HIDE DEF n, m
  <2>2. LastOf(d, n) \o LastOf(q, m) \in Seq(Int) /\ Len(LastOf(d, n) \o LastOf(q, m)) = n + m
    BY <2>1, ItemsAre
  <2> QED BY <2>2 DEF n, m
<1> HIDE DEF items
<1>8. Splices(d2, d, e[1], items, e[3])
  <2>1. Len(e[3]) \in Nat /\ Len(d2) = Len(d) - e[1] + Len(e[3]) BY <1>1, <1>3, <1>5, <1>h
  <2>2. ASSUME NEW k \in 1 .. Len(d) - e[1] PROVE d2[k] = d[k]
    <3> DEFINE n == e[1]
               l == Len(e[3])
    <3>a. n \in Nat /\ n <= sp /\ sp \in Nat /\ l \in Nat /\ z.sp = sp - n + l
      BY <1>5, <1>a, <2>1
    <3>b. k \in 1 .. sp - n BY <1>1
    <3> HIDE DEF n, l
    <3>c. k \in 1 .. sp /\ k \in 1 .. z.sp BY <3>a, <3>b
    <3>1. k \in 1 .. sp - e[1] /\ k \in 1 .. sp /\ k \in 1 .. z.sp BY <3>b, <3>c DEF n
    <3> QED BY <3>1, <1>1, <1>3, <1>h
  <2>3. ASSUME NEW k \in 1 .. Len(e[3]) PROVE d2[Len(d) - e[1] + k] = items[e[3][k]]
    <3>0. k \in Nat /\ 1 <= k /\ k <= Len(e[3]) /\ e[1] \in Nat /\ e[1] <= sp BY <1>5, <2>1
    <3> DEFINE n == e[1]
               l == Len(e[3])
    <3>a. n \in Nat /\ n <= sp /\ sp \in Nat /\ l \in Nat /\ k <= l /\ z.sp = sp - n + l
      BY <1>5, <1>a, <2>1, <3>0
    <3> HIDE DEF n, l
    <3>b. sp - n + k \in 1 .. z.sp BY <3>0, <3>a
    <3>1. sp - e[1] + k \in 1 .. z.sp BY <3>b DEF n
    <3>2. e[3][k] \in 1 .. e[1] + e[2]
      <4> DEFINE x == e[3]
                 c == e[1] + e[2]
      <4>1. x \in Seq(1 .. c) /\ k \in 1 .. Len(x) BY <1>5
      <4> HIDE DEF x, c
      <4>2. x[k] \in 1 .. c BY <4>1, ElementIn
      <4> QED BY <4>2 DEF x, c
    <3>3. d2[sp - e[1] + k] = Item(e[1], e[2], e[3][k]) BY <3>1, <1>3, <1>h
    <3> QED BY <3>2, <3>3, <1>1, <1>6
  <2> QED BY <2>1, <2>2, <2>3 DEF Splices
<1>9. Splices(q2, q, e[2], items, e[4])
  <2>1. Len(e[4]) \in Nat /\ Len(q2) = Len(q) - e[2] + Len(e[4]) BY <1>2, <1>4, <1>5, <1>h
  <2>2. ASSUME NEW k \in 1 .. Len(q) - e[2] PROVE q2[k] = q[k]
    <3> DEFINE n == e[2]
               l == Len(e[4])
    <3>a. n \in Nat /\ n <= rp /\ rp \in Nat /\ l \in Nat /\ z.rp = rp - n + l
      BY <1>5, <1>a, <2>1
    <3>b. k \in 1 .. rp - n BY <1>2
    <3> HIDE DEF n, l
    <3>c. k \in 1 .. rp /\ k \in 1 .. z.rp BY <3>a, <3>b
    <3>1. k \in 1 .. rp - e[2] /\ k \in 1 .. rp /\ k \in 1 .. z.rp BY <3>b, <3>c DEF n
    <3> QED BY <3>1, <1>2, <1>4, <1>h
  <2>3. ASSUME NEW k \in 1 .. Len(e[4]) PROVE q2[Len(q) - e[2] + k] = items[e[4][k]]
    <3>0. k \in Nat /\ 1 <= k /\ k <= Len(e[4]) /\ e[2] \in Nat /\ e[2] <= rp BY <1>5, <2>1
    <3> DEFINE n == e[2]
               l == Len(e[4])
    <3>a. n \in Nat /\ n <= rp /\ rp \in Nat /\ l \in Nat /\ k <= l /\ z.rp = rp - n + l
      BY <1>5, <1>a, <2>1, <3>0
    <3> HIDE DEF n, l
    <3>b. rp - n + k \in 1 .. z.rp BY <3>0, <3>a
    <3>1. rp - e[2] + k \in 1 .. z.rp BY <3>b DEF n
    <3>2. e[4][k] \in 1 .. e[1] + e[2]
      <4> DEFINE x == e[4]
                 c == e[1] + e[2]
      <4>1. x \in Seq(1 .. c) /\ k \in 1 .. Len(x) BY <1>5
      <4> HIDE DEF x, c
      <4>2. x[k] \in 1 .. c BY <4>1, ElementIn
      <4> QED BY <4>2 DEF x, c
    <3>3. q2[rp - e[2] + k] = Item(e[1], e[2], e[4][k]) BY <3>1, <1>4, <1>h
    <3> QED BY <3>2, <3>3, <1>2, <1>6
  <2> QED BY <2>1, <2>2, <2>3 DEF Splices
<1>10. d2 = AllBut(d, e[1]) \o [k \in 1 .. Len(e[3]) |-> items[e[3][k]]]
  <2>1. e[1] \in 0 .. Len(d) /\ e[3] \in Seq(1 .. Len(items)) BY <1>1, <1>5, <1>7
  <2> QED BY <2>1, <1>1, <1>3, <1>7, <1>8, Spliced
<1>11. q2 = AllBut(q, e[2]) \o [k \in 1 .. Len(e[4]) |-> items[e[4][k]]]
  <2>1. e[2] \in 0 .. Len(q) /\ e[4] \in Seq(1 .. Len(items)) BY <1>2, <1>5, <1>7
  <2> QED BY <2>1, <1>2, <1>4, <1>7, <1>9, Spliced
<1>12. w \notin Counted BY DEF StackMovers, Counted
<1> QED BY <1>10, <1>11, <1>12 DEF StackEffect, Rearranged, items, d, q, d2, q2, e

-----------------------------------------------------------------------------
(* The words that count. *)

\* The data stack of the variables, item by item.
LEMMA DataIs ==
  ASSUME StackTyped
  PROVE  /\ DataStack \in Seq(Int) /\ Len(DataStack) = sp
         /\ \A k \in 1 .. sp : DataStack[k] = Cell(s, sp, tos, k)
<1>1. DataStack = SeenData(s, sp, tos) BY DEF DataStack, SeenData
<1>2. s \in [1 .. MaxDepth + 1 -> Int] /\ sp \in 0 .. MaxDepth /\ tos \in Int BY DEF StackTyped
<1> QED BY <1>1, <1>2, SeenDataIs

\* s with tos stored above sp.
LEMMA PushedIs ==
  ASSUME StackTyped
  PROVE  /\ Pushed \in [1 .. MaxDepth + 1 -> Int]
         /\ Pushed[sp + 1] = tos
         /\ \A k \in 1 .. MaxDepth + 1 : k # sp + 1 => Pushed[k] = s[k]
<1>1. MaxDepth \in Nat /\ sp + 1 \in 1 .. MaxDepth + 1 BY StackAssumption DEF StackTyped
<1> QED BY <1>1 DEF StackTyped, Pushed, Set

\* A number pushed.
LEMMA PushSeen ==
  ASSUME StackTyped, sp + 1 <= MaxDepth, NEW x \in Int
  PROVE  SeenData(Pushed, sp + 1, x) = Append(DataStack, x)
<1> DEFINE d == DataStack
           z == SeenData(Pushed, sp + 1, x)
<1>n. MaxDepth \in Nat /\ sp \in Nat /\ sp + 1 \in 0 .. MaxDepth /\ sp + 1 # 0
  BY StackAssumption DEF StackTyped
<1>1. d \in Seq(Int) /\ Len(d) = sp /\ \A k \in 1 .. sp : d[k] = Cell(s, sp, tos, k) BY DataIs
<1>2. z \in Seq(Int) /\ Len(z) = sp + 1 /\ \A k \in 1 .. sp + 1 : z[k] = Cell(Pushed, sp + 1, x, k)
  BY <1>n, PushedIs, SeenDataIs
<1> HIDE DEF d, z
<1>3. ASSUME NEW k \in 1 .. sp PROVE z[k] = d[k]
  <2>1. k + 1 \in 1 .. MaxDepth + 1 /\ k \in 1 .. sp + 1 /\ k # sp + 1 BY <1>n
  <2>2. z[k] = Pushed[k + 1] BY <2>1, <1>2 DEF Cell
  <2>3. CASE k = sp BY <2>2, <2>3, <1>1, PushedIs DEF Cell
  <2>4. CASE k # sp
    <3>1. k + 1 # sp + 1 BY <1>n, <2>4
    <3> QED BY <2>1, <2>2, <2>4, <3>1, <1>1, PushedIs DEF Cell
  <2> QED BY <2>3, <2>4
<1>4. z[sp + 1] = x BY <1>n, <1>2 DEF Cell
<1>5. Append(d, x) \in Seq(Int) /\ Len(Append(d, x)) = sp + 1 /\ Append(d, x)[sp + 1] = x
      /\ \A k \in 1 .. sp : Append(d, x)[k] = d[k]
  BY <1>n, <1>1
<1>6. ASSUME NEW k \in 1 .. sp + 1 PROVE z[k] = Append(d, x)[k]
  <2>1. k \in 1 .. sp \/ k = sp + 1 BY <1>n
  <2> QED BY <2>1, <1>3, <1>4, <1>5
<1>7. z = Append(d, x) BY <1>2, <1>5, <1>6, SameItems
<1> QED BY <1>7 DEF d, z

\* The two items on top replaced by one.
LEMMA MergeSeen ==
  ASSUME StackTyped, 2 <= sp, NEW x \in Int
  PROVE  SeenData(s, sp - 1, x) = Append(AllBut(DataStack, 2), x)
<1> DEFINE d == DataStack
           c == AllBut(d, 2)
           z == SeenData(s, sp - 1, x)
<1>n. MaxDepth \in Nat /\ sp \in Nat /\ sp - 1 \in 0 .. MaxDepth /\ sp - 1 # 0
  BY StackAssumption DEF StackTyped
<1>1. d \in Seq(Int) /\ Len(d) = sp /\ \A k \in 1 .. sp : d[k] = Cell(s, sp, tos, k) BY DataIs
<1>2. z \in Seq(Int) /\ Len(z) = sp - 1 /\ \A k \in 1 .. sp - 1 : z[k] = Cell(s, sp - 1, x, k)
  <2>1. s \in [1 .. MaxDepth + 1 -> Int] BY DEF StackTyped
  <2> QED BY <2>1, <1>n, SeenDataIs
<1> HIDE DEF d, z
<1>3. c \in Seq(Int) /\ Len(c) = sp - 2 /\ \A k \in 1 .. sp - 2 : c[k] = d[k]
  <2>1. 2 \in 0 .. Len(d) BY <1>n, <1>1
  <2>2. /\ c \in Seq(Int) /\ Len(c) = Len(d) - 2
        /\ \A k \in 1 .. Len(d) - 2 : c[k] = d[k]
    BY <2>1, <1>1, NumberParts
  <2> QED BY <2>2, <1>1
<1> HIDE DEF c
<1>4. ASSUME NEW k \in 1 .. sp - 2 PROVE z[k] = c[k]
  <2>1. k \in 1 .. sp /\ k \in 1 .. sp - 1 /\ k # sp /\ k # sp - 1 BY <1>n
  <2> QED BY <2>1, <1>1, <1>2, <1>3 DEF Cell
<1>5. z[sp - 1] = x BY <1>n, <1>2 DEF Cell
<1>6. Append(c, x) \in Seq(Int) /\ Len(Append(c, x)) = sp - 1 /\ Append(c, x)[sp - 1] = x
      /\ \A k \in 1 .. sp - 2 : Append(c, x)[k] = c[k]
  BY <1>n, <1>3
<1>7. ASSUME NEW k \in 1 .. sp - 1 PROVE z[k] = Append(c, x)[k]
  <2>1. k \in 1 .. sp - 2 \/ k = sp - 1 BY <1>n
  <2> QED BY <2>1, <1>4, <1>5, <1>6
<1>8. z = Append(c, x) BY <1>2, <1>6, <1>7, SameItems
<1> QED BY <1>8 DEF d, c, z

\* s after ROLL.
Rolled(u) ==
  [i \in DOMAIN s |-> IF i \in sp + 1 - u .. sp THEN Pushed[i + 1] ELSE Pushed[i]]

\* The item u below the top, brought to the top.
LEMMA RollSeen ==
  ASSUME StackTyped, NEW u \in Nat, u + 1 <= sp
  PROVE  /\ Rolled(u) \in [1 .. MaxDepth + 1 -> Int]
         /\ Pushed[sp + 1 - u] = DataStack[sp - u] /\ DataStack[sp - u] \in Int
         /\ SeenData(Rolled(u), sp, Pushed[sp + 1 - u])
              = AllBut(DataStack, u + 1) \o LastOf(DataStack, u) \o <<DataStack[sp - u]>>
<1> DEFINE d == DataStack
           x == Pushed[sp + 1 - u]
           a == Rolled(u)
           z == SeenData(a, sp, x)
           low == AllBut(d, u + 1)
           mid == LastOf(d, u)
<1>n. /\ MaxDepth \in Nat /\ sp \in Nat /\ sp \in 0 .. MaxDepth /\ sp # 0
      /\ u \in 0 .. sp /\ u + 1 \in 0 .. sp /\ sp - u \in 1 .. sp
  BY StackAssumption DEF StackTyped
<1>1. d \in Seq(Int) /\ Len(d) = sp /\ \A k \in 1 .. sp : d[k] = Cell(s, sp, tos, k) BY DataIs
<1>p. \A k \in 1 .. sp : Pushed[k + 1] = d[k]
  <2> SUFFICES ASSUME NEW k \in 1 .. sp PROVE Pushed[k + 1] = d[k] OBVIOUS
  <2>1. k + 1 \in 1 .. MaxDepth + 1 BY <1>n
  <2>2. CASE k = sp BY <2>2, <1>1, PushedIs DEF Cell
  <2>3. CASE k # sp
    <3>1. k + 1 # sp + 1 BY <1>n, <2>3
    <3> QED BY <2>1, <2>3, <3>1, <1>1, PushedIs DEF Cell
  <2> QED BY <2>2, <2>3
<1>x. x = d[sp - u] /\ x \in Int
  <2>1. sp - u + 1 = sp + 1 - u BY <1>n
  <2>2. Pushed[sp - u + 1] = d[sp - u] BY <1>n, <1>p
  <2> QED BY <2>1, <2>2, <1>1, <1>n
<1> HIDE DEF d
<1>a. /\ a \in [1 .. MaxDepth + 1 -> Int]
      /\ \A i \in 1 .. sp : a[i] = IF i >= sp + 1 - u THEN Pushed[i + 1] ELSE Pushed[i]
  <2>1. DOMAIN s = 1 .. MaxDepth + 1 BY DEF StackTyped
  <2>2. \A i \in 1 .. MaxDepth + 1 : Pushed[i] \in Int BY PushedIs
  <2>3. \A i \in sp + 1 - u .. sp : i + 1 \in 1 .. MaxDepth + 1 BY <1>n
  <2>4. a \in [1 .. MaxDepth + 1 -> Int] BY <2>1, <2>2, <2>3 DEF Rolled
  <2>5. ASSUME NEW i \in 1 .. sp
        PROVE a[i] = IF i >= sp + 1 - u THEN Pushed[i + 1] ELSE Pushed[i]
    <3>1. i \in DOMAIN s /\ (i \in sp + 1 - u .. sp <=> i >= sp + 1 - u) BY <1>n, <2>1
    <3> QED BY <3>1 DEF Rolled
  <2> QED BY <2>4, <2>5
<1> HIDE DEF x, a
<1>2. z \in Seq(Int) /\ Len(z) = sp /\ \A k \in 1 .. sp : z[k] = Cell(a, sp, x, k)
  BY <1>n, <1>a, <1>x, SeenDataIs
<1> HIDE DEF z
<1>3. /\ low \in Seq(Int) /\ Len(low) = sp - (u + 1) /\ \A k \in 1 .. sp - (u + 1) : low[k] = d[k]
  BY <1>n, <1>1, NumberParts
<1>4. /\ mid \in Seq(Int) /\ Len(mid) = u /\ \A k \in 1 .. u : mid[k] = d[sp - u + k]
  BY <1>n, <1>1, NumberParts
<1> HIDE DEF low, mid
<1>5. /\ low \o mid \in Seq(Int) /\ Len(low \o mid) = sp - 1
      /\ \A k \in 1 .. sp - (u + 1) : (low \o mid)[k] = d[k]
      /\ \A k \in 1 .. u : (low \o mid)[sp - (u + 1) + k] = d[sp - u + k]
  <2>1. /\ low \o mid \in Seq(Int) /\ Len(low \o mid) = Len(low) + Len(mid)
        /\ \A k \in 1 .. Len(low) : (low \o mid)[k] = low[k]
        /\ \A k \in 1 .. Len(mid) : (low \o mid)[Len(low) + k] = mid[k]
    BY <1>3, <1>4, Joined
  <2>2. sp - (u + 1) + u = sp - 1 BY <1>n
  <2> QED BY <2>1, <2>2, <1>3, <1>4
<1> DEFINE y == low \o mid \o <<x>>
<1>6. /\ y \in Seq(Int) /\ Len(y) = sp /\ y[sp] = x
      /\ \A k \in 1 .. sp - 1 : y[k] = (low \o mid)[k]
  <2>1. <<x>> \in Seq(Int) /\ Len(<<x>>) = 1 /\ <<x>>[1] = x BY <1>x
  <2>2. /\ y \in Seq(Int) /\ Len(y) = Len(low \o mid) + Len(<<x>>)
        /\ \A k \in 1 .. Len(low \o mid) : y[k] = (low \o mid)[k]
        /\ \A k \in 1 .. Len(<<x>>) : y[Len(low \o mid) + k] = <<x>>[k]
    BY <2>1, <1>5, Joined
  <2>3. sp - 1 + 1 = sp BY <1>n
  <2>4. y[Len(low \o mid) + 1] = x BY <2>1, <2>2
  <2> QED BY <2>1, <2>2, <2>3, <2>4, <1>5
<1> HIDE DEF y
<1>7. ASSUME NEW k \in 1 .. sp PROVE z[k] = y[k]
  <2>1. CASE k = sp BY <2>1, <1>2, <1>6 DEF Cell
  <2>2. CASE k # sp
    <3>1. k \in 1 .. sp - 1 /\ k + 1 \in 1 .. sp BY <2>2, <1>n
    <3>2. z[k] = a[k + 1] BY <2>2, <1>2 DEF Cell
    <3>3. CASE k <= sp - (u + 1)
      <4>1. ~(k + 1 >= sp + 1 - u) /\ k \in 1 .. sp - (u + 1) BY <3>3, <1>n
      <4> QED BY <4>1, <3>1, <3>2, <1>a, <1>p, <1>5, <1>6
    <3>4. CASE ~(k <= sp - (u + 1))
      <4> DEFINE i == k - (sp - (u + 1))
      <4>1. /\ i \in 1 .. u /\ sp - (u + 1) + i = k /\ sp - u + i = k + 1
            /\ k + 1 >= sp + 1 - u
        BY <3>4, <3>1, <1>n
      <4> HIDE DEF i
      <4>2. (low \o mid)[k] = d[k + 1] BY <4>1, <1>5
      <4>3. a[k + 1] = Pushed[k + 1 + 1] BY <4>1, <3>1, <1>a
      <4> QED BY <4>2, <4>3, <3>1, <3>2, <1>p, <1>6
    <3> QED BY <3>3, <3>4
  <2> QED BY <2>1, <2>2
<1>8. z = y BY <1>2, <1>6, <1>7, SameItems
<1> QED BY <1>8, <1>a, <1>x DEF z, y, a, x, low, mid, d

-----------------------------------------------------------------------------
(* Every word. *)

\* A word that counts does what CountedEffect says.
LEMMA CountersCount ==
  ASSUME StackTyped, NEW w \in Counted, NEW u \in Int, w \in {"pick", "roll"} => u \in Nat,
         Needed(w, u) <= sp, StackWord(w, u).sp <= MaxDepth
  PROVE  LET z == StackWord(w, u)
         IN /\ WellTyped(z) /\ z.r = r /\ z.rp = rp
            /\ SeenData(z.s, z.sp, z.tos) = CountedEffect(w, u, DataStack)
<1> DEFINE z == StackWord(w, u)
           d == DataStack
<1>n. MaxDepth \in Nat /\ sp \in Nat /\ sp <= MaxDepth BY StackAssumption DEF StackTyped
<1>d. d \in Seq(Int) /\ Len(d) = sp /\ \A k \in 1 .. sp : d[k] = Cell(s, sp, tos, k) BY DataIs
<1>f. d = SeenData(s, sp, tos) BY DEF DataStack, SeenData
<1>b. z.sp <= MaxDepth OBVIOUS
<1> HIDE DEF z, d
\* Words that push a number, words that leave one for two, and ?dup of zero.
<1>P. ASSUME NEW x \in Int, z = Data(Pushed, sp + 1, x)
      PROVE  WellTyped(z) /\ z.r = r /\ z.rp = rp /\ SeenData(z.s, z.sp, z.tos) = Append(d, x)
  <2>1. z.s = Pushed /\ z.sp = sp + 1 /\ z.tos = x /\ z.r = r /\ z.rp = rp BY <1>P DEF Data
  <2>2. sp + 1 <= MaxDepth BY <2>1, <1>b
  <2>3. WellTyped(z)
    <3>1. sp + 1 \in 0 .. MaxDepth BY <2>2, <1>n
    <3> QED BY <3>1, <2>1, PushedIs DEF WellTyped, StackTyped
  <2> QED BY <2>1, <2>2, <2>3, PushSeen DEF d
<1>M. ASSUME NEW x \in Int, 2 <= sp, z = Data(s, sp - 1, x)
      PROVE  /\ WellTyped(z) /\ z.r = r /\ z.rp = rp
             /\ SeenData(z.s, z.sp, z.tos) = Append(AllBut(d, 2), x)
  <2>1. z.s = s /\ z.sp = sp - 1 /\ z.tos = x /\ z.r = r /\ z.rp = rp BY <1>M DEF Data
  <2>2. WellTyped(z)
    <3>1. sp - 1 \in 0 .. MaxDepth BY <1>M, <1>n
    <3> QED BY <3>1, <2>1 DEF WellTyped, StackTyped
  <2> QED BY <2>1, <2>2, <1>M, MergeSeen DEF d
<1>S. ASSUME z = Data(s, sp, tos)
      PROVE  WellTyped(z) /\ z.r = r /\ z.rp = rp /\ SeenData(z.s, z.sp, z.tos) = d
  BY <1>S, <1>f DEF Data, WellTyped, StackTyped
<1>t. sp >= 1 => d[sp] = tos BY <1>n, <1>d DEF Cell
<1>v. sp >= 2 => d[sp - 1] = s[sp]
  <2>1. sp >= 2 => sp - 1 \in 1 .. sp /\ sp - 1 # sp /\ sp - 1 + 1 = sp BY <1>n
  <2> QED BY <2>1, <1>d DEF Cell
<1>i. tos \in Int /\ (sp >= 2 => s[sp] \in Int)
  <2>1. sp >= 2 => sp \in 1 .. MaxDepth + 1 BY <1>n
  <2> QED BY <2>1 DEF StackTyped
<1>1. CASE w = "(lit)"
  <2>1. z = Data(Pushed, sp + 1, u) BY <1>1 DEF z, StackWord
  <2>2. CountedEffect(w, u, d) = Append(d, u) BY <1>1 DEF CountedEffect
  <2> QED BY <2>1, <2>2, <1>P DEF z, d
<1>2. CASE w = "?dup"
  <2>0. 1 <= sp BY <1>2 DEF Needed
  <2>1. CountedEffect(w, u, d) = IF d[sp] = 0 THEN d ELSE Append(d, d[sp])
    BY <1>2, <1>d DEF CountedEffect
  <2>2. CASE tos = 0
    <3>1. z = Data(s, sp, tos) BY <1>2, <2>2 DEF z, StackWord
    <3> QED BY <3>1, <2>0, <2>1, <2>2, <1>t, <1>S, <1>n DEF z, d
  <2>3. CASE tos # 0
    <3>1. z = Data(Pushed, sp + 1, tos) BY <1>2, <2>3 DEF z, StackWord
    <3>2. CountedEffect(w, u, d) = Append(d, tos) BY <2>0, <2>1, <2>3, <1>t, <1>n
    <3> QED BY <3>1, <3>2, <1>P, <1>i DEF z, d
  <2> QED BY <2>2, <2>3
<1>3. CASE w = "min"
  <2>0. 2 <= sp BY <1>3 DEF Needed
  <2> DEFINE x == IF s[sp] < tos THEN s[sp] ELSE tos
  <2>1. z = Data(s, sp - 1, x) BY <1>3 DEF z, StackWord
  <2>2. CountedEffect(w, u, d)
             = Append(AllBut(d, 2), IF d[sp] < d[sp - 1] THEN d[sp] ELSE d[sp - 1])
    BY <1>3, <1>d DEF CountedEffect
  <2>3. x \in Int /\ x = IF d[sp] < d[sp - 1] THEN d[sp] ELSE d[sp - 1]
    BY <2>0, <1>i, <1>t, <1>v, <1>n
  <2> HIDE DEF x
  <2> QED BY <2>0, <2>1, <2>2, <2>3, <1>M DEF z, d
<1>4. CASE w = "max"
  <2>0. 2 <= sp BY <1>4 DEF Needed
  <2> DEFINE x == IF s[sp] > tos THEN s[sp] ELSE tos
  <2>1. z = Data(s, sp - 1, x) BY <1>4 DEF z, StackWord
  <2>2. CountedEffect(w, u, d)
             = Append(AllBut(d, 2), IF d[sp] > d[sp - 1] THEN d[sp] ELSE d[sp - 1])
    BY <1>4, <1>d DEF CountedEffect
  <2>3. x \in Int /\ x = IF d[sp] > d[sp - 1] THEN d[sp] ELSE d[sp - 1]
    BY <2>0, <1>i, <1>t, <1>v, <1>n
  <2> HIDE DEF x
  <2> QED BY <2>0, <2>1, <2>2, <2>3, <1>M DEF z, d
<1>5. CASE w = "depth"
  <2>1. z = Data(Pushed, sp + 1, sp) BY <1>5 DEF z, StackWord
  <2>2. CountedEffect(w, u, d) = Append(d, sp) BY <1>5, <1>d DEF CountedEffect
  <2>3. sp \in Int BY <1>n
  <2> QED BY <2>1, <2>2, <2>3, <1>P DEF z, d
<1>6. CASE w = "pick"
  <2>0. u \in Nat /\ u + 1 <= sp BY <1>6 DEF Needed
  <2>1. z = Data(Pushed, sp + 1, Pushed[sp + 1 - u]) BY <1>6 DEF z, StackWord
  <2>2. CountedEffect(w, u, d) = Append(d, d[sp - u]) BY <1>6, <1>d DEF CountedEffect
  <2>3. Pushed[sp + 1 - u] = d[sp - u] /\ d[sp - u] \in Int BY <2>0, RollSeen DEF d
  <2> QED BY <2>1, <2>2, <2>3, <1>P DEF z, d
<1>7. CASE w = "roll"
  <2>0. u \in Nat /\ u + 1 <= sp BY <1>7 DEF Needed
  <2>1. z = Data(Rolled(u), sp, Pushed[sp + 1 - u]) BY <1>7 DEF z, StackWord, Rolled
  <2>2. CountedEffect(w, u, d) = AllBut(d, u + 1) \o LastOf(d, u) \o <<d[sp - u]>>
    BY <1>7, <1>d DEF CountedEffect
  <2>3. /\ Rolled(u) \in [1 .. MaxDepth + 1 -> Int]
        /\ Pushed[sp + 1 - u] = d[sp - u] /\ d[sp - u] \in Int
        /\ SeenData(Rolled(u), sp, Pushed[sp + 1 - u])
             = AllBut(d, u + 1) \o LastOf(d, u) \o <<d[sp - u]>>
    BY <2>0, RollSeen DEF d
  <2>4. z.s = Rolled(u) /\ z.sp = sp /\ z.tos = Pushed[sp + 1 - u] /\ z.r = r /\ z.rp = rp
    BY <2>1 DEF Data
  <2>5. WellTyped(z) BY <2>3, <2>4 DEF WellTyped, StackTyped
  <2> QED BY <2>2, <2>3, <2>4, <2>5 DEF z, d
<1> QED BY <1>1, <1>2, <1>3, <1>4, <1>5, <1>6, <1>7 DEF Counted

\* The words that are executed.
LEMMA WordsAre ==
  ASSUME NEW x \in Words
  PROVE  \/ x[1] \in StackMovers /\ x[2] = 0
         \/ /\ x[1] \in Counted /\ x[2] \in Int
            /\ x[1] \in {"pick", "roll"} => x[2] \in Nat
<1>1. CASE x \in (StackMovers \cup {"?dup", "min", "max", "depth"}) \X {0}
  <2> QED BY <1>1 DEF Counted
<1>2. CASE x \in {"pick", "roll"} \X (0 .. MaxDepth - 1)
  <2> QED BY <1>2, StackAssumption DEF Counted
<1>3. CASE x \in {"(lit)"} \X StackCells
  <2> QED BY <1>3, StackAssumption DEF Counted
<1> QED BY <1>1, <1>2, <1>3 DEF Words

\* A word executed keeps the types and has its effect.
LEMMA WordsWork ==
  ASSUME StackTyped, NEW x \in Words, Execute(x[1], x[2])
  PROVE  /\ StackTyped'
         /\ <<DataStack', ReturnStack'>> = StackEffect(x[1], x[2], DataStack, ReturnStack)
<1> DEFINE w == x[1]
           u == x[2]
           z == StackWord(w, u)
<1>1. /\ z.sp <= MaxDepth /\ z.rp <= MaxReturn
      /\ s' = z.s /\ sp' = z.sp /\ tos' = z.tos /\ r' = z.r /\ rp' = z.rp
      /\ IF w \in Counted THEN Needed(w, u) <= sp
         ELSE Effects[w][1] <= sp /\ Effects[w][2] <= rp
  BY DEF Execute
<1>2. /\ DataStack = SeenData(s, sp, tos) /\ ReturnStack = SeenReturn(r, rp)
      /\ DataStack' = SeenData(s', sp', tos') /\ ReturnStack' = SeenReturn(r', rp')
  BY DEF DataStack, ReturnStack, SeenData, SeenReturn
<1>3. WellTyped(z) => StackTyped' BY <1>1 DEF WellTyped, StackTyped
<1>4. CASE w \in StackMovers /\ u = 0
  <2>1. w \notin Counted BY <1>4 DEF StackMovers, Counted
  <2>2. Effects[w][1] <= sp /\ Effects[w][2] <= rp BY <2>1, <1>1
  <2>3. WellTyped(z) /\ HasEffect(z, Effects[w]) BY <2>2, <1>1, <1>4, MoversMove
  <2> HIDE DEF z
  <2>4. <<SeenData(z.s, z.sp, z.tos), SeenReturn(z.r, z.rp)>>
          = StackEffect(w, 0, SeenData(s, sp, tos), SeenReturn(r, rp))
    BY <2>2, <2>3, <1>4, EffectSeen
  <2> QED BY <2>3, <2>4, <1>1, <1>2, <1>3, <1>4
<1>5. CASE w \in Counted /\ u \in Int /\ (w \in {"pick", "roll"} => u \in Nat)
  <2>1. Needed(w, u) <= sp BY <1>1, <1>5
  <2>2. /\ WellTyped(z) /\ z.r = r /\ z.rp = rp
        /\ SeenData(z.s, z.sp, z.tos) = CountedEffect(w, u, DataStack)
    BY <2>1, <1>1, <1>5, CountersCount
  <2> HIDE DEF z
  <2>3. StackEffect(w, u, DataStack, ReturnStack) = <<CountedEffect(w, u, DataStack), ReturnStack>>
    BY <1>5 DEF StackEffect
  <2> QED BY <2>2, <2>3, <1>1, <1>2, <1>3
<1> QED BY <1>4, <1>5, WordsAre

\* The stacks stay within their arrays and hold numbers, whatever words are
\* executed: the type invariant of the words that move items.
THEOREM StackInvariant == StackSpec => []StackTyped
<1>1. StackInit => StackTyped BY StackAssumption DEF StackInit, StackTyped
<1>2. StackTyped /\ [StackNext]_stackVars => StackTyped'
  <2>1. ASSUME StackTyped, StackNext PROVE StackTyped' BY <2>1, WordsWork DEF StackNext
  <2>2. ASSUME StackTyped, UNCHANGED stackVars PROVE StackTyped' BY <2>2 DEF StackTyped, stackVars
  <2> QED BY <2>1, <2>2
<1> QED BY <1>1, <1>2, PTL DEF StackSpec

\* Every word of the stacks but rdrop has the effect that describe() gives it, on
\* both stacks, whatever was left above sp and below the first item; rdrop drops
\* one item of the return stack and changes no other.
THEOREM WordsDoAsDescribed == StackSpec => StackEffectsHold
<1> DEFINE A == stackVars' # stackVars =>
             \A x \in Words : Execute(x[1], x[2]) =>
               <<DataStack', ReturnStack'>> = StackEffect(x[1], x[2], DataStack, ReturnStack)
<1>1. StackTyped => A BY WordsWork
<1>2. StackTyped /\ [StackNext]_stackVars => [A]_stackVars BY <1>1
<1> QED BY <1>2, StackInvariant, PTL DEF StackSpec, StackEffectsHold

-----------------------------------------------------------------------------
(* Floats. *)

\* The floats a program sees with these values in the variables, and item k.
SeenFloats(q, top) == IF q = <<>> THEN <<>> ELSE Append(Tail(q), top)
FloatItem(q, top, k) == IF k = Len(q) THEN top ELSE q[k + 1]

\* A number n is <<n>>.
IsFloat(x) == Whole(x) => \E n \in Int : x = <<n>>

\* The values of a cell.
Half == 2 ^ (FloatBits - 1)
CellRange == -Half .. Half - 1

\* The inductive invariant of the floats.
FloatTyped ==
  /\ StackTyped
  /\ s \in [1 .. MaxDepth + 1 -> CellRange] /\ tos \in CellRange
  /\ \E T : /\ f \in Seq(T) /\ fm \in Seq(T) /\ ftos \in T
            /\ \A x \in T : IsFloat(x)

\* The stack of floats a program sees, item by item.
LEMMA SeenFloatsAre ==
  ASSUME NEW T, NEW q \in Seq(T), NEW top \in T
  PROVE  /\ SeenFloats(q, top) \in Seq(T) /\ Len(SeenFloats(q, top)) = Len(q)
         /\ \A k \in 1 .. Len(q) : SeenFloats(q, top)[k] = FloatItem(q, top, k)
<1> DEFINE z == SeenFloats(q, top)
<1>1. CASE q = <<>> BY <1>1 DEF SeenFloats
<1>2. CASE q # <<>>
  <2>0. Len(q) \in Nat /\ Len(q) >= 1 BY <1>2
  <2>1. Tail(q) \in Seq(T) /\ Len(Tail(q)) = Len(q) - 1
        /\ \A k \in 1 .. Len(q) - 1 : Tail(q)[k] = q[k + 1]
    BY <1>2
  <2>2. z = Append(Tail(q), top) BY <1>2 DEF SeenFloats
  <2> HIDE DEF z
  <2>3. z \in Seq(T) /\ Len(z) = Len(q) /\ z[Len(q)] = top
        /\ \A k \in 1 .. Len(q) - 1 : z[k] = Tail(q)[k]
    BY <2>0, <2>1, <2>2
  <2>4. ASSUME NEW k \in 1 .. Len(q) PROVE z[k] = FloatItem(q, top, k)
    <3>1. CASE k = Len(q) BY <3>1, <2>3 DEF FloatItem
    <3>2. CASE k # Len(q)
      <4>1. k \in 1 .. Len(q) - 1 BY <3>2, <2>0
      <4> QED BY <4>1, <3>2, <2>1, <2>3 DEF FloatItem
    <3> QED BY <3>1, <3>2
  <2> QED BY <2>3, <2>4 DEF z
<1> QED BY <1>1, <1>2

\* An item appended.
LEMMA AppendIs ==
  ASSUME NEW T, NEW q \in Seq(T), NEW x \in T
  PROVE  /\ Append(q, x) \in Seq(T) /\ Len(Append(q, x)) = Len(q) + 1
         /\ Append(q, x)[Len(q) + 1] = x
         /\ \A k \in 1 .. Len(q) : Append(q, x)[k] = q[k]
         /\ q \o <<x>> = Append(q, x)
<1>1. Append(q, x) \in Seq(T) /\ Len(Append(q, x)) = Len(q) + 1 /\ Append(q, x)[Len(q) + 1] = x
  OBVIOUS
<1>2. \A k \in 1 .. Len(q) : Append(q, x)[k] = q[k] OBVIOUS
<1>3. q \o <<x>> = Append(q, x) OBVIOUS
<1> QED BY <1>1, <1>2, <1>3

\* A stack is what is left without its last items, and these.
LEMMA WholeIs ==
  ASSUME NEW T, NEW q \in Seq(T)
  PROVE  /\ AllBut(q, 0) = q
         /\ q \o <<>> = q
         /\ Len(q) >= 1 => LastOf(q, 1) = <<q[Len(q)]>>
         /\ Len(q) >= 2 => LastOf(q, 2) = <<q[Len(q) - 1], q[Len(q)]>>
         /\ Len(q) >= 1 => q = Append(AllBut(q, 1), q[Len(q)])
         /\ Len(q) >= 2 => AllBut(AllBut(q, 1), 1) = AllBut(q, 2)
<1>0. Len(q) \in Nat OBVIOUS
<1>1. AllBut(q, 0) = q BY <1>0 DEF AllBut
<1>2. q \o <<>> = q OBVIOUS
<1>3. ASSUME Len(q) >= 1 PROVE LastOf(q, 1) = <<q[Len(q)]>>
  <2>1. 1 \in 0 .. Len(q) BY <1>0, <1>3
  <2>2. LastOf(q, 1) \in Seq(T) /\ Len(LastOf(q, 1)) = 1
        /\ \A k \in 1 .. 1 : LastOf(q, 1)[k] = q[Len(q) - 1 + k]
    BY <2>1, PartsOf
  <2>3. LastOf(q, 1)[1] = q[Len(q)] BY <2>2, <1>0
  <2> QED BY <2>2, <2>3
<1>4. ASSUME Len(q) >= 2 PROVE LastOf(q, 2) = <<q[Len(q) - 1], q[Len(q)]>>
  <2>1. 2 \in 0 .. Len(q) BY <1>0, <1>4
  <2>2. LastOf(q, 2) \in Seq(T) /\ Len(LastOf(q, 2)) = 2
        /\ \A k \in 1 .. 2 : LastOf(q, 2)[k] = q[Len(q) - 2 + k]
    BY <2>1, PartsOf
  <2>3. LastOf(q, 2)[1] = q[Len(q) - 1] /\ LastOf(q, 2)[2] = q[Len(q)] BY <2>2, <1>0
  <2> QED BY <2>2, <2>3
<1>5. ASSUME Len(q) >= 1 PROVE q = Append(AllBut(q, 1), q[Len(q)])
  BY <1>0, <1>5 DEF AllBut
<1>6. ASSUME Len(q) >= 2 PROVE AllBut(AllBut(q, 1), 1) = AllBut(q, 2)
  BY <1>0, <1>6 DEF AllBut
<1> QED BY <1>1, <1>2, <1>3, <1>4, <1>5, <1>6

-----------------------------------------------------------------------------
(* What becomes of the stack of floats. *)

\* A float pushed: the old top goes into the array.
LEMMA FloatPush ==
  ASSUME NEW T, NEW q \in Seq(T), NEW top \in T, NEW x \in T
  PROVE  SeenFloats(Append(q, top), x) = Append(SeenFloats(q, top), x)
<1> DEFINE g == Append(q, top)
<1>1. g \in Seq(T) /\ g # <<>>
  <2>1. g \in Seq(T) /\ Len(g) = Len(q) + 1 /\ Len(q) \in Nat BY AppendIs
  <2>2. Len(g) # 0 BY <2>1
  <2> QED BY <2>1, <2>2
<1>2. SeenFloats(g, x) = Append(Tail(g), x) BY <1>1 DEF SeenFloats
<1>3. Tail(g) = SeenFloats(q, top)
  <2>1. CASE q = <<>>
    <3>1. g = <<top>> /\ SeenFloats(q, top) = <<>> BY <2>1 DEF SeenFloats
    <3> QED BY <3>1
  <2>2. CASE q # <<>>
    <3>1. Tail(g) = Append(Tail(q), top) BY <2>2
    <3> QED BY <3>1, <2>2 DEF SeenFloats
  <2> QED BY <2>1, <2>2
<1> QED BY <1>2, <1>3

\* The top replaced.
LEMMA FloatTop ==
  ASSUME NEW T, NEW q \in Seq(T), NEW top \in T, NEW x \in T, q # <<>>
  PROVE  SeenFloats(q, x) = Append(AllBut(SeenFloats(q, top), 1), x)
<1>1. Tail(q) \in Seq(T) OBVIOUS
<1>2. AllBut(Append(Tail(q), top), 1) = Tail(q) BY <1>1 DEF AllBut
<1> QED BY <1>2 DEF SeenFloats

\* The top dropped: the array gives the new one.
LEMMA FloatPop ==
  ASSUME NEW T, NEW q \in Seq(T), NEW top \in T, q # <<>>
  PROVE  /\ AllBut(q, 1) \in Seq(T) /\ Len(AllBut(q, 1)) = Len(q) - 1 /\ q[Len(q)] \in T
         /\ SeenFloats(AllBut(q, 1), q[Len(q)]) = AllBut(SeenFloats(q, top), 1)
<1> DEFINE g == AllBut(q, 1)
           t == Tail(q)
<1>0. Len(q) \in Nat /\ Len(q) >= 1 /\ q[Len(q)] \in T OBVIOUS
<1>1. g \in Seq(T) /\ Len(g) = Len(q) - 1 /\ \A k \in 1 .. Len(q) - 1 : g[k] = q[k]
  <2>1. 1 \in 0 .. Len(q) BY <1>0
  <2> QED BY <2>1, PartsOf
<1>2. t \in Seq(T) /\ Len(t) = Len(q) - 1 /\ \A k \in 1 .. Len(q) - 1 : t[k] = q[k + 1]
  OBVIOUS
<1>3. AllBut(SeenFloats(q, top), 1) = t
  <2>1. AllBut(Append(t, top), 1) = t BY <1>2 DEF AllBut
  <2> QED BY <2>1 DEF SeenFloats
<1> HIDE DEF g, t
<1>4. SeenFloats(g, q[Len(q)]) = t
  <2> DEFINE z == SeenFloats(g, q[Len(q)])
  <2>1. z \in Seq(T) /\ Len(z) = Len(g) /\ \A k \in 1 .. Len(g) : z[k] = FloatItem(g, q[Len(q)], k)
    BY <1>0, <1>1, SeenFloatsAre
  <2> HIDE DEF z
  <2>2. ASSUME NEW k \in 1 .. Len(z) PROVE z[k] = t[k]
    <3>1. k \in 1 .. Len(q) - 1 /\ k \in 1 .. Len(g) BY <1>1, <2>1
    <3>2. CASE k = Len(g)
      <4>1. k + 1 = Len(q) BY <1>0, <1>1, <3>2
      <4> QED BY <4>1, <3>1, <3>2, <2>1, <1>2 DEF FloatItem
    <3>3. CASE k # Len(g)
      <4>1. k + 1 \in 1 .. Len(q) - 1 BY <1>0, <1>1, <3>1, <3>3
      <4> QED BY <4>1, <3>1, <3>3, <2>1, <1>1, <1>2 DEF FloatItem
    <3> QED BY <3>2, <3>3
  <2>3. z = t BY <1>1, <1>2, <2>1, <2>2, SameItems
  <2> QED BY <2>3 DEF z
<1> QED BY <1>0, <1>1, <1>3, <1>4 DEF g

\* The two floats on top replaced by one, and by two.
LEMMA FloatMerge ==
  ASSUME NEW T, NEW q \in Seq(T), NEW top \in T, NEW x \in T, Len(q) >= 2
  PROVE  /\ SeenFloats(AllBut(q, 1), x) = Append(AllBut(SeenFloats(q, top), 2), x)
         /\ SeenFloats(Append(AllBut(q, 1), top), x)
              = Append(Append(AllBut(SeenFloats(q, top), 2), top), x)
<1> DEFINE g == AllBut(q, 1)
           y == q[Len(q)]
           d == SeenFloats(q, top)
<1>0. q # <<>> /\ Len(q) \in Nat OBVIOUS
<1>1. g \in Seq(T) /\ Len(g) = Len(q) - 1 /\ y \in T /\ SeenFloats(g, y) = AllBut(d, 1)
  BY <1>0, FloatPop
<1>2. d \in Seq(T) /\ Len(d) = Len(q) BY SeenFloatsAre
<1> HIDE DEF g, y, d
<1>3. g # <<>> BY <1>1, <1>0
<1>4. AllBut(AllBut(d, 1), 1) = AllBut(d, 2) BY <1>2, WholeIs
<1>5. \A w \in T : SeenFloats(g, w) = Append(AllBut(d, 2), w)
  <2> SUFFICES ASSUME NEW w \in T PROVE SeenFloats(g, w) = Append(AllBut(d, 2), w) OBVIOUS
  <2>1. g \in Seq(T) /\ y \in T BY <1>1
  <2>2. SeenFloats(g, w) = Append(AllBut(SeenFloats(g, y), 1), w) BY <2>1, <1>3, FloatTop
  <2> QED BY <2>2, <1>1, <1>4
<1>6. SeenFloats(Append(g, top), x) = Append(SeenFloats(g, top), x) BY <1>1, FloatPush
<1> QED BY <1>5, <1>6 DEF g, d

\* The floats on top.
LEMMA FloatTops ==
  ASSUME NEW T, NEW q \in Seq(T), NEW top \in T
  PROVE  LET d == SeenFloats(q, top)
         IN /\ Len(q) >= 1 => LastOf(d, 1) = <<top>>
            /\ Len(q) >= 2 => LastOf(d, 2) = <<q[Len(q)], top>>
<1> DEFINE d == SeenFloats(q, top)
<1>1. /\ d \in Seq(T) /\ Len(d) = Len(q)
      /\ \A k \in 1 .. Len(q) : d[k] = FloatItem(q, top, k)
  BY SeenFloatsAre
<1> HIDE DEF d
<1>0. Len(q) \in Nat OBVIOUS
<1>2. Len(q) >= 1 => d[Len(q)] = top BY <1>0, <1>1 DEF FloatItem
<1>3. Len(q) >= 2 => d[Len(q) - 1] = q[Len(q)]
  <2>1. Len(q) >= 2 => /\ Len(q) - 1 \in 1 .. Len(q) /\ Len(q) - 1 # Len(q)
                       /\ Len(q) - 1 + 1 = Len(q)
    BY <1>0
  <2> QED BY <2>1, <1>1 DEF FloatItem
<1>4. /\ Len(d) >= 1 => LastOf(d, 1) = <<d[Len(d)]>>
      /\ Len(d) >= 2 => LastOf(d, 2) = <<d[Len(d) - 1], d[Len(d)]>>
  BY <1>1, WholeIs
<1> QED BY <1>0, <1>1, <1>2, <1>3, <1>4 DEF d

-----------------------------------------------------------------------------
(* What becomes of the data stack. *)

\* One item and two dropped, and the items on top.
LEMMA DataDrops ==
  ASSUME StackTyped
  PROVE  /\ sp >= 1 => /\ SeenData(s, sp - 1, s[sp]) = AllBut(DataStack, 1)
                       /\ LastOf(DataStack, 1) = <<tos>>
         /\ sp >= 2 => /\ SeenData(s, sp - 2, s[sp - 1]) = AllBut(DataStack, 2)
                       /\ LastOf(DataStack, 2) = <<s[sp], tos>>
<1> DEFINE d == DataStack
<1>1. d \in Seq(Int) /\ Len(d) = sp /\ \A k \in 1 .. sp : d[k] = Cell(s, sp, tos, k) BY DataIs
<1>n. MaxDepth \in Nat /\ sp \in Nat /\ sp <= MaxDepth BY StackAssumption DEF StackTyped
<1>s. s \in [1 .. MaxDepth + 1 -> Int] BY DEF StackTyped
<1> HIDE DEF d
<1>2. ASSUME NEW n \in 1 .. 2, n <= sp PROVE SeenData(s, sp - n, s[sp - n + 1]) = AllBut(d, n)
  <2> DEFINE p == sp - n
             x == s[p + 1]
             z == SeenData(s, p, x)
             c == AllBut(d, n)
  <2>1. p \in 0 .. MaxDepth /\ p \in Nat /\ p + 1 \in 1 .. MaxDepth + 1 /\ p < sp BY <1>n, <1>2
  <2>2. x \in Int BY <2>1, <1>s
  <2>3. n \in 0 .. Len(d) BY <1>1, <1>2, <1>n
  <2>4. c \in Seq(Int) /\ Len(c) = p /\ \A k \in 1 .. p : c[k] = d[k]
    BY <2>3, <1>1, NumberParts
  <2> HIDE DEF p, x, c
  <2>5. z \in Seq(Int) /\ Len(z) = p /\ \A k \in 1 .. p : z[k] = Cell(s, p, x, k)
    BY <2>1, <2>2, <1>s, SeenDataIs
  <2> HIDE DEF z
  <2>6. ASSUME NEW k \in 1 .. Len(z) PROVE z[k] = c[k]
    <3>1. k \in 1 .. p /\ k \in 1 .. sp /\ k # sp BY <1>n, <2>1, <2>5
    <3>2. d[k] = s[k + 1] BY <3>1, <1>1 DEF Cell
    <3>3. z[k] = s[k + 1] BY <3>1, <2>5 DEF Cell, x
    <3> QED BY <3>1, <3>2, <3>3, <2>4
  <2>7. z = c BY <2>4, <2>5, <2>6, SameItems
  <2> QED BY <2>7 DEF z, c, x, p
<1>3. sp >= 1 => SeenData(s, sp - 1, s[sp]) = AllBut(d, 1)
  <2>1. sp - 1 + 1 = sp BY <1>n
  <2> QED BY <2>1, <1>2
<1>4. sp >= 2 => SeenData(s, sp - 2, s[sp - 1]) = AllBut(d, 2)
  <2>1. sp - 2 + 1 = sp - 1 BY <1>n
  <2> QED BY <2>1, <1>2
<1>5. sp >= 1 => d[sp] = tos BY <1>n, <1>1 DEF Cell
<1>6. sp >= 2 => d[sp - 1] = s[sp]
  <2>1. sp >= 2 => sp - 1 \in 1 .. sp /\ sp - 1 # sp /\ sp - 1 + 1 = sp BY <1>n
  <2> QED BY <2>1, <1>1 DEF Cell
<1>7. /\ Len(d) >= 1 => LastOf(d, 1) = <<d[Len(d)]>>
      /\ Len(d) >= 2 => LastOf(d, 2) = <<d[Len(d) - 1], d[Len(d)]>>
  BY <1>1, WholeIs
<1> QED BY <1>1, <1>3, <1>4, <1>5, <1>6, <1>7 DEF d

\* Two numbers pushed.
LEMMA DataPushTwo ==
  ASSUME StackTyped, sp + 2 <= MaxDepth, NEW x \in Int, NEW y \in Int
  PROVE  /\ Set(Pushed, sp + 2, x) \in [1 .. MaxDepth + 1 -> Int]
         /\ AllBut(SeenData(Set(Pushed, sp + 2, x), sp + 2, y), 2) = DataStack
<1> DEFINE d == DataStack
           a == Set(Pushed, sp + 2, x)
           p == sp + 2
           z == SeenData(a, p, y)
<1>1. d \in Seq(Int) /\ Len(d) = sp /\ \A k \in 1 .. sp : d[k] = Cell(s, sp, tos, k) BY DataIs
<1>n. MaxDepth \in Nat /\ sp \in Nat /\ p \in 0 .. MaxDepth /\ p \in 1 .. MaxDepth + 1
  BY StackAssumption DEF StackTyped
<1>2. a \in [1 .. MaxDepth + 1 -> Int] /\ \A k \in 1 .. MaxDepth + 1 : k # p => a[k] = Pushed[k]
  <2>1. Pushed \in [1 .. MaxDepth + 1 -> Int] BY PushedIs
  <2> QED BY <2>1, <1>n DEF Set
<1> HIDE DEF d, a
<1>3. z \in Seq(Int) /\ Len(z) = p /\ \A k \in 1 .. p : z[k] = Cell(a, p, y, k)
  BY <1>2, <1>n, SeenDataIs
<1> DEFINE c == AllBut(z, 2)
<1> HIDE DEF z
<1>4. c \in Seq(Int) /\ Len(c) = sp /\ \A k \in 1 .. sp : c[k] = z[k]
  <2>1. 2 \in 0 .. Len(z) /\ Len(z) - 2 = sp BY <1>n, <1>3
  <2> QED BY <2>1, <1>3, NumberParts
<1> HIDE DEF c
<1>5. ASSUME NEW k \in 1 .. Len(c) PROVE c[k] = d[k]
  <2>1. /\ k \in 1 .. sp /\ k \in 1 .. p /\ k # p /\ k + 1 \in 1 .. MaxDepth + 1 /\ k + 1 # p
    BY <1>n, <1>4
  <2>2. c[k] = Pushed[k + 1] BY <2>1, <1>2, <1>3, <1>4 DEF Cell
  <2>3. CASE k = sp BY <2>1, <2>2, <2>3, <1>1, PushedIs DEF Cell
  <2>4. CASE k # sp
    <3>1. k + 1 # sp + 1 BY <1>n, <2>4
    <3> QED BY <2>1, <2>2, <2>4, <3>1, <1>1, PushedIs DEF Cell
  <2> QED BY <2>3, <2>4
<1>6. c = d BY <1>1, <1>4, <1>5, SameItems
<1> QED BY <1>2, <1>6 DEF c, z, a, d

\* Two items appended.
LEMMA PairAppended ==
  ASSUME NEW T, NEW q \in Seq(T), NEW a \in T, NEW b \in T
  PROVE  q \o <<a, b>> = Append(Append(q, a), b)
OBVIOUS

\* Three items appended.
LEMMA TripleAppended ==
  ASSUME NEW T, NEW q \in Seq(T), NEW a \in T, NEW b \in T, NEW c \in T
  PROVE  q \o <<a, b, c>> = Append(Append(Append(q, a), b), c)
OBVIOUS

\* A sequence is one of a larger set too.
LEMMA SeqWider ==
  ASSUME NEW T, NEW U, T \subseteq U, NEW q \in Seq(T)
  PROVE  q \in Seq(U)
OBVIOUS

\* What the values that words leave on the float stack are to the floats there.
LEMMA FloatShapes ==
  ASSUME NEW T, f \in Seq(T), ftos \in T
  PROVE  LET fs == FloatStack
         IN /\ fs = SeenFloats(f, ftos) /\ fs \in Seq(T) /\ Len(fs) = Len(f)
            /\ fs = AllBut(fs, 0) \o <<>>
            /\ \A x : SeenFloats(FPushed, x) = AllBut(fs, 0) \o <<x>>
            /\ Len(f) >= 1 =>
                 /\ LastOf(fs, 1) = <<ftos>> /\ Second \in T /\ FPopped \in Seq(T)
                 /\ \A x : SeenFloats(f, x) = AllBut(fs, 1) \o <<x>>
                 /\ SeenFloats(FPopped, Second) = AllBut(fs, 1) \o <<>>
                 /\ SeenFloats(FPushed, ftos) = AllBut(fs, 1) \o <<ftos, ftos>>
            /\ Len(f) >= 2 =>
                 /\ LastOf(fs, 2) = <<Second, ftos>>
                 /\ \A x : SeenFloats(FPopped, x) = AllBut(fs, 2) \o <<x>>
                 /\ SeenFloats(Append(FPopped, ftos), Second) = AllBut(fs, 2) \o <<ftos, Second>>
                 /\ SeenFloats(FPushed, Second) = AllBut(fs, 2) \o <<Second, ftos, Second>>
<1> DEFINE fs == FloatStack
<1>1. fs = SeenFloats(f, ftos) BY DEF FloatStack, SeenFloats
<1>2. fs \in Seq(T) /\ Len(fs) = Len(f) BY <1>1, SeenFloatsAre
<1> HIDE DEF fs
<1>0. Len(f) \in Nat OBVIOUS
<1>3. fs = AllBut(fs, 0) \o <<>> /\ AllBut(fs, 0) = fs BY <1>2, WholeIs
<1>4. ASSUME NEW x PROVE SeenFloats(FPushed, x) = Append(fs, x) /\ Append(fs, x) = fs \o <<x>>
  <2> DEFINE U == T \cup {x}
  <2>1. T \subseteq U /\ x \in U OBVIOUS
  <2>2. f \in Seq(U) /\ ftos \in U /\ x \in U /\ fs \in Seq(U) BY <2>1, <1>2, SeqWider
  <2> HIDE DEF U
  <2>3. SeenFloats(FPushed, x) = Append(fs, x) BY <2>2, <1>1, FloatPush DEF FPushed
  <2> QED BY <2>2, <2>3, AppendIs
<1>5. \A x : SeenFloats(FPushed, x) = AllBut(fs, 0) \o <<x>> BY <1>3, <1>4
<1>6. ASSUME Len(f) >= 1
      PROVE /\ LastOf(fs, 1) = <<ftos>> /\ Second \in T /\ FPopped \in Seq(T)
            /\ \A x : SeenFloats(f, x) = AllBut(fs, 1) \o <<x>>
            /\ SeenFloats(FPopped, Second) = AllBut(fs, 1) \o <<>>
            /\ SeenFloats(FPushed, ftos) = AllBut(fs, 1) \o <<ftos, ftos>>
  <2>0. f # <<>> BY <1>6
  <2>1. LastOf(fs, 1) = <<ftos>> BY <1>1, <1>6, FloatTops
  <2>2. /\ FPopped \in Seq(T) /\ Second \in T
        /\ SeenFloats(FPopped, Second) = AllBut(fs, 1)
    BY <2>0, <1>1, FloatPop DEF FPopped, Second
  <2>3. AllBut(fs, 1) \in Seq(T)
    <3>1. 1 \in 0 .. Len(fs) BY <1>0, <1>2, <1>6
    <3> QED BY <3>1, <1>2, PartsOf
  <2>4. AllBut(fs, 1) \o <<>> = AllBut(fs, 1) BY <2>3, WholeIs
  <2>5. ASSUME NEW x PROVE SeenFloats(f, x) = AllBut(fs, 1) \o <<x>>
    <3> DEFINE U == T \cup {x}
    <3>1. T \subseteq U /\ x \in U OBVIOUS
    <3>2. f \in Seq(U) /\ ftos \in U /\ x \in U /\ AllBut(fs, 1) \in Seq(U)
      BY <3>1, <2>3, SeqWider
    <3> HIDE DEF U
    <3>3. SeenFloats(f, x) = Append(AllBut(fs, 1), x) BY <3>2, <2>0, <1>1, FloatTop
    <3> QED BY <3>2, <3>3, AppendIs
  <2>6. SeenFloats(FPushed, ftos) = AllBut(fs, 1) \o <<ftos, ftos>>
    <3>1. fs = Append(AllBut(fs, 1), ftos)
      <4>1. SeenFloats(f, ftos) = AllBut(fs, 1) \o <<ftos>> BY <2>5
      <4>2. AllBut(fs, 1) \o <<ftos>> = Append(AllBut(fs, 1), ftos) BY <2>3, AppendIs
      <4> QED BY <4>1, <4>2, <1>1
    <3>2. AllBut(fs, 1) \o <<ftos, ftos>> = Append(Append(AllBut(fs, 1), ftos), ftos)
      BY <2>3, PairAppended
    <3> QED BY <3>1, <3>2, <1>4
  <2> QED BY <2>1, <2>2, <2>4, <2>5, <2>6
<1>7. ASSUME Len(f) >= 2
      PROVE /\ LastOf(fs, 2) = <<Second, ftos>>
            /\ \A x : SeenFloats(FPopped, x) = AllBut(fs, 2) \o <<x>>
            /\ SeenFloats(Append(FPopped, ftos), Second) = AllBut(fs, 2) \o <<ftos, Second>>
            /\ SeenFloats(FPushed, Second) = AllBut(fs, 2) \o <<Second, ftos, Second>>
  <2>0. Len(f) >= 1 BY <1>7, <1>0
  <2>1. LastOf(fs, 2) = <<Second, ftos>> BY <1>1, <1>7, FloatTops DEF Second
  <2>2. Second \in T BY <2>0, <1>6
  <2>3. AllBut(fs, 2) \in Seq(T)
    <3>1. 2 \in 0 .. Len(fs) BY <1>0, <1>2, <1>7
    <3> QED BY <3>1, <1>2, PartsOf
  <2>4. ASSUME NEW x PROVE SeenFloats(FPopped, x) = AllBut(fs, 2) \o <<x>>
    <3> DEFINE U == T \cup {x}
    <3>1. T \subseteq U /\ x \in U OBVIOUS
    <3>2. f \in Seq(U) /\ ftos \in U /\ x \in U /\ AllBut(fs, 2) \in Seq(U)
      BY <3>1, <2>3, SeqWider
    <3> HIDE DEF U
    <3>3. SeenFloats(FPopped, x) = Append(AllBut(fs, 2), x)
      <4>1. SeenFloats(AllBut(f, 1), x) = Append(AllBut(SeenFloats(f, ftos), 2), x)
        BY <3>2, <1>7, FloatMerge
      <4> QED BY <4>1, <1>1 DEF FPopped
    <3> QED BY <3>2, <3>3, AppendIs
  <2>5. SeenFloats(Append(FPopped, ftos), Second) = AllBut(fs, 2) \o <<ftos, Second>>
    <3>1. SeenFloats(Append(FPopped, ftos), Second) = Append(Append(AllBut(fs, 2), ftos), Second)
      BY <2>2, <1>7, <1>1, FloatMerge DEF FPopped
    <3>2. AllBut(fs, 2) \o <<ftos, Second>> = Append(Append(AllBut(fs, 2), ftos), Second)
      BY <2>2, <2>3, PairAppended
    <3> QED BY <3>1, <3>2
  <2>6. SeenFloats(FPushed, Second) = AllBut(fs, 2) \o <<Second, ftos, Second>>
    <3>1. fs = Append(Append(AllBut(fs, 2), Second), ftos)
      <4>1. fs = Append(AllBut(fs, 1), fs[Len(fs)])
            /\ AllBut(AllBut(fs, 1), 1) = AllBut(fs, 2)
        BY <1>2, <1>7, <2>0, WholeIs
      <4> DEFINE g == AllBut(fs, 1)
      <4>2. g \in Seq(T) /\ Len(g) = Len(f) - 1 /\ g[Len(f) - 1] = fs[Len(f) - 1]
        <5>1. 1 \in 0 .. Len(fs) /\ Len(f) - 1 \in 1 .. Len(fs) - 1 BY <1>0, <1>2, <1>7
        <5> QED BY <5>1, <1>2, PartsOf
      <4> HIDE DEF g
      <4>3. g = Append(AllBut(g, 1), g[Len(g)]) BY <4>2, <1>0, <1>7, WholeIs
      <4>4. LastOf(fs, 2) = <<fs[Len(fs) - 1], fs[Len(fs)]>> BY <1>2, <1>7, WholeIs
      <4>5. fs[Len(fs) - 1] = Second /\ fs[Len(fs)] = ftos BY <4>4, <2>1
      <4> QED BY <4>1, <4>2, <4>3, <4>5, <1>2 DEF g
    <3>2. AllBut(fs, 2) \o <<Second, ftos, Second>>
            = Append(Append(Append(AllBut(fs, 2), Second), ftos), Second)
      BY <2>2, <2>3, TripleAppended
    <3> QED BY <3>1, <3>2, <1>4
  <2> QED BY <2>1, <2>4, <2>5, <2>6
<1> QED BY <1>1, <1>2, <1>3, <1>5, <1>6, <1>7 DEF fs

\* What the values that words leave on the data stack are to the items there.
LEMMA DataShapes ==
  ASSUME StackTyped
  PROVE  LET d == DataStack
         IN /\ SeenData(s, sp, tos) = AllBut(d, 0) \o <<>> /\ Len(d) = sp
            /\ sp + 1 <= MaxDepth =>
                 \A n \in Int : SeenData(Pushed, sp + 1, n) = AllBut(d, 0) \o <<n>>
            /\ sp >= 1 => /\ SeenData(s, sp - 1, s[sp]) = AllBut(d, 1) \o <<>>
                          /\ LastOf(d, 1) = <<tos>>
            /\ sp >= 2 => /\ SeenData(s, sp - 2, s[sp - 1]) = AllBut(d, 2) \o <<>>
                          /\ LastOf(d, 2) = <<s[sp], tos>>
<1> DEFINE d == DataStack
<1>1. d \in Seq(Int) /\ Len(d) = sp BY DataIs
<1>2. d = SeenData(s, sp, tos) BY DEF DataStack, SeenData
<1>n. sp \in Nat BY DEF StackTyped
<1> HIDE DEF d
<1>3. AllBut(d, 0) = d /\ d \o <<>> = d BY <1>1, WholeIs
<1>4. ASSUME sp + 1 <= MaxDepth, NEW n \in Int
      PROVE SeenData(Pushed, sp + 1, n) = AllBut(d, 0) \o <<n>>
  <2>1. SeenData(Pushed, sp + 1, n) = Append(d, n) BY <1>4, PushSeen DEF d
  <2>2. d \o <<n>> = Append(d, n) BY <1>1, AppendIs
  <2> QED BY <2>1, <2>2, <1>3
<1>5. \A n \in 1 .. 2 : n <= sp => AllBut(d, n) \o <<>> = AllBut(d, n)
  <2> SUFFICES ASSUME NEW n \in 1 .. 2, n <= sp PROVE AllBut(d, n) \o <<>> = AllBut(d, n)
    OBVIOUS
  <2>1. n \in 0 .. Len(d) BY <1>1, <1>n
  <2>2. AllBut(d, n) \in Seq(Int) BY <2>1, <1>1, NumberParts
  <2> QED BY <2>2, WholeIs
<1>6. /\ sp >= 1 => AllBut(d, 1) \o <<>> = AllBut(d, 1)
      /\ sp >= 2 => AllBut(d, 2) \o <<>> = AllBut(d, 2)
  BY <1>5, <1>n
<1>7. /\ sp >= 1 => /\ SeenData(s, sp - 1, s[sp]) = AllBut(d, 1)
                    /\ LastOf(d, 1) = <<tos>>
      /\ sp >= 2 => /\ SeenData(s, sp - 2, s[sp - 1]) = AllBut(d, 2)
                    /\ LastOf(d, 2) = <<s[sp], tos>>
  BY DataDrops DEF d
<1> QED BY <1>1, <1>2, <1>3, <1>4, <1>6, <1>7 DEF d
-----------------------------------------------------------------------------
(* The float words. *)

\* The floats of the state are in T, and the items on the data stack are cells.
Given(T) ==
  /\ StackTyped
  /\ s \in [1 .. MaxDepth + 1 -> CellRange] /\ tos \in CellRange
  /\ f \in Seq(T) /\ fm \in Seq(T) /\ ftos \in T
  /\ \A x \in T : IsFloat(x)

\* The values z that a word leaves are of the right types.
LeftTyped(z, T) ==
  /\ z.s \in [1 .. MaxDepth + 1 -> CellRange] /\ z.sp \in 0 .. MaxDepth
  /\ z.f \in Seq(T) /\ z.fm \in Seq(T) /\ IsFloat(z.ftos)

\* The values z are the effect that the word is described with.
LeftAsDescribed(w, u, z) ==
  LET n == Takes(w)
      d == LastOf(DataStack, n[1])
      x == LastOf(FloatStack, n[2])
  IN /\ SeenFloats(z.f, z.ftos) = AllBut(FloatStack, n[2]) \o FloatsLeft(w, u, d, x)
     /\ IF w = "f>d"
        THEN /\ x = <<<<TwoCells(z.s[z.sp], z.tos)>>>>
             /\ AllBut(SeenData(z.s, z.sp, z.tos), 2) = DataStack
        ELSE SeenData(z.s, z.sp, z.tos) = AllBut(DataStack, n[1]) \o CellsLeft(w, x)

\* Both parts of an effect.
LEMMA EffectParts ==
  ASSUME NEW w, NEW u, NEW z, NEW i, NEW j, NEW floats, NEW cells,
         Takes(w) = <<i, j>>, w # "f>d",
         SeenFloats(z.f, z.ftos) = AllBut(FloatStack, j) \o floats,
         SeenData(z.s, z.sp, z.tos) = AllBut(DataStack, i) \o cells,
         FloatsLeft(w, u, LastOf(DataStack, i), LastOf(FloatStack, j)) = floats,
         CellsLeft(w, LastOf(FloatStack, j)) = cells
  PROVE  LeftAsDescribed(w, u, z)
<1>1. Takes(w)[1] = i /\ Takes(w)[2] = j OBVIOUS
<1> QED BY <1>1 DEF LeftAsDescribed

\* What holds whatever the word is.
LEMMA GivenFacts ==
  ASSUME NEW T, Given(T)
  PROVE  /\ MaxDepth \in Nat /\ sp \in Nat /\ sp <= MaxDepth /\ Len(f) \in Nat
         /\ Half \in Nat \ {0} /\ CellRange \subseteq Int
         /\ s \in [1 .. MaxDepth + 1 -> CellRange] /\ tos \in CellRange /\ StackTyped
         /\ f \in Seq(T) /\ fm \in Seq(T) /\ ftos \in T /\ \A x \in T : IsFloat(x)
         /\ Pushed \in [1 .. MaxDepth + 1 -> CellRange]
         /\ FPushed \in Seq(T)
         /\ -1 \in CellRange /\ 0 \in CellRange
         /\ MaxItems <= MaxDepth /\ MaxItems \in Nat
<1>1. MaxDepth \in Nat /\ sp \in Nat /\ sp <= MaxDepth /\ Len(f) \in Nat
      /\ s \in [1 .. MaxDepth + 1 -> CellRange] /\ tos \in CellRange /\ StackTyped
      /\ f \in Seq(T) /\ fm \in Seq(T) /\ ftos \in T
      /\ \A x \in T : IsFloat(x)
  BY StackAssumption DEF Given, StackTyped
<1>2. Half \in Nat \ {0} BY FloatAssumption DEF Half
<1>3. CellRange \subseteq Int /\ -1 \in CellRange /\ 0 \in CellRange
  <2> HIDE DEF Half
  <2> QED BY <1>2 DEF CellRange
<1>4. Pushed \in [1 .. MaxDepth + 1 -> CellRange] BY <1>1 DEF Pushed, Set
<1>5. FPushed \in Seq(T) BY <1>1 DEF FPushed
<1>6. MaxItems <= MaxDepth /\ MaxItems \in Nat BY <1>1, FloatAssumption
<1> QED BY <1>1, <1>2, <1>3, <1>4, <1>5, <1>6

\* The words that move floats, but for fdepth.
LEMMA MoversMoveFloats ==
  ASSUME NEW T, Given(T), NEW w \in Movers \ {"fdepth"}, NEW u,
         Takes(w)[1] <= sp, Takes(w)[2] <= Len(f), FloatWord(w, u).sp < MaxItems
  PROVE  /\ LeftTyped(FloatWord(w, u), T)
         /\ AsDescribed(w) => LeftAsDescribed(w, u, FloatWord(w, u))
<1> DEFINE z == FloatWord(w, u)
           fs == FloatStack
           d == DataStack
<1>n. /\ MaxDepth \in Nat /\ sp \in Nat /\ sp <= MaxDepth /\ Len(f) \in Nat
      /\ CellRange \subseteq Int
  BY GivenFacts
<1>s. /\ s \in [1 .. MaxDepth + 1 -> CellRange] /\ tos \in CellRange /\ StackTyped
      /\ Pushed \in [1 .. MaxDepth + 1 -> CellRange]
  BY GivenFacts
<1>f. f \in Seq(T) /\ fm \in Seq(T) /\ ftos \in T /\ FPushed \in Seq(T) BY GivenFacts
<1>i. \A x \in T : IsFloat(x) BY GivenFacts
<1>b. z.sp < MaxItems /\ MaxItems \in Nat /\ MaxItems <= MaxDepth BY GivenFacts
<1>g. Takes(w)[1] <= sp /\ Takes(w)[2] <= Len(f) OBVIOUS
<1>F. /\ fs = AllBut(fs, 0) \o <<>> /\ fs = SeenFloats(f, ftos) /\ Len(fs) = Len(f)
      /\ \A x : SeenFloats(FPushed, x) = AllBut(fs, 0) \o <<x>>
  BY <1>f, FloatShapes
<1>F1. Len(f) >= 1 =>
         /\ LastOf(fs, 1) = <<ftos>> /\ Second \in T /\ FPopped \in Seq(T)
         /\ \A x : SeenFloats(f, x) = AllBut(fs, 1) \o <<x>>
         /\ SeenFloats(FPopped, Second) = AllBut(fs, 1) \o <<>>
         /\ SeenFloats(FPushed, ftos) = AllBut(fs, 1) \o <<ftos, ftos>>
  BY <1>f, FloatShapes
<1>F2. Len(f) >= 2 =>
         /\ LastOf(fs, 2) = <<Second, ftos>>
         /\ \A x : SeenFloats(FPopped, x) = AllBut(fs, 2) \o <<x>>
         /\ SeenFloats(Append(FPopped, ftos), Second) = AllBut(fs, 2) \o <<ftos, Second>>
         /\ SeenFloats(FPushed, Second) = AllBut(fs, 2) \o <<Second, ftos, Second>>
  BY <1>f, FloatShapes
<1>D. /\ SeenData(s, sp, tos) = AllBut(d, 0) \o <<>>
      /\ sp + 1 <= MaxDepth => \A n \in Int : SeenData(Pushed, sp + 1, n) = AllBut(d, 0) \o <<n>>
      /\ sp >= 1 => /\ SeenData(s, sp - 1, s[sp]) = AllBut(d, 1) \o <<>>
                    /\ LastOf(d, 1) = <<tos>>
      /\ sp >= 2 => /\ SeenData(s, sp - 2, s[sp - 1]) = AllBut(d, 2) \o <<>>
                    /\ LastOf(d, 2) = <<s[sp], tos>>
  BY <1>s, DataShapes
<1> HIDE DEF z, fs, d
<1>1. CASE w \in {"fdrop", "f."}
  <2>1. Takes(w) = <<0, 1>>
    BY <1>1 DEF Takes, Symmetric, Ordered, Comparisons, Tests, Unary, Movers, Stores, Conversions
  <2>2. z = OnFloats(FPopped, Second)
    BY <1>1 DEF z, FloatWord, Movers, Stores, Comparisons, Tests, Unary, Symmetric, Ordered,
       Conversions, FloatMover
  <2>3. /\ z.s = s /\ z.sp = sp /\ z.tos = tos
        /\ z.f = FPopped /\ z.ftos = Second /\ z.fm = fm
    BY <2>2 DEF OnFloats, WithCell, WithoutCell, WithoutDouble, Leaves
  <2>4. 0 <= sp /\ 1 <= Len(f) BY <2>1, <1>g
  <2>5. LeftTyped(z, T) BY <2>3, <2>4, <1>b, <1>n, <1>s, <1>f, <1>i, <1>F1 DEF LeftTyped
  <2>6. SeenFloats(z.f, z.ftos) = AllBut(fs, 1) \o <<>> BY <2>3, <2>4, <1>n, <1>F, <1>F1, <1>F2
  <2>7. SeenData(z.s, z.sp, z.tos) = AllBut(d, 0) \o <<>> BY <2>3, <2>4, <1>b, <1>n, <1>s, <1>D
  <2>8. FloatsLeft(w, u, LastOf(d, 0), LastOf(fs, 1)) = <<>>
    BY <2>4, <1>1, <1>n, <1>D, <1>F1, <1>F2
      DEF FloatsLeft, Unary, Symmetric, Ordered, Comparisons, Tests
  <2>9. CellsLeft(w, LastOf(fs, 1)) = <<>>
    BY <2>4, <1>1, <1>n, <1>F, <1>F1, <1>F2 DEF CellsLeft, Comparisons, Tests, fs
  <2>10. w # "f>d" BY <1>1 DEF Unary, Symmetric, Ordered, Comparisons, Tests
  <2>11. LeftAsDescribed(w, u, z) BY <2>1, <2>6, <2>7, <2>8, <2>9, <2>10, EffectParts DEF fs, d
  <2> QED BY <2>5, <2>11 DEF z
<1>2. CASE w = "fdup"
  <2>1. Takes(w) = <<0, 1>>
    BY <1>2 DEF Takes, Symmetric, Ordered, Comparisons, Tests, Unary, Movers, Stores, Conversions
  <2>2. z = OnFloats(FPushed, ftos)
    BY <1>2 DEF z, FloatWord, Movers, Stores, Comparisons, Tests, Unary, Symmetric, Ordered,
       Conversions, FloatMover
  <2>3. /\ z.s = s /\ z.sp = sp /\ z.tos = tos
        /\ z.f = FPushed /\ z.ftos = ftos /\ z.fm = fm
    BY <2>2 DEF OnFloats, WithCell, WithoutCell, WithoutDouble, Leaves
  <2>4. 0 <= sp /\ 1 <= Len(f) BY <2>1, <1>g
  <2>5. LeftTyped(z, T) BY <2>3, <2>4, <1>b, <1>n, <1>s, <1>f, <1>i, <1>F1 DEF LeftTyped
  <2>6. SeenFloats(z.f, z.ftos) = AllBut(fs, 1) \o <<ftos, ftos>>
    BY <2>3, <2>4, <1>n, <1>F, <1>F1, <1>F2
  <2>7. SeenData(z.s, z.sp, z.tos) = AllBut(d, 0) \o <<>> BY <2>3, <2>4, <1>b, <1>n, <1>s, <1>D
  <2>8. FloatsLeft(w, u, LastOf(d, 0), LastOf(fs, 1)) = <<ftos, ftos>>
    BY <2>4, <1>2, <1>n, <1>D, <1>F1, <1>F2
      DEF FloatsLeft, Unary, Symmetric, Ordered, Comparisons, Tests
  <2>9. CellsLeft(w, LastOf(fs, 1)) = <<>>
    BY <2>4, <1>2, <1>n, <1>F, <1>F1, <1>F2 DEF CellsLeft, Comparisons, Tests, fs
  <2>10. w # "f>d" BY <1>2 DEF Unary, Symmetric, Ordered, Comparisons, Tests
  <2>11. LeftAsDescribed(w, u, z) BY <2>1, <2>6, <2>7, <2>8, <2>9, <2>10, EffectParts DEF fs, d
  <2> QED BY <2>5, <2>11 DEF z
<1>3. CASE w = "fswap"
  <2>1. Takes(w) = <<0, 2>>
    BY <1>3 DEF Takes, Symmetric, Ordered, Comparisons, Tests, Unary, Movers, Stores, Conversions
  <2>2. z = OnFloats(Append(FPopped, ftos), Second)
    BY <1>3 DEF z, FloatWord, Movers, Stores, Comparisons, Tests, Unary, Symmetric, Ordered,
       Conversions, FloatMover
  <2>3. /\ z.s = s /\ z.sp = sp /\ z.tos = tos
        /\ z.f = Append(FPopped, ftos) /\ z.ftos = Second /\ z.fm = fm
    BY <2>2 DEF OnFloats, WithCell, WithoutCell, WithoutDouble, Leaves
  <2>4. 0 <= sp /\ 2 <= Len(f) BY <2>1, <1>g
  <2>5. LeftTyped(z, T) BY <2>3, <2>4, <1>b, <1>n, <1>s, <1>f, <1>i, <1>F1 DEF LeftTyped
  <2>6. SeenFloats(z.f, z.ftos) = AllBut(fs, 2) \o <<ftos, Second>>
    BY <2>3, <2>4, <1>n, <1>F, <1>F1, <1>F2
  <2>7. SeenData(z.s, z.sp, z.tos) = AllBut(d, 0) \o <<>> BY <2>3, <2>4, <1>b, <1>n, <1>s, <1>D
  <2>8. FloatsLeft(w, u, LastOf(d, 0), LastOf(fs, 2)) = <<ftos, Second>>
    BY <2>4, <1>3, <1>n, <1>D, <1>F1, <1>F2
      DEF FloatsLeft, Unary, Symmetric, Ordered, Comparisons, Tests
  <2>9. CellsLeft(w, LastOf(fs, 2)) = <<>>
    BY <2>4, <1>3, <1>n, <1>F, <1>F1, <1>F2 DEF CellsLeft, Comparisons, Tests, fs
  <2>10. w # "f>d" BY <1>3 DEF Unary, Symmetric, Ordered, Comparisons, Tests
  <2>11. LeftAsDescribed(w, u, z) BY <2>1, <2>6, <2>7, <2>8, <2>9, <2>10, EffectParts DEF fs, d
  <2> QED BY <2>5, <2>11 DEF z
<1>4. CASE w = "fover"
  <2>1. Takes(w) = <<0, 2>>
    BY <1>4 DEF Takes, Symmetric, Ordered, Comparisons, Tests, Unary, Movers, Stores, Conversions
  <2>2. z = OnFloats(FPushed, Second)
    BY <1>4 DEF z, FloatWord, Movers, Stores, Comparisons, Tests, Unary, Symmetric, Ordered,
       Conversions, FloatMover, Over
  <2>3. /\ z.s = s /\ z.sp = sp /\ z.tos = tos
        /\ z.f = FPushed /\ z.ftos = Second /\ z.fm = fm
    BY <2>2 DEF OnFloats, WithCell, WithoutCell, WithoutDouble, Leaves
  <2>4. 0 <= sp /\ 2 <= Len(f) BY <2>1, <1>g
  <2>5. LeftTyped(z, T) BY <2>3, <2>4, <1>b, <1>n, <1>s, <1>f, <1>i, <1>F1 DEF LeftTyped
  <2>6. SeenFloats(z.f, z.ftos) = AllBut(fs, 2) \o <<Second, ftos, Second>>
    BY <2>3, <2>4, <1>n, <1>F, <1>F1, <1>F2
  <2>7. SeenData(z.s, z.sp, z.tos) = AllBut(d, 0) \o <<>> BY <2>3, <2>4, <1>b, <1>n, <1>s, <1>D
  <2>8. FloatsLeft(w, u, LastOf(d, 0), LastOf(fs, 2)) = <<Second, ftos, Second>>
    BY <2>4, <1>4, <1>n, <1>D, <1>F1, <1>F2
      DEF FloatsLeft, Unary, Symmetric, Ordered, Comparisons, Tests
  <2>9. CellsLeft(w, LastOf(fs, 2)) = <<>>
    BY <2>4, <1>4, <1>n, <1>F, <1>F1, <1>F2 DEF CellsLeft, Comparisons, Tests, fs
  <2>10. w # "f>d" BY <1>4 DEF Unary, Symmetric, Ordered, Comparisons, Tests
  <2>11. LeftAsDescribed(w, u, z) BY <2>1, <2>6, <2>7, <2>8, <2>9, <2>10, EffectParts DEF fs, d
  <2> QED BY <2>5, <2>11 DEF z
<1>5. CASE w = "pi"
  <2>1. Takes(w) = <<0, 0>>
    BY <1>5 DEF Takes, Symmetric, Ordered, Comparisons, Tests, Unary, Movers, Stores, Conversions
  <2>2. z = OnFloats(FPushed, <<"pi", <<>>>>)
    BY <1>5 DEF z, FloatWord, Movers, Stores, Comparisons, Tests, Unary, Symmetric, Ordered,
       Conversions, FloatMover
  <2>3. /\ z.s = s /\ z.sp = sp /\ z.tos = tos
        /\ z.f = FPushed /\ z.ftos = <<"pi", <<>>>> /\ z.fm = fm
    BY <2>2 DEF OnFloats, WithCell, WithoutCell, WithoutDouble, Leaves
  <2>4. 0 <= sp /\ 0 <= Len(f) BY <2>1, <1>g
  <2>5. LeftTyped(z, T)
    BY <2>3, <2>4, <1>b, <1>n, <1>s, <1>f, <1>i, <1>F1 DEF LeftTyped, IsFloat, Whole
  <2>6. SeenFloats(z.f, z.ftos) = AllBut(fs, 0) \o <<<<"pi", <<>>>>>>
    BY <2>3, <2>4, <1>n, <1>F, <1>F1, <1>F2
  <2>7. SeenData(z.s, z.sp, z.tos) = AllBut(d, 0) \o <<>> BY <2>3, <2>4, <1>b, <1>n, <1>s, <1>D
  <2>8. FloatsLeft(w, u, LastOf(d, 0), LastOf(fs, 0)) = <<<<"pi", <<>>>>>>
    BY <2>4, <1>5, <1>n, <1>D, <1>F1, <1>F2
      DEF FloatsLeft, Unary, Symmetric, Ordered, Comparisons, Tests
  <2>9. CellsLeft(w, LastOf(fs, 0)) = <<>>
    BY <2>4, <1>5, <1>n, <1>F, <1>F1, <1>F2 DEF CellsLeft, Comparisons, Tests, fs
  <2>10. w # "f>d" BY <1>5 DEF Unary, Symmetric, Ordered, Comparisons, Tests
  <2>11. LeftAsDescribed(w, u, z) BY <2>1, <2>6, <2>7, <2>8, <2>9, <2>10, EffectParts DEF fs, d
  <2> QED BY <2>5, <2>11 DEF z
<1> QED BY <1>1, <1>2, <1>3, <1>4, <1>5 DEF z, Movers

\* The words that fetch and store floats.
LEMMA StoresStore ==
  ASSUME NEW T, Given(T), NEW w \in Stores, NEW u,
         Takes(w)[1] <= sp, Takes(w)[2] <= Len(f), FloatWord(w, u).sp < MaxItems,
         w \in {"f@", "f!"} => tos \in 0 .. Len(fm) - 1
  PROVE  /\ LeftTyped(FloatWord(w, u), T)
         /\ AsDescribed(w) => LeftAsDescribed(w, u, FloatWord(w, u))
<1> DEFINE z == FloatWord(w, u)
           fs == FloatStack
           d == DataStack
<1>n. /\ MaxDepth \in Nat /\ sp \in Nat /\ sp <= MaxDepth /\ Len(f) \in Nat
      /\ CellRange \subseteq Int
  BY GivenFacts
<1>s. /\ s \in [1 .. MaxDepth + 1 -> CellRange] /\ tos \in CellRange /\ StackTyped
      /\ Pushed \in [1 .. MaxDepth + 1 -> CellRange]
  BY GivenFacts
<1>f. f \in Seq(T) /\ fm \in Seq(T) /\ ftos \in T /\ FPushed \in Seq(T) BY GivenFacts
<1>i. \A x \in T : IsFloat(x) BY GivenFacts
<1>b. z.sp < MaxItems /\ MaxItems \in Nat /\ MaxItems <= MaxDepth BY GivenFacts
<1>g. Takes(w)[1] <= sp /\ Takes(w)[2] <= Len(f) OBVIOUS
<1>F. /\ fs = AllBut(fs, 0) \o <<>> /\ fs = SeenFloats(f, ftos) /\ Len(fs) = Len(f)
      /\ \A x : SeenFloats(FPushed, x) = AllBut(fs, 0) \o <<x>>
  BY <1>f, FloatShapes
<1>F1. Len(f) >= 1 =>
         /\ LastOf(fs, 1) = <<ftos>> /\ Second \in T /\ FPopped \in Seq(T)
         /\ \A x : SeenFloats(f, x) = AllBut(fs, 1) \o <<x>>
         /\ SeenFloats(FPopped, Second) = AllBut(fs, 1) \o <<>>
         /\ SeenFloats(FPushed, ftos) = AllBut(fs, 1) \o <<ftos, ftos>>
  BY <1>f, FloatShapes
<1>F2. Len(f) >= 2 =>
         /\ LastOf(fs, 2) = <<Second, ftos>>
         /\ \A x : SeenFloats(FPopped, x) = AllBut(fs, 2) \o <<x>>
         /\ SeenFloats(Append(FPopped, ftos), Second) = AllBut(fs, 2) \o <<ftos, Second>>
         /\ SeenFloats(FPushed, Second) = AllBut(fs, 2) \o <<Second, ftos, Second>>
  BY <1>f, FloatShapes
<1>D. /\ SeenData(s, sp, tos) = AllBut(d, 0) \o <<>>
      /\ sp + 1 <= MaxDepth => \A n \in Int : SeenData(Pushed, sp + 1, n) = AllBut(d, 0) \o <<n>>
      /\ sp >= 1 => /\ SeenData(s, sp - 1, s[sp]) = AllBut(d, 1) \o <<>>
                    /\ LastOf(d, 1) = <<tos>>
      /\ sp >= 2 => /\ SeenData(s, sp - 2, s[sp - 1]) = AllBut(d, 2) \o <<>>
                    /\ LastOf(d, 2) = <<s[sp], tos>>
  BY <1>s, DataShapes
<1> HIDE DEF z, fs, d
<1>m. /\ w = "f@" => fm[tos + 1] \in T
      /\ w = "f!" => [fm EXCEPT ![tos + 1] = ftos] \in Seq(T)
  <2>1. w \in {"f@", "f!"} => tos + 1 \in 1 .. Len(fm) BY <1>n, <1>s, <1>f
  <2> QED BY <2>1, <1>f
<1>1. CASE w = "f@"
  <2>1. Takes(w) = <<1, 0>>
    BY <1>1 DEF Takes, Symmetric, Ordered, Comparisons, Tests, Unary, Movers, Stores, Conversions
  <2>2. z = WithoutCell(FPushed, fm[tos + 1])
    BY <1>1 DEF z, FloatWord, Movers, Stores, Comparisons, Tests, Unary, Symmetric, Ordered,
       Conversions, FloatStore
  <2>3. /\ z.s = s /\ z.sp = sp - 1 /\ z.tos = s[sp]
        /\ z.f = FPushed /\ z.ftos = fm[tos + 1] /\ z.fm = fm
    BY <2>2 DEF OnFloats, WithCell, WithoutCell, WithoutDouble, Leaves
  <2>4. 1 <= sp /\ 0 <= Len(f) BY <2>1, <1>g
  <2>5. LeftTyped(z, T)
    <3>1. z.s \in [1 .. MaxDepth + 1 -> CellRange] /\ z.sp \in 0 .. MaxDepth
      BY <2>3, <2>4, <1>n, <1>s
    <3>2. z.f \in Seq(T) /\ z.fm \in Seq(T) /\ z.ftos \in T
      BY <2>3, <2>4, <1>1, <1>n, <1>f, <1>F1, <1>m
    <3> QED BY <3>1, <3>2, <1>i DEF LeftTyped
  <2>6. SeenFloats(z.f, z.ftos) = AllBut(fs, 0) \o <<fm[tos + 1]>>
    BY <2>3, <2>4, <1>n, <1>F, <1>F1, <1>F2
  <2>7. SeenData(z.s, z.sp, z.tos) = AllBut(d, 1) \o <<>> BY <2>3, <2>4, <1>b, <1>n, <1>s, <1>D
  <2>8. FloatsLeft(w, u, LastOf(d, 1), LastOf(fs, 0)) = <<fm[tos + 1]>>
    BY <2>4, <1>1, <1>n, <1>D, <1>F1, <1>F2
      DEF FloatsLeft, Unary, Symmetric, Ordered, Comparisons, Tests
  <2>9. CellsLeft(w, LastOf(fs, 0)) = <<>>
    BY <2>4, <1>1, <1>n, <1>F, <1>F1, <1>F2 DEF CellsLeft, Comparisons, Tests, fs
  <2>10. w # "f>d" BY <1>1 DEF Unary, Symmetric, Ordered, Comparisons, Tests
  <2>11. LeftAsDescribed(w, u, z) BY <2>1, <2>6, <2>7, <2>8, <2>9, <2>10, EffectParts DEF fs, d
  <2> QED BY <2>5, <2>11 DEF z
<1>2. CASE w = "f!"
  <2>1. Takes(w) = <<1, 1>>
    BY <1>2 DEF Takes, Symmetric, Ordered, Comparisons, Tests, Unary, Movers, Stores, Conversions
  <2>2. z = [WithoutCell(FPopped, Second) EXCEPT !.fm[tos + 1] = ftos]
    BY <1>2 DEF z, FloatWord, Movers, Stores, Comparisons, Tests, Unary, Symmetric, Ordered,
       Conversions, FloatStore
  <2>3. /\ z.s = s /\ z.sp = sp - 1 /\ z.tos = s[sp]
        /\ z.f = FPopped /\ z.ftos = Second /\ z.fm = [fm EXCEPT ![tos + 1] = ftos]
    BY <2>2 DEF OnFloats, WithCell, WithoutCell, WithoutDouble, Leaves
  <2>4. 1 <= sp /\ 1 <= Len(f) BY <2>1, <1>g
  <2>5. LeftTyped(z, T)
    <3>1. z.s \in [1 .. MaxDepth + 1 -> CellRange] /\ z.sp \in 0 .. MaxDepth
      BY <2>3, <2>4, <1>n, <1>s
    <3>2. z.f \in Seq(T) /\ z.fm \in Seq(T) /\ z.ftos \in T
      BY <2>3, <2>4, <1>2, <1>n, <1>f, <1>F1, <1>m
    <3> QED BY <3>1, <3>2, <1>i DEF LeftTyped
  <2>6. SeenFloats(z.f, z.ftos) = AllBut(fs, 1) \o <<>> BY <2>3, <2>4, <1>n, <1>F, <1>F1, <1>F2
  <2>7. SeenData(z.s, z.sp, z.tos) = AllBut(d, 1) \o <<>> BY <2>3, <2>4, <1>b, <1>n, <1>s, <1>D
  <2>8. FloatsLeft(w, u, LastOf(d, 1), LastOf(fs, 1)) = <<>>
    BY <2>4, <1>2, <1>n, <1>D, <1>F1, <1>F2
      DEF FloatsLeft, Unary, Symmetric, Ordered, Comparisons, Tests
  <2>9. CellsLeft(w, LastOf(fs, 1)) = <<>>
    BY <2>4, <1>2, <1>n, <1>F, <1>F1, <1>F2 DEF CellsLeft, Comparisons, Tests, fs
  <2>10. w # "f>d" BY <1>2 DEF Unary, Symmetric, Ordered, Comparisons, Tests
  <2>11. LeftAsDescribed(w, u, z) BY <2>1, <2>6, <2>7, <2>8, <2>9, <2>10, EffectParts DEF fs, d
  <2> QED BY <2>5, <2>11 DEF z
<1>3. CASE w = "f,"
  <2>1. Takes(w) = <<0, 1>>
    BY <1>3 DEF Takes, Symmetric, Ordered, Comparisons, Tests, Unary, Movers, Stores, Conversions
  <2>2. z = [OnFloats(FPopped, Second) EXCEPT !.fm = Append(@, ftos)]
    BY <1>3 DEF z, FloatWord, Movers, Stores, Comparisons, Tests, Unary, Symmetric, Ordered,
       Conversions, FloatStore
  <2>3. /\ z.s = s /\ z.sp = sp /\ z.tos = tos
        /\ z.f = FPopped /\ z.ftos = Second /\ z.fm = Append(fm, ftos)
    BY <2>2 DEF OnFloats, WithCell, WithoutCell, WithoutDouble, Leaves
  <2>4. 0 <= sp /\ 1 <= Len(f) BY <2>1, <1>g
  <2>5. LeftTyped(z, T) BY <2>3, <2>4, <1>b, <1>n, <1>s, <1>f, <1>i, <1>F1 DEF LeftTyped
  <2>6. SeenFloats(z.f, z.ftos) = AllBut(fs, 1) \o <<>> BY <2>3, <2>4, <1>n, <1>F, <1>F1, <1>F2
  <2>7. SeenData(z.s, z.sp, z.tos) = AllBut(d, 0) \o <<>> BY <2>3, <2>4, <1>b, <1>n, <1>s, <1>D
  <2>8. FloatsLeft(w, u, LastOf(d, 0), LastOf(fs, 1)) = <<>>
    BY <2>4, <1>3, <1>n, <1>D, <1>F1, <1>F2
      DEF FloatsLeft, Unary, Symmetric, Ordered, Comparisons, Tests
  <2>9. CellsLeft(w, LastOf(fs, 1)) = <<>>
    BY <2>4, <1>3, <1>n, <1>F, <1>F1, <1>F2 DEF CellsLeft, Comparisons, Tests, fs
  <2>10. w # "f>d" BY <1>3 DEF Unary, Symmetric, Ordered, Comparisons, Tests
  <2>11. LeftAsDescribed(w, u, z) BY <2>1, <2>6, <2>7, <2>8, <2>9, <2>10, EffectParts DEF fs, d
  <2> QED BY <2>5, <2>11 DEF z
<1> QED BY <1>1, <1>2, <1>3 DEF z, Stores

\* The functions of one float and of two.
LEMMA FunctionsApply ==
  ASSUME NEW T, Given(T), NEW w \in Unary \cup Symmetric \cup Ordered, NEW u,
         Takes(w)[1] <= sp, Takes(w)[2] <= Len(f), FloatWord(w, u).sp < MaxItems
  PROVE  /\ LeftTyped(FloatWord(w, u), T)
         /\ AsDescribed(w) => LeftAsDescribed(w, u, FloatWord(w, u))
<1> DEFINE z == FloatWord(w, u)
           fs == FloatStack
           d == DataStack
<1>n. /\ MaxDepth \in Nat /\ sp \in Nat /\ sp <= MaxDepth /\ Len(f) \in Nat
      /\ CellRange \subseteq Int
  BY GivenFacts
<1>s. /\ s \in [1 .. MaxDepth + 1 -> CellRange] /\ tos \in CellRange /\ StackTyped
      /\ Pushed \in [1 .. MaxDepth + 1 -> CellRange]
  BY GivenFacts
<1>f. f \in Seq(T) /\ fm \in Seq(T) /\ ftos \in T /\ FPushed \in Seq(T) BY GivenFacts
<1>i. \A x \in T : IsFloat(x) BY GivenFacts
<1>b. z.sp < MaxItems /\ MaxItems \in Nat /\ MaxItems <= MaxDepth BY GivenFacts
<1>g. Takes(w)[1] <= sp /\ Takes(w)[2] <= Len(f) OBVIOUS
<1>F. /\ fs = AllBut(fs, 0) \o <<>> /\ fs = SeenFloats(f, ftos) /\ Len(fs) = Len(f)
      /\ \A x : SeenFloats(FPushed, x) = AllBut(fs, 0) \o <<x>>
  BY <1>f, FloatShapes
<1>F1. Len(f) >= 1 =>
         /\ LastOf(fs, 1) = <<ftos>> /\ Second \in T /\ FPopped \in Seq(T)
         /\ \A x : SeenFloats(f, x) = AllBut(fs, 1) \o <<x>>
         /\ SeenFloats(FPopped, Second) = AllBut(fs, 1) \o <<>>
         /\ SeenFloats(FPushed, ftos) = AllBut(fs, 1) \o <<ftos, ftos>>
  BY <1>f, FloatShapes
<1>F2. Len(f) >= 2 =>
         /\ LastOf(fs, 2) = <<Second, ftos>>
         /\ \A x : SeenFloats(FPopped, x) = AllBut(fs, 2) \o <<x>>
         /\ SeenFloats(Append(FPopped, ftos), Second) = AllBut(fs, 2) \o <<ftos, Second>>
         /\ SeenFloats(FPushed, Second) = AllBut(fs, 2) \o <<Second, ftos, Second>>
  BY <1>f, FloatShapes
<1>D. /\ SeenData(s, sp, tos) = AllBut(d, 0) \o <<>>
      /\ sp + 1 <= MaxDepth => \A n \in Int : SeenData(Pushed, sp + 1, n) = AllBut(d, 0) \o <<n>>
      /\ sp >= 1 => /\ SeenData(s, sp - 1, s[sp]) = AllBut(d, 1) \o <<>>
                    /\ LastOf(d, 1) = <<tos>>
      /\ sp >= 2 => /\ SeenData(s, sp - 2, s[sp - 1]) = AllBut(d, 2) \o <<>>
                    /\ LastOf(d, 2) = <<s[sp], tos>>
  BY <1>s, DataShapes
<1> HIDE DEF z, fs, d
<1>1. CASE w \in Unary
  <2>1. Takes(w) = <<0, 1>>
    BY <1>1 DEF Takes, Symmetric, Ordered, Comparisons, Tests, Unary, Movers, Stores, Conversions
  <2>2. z = OnFloats(f, <<w, ftos>>)
    BY <1>1 DEF z, FloatWord, Movers, Stores, Comparisons, Tests, Unary, Symmetric, Ordered,
       Conversions, FloatFunction
  <2>3. /\ z.s = s /\ z.sp = sp /\ z.tos = tos
        /\ z.f = f /\ z.ftos = <<w, ftos>> /\ z.fm = fm
    BY <2>2 DEF OnFloats, WithCell, WithoutCell, WithoutDouble, Leaves
  <2>4. 0 <= sp /\ 1 <= Len(f) BY <2>1, <1>g
  <2>5. LeftTyped(z, T)
    BY <2>3, <2>4, <1>b, <1>n, <1>s, <1>f, <1>i, <1>F1 DEF LeftTyped, IsFloat, Whole
  <2>6. SeenFloats(z.f, z.ftos) = AllBut(fs, 1) \o <<<<w, ftos>>>>
    BY <2>3, <2>4, <1>n, <1>F, <1>F1, <1>F2
  <2>7. SeenData(z.s, z.sp, z.tos) = AllBut(d, 0) \o <<>> BY <2>3, <2>4, <1>b, <1>n, <1>s, <1>D
  <2>8. FloatsLeft(w, u, LastOf(d, 0), LastOf(fs, 1)) = <<<<w, ftos>>>>
    BY <2>4, <1>1, <1>n, <1>D, <1>F1, <1>F2
      DEF FloatsLeft, Unary, Symmetric, Ordered, Comparisons, Tests
  <2>c. w \notin Comparisons /\ w \notin Tests /\ w # "fdepth"
    BY <1>1 DEF Unary, Symmetric, Ordered, Comparisons, Tests
  <2>9. CellsLeft(w, LastOf(fs, 1)) = <<>> BY <2>c DEF CellsLeft
  <2>10. w # "f>d" BY <1>1 DEF Unary, Symmetric, Ordered, Comparisons, Tests
  <2>11. LeftAsDescribed(w, u, z) BY <2>1, <2>6, <2>7, <2>8, <2>9, <2>10, EffectParts DEF fs, d
  <2> QED BY <2>5, <2>11 DEF z
<1>2. CASE w \in Symmetric
  <2>1. Takes(w) = <<0, 2>>
    BY <1>2 DEF Takes, Symmetric, Ordered, Comparisons, Tests, Unary, Movers, Stores, Conversions
  <2>2. z = OnFloats(FPopped, <<w, {ftos, Second}>>)
    BY <1>2 DEF z, FloatWord, Movers, Stores, Comparisons, Tests, Unary, Symmetric, Ordered,
       Conversions, FloatFunction
  <2>3. /\ z.s = s /\ z.sp = sp /\ z.tos = tos
        /\ z.f = FPopped /\ z.ftos = <<w, {ftos, Second}>> /\ z.fm = fm
    BY <2>2 DEF OnFloats, WithCell, WithoutCell, WithoutDouble, Leaves
  <2>4. 0 <= sp /\ 2 <= Len(f) BY <2>1, <1>g
  <2>5. LeftTyped(z, T)
    BY <2>3, <2>4, <1>b, <1>n, <1>s, <1>f, <1>i, <1>F1 DEF LeftTyped, IsFloat, Whole
  <2>6. SeenFloats(z.f, z.ftos) = AllBut(fs, 2) \o <<<<w, {ftos, Second}>>>>
    BY <2>3, <2>4, <1>n, <1>F, <1>F1, <1>F2
  <2>7. SeenData(z.s, z.sp, z.tos) = AllBut(d, 0) \o <<>> BY <2>3, <2>4, <1>b, <1>n, <1>s, <1>D
  <2>8. FloatsLeft(w, u, LastOf(d, 0), LastOf(fs, 2)) = <<<<w, {ftos, Second}>>>>
    BY <2>4, <1>2, <1>n, <1>D, <1>F1, <1>F2
      DEF FloatsLeft, Unary, Symmetric, Ordered, Comparisons, Tests
  <2>c. w \notin Comparisons /\ w \notin Tests /\ w # "fdepth"
    BY <1>2 DEF Unary, Symmetric, Ordered, Comparisons, Tests
  <2>9. CellsLeft(w, LastOf(fs, 2)) = <<>> BY <2>c DEF CellsLeft
  <2>10. w # "f>d" BY <1>2 DEF Unary, Symmetric, Ordered, Comparisons, Tests
  <2>11. LeftAsDescribed(w, u, z) BY <2>1, <2>6, <2>7, <2>8, <2>9, <2>10, EffectParts DEF fs, d
  <2> QED BY <2>5, <2>11 DEF z
<1>3. CASE w \in Ordered
  <2>1. Takes(w) = <<0, 2>>
    BY <1>3 DEF Takes, Symmetric, Ordered, Comparisons, Tests, Unary, Movers, Stores, Conversions
  <2>2. z = OnFloats(FPopped, <<w, Second, ftos>>)
    BY <1>3 DEF z, FloatWord, Movers, Stores, Comparisons, Tests, Unary, Symmetric, Ordered,
       Conversions, FloatFunction
  <2>3. /\ z.s = s /\ z.sp = sp /\ z.tos = tos
        /\ z.f = FPopped /\ z.ftos = <<w, Second, ftos>> /\ z.fm = fm
    BY <2>2 DEF OnFloats, WithCell, WithoutCell, WithoutDouble, Leaves
  <2>4. 0 <= sp /\ 2 <= Len(f) BY <2>1, <1>g
  <2>5. LeftTyped(z, T)
    BY <2>3, <2>4, <1>b, <1>n, <1>s, <1>f, <1>i, <1>F1 DEF LeftTyped, IsFloat, Whole
  <2>6. SeenFloats(z.f, z.ftos) = AllBut(fs, 2) \o <<<<w, Second, ftos>>>>
    BY <2>3, <2>4, <1>n, <1>F, <1>F1, <1>F2
  <2>7. SeenData(z.s, z.sp, z.tos) = AllBut(d, 0) \o <<>> BY <2>3, <2>4, <1>b, <1>n, <1>s, <1>D
  <2>8. FloatsLeft(w, u, LastOf(d, 0), LastOf(fs, 2)) = <<<<w, Second, ftos>>>>
    BY <2>4, <1>3, <1>n, <1>D, <1>F1, <1>F2
      DEF FloatsLeft, Unary, Symmetric, Ordered, Comparisons, Tests
  <2>c. w \notin Comparisons /\ w \notin Tests /\ w # "fdepth"
    BY <1>3 DEF Unary, Symmetric, Ordered, Comparisons, Tests
  <2>9. CellsLeft(w, LastOf(fs, 2)) = <<>> BY <2>c DEF CellsLeft
  <2>10. w # "f>d" BY <1>3 DEF Unary, Symmetric, Ordered, Comparisons, Tests
  <2>11. LeftAsDescribed(w, u, z) BY <2>1, <2>6, <2>7, <2>8, <2>9, <2>10, EffectParts DEF fs, d
  <2> QED BY <2>5, <2>11 DEF z
<1> QED BY <1>1, <1>2, <1>3 DEF z

\* The comparisons with zero.
LEMMA TestsTest ==
  ASSUME NEW T, Given(T), NEW w \in Tests, NEW u,
         Takes(w)[1] <= sp, Takes(w)[2] <= Len(f), FloatWord(w, u).sp < MaxItems
  PROVE  /\ LeftTyped(FloatWord(w, u), T)
         /\ AsDescribed(w) => LeftAsDescribed(w, u, FloatWord(w, u))
<1> DEFINE z == FloatWord(w, u)
           fs == FloatStack
           d == DataStack
<1>n. /\ MaxDepth \in Nat /\ sp \in Nat /\ sp <= MaxDepth /\ Len(f) \in Nat
      /\ CellRange \subseteq Int
  BY GivenFacts
<1>s. /\ s \in [1 .. MaxDepth + 1 -> CellRange] /\ tos \in CellRange /\ StackTyped
      /\ Pushed \in [1 .. MaxDepth + 1 -> CellRange]
  BY GivenFacts
<1>f. f \in Seq(T) /\ fm \in Seq(T) /\ ftos \in T /\ FPushed \in Seq(T) BY GivenFacts
<1>i. \A x \in T : IsFloat(x) BY GivenFacts
<1>b. z.sp < MaxItems /\ MaxItems \in Nat /\ MaxItems <= MaxDepth BY GivenFacts
<1>g. Takes(w)[1] <= sp /\ Takes(w)[2] <= Len(f) OBVIOUS
<1>F. /\ fs = AllBut(fs, 0) \o <<>> /\ fs = SeenFloats(f, ftos) /\ Len(fs) = Len(f)
      /\ \A x : SeenFloats(FPushed, x) = AllBut(fs, 0) \o <<x>>
  BY <1>f, FloatShapes
<1>F1. Len(f) >= 1 =>
         /\ LastOf(fs, 1) = <<ftos>> /\ Second \in T /\ FPopped \in Seq(T)
         /\ \A x : SeenFloats(f, x) = AllBut(fs, 1) \o <<x>>
         /\ SeenFloats(FPopped, Second) = AllBut(fs, 1) \o <<>>
         /\ SeenFloats(FPushed, ftos) = AllBut(fs, 1) \o <<ftos, ftos>>
  BY <1>f, FloatShapes
<1>F2. Len(f) >= 2 =>
         /\ LastOf(fs, 2) = <<Second, ftos>>
         /\ \A x : SeenFloats(FPopped, x) = AllBut(fs, 2) \o <<x>>
         /\ SeenFloats(Append(FPopped, ftos), Second) = AllBut(fs, 2) \o <<ftos, Second>>
         /\ SeenFloats(FPushed, Second) = AllBut(fs, 2) \o <<Second, ftos, Second>>
  BY <1>f, FloatShapes
<1>D. /\ SeenData(s, sp, tos) = AllBut(d, 0) \o <<>>
      /\ sp + 1 <= MaxDepth => \A n \in Int : SeenData(Pushed, sp + 1, n) = AllBut(d, 0) \o <<n>>
      /\ sp >= 1 => /\ SeenData(s, sp - 1, s[sp]) = AllBut(d, 1) \o <<>>
                    /\ LastOf(d, 1) = <<tos>>
      /\ sp >= 2 => /\ SeenData(s, sp - 2, s[sp - 1]) = AllBut(d, 2) \o <<>>
                    /\ LastOf(d, 2) = <<s[sp], tos>>
  BY <1>s, DataShapes
<1> HIDE DEF z, fs, d
<1>1. CASE w = "f0="
  <2>1. Takes(w) = <<0, 1>>
    BY <1>1 DEF Takes, Symmetric, Ordered, Comparisons, Tests, Unary, Movers, Stores, Conversions
  <2>2. z = WithCell(Truth(ftos[1] = 0), FPopped, Second)
    BY <1>1 DEF z, FloatWord, Movers, Stores, Comparisons, Tests, Unary, Symmetric, Ordered,
       Conversions, FloatTest, Tested
  <2>3. /\ z.s = Pushed /\ z.sp = sp + 1 /\ z.tos = Truth(ftos[1] = 0)
        /\ z.f = FPopped /\ z.ftos = Second /\ z.fm = fm
    BY <2>2 DEF OnFloats, WithCell, WithoutCell, WithoutDouble, Leaves
  <2>4. 0 <= sp /\ 1 <= Len(f) BY <2>1, <1>g
  <2>5. LeftTyped(z, T) BY <2>3, <2>4, <1>b, <1>n, <1>s, <1>f, <1>i, <1>F1 DEF LeftTyped
  <2>6. SeenFloats(z.f, z.ftos) = AllBut(fs, 1) \o <<>> BY <2>3, <2>4, <1>n, <1>F, <1>F1, <1>F2
  <2>7. SeenData(z.s, z.sp, z.tos) = AllBut(d, 0) \o <<Truth(ftos[1] = 0)>>
    <3> DEFINE c == Truth(ftos[1] = 0)
    <3>1. c \in Int BY DEF Truth
    <3>2. z.tos = c /\ z.s = Pushed /\ z.sp = sp + 1 /\ sp + 1 <= MaxDepth
      BY <2>3, <1>b, <1>n
    <3> HIDE DEF c
    <3>3. SeenData(Pushed, sp + 1, c) = AllBut(d, 0) \o <<c>> BY <3>1, <3>2, <1>D
    <3> QED BY <3>2, <3>3 DEF c
  <2>8. FloatsLeft(w, u, LastOf(d, 0), LastOf(fs, 1)) = <<>>
    BY <2>4, <1>1, <1>n, <1>D, <1>F1, <1>F2
      DEF FloatsLeft, Unary, Symmetric, Ordered, Comparisons, Tests
  <2>9. CellsLeft(w, LastOf(fs, 1)) = <<Truth(ftos[1] = 0)>>
    BY <2>4, <1>1, <1>n, <1>F, <1>F1, <1>F2 DEF CellsLeft, Comparisons, Tests, fs
  <2>10. w # "f>d" BY <1>1 DEF Unary, Symmetric, Ordered, Comparisons, Tests
  <2>11. LeftAsDescribed(w, u, z)
    <3> DEFINE c == <<Truth(ftos[1] = 0)>>
    <3>1. SeenData(z.s, z.sp, z.tos) = AllBut(d, 0) \o c /\ CellsLeft(w, LastOf(fs, 1)) = c
      BY <2>7, <2>9
    <3> HIDE DEF c
    <3> QED BY <2>1, <2>6, <2>8, <2>10, <3>1, EffectParts DEF fs, d
  <2> QED BY <2>5, <2>11 DEF z
<1>2. CASE w = "f0<>"
  <2>1. Takes(w) = <<0, 1>>
    BY <1>2 DEF Takes, Symmetric, Ordered, Comparisons, Tests, Unary, Movers, Stores, Conversions
  <2>2. z = WithCell(Truth(ftos[1] # 0), FPopped, Second)
    BY <1>2 DEF z, FloatWord, Movers, Stores, Comparisons, Tests, Unary, Symmetric, Ordered,
       Conversions, FloatTest, Tested
  <2>3. /\ z.s = Pushed /\ z.sp = sp + 1 /\ z.tos = Truth(ftos[1] # 0)
        /\ z.f = FPopped /\ z.ftos = Second /\ z.fm = fm
    BY <2>2 DEF OnFloats, WithCell, WithoutCell, WithoutDouble, Leaves
  <2>4. 0 <= sp /\ 1 <= Len(f) BY <2>1, <1>g
  <2>5. LeftTyped(z, T) BY <2>3, <2>4, <1>b, <1>n, <1>s, <1>f, <1>i, <1>F1 DEF LeftTyped
  <2>6. SeenFloats(z.f, z.ftos) = AllBut(fs, 1) \o <<>> BY <2>3, <2>4, <1>n, <1>F, <1>F1, <1>F2
  <2>7. SeenData(z.s, z.sp, z.tos) = AllBut(d, 0) \o <<Truth(ftos[1] # 0)>>
    <3> DEFINE c == Truth(ftos[1] # 0)
    <3>1. c \in Int BY DEF Truth
    <3>2. z.tos = c /\ z.s = Pushed /\ z.sp = sp + 1 /\ sp + 1 <= MaxDepth
      BY <2>3, <1>b, <1>n
    <3> HIDE DEF c
    <3>3. SeenData(Pushed, sp + 1, c) = AllBut(d, 0) \o <<c>> BY <3>1, <3>2, <1>D
    <3> QED BY <3>2, <3>3 DEF c
  <2>8. FloatsLeft(w, u, LastOf(d, 0), LastOf(fs, 1)) = <<>>
    BY <2>4, <1>2, <1>n, <1>D, <1>F1, <1>F2
      DEF FloatsLeft, Unary, Symmetric, Ordered, Comparisons, Tests
  <2>9. CellsLeft(w, LastOf(fs, 1)) = <<Truth(ftos[1] # 0)>>
    BY <2>4, <1>2, <1>n, <1>F, <1>F1, <1>F2 DEF CellsLeft, Comparisons, Tests, fs
  <2>10. w # "f>d" BY <1>2 DEF Unary, Symmetric, Ordered, Comparisons, Tests
  <2>11. LeftAsDescribed(w, u, z)
    <3> DEFINE c == <<Truth(ftos[1] # 0)>>
    <3>1. SeenData(z.s, z.sp, z.tos) = AllBut(d, 0) \o c /\ CellsLeft(w, LastOf(fs, 1)) = c
      BY <2>7, <2>9
    <3> HIDE DEF c
    <3> QED BY <2>1, <2>6, <2>8, <2>10, <3>1, EffectParts DEF fs, d
  <2> QED BY <2>5, <2>11 DEF z
<1>3. CASE w = "f0<"
  <2>1. Takes(w) = <<0, 1>>
    BY <1>3 DEF Takes, Symmetric, Ordered, Comparisons, Tests, Unary, Movers, Stores, Conversions
  <2>2. z = WithCell(Truth(ftos[1] < 0), FPopped, Second)
    BY <1>3 DEF z, FloatWord, Movers, Stores, Comparisons, Tests, Unary, Symmetric, Ordered,
       Conversions, FloatTest, Tested
  <2>3. /\ z.s = Pushed /\ z.sp = sp + 1 /\ z.tos = Truth(ftos[1] < 0)
        /\ z.f = FPopped /\ z.ftos = Second /\ z.fm = fm
    BY <2>2 DEF OnFloats, WithCell, WithoutCell, WithoutDouble, Leaves
  <2>4. 0 <= sp /\ 1 <= Len(f) BY <2>1, <1>g
  <2>5. LeftTyped(z, T) BY <2>3, <2>4, <1>b, <1>n, <1>s, <1>f, <1>i, <1>F1 DEF LeftTyped
  <2>6. SeenFloats(z.f, z.ftos) = AllBut(fs, 1) \o <<>> BY <2>3, <2>4, <1>n, <1>F, <1>F1, <1>F2
  <2>7. SeenData(z.s, z.sp, z.tos) = AllBut(d, 0) \o <<Truth(ftos[1] < 0)>>
    <3> DEFINE c == Truth(ftos[1] < 0)
    <3>1. c \in Int BY DEF Truth
    <3>2. z.tos = c /\ z.s = Pushed /\ z.sp = sp + 1 /\ sp + 1 <= MaxDepth
      BY <2>3, <1>b, <1>n
    <3> HIDE DEF c
    <3>3. SeenData(Pushed, sp + 1, c) = AllBut(d, 0) \o <<c>> BY <3>1, <3>2, <1>D
    <3> QED BY <3>2, <3>3 DEF c
  <2>8. FloatsLeft(w, u, LastOf(d, 0), LastOf(fs, 1)) = <<>>
    BY <2>4, <1>3, <1>n, <1>D, <1>F1, <1>F2
      DEF FloatsLeft, Unary, Symmetric, Ordered, Comparisons, Tests
  <2>9. CellsLeft(w, LastOf(fs, 1)) = <<Truth(ftos[1] < 0)>>
    BY <2>4, <1>3, <1>n, <1>F, <1>F1, <1>F2 DEF CellsLeft, Comparisons, Tests, fs
  <2>10. w # "f>d" BY <1>3 DEF Unary, Symmetric, Ordered, Comparisons, Tests
  <2>11. LeftAsDescribed(w, u, z)
    <3> DEFINE c == <<Truth(ftos[1] < 0)>>
    <3>1. SeenData(z.s, z.sp, z.tos) = AllBut(d, 0) \o c /\ CellsLeft(w, LastOf(fs, 1)) = c
      BY <2>7, <2>9
    <3> HIDE DEF c
    <3> QED BY <2>1, <2>6, <2>8, <2>10, <3>1, EffectParts DEF fs, d
  <2> QED BY <2>5, <2>11 DEF z
<1>4. CASE w = "f0>"
  <2>1. Takes(w) = <<0, 1>>
    BY <1>4 DEF Takes, Symmetric, Ordered, Comparisons, Tests, Unary, Movers, Stores, Conversions
  <2>2. z = WithCell(Truth(ftos[1] > 0), FPopped, Second)
    BY <1>4 DEF z, FloatWord, Movers, Stores, Comparisons, Tests, Unary, Symmetric, Ordered,
       Conversions, FloatTest, Tested
  <2>3. /\ z.s = Pushed /\ z.sp = sp + 1 /\ z.tos = Truth(ftos[1] > 0)
        /\ z.f = FPopped /\ z.ftos = Second /\ z.fm = fm
    BY <2>2 DEF OnFloats, WithCell, WithoutCell, WithoutDouble, Leaves
  <2>4. 0 <= sp /\ 1 <= Len(f) BY <2>1, <1>g
  <2>5. LeftTyped(z, T) BY <2>3, <2>4, <1>b, <1>n, <1>s, <1>f, <1>i, <1>F1 DEF LeftTyped
  <2>6. SeenFloats(z.f, z.ftos) = AllBut(fs, 1) \o <<>> BY <2>3, <2>4, <1>n, <1>F, <1>F1, <1>F2
  <2>7. SeenData(z.s, z.sp, z.tos) = AllBut(d, 0) \o <<Truth(ftos[1] > 0)>>
    <3> DEFINE c == Truth(ftos[1] > 0)
    <3>1. c \in Int BY DEF Truth
    <3>2. z.tos = c /\ z.s = Pushed /\ z.sp = sp + 1 /\ sp + 1 <= MaxDepth
      BY <2>3, <1>b, <1>n
    <3> HIDE DEF c
    <3>3. SeenData(Pushed, sp + 1, c) = AllBut(d, 0) \o <<c>> BY <3>1, <3>2, <1>D
    <3> QED BY <3>2, <3>3 DEF c
  <2>8. FloatsLeft(w, u, LastOf(d, 0), LastOf(fs, 1)) = <<>>
    BY <2>4, <1>4, <1>n, <1>D, <1>F1, <1>F2
      DEF FloatsLeft, Unary, Symmetric, Ordered, Comparisons, Tests
  <2>9. CellsLeft(w, LastOf(fs, 1)) = <<Truth(ftos[1] > 0)>>
    BY <2>4, <1>4, <1>n, <1>F, <1>F1, <1>F2 DEF CellsLeft, Comparisons, Tests, fs
  <2>10. w # "f>d" BY <1>4 DEF Unary, Symmetric, Ordered, Comparisons, Tests
  <2>11. LeftAsDescribed(w, u, z)
    <3> DEFINE c == <<Truth(ftos[1] > 0)>>
    <3>1. SeenData(z.s, z.sp, z.tos) = AllBut(d, 0) \o c /\ CellsLeft(w, LastOf(fs, 1)) = c
      BY <2>7, <2>9
    <3> HIDE DEF c
    <3> QED BY <2>1, <2>6, <2>8, <2>10, <3>1, EffectParts DEF fs, d
  <2> QED BY <2>5, <2>11 DEF z
<1> QED BY <1>1, <1>2, <1>3, <1>4 DEF z, Tests

\* A float compiled into a definition.
LEMMA LiteralPushed ==
  ASSUME NEW T, Given(T), NEW w \in {"(flit)"}, NEW u,
         Takes(w)[1] <= sp, Takes(w)[2] <= Len(f), FloatWord(w, u).sp < MaxItems,
         u \in FloatNumbers
  PROVE  /\ LeftTyped(FloatWord(w, u), T)
         /\ AsDescribed(w) => LeftAsDescribed(w, u, FloatWord(w, u))
<1> DEFINE z == FloatWord(w, u)
           fs == FloatStack
           d == DataStack
<1>n. /\ MaxDepth \in Nat /\ sp \in Nat /\ sp <= MaxDepth /\ Len(f) \in Nat
      /\ CellRange \subseteq Int
  BY GivenFacts
<1>s. /\ s \in [1 .. MaxDepth + 1 -> CellRange] /\ tos \in CellRange /\ StackTyped
      /\ Pushed \in [1 .. MaxDepth + 1 -> CellRange]
  BY GivenFacts
<1>f. f \in Seq(T) /\ fm \in Seq(T) /\ ftos \in T /\ FPushed \in Seq(T) BY GivenFacts
<1>i. \A x \in T : IsFloat(x) BY GivenFacts
<1>b. z.sp < MaxItems /\ MaxItems \in Nat /\ MaxItems <= MaxDepth BY GivenFacts
<1>g. Takes(w)[1] <= sp /\ Takes(w)[2] <= Len(f) OBVIOUS
<1>F. /\ fs = AllBut(fs, 0) \o <<>> /\ fs = SeenFloats(f, ftos) /\ Len(fs) = Len(f)
      /\ \A x : SeenFloats(FPushed, x) = AllBut(fs, 0) \o <<x>>
  BY <1>f, FloatShapes
<1>F1. Len(f) >= 1 =>
         /\ LastOf(fs, 1) = <<ftos>> /\ Second \in T /\ FPopped \in Seq(T)
         /\ \A x : SeenFloats(f, x) = AllBut(fs, 1) \o <<x>>
         /\ SeenFloats(FPopped, Second) = AllBut(fs, 1) \o <<>>
         /\ SeenFloats(FPushed, ftos) = AllBut(fs, 1) \o <<ftos, ftos>>
  BY <1>f, FloatShapes
<1>F2. Len(f) >= 2 =>
         /\ LastOf(fs, 2) = <<Second, ftos>>
         /\ \A x : SeenFloats(FPopped, x) = AllBut(fs, 2) \o <<x>>
         /\ SeenFloats(Append(FPopped, ftos), Second) = AllBut(fs, 2) \o <<ftos, Second>>
         /\ SeenFloats(FPushed, Second) = AllBut(fs, 2) \o <<Second, ftos, Second>>
  BY <1>f, FloatShapes
<1>D. /\ SeenData(s, sp, tos) = AllBut(d, 0) \o <<>>
      /\ sp + 1 <= MaxDepth => \A n \in Int : SeenData(Pushed, sp + 1, n) = AllBut(d, 0) \o <<n>>
      /\ sp >= 1 => /\ SeenData(s, sp - 1, s[sp]) = AllBut(d, 1) \o <<>>
                    /\ LastOf(d, 1) = <<tos>>
      /\ sp >= 2 => /\ SeenData(s, sp - 2, s[sp - 1]) = AllBut(d, 2) \o <<>>
                    /\ LastOf(d, 2) = <<s[sp], tos>>
  BY <1>s, DataShapes
<1> HIDE DEF z, fs, d
<1>u. IsFloat(<<u>>)
  <2>1. u \in Int BY FloatAssumption
  <2>2. Whole(<<u>>) BY DEF Whole
  <2> QED BY <2>1 DEF IsFloat
<1>1. CASE w = "(flit)"
  <2>1. Takes(w) = <<0, 0>>
    BY <1>1 DEF Takes, Symmetric, Ordered, Comparisons, Tests, Unary, Movers, Stores, Conversions
  <2>2. z = OnFloats(FPushed, <<u>>)
    BY <1>1 DEF z, FloatWord, Movers, Stores, Comparisons, Tests, Unary, Symmetric, Ordered,
       Conversions
  <2>3. /\ z.s = s /\ z.sp = sp /\ z.tos = tos
        /\ z.f = FPushed /\ z.ftos = <<u>> /\ z.fm = fm
    BY <2>2 DEF OnFloats, WithCell, WithoutCell, WithoutDouble, Leaves
  <2>4. 0 <= sp /\ 0 <= Len(f) BY <2>1, <1>g
  <2>5. LeftTyped(z, T) BY <2>3, <2>4, <1>b, <1>n, <1>s, <1>f, <1>i, <1>F1, <1>u DEF LeftTyped
  <2>6. SeenFloats(z.f, z.ftos) = AllBut(fs, 0) \o <<<<u>>>> BY <2>3, <2>4, <1>n, <1>F, <1>F1, <1>F2
  <2>7. SeenData(z.s, z.sp, z.tos) = AllBut(d, 0) \o <<>> BY <2>3, <2>4, <1>b, <1>n, <1>s, <1>D
  <2>8. FloatsLeft(w, u, LastOf(d, 0), LastOf(fs, 0)) = <<<<u>>>>
    BY <2>4, <1>1, <1>n, <1>D, <1>F1, <1>F2
      DEF FloatsLeft, Unary, Symmetric, Ordered, Comparisons, Tests
  <2>9. CellsLeft(w, LastOf(fs, 0)) = <<>>
    BY <2>4, <1>1, <1>n, <1>F, <1>F1, <1>F2 DEF CellsLeft, Comparisons, Tests, fs
  <2>10. w # "f>d" BY <1>1 DEF Unary, Symmetric, Ordered, Comparisons, Tests
  <2>11. LeftAsDescribed(w, u, z) BY <2>1, <2>6, <2>7, <2>8, <2>9, <2>10, EffectParts DEF fs, d
  <2> QED BY <2>5, <2>11 DEF z
<1> QED BY <1>1 DEF z

\* A cell converted.
LEMMA CellBecomesFloat ==
  ASSUME NEW T, Given(T), NEW w \in {"s>f"}, NEW u,
         Takes(w)[1] <= sp, Takes(w)[2] <= Len(f), FloatWord(w, u).sp < MaxItems
  PROVE  /\ LeftTyped(FloatWord(w, u), T)
         /\ AsDescribed(w) => LeftAsDescribed(w, u, FloatWord(w, u))
<1> DEFINE z == FloatWord(w, u)
           fs == FloatStack
           d == DataStack
<1>n. /\ MaxDepth \in Nat /\ sp \in Nat /\ sp <= MaxDepth /\ Len(f) \in Nat
      /\ CellRange \subseteq Int
  BY GivenFacts
<1>s. /\ s \in [1 .. MaxDepth + 1 -> CellRange] /\ tos \in CellRange /\ StackTyped
      /\ Pushed \in [1 .. MaxDepth + 1 -> CellRange]
  BY GivenFacts
<1>f. f \in Seq(T) /\ fm \in Seq(T) /\ ftos \in T /\ FPushed \in Seq(T) BY GivenFacts
<1>i. \A x \in T : IsFloat(x) BY GivenFacts
<1>b. z.sp < MaxItems /\ MaxItems \in Nat /\ MaxItems <= MaxDepth BY GivenFacts
<1>g. Takes(w)[1] <= sp /\ Takes(w)[2] <= Len(f) OBVIOUS
<1>F. /\ fs = AllBut(fs, 0) \o <<>> /\ fs = SeenFloats(f, ftos) /\ Len(fs) = Len(f)
      /\ \A x : SeenFloats(FPushed, x) = AllBut(fs, 0) \o <<x>>
  BY <1>f, FloatShapes
<1>F1. Len(f) >= 1 =>
         /\ LastOf(fs, 1) = <<ftos>> /\ Second \in T /\ FPopped \in Seq(T)
         /\ \A x : SeenFloats(f, x) = AllBut(fs, 1) \o <<x>>
         /\ SeenFloats(FPopped, Second) = AllBut(fs, 1) \o <<>>
         /\ SeenFloats(FPushed, ftos) = AllBut(fs, 1) \o <<ftos, ftos>>
  BY <1>f, FloatShapes
<1>F2. Len(f) >= 2 =>
         /\ LastOf(fs, 2) = <<Second, ftos>>
         /\ \A x : SeenFloats(FPopped, x) = AllBut(fs, 2) \o <<x>>
         /\ SeenFloats(Append(FPopped, ftos), Second) = AllBut(fs, 2) \o <<ftos, Second>>
         /\ SeenFloats(FPushed, Second) = AllBut(fs, 2) \o <<Second, ftos, Second>>
  BY <1>f, FloatShapes
<1>D. /\ SeenData(s, sp, tos) = AllBut(d, 0) \o <<>>
      /\ sp + 1 <= MaxDepth => \A n \in Int : SeenData(Pushed, sp + 1, n) = AllBut(d, 0) \o <<n>>
      /\ sp >= 1 => /\ SeenData(s, sp - 1, s[sp]) = AllBut(d, 1) \o <<>>
                    /\ LastOf(d, 1) = <<tos>>
      /\ sp >= 2 => /\ SeenData(s, sp - 2, s[sp - 1]) = AllBut(d, 2) \o <<>>
                    /\ LastOf(d, 2) = <<s[sp], tos>>
  BY <1>s, DataShapes
<1> HIDE DEF z, fs, d
<1>u. IsFloat(<<tos>>)
  <2>1. tos \in Int BY <1>n, <1>s
  <2>2. Whole(<<tos>>) BY DEF Whole
  <2> QED BY <2>1 DEF IsFloat
<1>1. CASE w = "s>f"
  <2>1. Takes(w) = <<1, 0>>
    BY <1>1 DEF Takes, Symmetric, Ordered, Comparisons, Tests, Unary, Movers, Stores, Conversions
  <2>2. z = WithoutCell(FPushed, <<tos>>)
    BY <1>1 DEF z, FloatWord, Movers, Stores, Comparisons, Tests, Unary, Symmetric, Ordered,
       Conversions, FloatConversion
  <2>3. /\ z.s = s /\ z.sp = sp - 1 /\ z.tos = s[sp]
        /\ z.f = FPushed /\ z.ftos = <<tos>> /\ z.fm = fm
    BY <2>2 DEF OnFloats, WithCell, WithoutCell, WithoutDouble, Leaves
  <2>4. 1 <= sp /\ 0 <= Len(f) BY <2>1, <1>g
  <2>5. LeftTyped(z, T) BY <2>3, <2>4, <1>b, <1>n, <1>s, <1>f, <1>i, <1>F1, <1>u DEF LeftTyped
  <2>6. SeenFloats(z.f, z.ftos) = AllBut(fs, 0) \o <<<<tos>>>>
    BY <2>3, <2>4, <1>n, <1>F, <1>F1, <1>F2
  <2>7. SeenData(z.s, z.sp, z.tos) = AllBut(d, 1) \o <<>> BY <2>3, <2>4, <1>b, <1>n, <1>s, <1>D
  <2>8. FloatsLeft(w, u, LastOf(d, 1), LastOf(fs, 0)) = <<<<tos>>>>
    BY <2>4, <1>1, <1>n, <1>D, <1>F1, <1>F2
      DEF FloatsLeft, Unary, Symmetric, Ordered, Comparisons, Tests
  <2>9. CellsLeft(w, LastOf(fs, 0)) = <<>>
    BY <2>4, <1>1, <1>n, <1>F, <1>F1, <1>F2 DEF CellsLeft, Comparisons, Tests, fs
  <2>10. w # "f>d" BY <1>1 DEF Unary, Symmetric, Ordered, Comparisons, Tests
  <2>11. LeftAsDescribed(w, u, z) BY <2>1, <2>6, <2>7, <2>8, <2>9, <2>10, EffectParts DEF fs, d
  <2> QED BY <2>5, <2>11 DEF z
<1> QED BY <1>1 DEF z

\* The comparisons: their second operand stays.
LEMMA ComparisonsTyped ==
  ASSUME NEW T, Given(T), NEW w \in Comparisons, NEW u,
         Takes(w)[1] <= sp, Takes(w)[2] <= Len(f), FloatWord(w, u).sp < MaxItems
  PROVE  LeftTyped(FloatWord(w, u), T)
<1> DEFINE z == FloatWord(w, u)
<1>n. MaxDepth \in Nat /\ sp \in Nat /\ Len(f) \in Nat /\ MaxItems \in Nat /\ MaxItems <= MaxDepth
  BY GivenFacts
<1>s. Pushed \in [1 .. MaxDepth + 1 -> CellRange] BY GivenFacts
<1>f. f \in Seq(T) /\ fm \in Seq(T) /\ ftos \in T /\ \A x \in T : IsFloat(x) BY GivenFacts
<1>1. PICK n : z = WithCell(n, FPopped, ftos)
  <2>1. z = FloatComparison(w)
    BY DEF FloatWord, Movers, Stores, Comparisons, Tests, Unary, Symmetric, Ordered, Conversions
  <2> QED BY <2>1 DEF FloatComparison
<1>2. z.s = Pushed /\ z.sp = sp + 1 /\ z.f = FPopped /\ z.ftos = ftos /\ z.fm = fm
  BY <1>1 DEF WithCell, Leaves
<1>3. 2 <= Len(f) BY DEF Takes, Symmetric, Ordered, Comparisons
<1>4. FPopped \in Seq(T) BY <1>f, <1>n, <1>3, FloatShapes
<1>5. z.sp \in 0 .. MaxDepth BY <1>2, <1>n
<1> QED BY <1>2, <1>4, <1>5, <1>s, <1>f DEF LeftTyped

\* The depth of the float stack.
LEMMA DepthCounted ==
  ASSUME NEW T, Given(T), NEW w, w = "fdepth", NEW u, FloatWord(w, u).sp < MaxItems
  PROVE  /\ LeftTyped(FloatWord(w, u), T)
         /\ AsDescribed(w) => LeftAsDescribed(w, u, FloatWord(w, u))
<1> DEFINE z == FloatWord(w, u)
           d == DataStack
           fs == FloatStack
<1>n. MaxDepth \in Nat /\ sp \in Nat /\ sp <= MaxDepth /\ MaxItems \in Nat /\ MaxItems <= MaxDepth
  BY GivenFacts
<1>s. s \in [1 .. MaxDepth + 1 -> CellRange] /\ tos \in CellRange /\ StackTyped BY GivenFacts
<1>f. f \in Seq(T) /\ fm \in Seq(T) /\ ftos \in T /\ \A x \in T : IsFloat(x) BY GivenFacts
<1>1. z = Leaves(DepthStored, sp + 1, Len(f), f, ftos, fm)
  BY DEF FloatWord, FloatMover, Movers, Stores, Comparisons, Tests, Unary, Symmetric, Ordered,
     Conversions
<1>2. z.s = DepthStored /\ z.sp = sp + 1 /\ z.tos = Len(f) /\ z.f = f /\ z.ftos = ftos /\ z.fm = fm
  BY <1>1 DEF Leaves
<1>3. z.sp < MaxItems OBVIOUS
<1> HIDE DEF z
<1>4. DepthStored \in [1 .. MaxDepth + 1 -> CellRange]
  BY <1>s, <1>n DEF DepthStored, Set
<1>5. LeftTyped(z, T)
  <2>1. z.sp \in 0 .. MaxDepth BY <1>2, <1>3, <1>n
  <2> QED BY <2>1, <1>2, <1>4, <1>f DEF LeftTyped
<1>6. ASSUME AsDescribed(w) PROVE LeftAsDescribed(w, u, z)
  <2>1. sp = 0 BY <1>6 DEF AsDescribed
  <2>2. Takes(w) = <<0, 0>> BY DEF Takes, Symmetric, Ordered, Comparisons
  <2>3. d = <<>> BY <2>1 DEF DataStack
  <2>4. z.s = s /\ z.sp = 1 /\ z.tos = Len(f) BY <2>1, <1>2 DEF DepthStored
  <2>5. SeenData(z.s, z.sp, z.tos) = <<Len(f)>>
    <3>1. s \in [1 .. MaxDepth + 1 -> Int] BY <1>s DEF StackTyped
    <3>2. 1 \in 0 .. MaxDepth /\ Len(f) \in Int BY <1>2, <1>3, <1>n, <2>1, <1>f
    <3>3. /\ SeenData(s, 1, Len(f)) \in Seq(Int) /\ Len(SeenData(s, 1, Len(f))) = 1
          /\ \A k \in 1 .. 1 : SeenData(s, 1, Len(f))[k] = Cell(s, 1, Len(f), k)
      BY <3>1, <3>2, SeenDataIs
    <3>4. SeenData(s, 1, Len(f))[1] = Len(f) BY <3>3 DEF Cell
    <3> QED BY <2>4, <3>3, <3>4
  <2>6. AllBut(d, 0) \o <<Len(f)>> = <<Len(f)>>
    <3>1. d \in Seq(Int) /\ <<Len(f)>> \in Seq(Int) BY <2>3, <1>f
    <3>2. AllBut(d, 0) = d BY <3>1, WholeIs
    <3>3. <<>> \o <<Len(f)>> = <<Len(f)>> OBVIOUS
    <3> QED BY <2>3, <3>2, <3>3
  <2>7. fs = SeenFloats(f, ftos) /\ fs = AllBut(fs, 0) \o <<>> /\ Len(fs) = Len(f)
    BY <1>f, FloatShapes
  <2>8. SeenFloats(z.f, z.ftos) = AllBut(fs, 0) \o <<>> BY <1>2, <2>7
  <2>9. FloatsLeft(w, u, LastOf(d, 0), LastOf(fs, 0)) = <<>>
    BY DEF FloatsLeft, Unary, Symmetric, Ordered
  <2>10. CellsLeft(w, LastOf(fs, 0)) = <<Len(f)>> BY <2>7 DEF CellsLeft, Comparisons, Tests
  <2>11. SeenData(z.s, z.sp, z.tos) = AllBut(d, 0) \o <<Len(f)>> BY <2>5, <2>6
  <2> HIDE DEF d, fs
  <2> QED BY <2>2, <2>8, <2>9, <2>10, <2>11, EffectParts DEF d, fs
<1> QED BY <1>5, <1>6 DEF z

-----------------------------------------------------------------------------
(* Cells and the whole numbers that they are made from. *)

\* A quotient and a remainder make up the dividend.
LEMMA QuotientAndRest ==
  ASSUME NEW n \in Int, NEW m \in Nat \ {0}
  PROVE  n % m \in 0 .. m - 1 /\ n \div m \in Int /\ n = (n \div m) * m + (n % m)
OBVIOUS

\* A multiple that is not zero is no smaller than what it is a multiple of.
LEMMA Multiples ==
  ASSUME NEW m \in Nat \ {0}, NEW k \in Int
  PROVE  k * m \in Int /\ (k > 0 => k * m >= m) /\ (k < 0 => k * m <= -m)
OBVIOUS

\* What makes up a dividend is its quotient and its remainder.
LEMMA RestIsUnique ==
  ASSUME NEW m \in Nat \ {0}, NEW n \in Int, NEW k \in Int, NEW b \in 0 .. m - 1, n = k * m + b
  PROVE  n % m = b /\ n \div m = k
<1> DEFINE q == n \div m
           a == n % m
<1>1. q \in Int /\ a \in 0 .. m - 1 /\ n = q * m + a BY QuotientAndRest
<1> HIDE DEF q, a
<1>2. (q - k) * m = b - a
  <2>1. (q - k) * m = q * m - k * m BY <1>1
  <2> QED BY <2>1, <1>1
<1>3. q = k
  <2> DEFINE e == q - k
  <2>1. e \in Int BY <1>1
  <2>2. e * m = b - a BY <1>2
  <2>3. ~(e > 0) /\ ~(e < 0)
    <3> HIDE DEF e
    <3> QED BY <2>1, <2>2, <1>1, Multiples
  <2> QED BY <2>1, <2>3, <1>1
<1>4. a = b BY <1>1, <1>3
<1> QED BY <1>3, <1>4 DEF q, a

\* A cell is a signed number of half the modulus at most, and the modulus gives
\* back what it was made from.
LEMMA SignedRest ==
  ASSUME NEW h \in Nat \ {0}, NEW m, m = 2 * h, NEW n \in Int
  PROVE  LET c == IF n % m >= m \div 2 THEN (n % m) - m ELSE n % m
         IN c \in -h .. h - 1 /\ c % m = n % m
<1> DEFINE k == n % m
<1>1. m \in Nat \ {0} /\ m \div 2 = h OBVIOUS
<1>2. k \in 0 .. m - 1 BY <1>1, QuotientAndRest
<1> HIDE DEF k
<1>3. CASE k >= h
  <2>1. k - m \in -h .. h - 1 /\ k - m = (-1) * m + k /\ k - m \in Int BY <1>1, <1>2, <1>3
  <2>2. (k - m) % m = k
    <3> DEFINE v == k - m
    <3>1. v \in Int /\ v = (-1) * m + k BY <2>1
    <3> HIDE DEF v
    <3>2. v % m = k BY <3>1, <1>1, <1>2, RestIsUnique
    <3> QED BY <3>2 DEF v
  <2> QED BY <2>1, <2>2, <1>1, <1>3 DEF k
<1>4. CASE ~(k >= h)
  <2>1. k \in -h .. h - 1 /\ k = 0 * m + k /\ k \in Int BY <1>1, <1>2, <1>4
  <2>2. k % m = k BY <2>1, <1>1, <1>2, RestIsUnique
  <2> QED BY <2>1, <2>2, <1>1, <1>4 DEF k
<1> QED BY <1>3, <1>4

\* The modulus, and the low cell of a number.
LEMMA LowCellIs ==
  ASSUME NEW n \in Int
  PROVE  /\ FloatModulus \in Nat \ {0} /\ FloatModulus = 2 * Half /\ Half \in Nat \ {0}
         /\ LowCell(n) \in CellRange /\ LowCell(n) % FloatModulus = n % FloatModulus
<1>1. Half \in Nat \ {0} /\ FloatModulus = 2 * Half BY FloatAssumption DEF Half, FloatModulus
<1> HIDE DEF Half, FloatModulus
<1>2. LET m == FloatModulus
          c == IF n % m >= m \div 2 THEN (n % m) - m ELSE n % m
      IN c \in -Half .. Half - 1 /\ c % m = n % m
  BY <1>1, SignedRest
<1> QED BY <1>1, <1>2 DEF LowCell, CellRange

\* A number is that of its two cells when it is not negative.
LEMMA CellsOfNumber ==
  ASSUME NEW n \in Int, n >= 0
  PROVE  HighCell(n) \in Int /\ TwoCells(LowCell(n), HighCell(n)) = n
<1>1. FloatModulus \in Nat \ {0} /\ LowCell(n) % FloatModulus = n % FloatModulus BY LowCellIs
<1>2. HighCell(n) = n \div FloatModulus BY DEF HighCell
<1>3. n \div FloatModulus \in Int /\ n = (n \div FloatModulus) * FloatModulus + (n % FloatModulus)
  BY <1>1, QuotientAndRest
<1> QED BY <1>1, <1>2, <1>3 DEF TwoCells

\* A cell that is not negative is its own remainder.
LEMMA SmallCell ==
  ASSUME NEW c \in CellRange, c >= 0
  PROVE  c % FloatModulus = c
<1>1. Half \in Nat \ {0} /\ FloatModulus = 2 * Half BY FloatAssumption DEF Half, FloatModulus
<1> HIDE DEF Half, FloatModulus
<1>2. c \in 0 .. FloatModulus - 1 /\ c \in Int /\ c = 0 * FloatModulus + c
      /\ FloatModulus \in Nat \ {0}
  BY <1>1 DEF CellRange
<1> QED BY <1>2, RestIsUnique

-----------------------------------------------------------------------------
(* The float words, continued. *)

\* A double converted.
LEMMA DoubleBecomesFloat ==
  ASSUME NEW T, Given(T), NEW w \in {"d>f"}, NEW u,
         Takes(w)[1] <= sp, Takes(w)[2] <= Len(f), FloatWord(w, u).sp < MaxItems
  PROVE  /\ LeftTyped(FloatWord(w, u), T)
         /\ AsDescribed(w) => LeftAsDescribed(w, u, FloatWord(w, u))
<1> DEFINE z == FloatWord(w, u)
           fs == FloatStack
           d == DataStack
<1>n. /\ MaxDepth \in Nat /\ sp \in Nat /\ sp <= MaxDepth /\ Len(f) \in Nat
      /\ CellRange \subseteq Int
  BY GivenFacts
<1>s. /\ s \in [1 .. MaxDepth + 1 -> CellRange] /\ tos \in CellRange /\ StackTyped
      /\ Pushed \in [1 .. MaxDepth + 1 -> CellRange]
  BY GivenFacts
<1>f. f \in Seq(T) /\ fm \in Seq(T) /\ ftos \in T /\ FPushed \in Seq(T) BY GivenFacts
<1>i. \A x \in T : IsFloat(x) BY GivenFacts
<1>b. z.sp < MaxItems /\ MaxItems \in Nat /\ MaxItems <= MaxDepth BY GivenFacts
<1>g. Takes(w)[1] <= sp /\ Takes(w)[2] <= Len(f) OBVIOUS
<1>F. /\ fs = AllBut(fs, 0) \o <<>> /\ fs = SeenFloats(f, ftos) /\ Len(fs) = Len(f)
      /\ \A x : SeenFloats(FPushed, x) = AllBut(fs, 0) \o <<x>>
  BY <1>f, FloatShapes
<1>F1. Len(f) >= 1 =>
         /\ LastOf(fs, 1) = <<ftos>> /\ Second \in T /\ FPopped \in Seq(T)
         /\ \A x : SeenFloats(f, x) = AllBut(fs, 1) \o <<x>>
         /\ SeenFloats(FPopped, Second) = AllBut(fs, 1) \o <<>>
         /\ SeenFloats(FPushed, ftos) = AllBut(fs, 1) \o <<ftos, ftos>>
  BY <1>f, FloatShapes
<1>F2. Len(f) >= 2 =>
         /\ LastOf(fs, 2) = <<Second, ftos>>
         /\ \A x : SeenFloats(FPopped, x) = AllBut(fs, 2) \o <<x>>
         /\ SeenFloats(Append(FPopped, ftos), Second) = AllBut(fs, 2) \o <<ftos, Second>>
         /\ SeenFloats(FPushed, Second) = AllBut(fs, 2) \o <<Second, ftos, Second>>
  BY <1>f, FloatShapes
<1>D. /\ SeenData(s, sp, tos) = AllBut(d, 0) \o <<>>
      /\ sp + 1 <= MaxDepth => \A n \in Int : SeenData(Pushed, sp + 1, n) = AllBut(d, 0) \o <<n>>
      /\ sp >= 1 => /\ SeenData(s, sp - 1, s[sp]) = AllBut(d, 1) \o <<>>
                    /\ LastOf(d, 1) = <<tos>>
      /\ sp >= 2 => /\ SeenData(s, sp - 2, s[sp - 1]) = AllBut(d, 2) \o <<>>
                    /\ LastOf(d, 2) = <<s[sp], tos>>
  BY <1>s, DataShapes
<1> HIDE DEF z, fs, d
<1>1. CASE w = "d>f"
  <2>1. Takes(w) = <<2, 0>>
    BY <1>1 DEF Takes, Symmetric, Ordered, Comparisons, Tests, Unary, Movers, Stores, Conversions
  <2>2. z = WithoutDouble(FPushed, <<tos * FloatModulus + s[sp]>>)
    BY <1>1 DEF z, FloatWord, Movers, Stores, Comparisons, Tests, Unary, Symmetric, Ordered,
       Conversions, FloatConversion
  <2>3. /\ z.s = s /\ z.sp = sp - 2 /\ z.tos = s[sp - 1]
        /\ z.f = FPushed /\ z.ftos = <<tos * FloatModulus + s[sp]>> /\ z.fm = fm
    BY <2>2 DEF OnFloats, WithCell, WithoutCell, WithoutDouble, Leaves
  <2>4. 2 <= sp /\ 0 <= Len(f) BY <2>1, <1>g
  <2>v. s[sp] \in CellRange
    <3>1. sp \in 1 .. MaxDepth + 1 BY <2>4, <1>n
    <3> QED BY <3>1, <1>s
  <2>w. FloatModulus \in Nat \ {0} BY <2>v, <1>n, LowCellIs
  <2>u. IsFloat(<<tos * FloatModulus + s[sp]>>)
    <3>a. CellRange \subseteq Int /\ tos \in CellRange BY <1>n, <1>s
    <3>b. FloatModulus \in Int BY <2>w
    <3>1. tos \in Int /\ s[sp] \in Int /\ FloatModulus \in Int BY <2>v, <3>a, <3>b
    <3> DEFINE v == tos * FloatModulus + s[sp]
    <3>2. v \in Int BY <3>1
    <3> HIDE DEF v
    <3>3. \E n \in Int : <<v>> = <<n>> BY <3>2
    <3> QED BY <3>3 DEF IsFloat, v
  <2>5. LeftTyped(z, T)
    <3>1. sp - 2 \in 0 .. MaxDepth BY <2>4, <1>n
    <3>2. IsFloat(z.ftos) BY <2>3, <2>u
    <3>3. z.s \in [1 .. MaxDepth + 1 -> CellRange] /\ z.sp \in 0 .. MaxDepth BY <2>3, <3>1, <1>s
    <3>4. z.f \in Seq(T) /\ z.fm \in Seq(T) BY <2>3, <1>f
    <3> QED BY <3>2, <3>3, <3>4 DEF LeftTyped
  <2>6. SeenFloats(z.f, z.ftos) = AllBut(fs, 0) \o <<<<tos * FloatModulus + s[sp]>>>>
    BY <2>3, <2>4, <1>n, <1>F, <1>F1, <1>F2
  <2>7. SeenData(z.s, z.sp, z.tos) = AllBut(d, 2) \o <<>> BY <2>3, <2>4, <1>b, <1>n, <1>s, <1>D
  <2>8. ASSUME AsDescribed(w)
        PROVE FloatsLeft(w, u, LastOf(d, 2), LastOf(fs, 0)) = <<<<tos * FloatModulus + s[sp]>>>>
    <3>1. s[sp] >= 0 BY <2>8, <1>1 DEF AsDescribed
    <3>2. s[sp] % FloatModulus = s[sp] BY <3>1, <2>v, SmallCell
    <3>3. LastOf(d, 2) = <<s[sp], tos>> BY <2>4, <1>D
    <3>4. FloatsLeft(w, u, LastOf(d, 2), LastOf(fs, 0))
               = <<<<TwoCells(LastOf(d, 2)[1], LastOf(d, 2)[2])>>>>
      BY <1>1 DEF FloatsLeft, Unary, Symmetric, Ordered
    <3> QED BY <3>2, <3>3, <3>4 DEF TwoCells
  <2>9. CellsLeft(w, LastOf(fs, 0)) = <<>>
    BY <2>4, <1>1, <1>n, <1>F, <1>F1, <1>F2 DEF CellsLeft, Comparisons, Tests, fs
  <2>10. w # "f>d" BY <1>1 DEF Unary, Symmetric, Ordered, Comparisons, Tests
  <2>11. AsDescribed(w) => LeftAsDescribed(w, u, z)
    BY <2>1, <2>6, <2>7, <2>8, <2>9, <2>10, EffectParts DEF fs, d
  <2> QED BY <2>5, <2>11 DEF z
<1> QED BY <1>1 DEF z

\* A float becomes a double.
LEMMA FloatBecomesDouble ==
  ASSUME NEW T, Given(T), NEW w, w = "f>d", NEW u,
         Takes(w)[1] <= sp, Takes(w)[2] <= Len(f), FloatWord(w, u).sp < MaxItems, Whole(ftos)
  PROVE  /\ LeftTyped(FloatWord(w, u), T)
         /\ AsDescribed(w) => LeftAsDescribed(w, u, FloatWord(w, u))
<1> DEFINE z == FloatWord(w, u)
           fs == FloatStack
           d == DataStack
<1>n. /\ MaxDepth \in Nat /\ sp \in Nat /\ sp <= MaxDepth /\ Len(f) \in Nat
      /\ MaxItems \in Nat /\ MaxItems <= MaxDepth
  BY GivenFacts
<1>s. StackTyped /\ Pushed \in [1 .. MaxDepth + 1 -> CellRange] BY GivenFacts
<1>f. f \in Seq(T) /\ fm \in Seq(T) /\ ftos \in T BY GivenFacts
<1>1. PICK n \in Int : ftos = <<n>>
  <2>1. IsFloat(ftos) BY GivenFacts
  <2> QED BY <2>1 DEF IsFloat
<1>2. Takes(w) = <<0, 1>>
  BY DEF Takes, Symmetric, Ordered, Comparisons, Tests, Unary, Movers, Stores, Conversions
<1>3. z = Leaves(Set(Pushed, sp + 2, LowCell(ftos[1])),
           sp + 2, HighCell(ftos[1]), FPopped, Second, fm)
  BY DEF FloatWord, Movers, Stores, Comparisons, Tests, Unary, Symmetric, Ordered, Conversions,
         FloatConversion
<1>4. /\ z.s = Set(Pushed, sp + 2, LowCell(n)) /\ z.sp = sp + 2 /\ z.tos = HighCell(n)
      /\ z.f = FPopped /\ z.ftos = Second /\ z.fm = fm
  BY <1>1, <1>3 DEF Leaves
<1>5. z.sp < MaxItems /\ 1 <= Len(f) BY <1>2
<1> HIDE DEF z, fs, d
<1>F. /\ LastOf(fs, 1) = <<ftos>> /\ Second \in T /\ FPopped \in Seq(T)
      /\ SeenFloats(FPopped, Second) = AllBut(fs, 1) \o <<>>
  BY <1>5, <1>f, FloatShapes DEF fs
<1>6. LowCell(n) \in CellRange BY LowCellIs
<1>7. sp + 2 \in 0 .. MaxDepth /\ sp + 2 \in 1 .. MaxDepth + 1 BY <1>n, <1>4, <1>5
<1>8. LeftTyped(z, T)
  <2>1. z.s \in [1 .. MaxDepth + 1 -> CellRange] BY <1>4, <1>6, <1>7, <1>s DEF Set
  <2>2. IsFloat(z.ftos) BY <1>4, <1>F, GivenFacts
  <2> QED BY <2>1, <2>2, <1>4, <1>7, <1>F, <1>f DEF LeftTyped
<1>9. ASSUME AsDescribed(w) PROVE LeftAsDescribed(w, u, z)
  <2>1. n >= 0 BY <1>9, <1>1 DEF AsDescribed
  <2>2. HighCell(n) \in Int /\ TwoCells(LowCell(n), HighCell(n)) = n BY <2>1, CellsOfNumber
  <2>3. z.s[z.sp] = LowCell(n) BY <1>4, <1>7, <1>s DEF Set
  <2>4. LowCell(n) \in Int
    <3>1. CellRange \subseteq Int BY GivenFacts
    <3> QED BY <3>1, <1>6
  <2>5. AllBut(SeenData(z.s, z.sp, z.tos), 2) = d
    <3>1. sp + 2 <= MaxDepth BY <1>7
    <3> QED BY <3>1, <2>2, <2>4, <1>s, <1>4, DataPushTwo DEF d
  <2>6. LastOf(fs, 1) = <<<<TwoCells(z.s[z.sp], z.tos)>>>> BY <2>2, <2>3, <1>1, <1>4, <1>F
  <2>7. FloatsLeft(w, u, LastOf(d, 0), LastOf(fs, 1)) = <<>>
    BY DEF FloatsLeft, Unary, Symmetric, Ordered
  <2>8. SeenFloats(z.f, z.ftos) = AllBut(fs, 1) \o <<>> BY <1>4, <1>F
  <2>9. Takes(w)[1] = 0 /\ Takes(w)[2] = 1 BY <1>2
  <2>10. SeenFloats(z.f, z.ftos)
           = AllBut(fs, Takes(w)[2]) \o FloatsLeft(w, u, LastOf(d, Takes(w)[1]), LastOf(fs,
           Takes(w)[2]))
    BY <2>7, <2>8, <2>9
  <2>11. LastOf(fs, Takes(w)[2]) = <<<<TwoCells(z.s[z.sp], z.tos)>>>> BY <2>6, <2>9
  <2> QED BY <2>5, <2>10, <2>11 DEF LeftAsDescribed, fs, d
<1> QED BY <1>8, <1>9 DEF z

-----------------------------------------------------------------------------
(* Every float word. *)

\* What executing a float word needs.
LEMMA FloatWordNeeds ==
  ASSUME NEW T, Given(T), NEW w, NEW u, FloatExecute(w, u)
  PROVE  /\ Takes(w)[1] <= sp /\ Takes(w)[2] <= Len(f) /\ FloatWord(w, u).sp < MaxItems
         /\ w \in {"f@", "f!"} => tos \in 0 .. Len(fm) - 1
         /\ w = "f>d" => Whole(ftos)
<1>1. Len(DataStack) = sp
  <2>1. StackTyped BY GivenFacts
  <2> QED BY <2>1, DataIs
<1>2. f \in Seq(T) /\ ftos \in T BY GivenFacts
<1>3. Len(FloatStack) = Len(f) /\ (Len(f) >= 1 => LastOf(FloatStack, 1) = <<ftos>>)
  BY <1>2, FloatShapes
<1>4. /\ Takes(w)[1] <= Len(DataStack) /\ Takes(w)[2] <= Len(FloatStack) /\ OnWholes(w)
      /\ w \in {"f@", "f!"} => tos \in 0 .. Len(fm) - 1
      /\ InBounds(FloatWord(w, u))
  BY DEF FloatExecute
<1>5. FloatWord(w, u).sp < MaxItems BY <1>4 DEF InBounds
<1>6. ASSUME w = "f>d" PROVE Whole(ftos)
  <2>1. Takes(w) = <<0, 1>>
    BY <1>6 DEF Takes, Symmetric, Ordered, Comparisons
  <2>2. w \in FloatWords \ (Movers \cup Stores \cup {"s>f", "d>f"})
    BY <1>6 DEF FloatWords, Movers, Stores, Conversions
  <2>3. \A x \in {LastOf(FloatStack, 1)[i] : i \in 1 .. 1} : Whole(x)
    BY <2>1, <2>2, <1>4 DEF OnWholes
  <2>4. Whole(LastOf(FloatStack, 1)[1]) BY <2>3
  <2>5. LastOf(FloatStack, 1) = <<ftos>> BY <2>1, <1>2, <1>3, <1>4
  <2> QED BY <2>4, <2>5
<1> QED BY <1>1, <1>3, <1>4, <1>5, <1>6

\* Every float word keeps the types and has its effect.
LEMMA FloatWordsWork ==
  ASSUME NEW T, Given(T), NEW w, NEW u, <<w, u>> \in FloatCalls, FloatExecute(w, u)
  PROVE  /\ LeftTyped(FloatWord(w, u), T)
         /\ AsDescribed(w) => LeftAsDescribed(w, u, FloatWord(w, u))
<1>1. /\ Takes(w)[1] <= sp /\ Takes(w)[2] <= Len(f) /\ FloatWord(w, u).sp < MaxItems
      /\ w \in {"f@", "f!"} => tos \in 0 .. Len(fm) - 1
      /\ w = "f>d" => Whole(ftos)
  BY FloatWordNeeds
<1>2. (w = "(flit)" /\ u \in FloatNumbers) \/ w \in FloatWords BY DEF FloatCalls
<1>3. CASE w = "(flit)" /\ u \in FloatNumbers BY <1>1, <1>3, LiteralPushed
<1>4. CASE w \in Movers \ {"fdepth"} BY <1>1, <1>4, MoversMoveFloats
<1>5. CASE w = "fdepth" BY <1>1, <1>5, DepthCounted
<1>6. CASE w \in Stores BY <1>1, <1>6, StoresStore
<1>7. CASE w \in Unary \cup Symmetric \cup Ordered BY <1>1, <1>7, FunctionsApply
<1>8. CASE w \in Tests BY <1>1, <1>8, TestsTest
<1>9. CASE w \in Comparisons
  <2>1. ~AsDescribed(w) BY <1>9 DEF AsDescribed
  <2> QED BY <2>1, <1>1, <1>9, ComparisonsTyped
<1>10. CASE w = "s>f" BY <1>1, <1>10, CellBecomesFloat
<1>11. CASE w = "d>f" BY <1>1, <1>11, DoubleBecomesFloat
<1>12. CASE w = "f>d" BY <1>1, <1>12, FloatBecomesDouble
<1> QED
  BY <1>2, <1>3, <1>4, <1>5, <1>6, <1>7, <1>8, <1>9, <1>10, <1>11, <1>12 DEF FloatWords, Conversions

\* The floats that the invariant speaks of.
LEMMA TypedIsGiven ==
  FloatTyped <=> \E T : Given(T)
BY DEF FloatTyped, Given

\* A float word executed keeps the invariant.
LEMMA FloatWordKeepsTypes ==
  ASSUME FloatTyped, NEW w, NEW u, <<w, u>> \in FloatCalls, FloatExecute(w, u)
  PROVE  FloatTyped'
<1> DEFINE z == FloatWord(w, u)
<1>1. PICK T : Given(T) BY TypedIsGiven
<1>2. LeftTyped(z, T) BY <1>1, FloatWordsWork
<1>3. /\ f' = z.f /\ ftos' = z.ftos /\ fm' = z.fm /\ s' = z.s /\ sp' = z.sp /\ tos' = z.tos
      /\ r' = r /\ rp' = rp /\ z.tos \in FloatCells
  BY DEF FloatExecute, InBounds
<1> HIDE DEF z
<1> DEFINE U == T \cup {z.ftos}
<1>4. f' \in Seq(U) /\ fm' \in Seq(U) /\ ftos' \in U
  <2>1. T \subseteq U /\ z.ftos \in U OBVIOUS
  <2>2. z.f \in Seq(T) /\ z.fm \in Seq(T) BY <1>2 DEF LeftTyped
  <2> HIDE DEF U
  <2> QED BY <2>1, <2>2, <1>3, SeqWider
<1>5. \A x \in U : IsFloat(x)
  <2>1. \A x \in T : IsFloat(x) BY <1>1 DEF Given
  <2>2. IsFloat(z.ftos) BY <1>2 DEF LeftTyped
  <2> QED BY <2>1, <2>2
<1>6. s' \in [1 .. MaxDepth + 1 -> CellRange] /\ sp' \in 0 .. MaxDepth BY <1>2, <1>3 DEF LeftTyped
<1>7. tos' \in CellRange BY <1>3, FloatAssumption DEF CellRange, Half
<1>8. CellRange \subseteq Int BY <1>1, GivenFacts
<1>9. StackTyped'
  <2>1. r \in [1 .. MaxReturn -> Int] /\ rp \in 0 .. MaxReturn BY <1>1 DEF Given, StackTyped
  <2>2. s' \in [1 .. MaxDepth + 1 -> Int] /\ tos' \in Int BY <1>6, <1>7, <1>8
  <2> QED BY <2>1, <2>2, <1>3, <1>6 DEF StackTyped
<1> HIDE DEF U
<1>10. \E S : /\ f' \in Seq(S) /\ fm' \in Seq(S) /\ ftos' \in S
              /\ \A x \in S : IsFloat(x)
  BY <1>4, <1>5
<1> QED BY <1>6, <1>7, <1>9, <1>10 DEF FloatTyped, CellRange, Half, IsFloat, Whole

\* A number compiled into a definition keeps it.
LEMMA NumberKeepsTypes ==
  ASSUME FloatTyped, NEW u \in StackCells, Execute("(lit)", u), UNCHANGED floatOnly
  PROVE  FloatTyped'
<1>1. PICK T : Given(T) BY TypedIsGiven
<1>2. StackTyped /\ Pushed \in [1 .. MaxDepth + 1 -> CellRange] BY <1>1, GivenFacts
<1>3. StackTyped'
  <2> DEFINE x == <<"(lit)", u>>
  <2>1. x \in Words /\ x[1] = "(lit)" /\ x[2] = u BY DEF Words
  <2>2. Execute(x[1], x[2]) BY <2>1
  <2> HIDE DEF x
  <2> QED BY <1>2, <2>1, <2>2, WordsWork
<1>4. s' = Pushed /\ tos' = u BY DEF Execute, StackWord, Data
<1>5. u \in CellRange BY FloatAssumption DEF CellRange, Half
<1>6. f' = f /\ fm' = fm /\ ftos' = ftos BY DEF floatOnly
<1>7. f \in Seq(T) /\ fm \in Seq(T) /\ ftos \in T /\ \A x \in T : IsFloat(x) BY <1>1, GivenFacts
<1>8. \E S : /\ f' \in Seq(S) /\ fm' \in Seq(S) /\ ftos' \in S
             /\ \A x \in S : IsFloat(x)
  BY <1>6, <1>7
<1> QED BY <1>2, <1>3, <1>4, <1>5, <1>8 DEF FloatTyped, CellRange, Half, IsFloat, Whole

\* The values on both stacks and in the data space keep their types, the items
\* on the data stack those of a cell.
THEOREM FloatInvariant == FloatSpec => []FloatTyped
<1>1. FloatInit => FloatTyped
  <2> SUFFICES ASSUME FloatInit PROVE FloatTyped OBVIOUS
  <2>1. StackTyped BY StackAssumption DEF FloatInit, StackInit, StackTyped
  <2>2. 0 \in CellRange
    <3>1. Half \in Nat \ {0} BY FloatAssumption DEF Half
    <3> HIDE DEF Half
    <3> QED BY <3>1 DEF CellRange
  <2>3. s \in [1 .. MaxDepth + 1 -> CellRange] /\ tos \in CellRange
    BY <2>2 DEF FloatInit, StackInit
  <2>4. IsFloat(<<0>>) BY DEF IsFloat
  <2>5. f \in Seq({<<0>>}) /\ fm \in Seq({<<0>>}) /\ ftos \in {<<0>>} BY DEF FloatInit
  <2>6. \E T : /\ f \in Seq(T) /\ fm \in Seq(T) /\ ftos \in T
               /\ \A x \in T : IsFloat(x)
    <3> DEFINE U == {<<0>>}
    <3>1. f \in Seq(U) /\ fm \in Seq(U) /\ ftos \in U /\ \A x \in U : IsFloat(x) BY <2>4, <2>5
    <3> HIDE DEF U
    <3> QED BY <3>1
  <2> QED BY <2>1, <2>3, <2>6 DEF FloatTyped
<1>2. FloatTyped /\ [FloatNext]_floatVars => FloatTyped'
  <2>1. ASSUME FloatTyped, FloatNext PROVE FloatTyped'
    <3>1. CASE \E u \in StackCells : Execute("(lit)", u) /\ UNCHANGED floatOnly
      BY <2>1, <3>1, NumberKeepsTypes
    <3>2. CASE \E c \in FloatCalls : FloatExecute(c[1], c[2])
      <4>1. PICK c \in FloatCalls : FloatExecute(c[1], c[2]) BY <3>2
      <4>2. <<c[1], c[2]>> \in FloatCalls BY DEF FloatCalls
      <4> QED BY <2>1, <4>1, <4>2, FloatWordKeepsTypes
    <3>3. ASSUME NEW x \in FloatNumbers, FloatExecute("(flit)", x)
          PROVE  \E c \in FloatCalls : FloatExecute(c[1], c[2])
      <4> DEFINE c == <<"(flit)", x>>
      <4>1. c \in FloatCalls /\ c[1] = "(flit)" /\ c[2] = x BY DEF FloatCalls
      <4> HIDE DEF c
      <4> QED BY <4>1, <3>3
    <3>4. ASSUME NEW w \in FloatWords, FloatExecute(w, 0)
          PROVE  \E c \in FloatCalls : FloatExecute(c[1], c[2])
      <4> DEFINE c == <<w, 0>>
      <4>1. c \in FloatCalls /\ c[1] = w /\ c[2] = 0 BY DEF FloatCalls
      <4> HIDE DEF c
      <4> QED BY <4>1, <3>4
    <3> QED BY <2>1, <3>1, <3>2, <3>3, <3>4 DEF FloatNext
  <2>2. ASSUME FloatTyped, UNCHANGED floatVars PROVE FloatTyped'
    BY <2>2 DEF FloatTyped, StackTyped, floatVars, stackVars, floatOnly, CellRange, Half, IsFloat,
       Whole
  <2> QED BY <2>1, <2>2
<1> QED BY <1>1, <1>2, PTL DEF FloatSpec

\* The effect of a float word on both stacks.
LEMMA FloatEffect ==
  ASSUME FloatTyped, NEW c \in FloatCalls, FloatExecute(c[1], c[2]), AsDescribed(c[1])
  PROVE  LET n == Takes(c[1])
             d == LastOf(DataStack, n[1])
             x == LastOf(FloatStack, n[2])
         IN /\ FloatStack' = AllBut(FloatStack, n[2]) \o FloatsLeft(c[1], c[2], d, x)
            /\ IF c[1] = "f>d"
               THEN x = <<<<TwoCells(s'[sp'], tos')>>>> /\ AllBut(DataStack', 2) = DataStack
               ELSE DataStack' = AllBut(DataStack, n[1]) \o CellsLeft(c[1], x)
<1> DEFINE w == c[1]
           u == c[2]
           z == FloatWord(w, u)
<1>1. PICK T : Given(T) BY TypedIsGiven
<1>2. <<w, u>> \in FloatCalls BY DEF FloatCalls
<1>3. LeftAsDescribed(w, u, z) BY <1>1, <1>2, FloatWordsWork
<1>4. /\ f' = z.f /\ ftos' = z.ftos /\ s' = z.s /\ sp' = z.sp /\ tos' = z.tos
  BY DEF FloatExecute
<1>5. FloatStack' = SeenFloats(z.f, z.ftos) /\ DataStack' = SeenData(z.s, z.sp, z.tos)
  BY <1>4 DEF FloatStack, SeenFloats, DataStack, SeenData
<1> HIDE DEF z
<1> QED BY <1>3, <1>4, <1>5 DEF LeftAsDescribed

\* Every float word but those that AsDescribed names takes its operands off both
\* stacks in the order it is described with, leaves its results there and moves
\* nothing else; f>d and the conversion back agree.
THEOREM FloatWordsDoAsDescribed == FloatSpec => FloatEffectsHold
<1> DEFINE A == floatVars' # floatVars => \A c \in FloatCalls :
       ((floatOnly' # floatOnly \/ c[1] = "fdepth")
        /\ FloatExecute(c[1], c[2]) /\ AsDescribed(c[1])) =>
         LET n == Takes(c[1])
             d == LastOf(DataStack, n[1])
             x == LastOf(FloatStack, n[2])
         IN /\ FloatStack' = AllBut(FloatStack, n[2]) \o FloatsLeft(c[1], c[2], d, x)
            /\ IF c[1] = "f>d"
               THEN x = <<<<TwoCells(s'[sp'], tos')>>>> /\ AllBut(DataStack', 2) = DataStack
               ELSE DataStack' = AllBut(DataStack, n[1]) \o CellsLeft(c[1], x)
<1>1. FloatTyped => A BY FloatEffect
<1>2. FloatTyped /\ [FloatNext]_floatVars => [A]_floatVars BY <1>1
<1> QED BY <1>2, FloatInvariant, PTL DEF FloatSpec, FloatEffectsHold
=============================================================================
