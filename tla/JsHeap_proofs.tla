--------------------------- MODULE JsHeap_proofs ---------------------------
(***************************************************************************)
(* Theorems about ALLOCATE and FREE of JS-Forth, for any sizes and any     *)
(* number of chunks: after any order of them the heap is its chunks, the   *)
(* headers are right and no two free chunks are neighbours.  FREE is       *)
(* followed through the runs of neighbours it merges: the heads of the     *)
(* runs are the chunks that stay, and a run ends where its last chunk did. *)
(***************************************************************************)
EXTENDS JsHeap, FiniteSetTheorems, WellFoundedInduction, TLAPS

Used == Elements(usedchunk)
Free == Elements(freechunk)

\* No entry of a table is there twice.
Once(q) == \A i, j \in DOMAIN q : q[i] = q[j] => i = j

\* The cells 0 .. end - 1 are the chunks of c, with their headers.
Tiled(c, size, end) ==
  /\ \A a \in c : 2 <= a /\ a + size[a] <= end
  /\ \A a, b \in c : a < b => a + size[a] + 2 <= b
  /\ \A n \in 0 .. end - 1 : \E a \in c : a - 2 <= n /\ n < a + size[a]

\* The tables list different chunks, and each has its header.
Listed ==
  /\ heapend \in Nat /\ usedchunk \in Seq(Nat) /\ freechunk \in Seq(Nat)
  /\ Once(usedchunk) /\ Once(freechunk) /\ Used \cap Free = {}
  /\ sizeOf \in [Used \cup Free -> Nat]
  /\ DOMAIN indexOf = Used

\* The inductive invariant.
IInv ==
  /\ Listed
  /\ Tiled(Used \cup Free, sizeOf, heapend)
  /\ ChunksNumbered
  /\ FreeMerged

-----------------------------------------------------------------------------
(* Sets of naturals. *)

\* A set of naturals has a least element.
LEMMA LeastExists ==
  ASSUME NEW T, T \subseteq Nat, T # {}
  PROVE  \E i \in T : \A j \in T : i <= j
<1> DEFINE R == {ss \in Nat \X Nat : ss[1] < ss[2]}
<1>1. R = OpToRel(<, Nat) BY DEF OpToRel
<1>2. IsWellFoundedOn(R, Nat) BY <1>1, NatLessThanWellFounded
<1>3. PICK i \in T : \A j \in T : ~(<<j, i>> \in R) BY <1>2, WFMin
<1>4. \A j \in T : i \in Nat /\ j \in Nat /\ <<j, i>> \in Nat \X Nat OBVIOUS
<1>5. \A j \in T : ~(j < i) BY <1>3, <1>4
<1> QED BY <1>4, <1>5

\* A set of naturals with a bound has a last element.
LEMMA LastExists ==
  ASSUME NEW n \in Nat, NEW T, T \subseteq 0 .. n, T # {}
  PROVE  \E i \in T : \A j \in T : j <= i
<1> DEFINE U == {n - i : i \in T}
<1>1. \A i \in T : i \in Nat /\ n - i \in Nat OBVIOUS
<1>2. U \subseteq Nat /\ U # {} BY <1>1
<1>3. PICK k \in U : \A j \in U : k <= j BY <1>2, LeastExists
<1>4. PICK i \in T : k = n - i BY <1>3
<1>5. \A j \in T : n - i <= n - j BY <1>3, <1>4
<1> QED BY <1>1, <1>5

-----------------------------------------------------------------------------
(* Tables of chunks. *)

\* A table has as many chunks as entries.
LEMMA ElementsCounted ==
  ASSUME NEW q \in Seq(Nat), Once(q)
  PROVE  IsFiniteSet(Elements(q)) /\ Cardinality(Elements(q)) = Len(q)
<1>1. q \in [1 .. Len(q) -> Nat] /\ DOMAIN q = 1 .. Len(q) /\ Len(q) \in Nat OBVIOUS
<1>2. q \in [1 .. Len(q) -> Elements(q)] BY <1>1 DEF Elements
<1>3. \A i, j \in 1 .. Len(q) : q[i] = q[j] => i = j BY <1>1 DEF Once
<1>4. \A a \in Elements(q) : \E i \in 1 .. Len(q) : q[i] = a BY <1>1 DEF Elements
<1>5. q \in Bijection(1 .. Len(q), Elements(q))
  BY <1>2, <1>3, <1>4 DEF Bijection, Injection, Surjection, IsInjective
<1>6. ExistsBijection(1 .. Len(q), Elements(q)) BY <1>5 DEF ExistsBijection
<1>7. IsFiniteSet(1 .. Len(q)) /\ Cardinality(1 .. Len(q)) = Len(q)
  <2>1. \A n \in Nat : IsFiniteSet(1 .. n) /\ Cardinality(1 .. n) = n BY FS_Interval
  <2> QED BY <1>1, <2>1
<1> QED BY <1>6, <1>7, FS_Bijection

\* Another chunk at the end of a table.
LEMMA AppendFacts ==
  ASSUME NEW q \in Seq(Nat), Once(q), NEW a \in Nat, a \notin Elements(q)
  PROVE  /\ Append(q, a) \in Seq(Nat) /\ Once(Append(q, a))
         /\ Elements(Append(q, a)) = Elements(q) \cup {a}
         /\ Len(Append(q, a)) = Len(q) + 1
         /\ \A i \in 1 .. Len(q) : Append(q, a)[i] = q[i]
         /\ Append(q, a)[Len(q) + 1] = a
<1> DEFINE p == Append(q, a)
<1>1. /\ p \in Seq(Nat) /\ Len(q) \in Nat /\ Len(p) = Len(q) + 1
      /\ DOMAIN p = 1 .. Len(q) + 1 /\ DOMAIN q = 1 .. Len(q)
      /\ \A i \in 1 .. Len(q) : p[i] = q[i]
      /\ p[Len(q) + 1] = a
  OBVIOUS
<1> HIDE DEF p
<1>2. \A i \in 1 .. Len(q) + 1 : i \in 1 .. Len(q) \/ i = Len(q) + 1 BY <1>1
<1>3. \A i \in 1 .. Len(q) : q[i] # a BY <1>1 DEF Elements
<1>4. Once(p) BY <1>1, <1>2, <1>3 DEF Once
<1>5. Elements(p) = Elements(q) \cup {a}
  <2>1. \A b \in Elements(p) : b \in Elements(q) \cup {a} BY <1>1, <1>2 DEF Elements
  <2>2. \A b \in Elements(q) : b \in Elements(p)
    <3>1. \A i \in 1 .. Len(q) : i \in 1 .. Len(q) + 1 BY <1>1
    <3> QED BY <1>1, <3>1 DEF Elements
  <2>3. a \in Elements(p)
    <3>1. Len(q) + 1 \in 1 .. Len(q) + 1 BY <1>1
    <3> QED BY <1>1, <3>1 DEF Elements
  <2> QED BY <2>1, <2>2, <2>3
<1> QED BY <1>1, <1>4, <1>5 DEF p

\* The last chunk in the place of the i-th.
LEMMA MovedFacts ==
  ASSUME NEW q \in Seq(Nat), Once(q), NEW i \in 1 .. Len(q)
  PROVE  /\ Moved(q, i) \in Seq(Nat) /\ Len(Moved(q, i)) = Len(q) - 1
         /\ Once(Moved(q, i)) /\ Elements(Moved(q, i)) = Elements(q) \ {q[i]}
         /\ \A j \in 1 .. Len(q) - 1 : Moved(q, i)[j] = IF j = i THEN q[Len(q)] ELSE q[j]
<1> DEFINE p == Moved(q, i)
           n == Len(q)
<1>1. n \in Nat /\ n >= 1 /\ n - 1 \in Nat /\ DOMAIN q = 1 .. n /\ i \in 1 .. n OBVIOUS
<1>2. \A j \in 1 .. n : q[j] \in Nat OBVIOUS
<1> HIDE DEF n
<1>3. \A j \in 1 .. n - 1 : j \in 1 .. n /\ j # n BY <1>1
<1>4. p = [j \in 1 .. n - 1 |-> IF j = i THEN q[n] ELSE q[j]] BY DEF Moved, n
<1>5. p \in [1 .. n - 1 -> Nat]
  <2>1. q[n] \in Nat BY <1>1, <1>2
  <2>2. \A j \in 1 .. n - 1 : (IF j = i THEN q[n] ELSE q[j]) \in Nat
    BY <1>2, <1>3, <2>1
  <2> QED BY <1>4, <2>2
<1>6. p \in Seq(Nat) /\ Len(p) = n - 1 /\ DOMAIN p = 1 .. n - 1 BY <1>1, <1>5
<1>7. \A j \in 1 .. n - 1 : p[j] = IF j = i THEN q[n] ELSE q[j] BY <1>4
<1> HIDE DEF p
<1>8. \A j, k \in 1 .. n : q[j] = q[k] => j = k BY <1>1 DEF Once
<1>9. Once(p)
  <2> SUFFICES ASSUME NEW j \in 1 .. n - 1, NEW k \in 1 .. n - 1, p[j] = p[k]
               PROVE  j = k
    BY <1>6 DEF Once
  <2>1. /\ j \in 1 .. n /\ j # n
        /\ k \in 1 .. n /\ k # n /\ n \in 1 .. n
    BY <1>1, <1>3
  <2>2. /\ p[j] = IF j = i THEN q[n] ELSE q[j]
        /\ p[k] = IF k = i THEN q[n] ELSE q[k]
    BY <1>7
  <2>3. CASE j = i /\ k # i BY <2>1, <2>2, <2>3, <1>8
  <2>4. CASE j # i /\ k = i BY <2>1, <2>2, <2>4, <1>8
  <2>5. CASE j # i /\ k # i BY <2>1, <2>2, <2>5, <1>8
  <2> QED BY <2>3, <2>4, <2>5
<1>10. Elements(p) = Elements(q) \ {q[i]}
  <2>1. ASSUME NEW j \in 1 .. n - 1 PROVE p[j] \in Elements(q) \ {q[i]}
    <3>1. j \in 1 .. n /\ j # n /\ n \in 1 .. n BY <1>1, <1>3
    <3>2. q[j] \in Elements(q) /\ q[n] \in Elements(q) BY <1>1, <3>1 DEF Elements
    <3>3. CASE j = i
      <4>1. p[j] = q[n] /\ q[n] # q[i] BY <1>7, <1>8, <3>1, <3>3
      <4> QED BY <3>2, <4>1
    <3>4. CASE j # i
      <4>1. p[j] = q[j] BY <1>7, <3>4
      <4>2. q[j] # q[i] BY <1>1, <1>8, <3>1, <3>4
      <4> QED BY <3>2, <4>1, <4>2
    <3> QED BY <3>3, <3>4
  <2>2. ASSUME NEW j \in 1 .. n, q[j] # q[i] PROVE q[j] \in Elements(p)
    <3>1. CASE j = n
      <4>1. i \in 1 .. n - 1 BY <1>1, <2>2, <3>1
      <4>2. p[i] = q[j] BY <1>7, <3>1, <4>1
      <4> QED BY <1>6, <4>1, <4>2 DEF Elements
    <3>2. CASE j # n
      <4>1. j \in 1 .. n - 1 /\ j # i BY <1>1, <2>2, <3>2
      <4>2. p[j] = q[j] BY <1>7, <4>1
      <4> QED BY <1>6, <4>1, <4>2 DEF Elements
    <3> QED BY <3>1, <3>2
  <2>3. \A b \in Elements(p) : b \in Elements(q) \ {q[i]} BY <1>6, <2>1 DEF Elements
  <2>4. \A b \in Elements(q) \ {q[i]} : b \in Elements(p)
    <3>1. \A b \in Elements(q) : \E j \in 1 .. n : b = q[j] BY <1>1 DEF Elements
    <3> QED BY <2>2, <3>1
  <2> QED BY <2>3, <2>4
<1> QED BY <1>6, <1>7, <1>9, <1>10 DEF p, n

\* A table without its last chunk.
LEMMA SubSeqFacts ==
  ASSUME NEW q \in Seq(Nat), Once(q), Len(q) # 0
  PROVE  LET p == SubSeq(q, 1, Len(q) - 1)
         IN p \in Seq(Nat) /\ Once(p) /\ Elements(p) = Elements(q) \ {q[Len(q)]}
<1> DEFINE p == SubSeq(q, 1, Len(q) - 1)
           n == Len(q)
<1>1. n \in Nat /\ n >= 1 /\ n - 1 \in Nat /\ DOMAIN q = 1 .. n OBVIOUS
<1>0. q \in [1 .. n -> Nat] OBVIOUS
<1>2. p = [i \in 1 .. n - 1 |-> q[i]] BY <1>1
<1>3. p \in Seq(Nat) /\ Len(p) = n - 1 /\ DOMAIN p = 1 .. n - 1
      /\ \A i \in 1 .. n - 1 : p[i] = q[i]
  <2> HIDE DEF p, n
  <2>1. p \in [1 .. n - 1 -> Nat] BY <1>0, <1>1, <1>2
  <2> QED BY <1>1, <1>2, <2>1
<1> HIDE DEF n, p
<1>4. \A i \in 1 .. n - 1 : i \in 1 .. n /\ i # n BY <1>1
<1>5. \A i \in 1 .. n : i # n => i \in 1 .. n - 1 BY <1>1
<1>6. n \in 1 .. n BY <1>1
<1>7. \A i, j \in 1 .. n : q[i] = q[j] => i = j BY <1>1 DEF Once
<1>8. Once(p) BY <1>3, <1>4, <1>7 DEF Once
<1>9. Elements(p) = Elements(q) \ {q[n]}
  <2>1. \A b \in Elements(p) : b \in Elements(q) \ {q[n]}
    BY <1>1, <1>3, <1>4, <1>6, <1>7 DEF Elements
  <2>2. \A b \in Elements(q) \ {q[n]} : b \in Elements(p)
    BY <1>1, <1>3, <1>5 DEF Elements
  <2> QED BY <2>1, <2>2
<1> QED BY <1>3, <1>8, <1>9 DEF p, n

-----------------------------------------------------------------------------
(* FREE's order of the heads. *)

Below(q, a) == {b \in q : b < a}

\* Its place in the order is another for each number of a set.
LEMMA RankFacts ==
  ASSUME NEW q, q \subseteq Nat, IsFiniteSet(q)
  PROVE  /\ Cardinality(q) \in Nat
         /\ \A a \in q : Cardinality(Below(q, a)) \in 0 .. Cardinality(q) - 1
         /\ \A a, b \in q : a < b => Cardinality(Below(q, a)) < Cardinality(Below(q, b))
<1>1. Cardinality(q) \in Nat BY FS_CardinalityType
<1>2. ASSUME NEW a \in q
      PROVE  /\ IsFiniteSet(Below(q, a)) /\ Cardinality(Below(q, a)) \in Nat
             /\ Cardinality(Below(q, a)) < Cardinality(q)
  <2>1. Below(q, a) \in SUBSET q /\ a \notin Below(q, a) BY DEF Below
  <2>2. /\ IsFiniteSet(Below(q, a)) /\ Cardinality(Below(q, a)) <= Cardinality(q)
        /\ Cardinality(q) = Cardinality(Below(q, a)) => q = Below(q, a)
    BY <2>1, FS_Subset
  <2>3. Cardinality(Below(q, a)) \in Nat BY <2>2, FS_CardinalityType
  <2>4. Cardinality(q) # Cardinality(Below(q, a)) BY <2>1, <2>2
  <2> QED BY <1>1, <2>2, <2>3, <2>4
<1>3. ASSUME NEW a \in q, NEW b \in q, a < b
      PROVE  Cardinality(Below(q, a)) < Cardinality(Below(q, b))
  <2>1. Below(q, a) \in SUBSET Below(q, b) /\ a \in Below(q, b) /\ a \notin Below(q, a)
    <3>1. \A c \in q : c < a => c < b BY <1>3
    <3>2. ~(a < a) BY <1>3
    <3> QED BY <1>3, <3>1, <3>2 DEF Below
  <2>2. IsFiniteSet(Below(q, b)) BY <1>2
  <2>3. /\ Cardinality(Below(q, a)) <= Cardinality(Below(q, b))
        /\ Cardinality(Below(q, b)) = Cardinality(Below(q, a)) => Below(q, b) = Below(q, a)
    BY <2>1, <2>2, FS_Subset
  <2>4. Cardinality(Below(q, b)) # Cardinality(Below(q, a)) BY <2>1, <2>3
  <2> QED BY <1>2, <2>3, <2>4
<1> QED BY <1>1, <1>2, <1>3

\* Ascending lists each chunk once, the highest last.
LEMMA AscendingFacts ==
  ASSUME NEW q, q \subseteq Nat, IsFiniteSet(q), q # {}
  PROVE  LET s == Ascending(q)
         IN /\ s \in Seq(Nat) /\ Len(s) # 0 /\ Once(s) /\ Elements(s) = q
            /\ \A b \in q : b <= s[Len(s)]
<1> DEFINE n == Cardinality(q)
           r(a) == Cardinality(Below(q, a))
           f == [a \in q |-> r(a) + 1]
           s == Ascending(q)
<1>1. /\ n \in Nat /\ \A a \in q : r(a) \in 0 .. n - 1
      /\ \A a, b \in q : a < b => r(a) < r(b)
  BY RankFacts
<1> HIDE DEF r, n
<1>2. n # 0 /\ n \in 1 .. n
  <2>1. n # 0 BY FS_EmptySet DEF n
  <2> QED BY <1>1, <2>1
<1>3. \A a, b \in q : r(a) = r(b) => a = b
  <2> SUFFICES ASSUME NEW a \in q, NEW b \in q, r(a) = r(b), a # b PROVE FALSE OBVIOUS
  <2>1. a \in Nat /\ b \in Nat OBVIOUS
  <2>2. a < b \/ b < a BY <2>1
  <2>3. r(a) \in Int /\ r(b) \in Int BY <1>1
  <2>4. r(a) < r(b) \/ r(b) < r(a) BY <1>1, <2>2
  <2> QED BY <2>3, <2>4
<1>4. \A i \in 1 .. n : \E a \in q : r(a) = i - 1
  <2>1. \A a \in q : r(a) + 1 \in 1 .. n BY <1>1
  <2>2. f \in [q -> 1 .. n] BY <2>1
  <2>3. \A a, b \in q : f[a] = f[b] => a = b
    <3> SUFFICES ASSUME NEW a \in q, NEW b \in q, f[a] = f[b] PROVE a = b OBVIOUS
    <3>1. r(a) + 1 = r(b) + 1 /\ r(a) \in Int /\ r(b) \in Int BY <1>1
    <3>2. r(a) = r(b) BY <3>1
    <3> QED BY <1>3, <3>2
  <2>4. f \in Injection(q, 1 .. n) BY <2>2, <2>3 DEF Injection, IsInjective
  <2>5. IsFiniteSet(1 .. n) /\ Cardinality(1 .. n) = n
    <3>1. \A m \in Nat : IsFiniteSet(1 .. m) /\ Cardinality(1 .. m) = m BY FS_Interval
    <3> QED BY <1>1, <3>1
  <2>6. Cardinality(q) = Cardinality(1 .. n) BY <2>5 DEF n
  <2>7. f \in Surjection(q, 1 .. n) BY <2>4, <2>5, <2>6, FS_Injection
  <2>8. \A i \in 1 .. n : \E a \in q : f[a] = i BY <2>7 DEF Surjection
  <2> SUFFICES ASSUME NEW i \in 1 .. n PROVE \E a \in q : r(a) = i - 1 OBVIOUS
  <2>9. PICK a \in q : f[a] = i BY <2>8
  <2>10. r(a) + 1 = i /\ r(a) \in Int BY <1>1, <2>9
  <2>11. r(a) = i - 1 BY <2>10
  <2> QED BY <2>11
<1>5. s = [i \in 1 .. n |-> CHOOSE a \in q : r(a) = i - 1] BY DEF Ascending, Below, r, n
<1>6. \A i \in 1 .. n : s[i] \in q /\ r(s[i]) = i - 1
  <2>1. ASSUME NEW i \in 1 .. n PROVE s[i] \in q /\ r(s[i]) = i - 1
    <3>1. s[i] = CHOOSE a \in q : r(a) = i - 1 BY <1>5
    <3>2. \E a \in q : r(a) = i - 1 BY <1>4
    <3> QED BY <3>1, <3>2
  <2> QED BY <2>1
<1>7. s \in Seq(Nat) /\ Len(s) = n /\ DOMAIN s = 1 .. n
  <2>1. s \in [1 .. n -> Nat] BY <1>5, <1>6
  <2> QED BY <1>1, <2>1
<1> HIDE DEF s
<1>8. Once(s)
  <2> SUFFICES ASSUME NEW i \in 1 .. n, NEW j \in 1 .. n, s[i] = s[j] PROVE i = j
    BY <1>7 DEF Once
  <2>1. i - 1 = j - 1 BY <1>6
  <2> QED BY <1>1, <2>1
<1>9. Elements(s) = q
  <2>1. \A a \in Elements(s) : a \in q BY <1>6, <1>7 DEF Elements
  <2>2. ASSUME NEW a \in q PROVE a \in Elements(s)
    <3>1. PICK i \in 1 .. n : i - 1 = r(a)
      <4>1. r(a) \in 0 .. n - 1 BY <1>1
      <4> DEFINE k == r(a) + 1
      <4>2. k \in 1 .. n /\ k - 1 = r(a) BY <1>1, <4>1
      <4> HIDE DEF k
      <4> QED BY <4>2
    <3>2. s[i] \in q /\ r(s[i]) = r(a) BY <1>6, <3>1
    <3>3. s[i] = a BY <1>3, <3>2
    <3> QED BY <1>7, <3>1, <3>3 DEF Elements
  <2> QED BY <2>1, <2>2
<1>10. ASSUME NEW b \in q PROVE b <= s[n]
  <2>1. s[n] \in q /\ r(s[n]) = n - 1 /\ r(b) \in 0 .. n - 1 BY <1>1, <1>2, <1>6
  <2>2. ~(s[n] < b)
    <3> SUFFICES ASSUME s[n] < b PROVE FALSE OBVIOUS
    <3>1. r(s[n]) < r(b) BY <1>1, <2>1
    <3> QED BY <1>1, <2>1, <3>1
  <2>3. s[n] \in Nat /\ b \in Nat BY <2>1
  <2> QED BY <2>2, <2>3
<1> QED BY <1>2, <1>7, <1>8, <1>9, <1>10 DEF s

-----------------------------------------------------------------------------
(* The runs of neighbours among the chunks q that FREE merges. *)

\* The chunks of used and q, none in both, tile the heap.
Heaped(used, q, end) ==
  /\ used \cup q \subseteq Nat /\ used \cap q = {}
  /\ end \in Nat /\ sizeOf \in [used \cup q -> Nat]
  /\ Tiled(used \cup q, sizeOf, end)

LEMMA HeapedFacts ==
  ASSUME NEW used, NEW q, NEW end, Heaped(used, q, end)
  PROVE  /\ end \in Nat
         /\ \A a \in used \cup q : /\ a \in Nat /\ sizeOf[a] \in Nat
                                  /\ 2 <= a /\ a + sizeOf[a] <= end
         /\ \A a, b \in used \cup q : a < b => a + sizeOf[a] + 2 <= b
         /\ \A n \in 0 .. end - 1 : \E a \in used \cup q : a - 2 <= n /\ n < a + sizeOf[a]
         /\ used \cup q \subseteq 0 .. end
<1>1. \A a \in used \cup q : a \in Nat /\ sizeOf[a] \in Nat BY DEF Heaped
<1>2. end \in Nat BY DEF Heaped
<1>3. /\ \A a \in used \cup q : 2 <= a /\ a + sizeOf[a] <= end
      /\ \A a, b \in used \cup q : a < b => a + sizeOf[a] + 2 <= b
      /\ \A n \in 0 .. end - 1 : \E a \in used \cup q : a - 2 <= n /\ n < a + sizeOf[a]
  BY DEF Heaped, Tiled
<1>4. \A a \in used \cup q : a \in 0 .. end BY <1>1, <1>2, <1>3
<1> QED BY <1>1, <1>2, <1>3, <1>4

\* A run ends with the first chunk from its start that none follows.
LEMMA RunFacts ==
  ASSUME NEW used, NEW q, NEW end, Heaped(used, q, end), NEW a \in q
  PROVE  \E b \in Stops(q) : /\ b >= a /\ RunEnd(q)[a] = b + sizeOf[b]
                             /\ \A c \in Stops(q) : c >= a => b <= c
<1> DEFINE T == {b \in Stops(q) : b >= a}
<1>1. /\ end \in Nat /\ q \subseteq 0 .. end
      /\ \A b \in q : b \in Nat /\ sizeOf[b] \in Nat
  BY HeapedFacts
<1>2. PICK m \in q : \A b \in q : b <= m BY <1>1, LastExists
<1>3. m \in T
  <2>1. m \in Nat /\ sizeOf[m] \in Nat BY <1>1
  <2>2. ~(m + sizeOf[m] + 2 <= m) BY <2>1
  <2>3. m + sizeOf[m] + 2 \notin q BY <1>2, <2>2
  <2>4. m >= a BY <1>2
  <2> QED BY <2>3, <2>4 DEF Stops
<1>4. T \subseteq Nat BY <1>1 DEF Stops
<1>5. PICK b \in T : \A c \in T : b <= c BY <1>3, <1>4, LeastExists
<1> DEFINE Last(x) == x >= a /\ \A c \in Stops(q) : c >= a => x <= c
           last == CHOOSE x \in Stops(q) : Last(x)
<1>6. b \in Stops(q) /\ Last(b) BY <1>5
<1>7. last \in Stops(q) /\ Last(last)
  <2> HIDE DEF Last
  <2> QED BY <1>6
<1>8. RunEnd(q)[a] = last + sizeOf[last] BY DEF RunEnd
<1> HIDE DEF last
<1> QED BY <1>7, <1>8

\* It is in the heap, holds its first chunk, and no chunk of q follows it.
LEMMA RunInside ==
  ASSUME NEW used, NEW q, NEW end, Heaped(used, q, end), NEW a \in q
  PROVE  /\ RunEnd(q)[a] \in Nat /\ a + sizeOf[a] <= RunEnd(q)[a]
         /\ RunEnd(q)[a] <= end /\ RunEnd(q)[a] + 2 \notin q
<1>1. PICK b \in Stops(q) : b >= a /\ RunEnd(q)[a] = b + sizeOf[b] BY RunFacts
<1>2. /\ end \in Nat /\ b \in q /\ b \in Nat /\ sizeOf[b] \in Nat
      /\ a \in Nat /\ sizeOf[a] \in Nat
      /\ b + sizeOf[b] <= end /\ (a < b => a + sizeOf[a] + 2 <= b)
  BY <1>1, HeapedFacts DEF Stops
<1>3. b + sizeOf[b] + 2 \notin q BY <1>1 DEF Stops
<1>4. a + sizeOf[a] <= b + sizeOf[b] BY <1>1, <1>2
<1> QED BY <1>1, <1>2, <1>3, <1>4

\* Each chunk of q is in the run of the last head up to it.
LEMMA HeadBelow ==
  ASSUME NEW used, NEW q, NEW end, Heaped(used, q, end), NEW c \in q
  PROVE  \E h \in Heads(q) : h <= c /\ c + sizeOf[c] <= RunEnd(q)[h]
<1>1. /\ end \in Nat /\ q \subseteq 0 .. end
      /\ \A b \in q : b \in Nat /\ sizeOf[b] \in Nat
      /\ \A a, b \in q : a < b => a + sizeOf[a] + 2 <= b
  BY HeapedFacts
<1> DEFINE T == {h \in Heads(q) : h <= c}
<1>2. T # {}
  <2>1. PICK m \in q : \A b \in q : m <= b BY <1>1, LeastExists
  <2>2. \A b \in q : b + sizeOf[b] + 2 # m
    <3> SUFFICES ASSUME NEW b \in q, b + sizeOf[b] + 2 = m PROVE FALSE OBVIOUS
    <3>1. b \in Nat /\ sizeOf[b] \in Nat /\ m \in Nat /\ m <= b BY <1>1, <2>1
    <3> QED BY <3>1
  <2>3. m \in T BY <2>1, <2>2 DEF Heads
  <2> QED BY <2>3
<1>3. T \subseteq 0 .. end BY <1>1 DEF Heads
<1>4. PICK h \in T : \A d \in T : d <= h BY <1>1, <1>2, <1>3, LastExists
<1>5. h \in Heads(q) /\ h \in q /\ h <= c BY <1>4 DEF Heads
<1>6. PICK b \in Stops(q) : /\ b >= h /\ RunEnd(q)[h] = b + sizeOf[b]
                            /\ \A d \in Stops(q) : d >= h => b <= d
  BY <1>5, RunFacts
<1>7. b \in q /\ b + sizeOf[b] + 2 \notin q BY <1>6 DEF Stops
<1>8. c <= b
  <2> SUFFICES ASSUME b < c PROVE FALSE BY <1>1, <1>7
  <2> DEFINE R == {d \in q : b < d}
  <2>1. R \subseteq Nat /\ R # {} BY <1>1
  <2>2. PICK d \in R : \A e \in R : d <= e BY <2>1, LeastExists
  <2>3. d \in q /\ b < d /\ d <= c BY <2>2
  <2>4. d \notin Heads(q)
    <3> SUFFICES ASSUME d \in Heads(q) PROVE FALSE OBVIOUS
    <3>1. d <= h BY <1>4, <2>3
    <3> QED BY <1>1, <1>5, <1>6, <1>7, <2>3, <3>1
  <2>5. PICK e \in q : e + sizeOf[e] + 2 = d BY <2>3, <2>4 DEF Heads
  <2>6. e \in Nat /\ sizeOf[e] \in Nat /\ d \in Nat /\ b \in Nat BY <1>1, <1>7, <2>3
  <2>7. e <= b
    <3> SUFFICES ASSUME b < e PROVE FALSE BY <2>6
    <3>1. d <= e BY <2>2
    <3> QED BY <2>5, <2>6, <3>1
  <2>8. e # b BY <1>7, <2>3, <2>5
  <2>9. e + sizeOf[e] + 2 <= b BY <1>1, <1>7, <2>6, <2>7, <2>8
  <2> QED BY <2>3, <2>5, <2>6, <2>9
<1>9. c + sizeOf[c] <= b + sizeOf[b]
  <2>1. c < b => c + sizeOf[c] + 2 <= b BY <1>1, <1>7
  <2>2. b \in Nat /\ sizeOf[b] \in Nat /\ c \in Nat /\ sizeOf[c] \in Nat BY <1>1, <1>7
  <2> QED BY <1>8, <2>1, <2>2
<1> QED BY <1>5, <1>6, <1>9

\* A run ends before a chunk in use, or the head of another, that is above its
\* start.
LEMMA RunBefore ==
  ASSUME NEW used, NEW q, NEW end, Heaped(used, q, end),
         NEW h \in q, NEW u \in used \cup Heads(q), h < u
  PROVE  RunEnd(q)[h] + 2 <= u
<1>1. /\ end \in Nat /\ used \cup q \subseteq 0 .. end
      /\ \A b \in used \cup q : b \in Nat /\ sizeOf[b] \in Nat
      /\ \A a, b \in used \cup q : a < b => a + sizeOf[a] + 2 <= b
  BY HeapedFacts
<1>2. u \in used \cup q /\ (u \in q => u \in Heads(q)) /\ h \in used \cup q
  BY DEF Heads, Heaped
<1>3. PICK b \in Stops(q) : /\ b >= h /\ RunEnd(q)[h] = b + sizeOf[b]
                            /\ \A d \in Stops(q) : d >= h => b <= d
  BY RunFacts
<1>4. b \in q /\ b + sizeOf[b] + 2 \notin q BY <1>3 DEF Stops
<1>5. b < u
  <2> SUFFICES ASSUME u <= b PROVE FALSE BY <1>1, <1>2, <1>4
  <2> DEFINE R == {d \in q : d < u}
  <2>1. R \subseteq 0 .. end /\ R # {} BY <1>1
  <2>2. PICK d \in R : \A e \in R : e <= d BY <1>1, <2>1, LastExists
  <2>3. d \in q /\ d < u /\ h <= d BY <2>2
  <2>4. d \in Nat /\ sizeOf[d] \in Nat /\ u \in Nat /\ b \in Nat BY <1>1, <1>2, <1>4, <2>3
  <2>5. d \notin Stops(q) BY <1>3, <2>3, <2>4
  <2>6. d + sizeOf[d] + 2 \in q BY <2>3, <2>5 DEF Stops
  <2>7. d + sizeOf[d] + 2 <= u BY <1>1, <1>2, <2>3
  <2>8. ~(d + sizeOf[d] + 2 < u)
    <3> SUFFICES ASSUME d + sizeOf[d] + 2 < u PROVE FALSE OBVIOUS
    <3>1. d + sizeOf[d] + 2 <= d BY <2>2, <2>6
    <3> QED BY <2>4, <3>1
  <2>9. d + sizeOf[d] + 2 = u BY <2>4, <2>7, <2>8
  <2>10. u \in Heads(q) BY <1>2, <2>6, <2>9
  <2> QED BY <2>3, <2>9, <2>10 DEF Heads
<1> QED BY <1>1, <1>2, <1>3, <1>4, <1>5

\* The chunks of q as FREE leaves them, of which those of kept stay.
Merged(used, kept, q) ==
  [b \in used \cup kept |-> IF b \in used THEN sizeOf[b] ELSE RunEnd(q)[b] - b]

LEMMA MergedEnd ==
  ASSUME NEW used, NEW q, NEW end, Heaped(used, q, end), NEW kept, kept \subseteq Heads(q),
         NEW a \in kept
  PROVE  Merged(used, kept, q)[a] \in Nat /\ a + Merged(used, kept, q)[a] = RunEnd(q)[a]
<1>1. a \in q /\ a \notin used BY DEF Heads, Heaped
<1>2. a \in Nat /\ sizeOf[a] \in Nat BY <1>1, HeapedFacts
<1>3. RunEnd(q)[a] \in Nat /\ a + sizeOf[a] <= RunEnd(q)[a] BY <1>1, RunInside
<1>4. Merged(used, kept, q)[a] = RunEnd(q)[a] - a BY <1>1 DEF Merged
<1> QED BY <1>2, <1>3, <1>4

LEMMA MergedUsed ==
  ASSUME NEW used, NEW q, NEW kept, NEW a \in used
  PROVE  Merged(used, kept, q)[a] = sizeOf[a]
BY DEF Merged

LEMMA MergedFacts ==
  ASSUME NEW used, NEW q, NEW end, Heaped(used, q, end), NEW kept, kept \subseteq Heads(q)
  PROVE  /\ Merged(used, kept, q) \in [used \cup kept -> Nat]
         /\ \A a, b \in used \cup kept : a < b => a + Merged(used, kept, q)[a] + 2 <= b
<1> DEFINE size == Merged(used, kept, q)
<1>1. kept \subseteq q BY DEF Heads
<1>2. \A a \in used : size[a] = sizeOf[a] /\ sizeOf[a] \in Nat BY MergedUsed, HeapedFacts
<1>3. \A a \in kept : size[a] \in Nat /\ a + size[a] = RunEnd(q)[a] BY MergedEnd
<1>4. size = [b \in used \cup kept |-> size[b]] BY DEF Merged
<1> HIDE DEF size
<1>5. size \in [used \cup kept -> Nat]
  <2>1. \A a \in used \cup kept : size[a] \in Nat BY <1>2, <1>3
  <2> QED BY <1>4, <2>1
<1>6. ASSUME NEW a \in used \cup kept, NEW b \in used \cup kept, a < b
      PROVE  a + size[a] + 2 <= b
  <2>1. CASE a \in used
    <3>1. a + sizeOf[a] + 2 <= b BY <1>1, <1>6, <2>1, HeapedFacts
    <3> QED BY <1>2, <2>1, <3>1
  <2>2. CASE a \in kept
    <3>1. RunEnd(q)[a] + 2 <= b BY <1>1, <1>6, <2>2, RunBefore
    <3> QED BY <1>3, <2>2, <3>1
  <2> QED BY <2>1, <2>2
<1> QED BY <1>5, <1>6 DEF size

\* With all heads kept the heap is as long as before.
LEMMA MergedTiled ==
  ASSUME NEW used, NEW q, NEW end, Heaped(used, q, end)
  PROVE  Tiled(used \cup Heads(q), Merged(used, Heads(q), q), end)
<1> DEFINE kept == Heads(q)
           size == Merged(used, kept, q)
<1>1. /\ \A a \in used : size[a] = sizeOf[a]
      /\ \A a \in kept : a + size[a] = RunEnd(q)[a]
      /\ \A a, b \in used \cup kept : a < b => a + size[a] + 2 <= b
  <2>1. kept \subseteq Heads(q) OBVIOUS
  <2> HIDE DEF kept
  <2>2. \A a \in used : size[a] = sizeOf[a] BY MergedUsed
  <2>3. \A a \in kept : a + size[a] = RunEnd(q)[a] BY <2>1, MergedEnd
  <2>4. \A a, b \in used \cup kept : a < b => a + size[a] + 2 <= b BY <2>1, MergedFacts
  <2> QED BY <2>2, <2>3, <2>4
<1> HIDE DEF size
<1>2. kept \subseteq q BY DEF Heads
<1>3. /\ end \in Nat /\ \A a \in used \cup q : 2 <= a /\ a + sizeOf[a] <= end /\ a \in Nat
      /\ \A n \in 0 .. end - 1 : \E a \in used \cup q : a - 2 <= n /\ n < a + sizeOf[a]
      /\ \A a \in used \cup q : sizeOf[a] \in Nat
  BY HeapedFacts
<1>4. \A a \in kept : RunEnd(q)[a] <= end BY <1>2, RunInside
<1>5. \A a \in used \cup kept : 2 <= a /\ a + size[a] <= end
  <2>1. \A a \in used : 2 <= a /\ a + size[a] <= end BY <1>1, <1>3
  <2>2. \A a \in kept : 2 <= a /\ a + size[a] <= end BY <1>1, <1>2, <1>3, <1>4
  <2> QED BY <2>1, <2>2
<1>6. ASSUME NEW n \in 0 .. end - 1
      PROVE  \E a \in used \cup kept : a - 2 <= n /\ n < a + size[a]
  <2>1. PICK a \in used \cup q : a - 2 <= n /\ n < a + sizeOf[a] BY <1>3
  <2>2. CASE a \in used BY <1>1, <2>1, <2>2
  <2>3. CASE a \in q
    <3>1. PICK h \in kept : h <= a /\ a + sizeOf[a] <= RunEnd(q)[h] BY <2>3, HeadBelow
    <3>2. h + size[h] = RunEnd(q)[h] /\ RunEnd(q)[h] \in Nat BY <1>1, <1>2, <3>1, RunInside
    <3>3. a \in Nat /\ h \in Nat /\ sizeOf[a] \in Nat BY <1>2, <1>3
    <3>4. h - 2 <= n /\ n < RunEnd(q)[h] BY <2>1, <3>1, <3>2, <3>3
    <3> QED BY <3>2, <3>4
  <2> QED BY <2>2, <2>3
<1> HIDE DEF kept
<1>7. Tiled(used \cup kept, size, end) BY <1>1, <1>5, <1>6 DEF Tiled
<1> QED BY <1>7 DEF kept, size

\* Without the last head, whose run ends with the heap, the heap ends there.
LEMMA CutTiled ==
  ASSUME NEW used, NEW q, NEW end, Heaped(used, q, end),
         NEW last \in Heads(q), RunEnd(q)[last] = end, \A h \in Heads(q) : h <= last
  PROVE  /\ last - 2 \in Nat
         /\ Tiled(used \cup (Heads(q) \ {last}), Merged(used, Heads(q) \ {last}, q), last - 2)
<1> DEFINE kept == Heads(q) \ {last}
           size == Merged(used, kept, q)
<1>1. /\ \A a \in used : size[a] = sizeOf[a]
      /\ \A a \in kept : a + size[a] = RunEnd(q)[a]
      /\ \A a, b \in used \cup kept : a < b => a + size[a] + 2 <= b
  <2>1. kept \subseteq Heads(q) OBVIOUS
  <2> HIDE DEF kept
  <2>2. \A a \in used : size[a] = sizeOf[a] BY MergedUsed
  <2>3. \A a \in kept : a + size[a] = RunEnd(q)[a] BY <2>1, MergedEnd
  <2>4. \A a, b \in used \cup kept : a < b => a + size[a] + 2 <= b BY <2>1, MergedFacts
  <2> QED BY <2>2, <2>3, <2>4
<1> HIDE DEF size
<1>2. kept \subseteq q /\ last \in q BY DEF Heads
<1>3. /\ end \in Nat /\ \A a \in used \cup q : 2 <= a /\ a + sizeOf[a] <= end /\ a \in Nat
      /\ \A n \in 0 .. end - 1 : \E a \in used \cup q : a - 2 <= n /\ n < a + sizeOf[a]
      /\ \A a \in used \cup q : sizeOf[a] \in Nat
      /\ \A a, b \in used \cup q : a < b => a + sizeOf[a] + 2 <= b
  BY HeapedFacts
<1>4. last \in Nat /\ 2 <= last /\ last - 2 \in Nat /\ last <= end
  <2>1. last \in Nat /\ 2 <= last /\ sizeOf[last] \in Nat /\ last + sizeOf[last] <= end
    BY <1>2, <1>3
  <2> QED BY <1>3, <2>1
<1>5. \A a \in used : a < last
  <2> SUFFICES ASSUME NEW a \in used, last <= a PROVE FALSE BY <1>3, <1>4
  <2>1. a # last BY <1>2 DEF Heaped
  <2>2. a \in Nat /\ sizeOf[a] \in Nat /\ a + sizeOf[a] <= end BY <1>3
  <2>3. last < a BY <1>4, <2>1, <2>2
  <2>4. end + 2 <= a BY <1>2, <2>3, RunBefore
  <2> QED BY <1>3, <2>2, <2>4
<1>6. \A a \in kept : a < last /\ a \in Nat
  <2>1. \A a \in kept : a <= last /\ a # last /\ a \in Nat BY <1>2, <1>3
  <2> QED BY <1>4, <2>1
<1>7. \A a \in used \cup kept : 2 <= a /\ a + size[a] <= last - 2
  <2>1. ASSUME NEW a \in used PROVE 2 <= a /\ a + size[a] <= last - 2
    <3>1. a + sizeOf[a] + 2 <= last BY <1>2, <1>3, <1>5
    <3>2. a \in Nat /\ sizeOf[a] \in Nat /\ 2 <= a BY <1>3
    <3> QED BY <1>1, <1>4, <3>1, <3>2
  <2>2. ASSUME NEW a \in kept PROVE 2 <= a /\ a + size[a] <= last - 2
    <3>1. RunEnd(q)[a] + 2 <= last BY <1>2, <1>6, RunBefore
    <3>2. RunEnd(q)[a] \in Nat /\ 2 <= a BY <1>2, <1>3, RunInside
    <3> QED BY <1>1, <1>4, <3>1, <3>2
  <2> QED BY <2>1, <2>2
<1>8. ASSUME NEW n \in 0 .. (last - 2) - 1
      PROVE  \E a \in used \cup kept : a - 2 <= n /\ n < a + size[a]
  <2>1. n \in 0 .. end - 1 /\ n < last - 2 /\ n \in Nat BY <1>3, <1>4
  <2>2. PICK a \in used \cup q : a - 2 <= n /\ n < a + sizeOf[a] BY <1>3, <2>1
  <2>3. CASE a \in used BY <1>1, <2>2, <2>3
  <2>4. CASE a \in q
    <3>1. PICK h \in Heads(q) : h <= a /\ a + sizeOf[a] <= RunEnd(q)[h] BY <2>4, HeadBelow
    <3>2. h \in q /\ h \in Nat /\ a \in Nat /\ sizeOf[a] \in Nat BY <1>3 DEF Heads
    <3>3. h # last BY <1>4, <2>1, <2>2, <3>1, <3>2
    <3>4. h \in kept BY <3>3
    <3>5. h + size[h] = RunEnd(q)[h] /\ RunEnd(q)[h] \in Nat BY <1>1, <3>2, <3>4, RunInside
    <3>6. h - 2 <= n /\ n < RunEnd(q)[h] BY <2>1, <2>2, <3>1, <3>2, <3>5
    <3> QED BY <3>4, <3>5, <3>6
  <2> QED BY <2>3, <2>4
<1> HIDE DEF kept
<1>9. Tiled(used \cup kept, size, last - 2) BY <1>1, <1>7, <1>8 DEF Tiled
<1> QED BY <1>4, <1>9 DEF kept, size

-----------------------------------------------------------------------------
(* ALLOCATE. *)

LEMMA StoredFacts ==
  ASSUME NEW d, NEW f \in [d -> Nat], NEW a, NEW x \in Nat
  PROVE  /\ Stored(f, a, x) \in [d \cup {a} -> Nat]
         /\ Stored(f, a, x)[a] = x
         /\ \A b \in d : b # a => Stored(f, a, x)[b] = f[b]
BY DEF Stored

\* A chunk at the end of the heap.
LEMMA GrowTiled ==
  ASSUME NEW c, c \subseteq Nat, NEW f \in [c -> Nat], NEW end \in Nat, NEW n \in Nat,
         Tiled(c, f, end)
  PROVE  LET a == end + 2
         IN a \in Nat /\ a \notin c /\ a + n \in Nat
            /\ Tiled(c \cup {a}, Stored(f, a, n), a + n)
<1> DEFINE a == end + 2
           g == Stored(f, a, n)
<1>1. /\ \A b \in c : b \in Nat /\ f[b] \in Nat /\ 2 <= b /\ b + f[b] <= end
      /\ \A b, d \in c : b < d => b + f[b] + 2 <= d
      /\ \A m \in 0 .. end - 1 : \E b \in c : b - 2 <= m /\ m < b + f[b]
  BY DEF Tiled
<1>2. a \in Nat /\ a + n \in Nat /\ a \notin c
  <2>1. ASSUME a \in c PROVE FALSE BY <1>1, <2>1
  <2> QED BY <2>1
<1>3. g[a] = n /\ \A b \in c : g[b] = f[b] BY <1>2 DEF Stored
<1> HIDE DEF g
<1>4. \A b \in c : b + f[b] + 2 <= a BY <1>1
<1>5. \A b \in c \cup {a} : 2 <= b /\ b + g[b] <= a + n
  <2>1. \A b \in c : 2 <= b /\ b + g[b] <= a + n BY <1>1, <1>3
  <2>2. 2 <= a /\ a + g[a] <= a + n BY <1>3
  <2> QED BY <2>1, <2>2
<1>6. ASSUME NEW b \in c \cup {a}, NEW d \in c \cup {a}, b < d PROVE b + g[b] + 2 <= d
  <2>1. CASE b \in c /\ d \in c BY <1>1, <1>3, <1>6, <2>1
  <2>2. CASE b \in c /\ d = a BY <1>3, <1>4, <2>2
  <2>3. CASE b = a /\ d \in c BY <1>1, <1>6, <2>3
  <2> QED BY <1>2, <1>6, <2>1, <2>2, <2>3
<1>7. ASSUME NEW m \in 0 .. (a + n) - 1
      PROVE  \E b \in c \cup {a} : b - 2 <= m /\ m < b + g[b]
  <2>1. CASE m \in 0 .. end - 1 BY <1>1, <1>3, <2>1
  <2>2. CASE m \notin 0 .. end - 1
    <3>1. a - 2 <= m /\ m < a + g[a] BY <1>2, <1>3, <2>2
    <3> QED BY <3>1
  <2> QED BY <2>1, <2>2
<1> HIDE DEF a
<1>8. Tiled(c \cup {a}, g, a + n) BY <1>5, <1>6, <1>7 DEF Tiled
<1> QED BY <1>2, <1>8 DEF a, g

\* The end of a chunk made one of its own.
LEMMA SplitTiled ==
  ASSUME NEW c, c \subseteq Nat, NEW f \in [c -> Nat], NEW end \in Nat, NEW n \in Nat,
         Tiled(c, f, end), NEW old \in c, NEW left \in Nat, f[old] = left + (n + 2)
  PROVE  LET a == old + left + 2
         IN /\ a \in Nat /\ a \notin c
            /\ \A b \in c : old < b => a + n + 2 <= b
            /\ Tiled(c \cup {a}, Stored(Stored(f, old, left), a, n), end)
<1> DEFINE a == old + left + 2
           h == Stored(f, old, left)
           g == Stored(h, a, n)
<1>1. /\ \A b \in c : b \in Nat /\ f[b] \in Nat /\ 2 <= b /\ b + f[b] <= end
      /\ \A b, d \in c : b < d => b + f[b] + 2 <= d
      /\ \A m \in 0 .. end - 1 : \E b \in c : b - 2 <= m /\ m < b + f[b]
  BY DEF Tiled
<1>2. old \in Nat /\ a \in Nat /\ old < a /\ a + n = old + f[old] BY <1>1
<1>3. \A b \in c : old < b => a + n + 2 <= b BY <1>1, <1>2
<1>4. a \notin c
  <2>1. ASSUME a \in c PROVE FALSE BY <1>2, <1>3, <2>1
  <2> QED BY <2>1
<1>5. h \in [c -> Nat] /\ h[old] = left /\ \A b \in c : b # old => h[b] = f[b]
  <2>1. c \cup {old} = c OBVIOUS
  <2>2. Stored(f, old, left) \in [c \cup {old} -> Nat] BY StoredFacts
  <2> QED BY <2>1, <2>2 DEF Stored
<1> HIDE DEF h
<1>6. g[a] = n /\ \A b \in c : g[b] = h[b] BY <1>4, <1>5 DEF Stored
<1> HIDE DEF g
<1>7. g[a] = n /\ g[old] = left /\ \A b \in c : b # old => g[b] = f[b] BY <1>5, <1>6
<1>8. \A b \in c \cup {a} : 2 <= b /\ b + g[b] <= end
  <2>1. old + f[old] <= end /\ 2 <= old BY <1>1
  <2>2. 2 <= a /\ a + g[a] <= end BY <1>2, <1>7, <2>1
  <2>3. 2 <= old /\ old + g[old] <= end BY <1>1, <1>2, <1>7, <2>1
  <2>4. \A b \in c : b # old => 2 <= b /\ b + g[b] <= end BY <1>1, <1>7
  <2> QED BY <2>2, <2>3, <2>4
<1>9. ASSUME NEW b \in c \cup {a}, NEW d \in c \cup {a}, b < d PROVE b + g[b] + 2 <= d
  <2>1. CASE b \in c /\ d \in c
    <3>1. b + f[b] + 2 <= d /\ b \in Nat /\ f[b] \in Nat /\ d \in Nat BY <1>1, <1>9, <2>1
    <3>2. CASE b = old BY <1>7, <3>1, <3>2
    <3>3. CASE b # old BY <1>7, <2>1, <3>1, <3>3
    <3> QED BY <3>2, <3>3
  <2>2. CASE b \in c /\ d = a
    <3>1. CASE b = old BY <1>2, <1>7, <2>2, <3>1
    <3>2. CASE b # old
      <4>1. ~(old < b) /\ b \in Nat BY <1>1, <1>2, <1>3, <1>9, <2>2
      <4>2. b + f[b] + 2 <= old BY <1>1, <1>2, <2>2, <3>2, <4>1
      <4>3. g[b] = f[b] /\ f[b] \in Nat BY <1>1, <1>7, <2>2, <3>2
      <4> QED BY <1>2, <2>2, <4>1, <4>2, <4>3
    <3> QED BY <3>1, <3>2
  <2>3. CASE b = a /\ d \in c
    <3>1. d \in Nat /\ old < d BY <1>1, <1>2, <1>9, <2>3
    <3>2. a + n + 2 <= d BY <1>3, <2>3, <3>1
    <3> QED BY <1>7, <2>3, <3>2
  <2> QED BY <1>2, <1>9, <2>1, <2>2, <2>3
<1>10. ASSUME NEW m \in 0 .. end - 1 PROVE \E b \in c \cup {a} : b - 2 <= m /\ m < b + g[b]
  <2>1. PICK b \in c : b - 2 <= m /\ m < b + f[b] BY <1>1
  <2>2. CASE b # old BY <1>7, <2>1, <2>2
  <2>3. CASE b = old
    <3>1. old - 2 <= m /\ m < a + n /\ m \in Int BY <1>2, <2>1, <2>3
    <3>2. CASE m < old + left BY <1>7, <3>1, <3>2
    <3>3. CASE ~(m < old + left)
      <4>1. a - 2 <= m /\ m < a + g[a] BY <1>2, <1>7, <3>1, <3>3
      <4> QED BY <4>1
    <3> QED BY <3>2, <3>3
  <2> QED BY <2>2, <2>3
<1> HIDE DEF a
<1>11. Tiled(c \cup {a}, g, end) BY <1>8, <1>9, <1>10 DEF Tiled
<1> QED BY <1>2, <1>3, <1>4, <1>11 DEF a, g, h

\* searchfit finds a chunk, and it fits.
LEMMA FitFacts ==
  ASSUME Listed, NEW size \in Nat, Exact(size) \cup Roomy(size) # {}
  PROVE  /\ searchfit(size) \in DOMAIN freechunk
         /\ \/ Slack(searchfit(size), size) = 0
            \/ Slack(searchfit(size), size) > 2
<1>1. /\ DOMAIN freechunk = 1 .. Len(freechunk)
      /\ \A i \in DOMAIN freechunk : Slack(i, size) \in Int
  <2>1. freechunk \in Seq(Nat) BY DEF Listed
  <2>2. \A i \in DOMAIN freechunk : freechunk[i] \in Free BY DEF Free, Elements
  <2>3. \A i \in DOMAIN freechunk : sizeOf[freechunk[i]] \in Nat BY <2>2 DEF Listed
  <2> QED BY <2>1, <2>3 DEF Slack
<1>2. Exact(size) \subseteq Nat /\ Roomy(size) \subseteq Nat BY <1>1 DEF Exact, Roomy
<1>3. CASE Exact(size) # {}
  <2>1. \E i \in Exact(size) : \A j \in Exact(size) : i <= j BY <1>2, <1>3, LeastExists
  <2>2. searchfit(size) = CHOOSE i \in Exact(size) : \A j \in Exact(size) : i <= j
    BY <1>3 DEF searchfit
  <2>3. searchfit(size) \in Exact(size) BY <2>1, <2>2
  <2> QED BY <2>3 DEF Exact
<1>4. CASE Exact(size) = {}
  <2> DEFINE Best(i) == \A j \in Roomy(size) :
                           \/ Slack(i, size) < Slack(j, size)
                           \/ Slack(i, size) = Slack(j, size) /\ i <= j
             T == {Slack(i, size) : i \in Roomy(size)}
  <2>1. T \subseteq Nat /\ T # {} BY <1>1, <1>4 DEF Roomy
  <2>2. PICK s \in T : \A t \in T : s <= t BY <2>1, LeastExists
  <2> DEFINE R == {i \in Roomy(size) : Slack(i, size) = s}
  <2>3. R \subseteq Nat /\ R # {} BY <1>2, <2>2
  <2>4. PICK i \in R : \A j \in R : i <= j BY <2>3, LeastExists
  <2>5. i \in Roomy(size) /\ Best(i)
    <3>1. i \in Roomy(size) /\ Slack(i, size) = s /\ s \in Nat BY <2>1, <2>4
    <3>2. ASSUME NEW j \in Roomy(size)
          PROVE  Slack(i, size) < Slack(j, size) \/ (Slack(i, size) = Slack(j, size) /\ i <= j)
      <4>1. s <= Slack(j, size) /\ Slack(j, size) \in Int BY <1>1, <2>2 DEF Roomy
      <4>2. CASE Slack(j, size) = s BY <2>4, <3>1, <4>2
      <4>3. CASE Slack(j, size) # s BY <3>1, <4>1, <4>3
      <4> QED BY <4>2, <4>3
    <3> QED BY <3>1, <3>2
  <2>6. searchfit(size) = CHOOSE k \in Roomy(size) : Best(k) BY <1>4 DEF searchfit
  <2> HIDE DEF Best
  <2>7. searchfit(size) \in Roomy(size) BY <2>5, <2>6
  <2> QED BY <2>7 DEF Roomy
<1> QED BY <1>3, <1>4

\* The program's new chunk, last in its table and numbered so.
LEMMA GivenFacts ==
  ASSUME Listed, ChunksNumbered, NEW a \in Nat, a \notin Used, NEW size \in Nat, Given(a, size),
         \A b \in Used : sizeOf'[b] = sizeOf[b], sizeOf'[a] = size
  PROVE  /\ usedchunk' \in Seq(Nat) /\ Once(usedchunk)' /\ Used' = Used \cup {a}
         /\ DOMAIN indexOf' = Used' /\ ChunksNumbered'
<1>1. /\ usedchunk \in Seq(Nat) /\ Once(usedchunk) /\ DOMAIN indexOf = Used
      /\ usedchunk' = Append(usedchunk, a)
      /\ indexOf' = Stored(indexOf, a, Len(usedchunk))
      /\ held' = held \cup {<<a, size>>}
      /\ {<<b, sizeOf[b]>> : b \in Used} = held
      /\ \A i \in DOMAIN usedchunk : indexOf[usedchunk[i]] = i - 1
  BY DEF Listed, ChunksNumbered, Given, Used
<1> DEFINE n == Len(usedchunk)
<1>2. /\ usedchunk' \in Seq(Nat) /\ Once(usedchunk') /\ Elements(usedchunk') = Used \cup {a}
      /\ Len(usedchunk') = n + 1 /\ usedchunk'[n + 1] = a
      /\ \A i \in 1 .. n : usedchunk'[i] = usedchunk[i]
  BY <1>1, AppendFacts DEF Used
<1>3. Used' = Used \cup {a} /\ Once(usedchunk)' BY <1>2 DEF Used, Once
<1>4. n \in Nat /\ DOMAIN usedchunk = 1 .. n /\ DOMAIN usedchunk' = 1 .. n + 1
  BY <1>1, <1>2
<1> HIDE DEF n
<1>5. DOMAIN indexOf' = Used' BY <1>1, <1>3 DEF Stored
<1>6. {<<b, sizeOf'[b]>> : b \in Used'} = held'
  <2>1. {<<b, sizeOf'[b]>> : b \in Used'} = {<<b, sizeOf[b]>> : b \in Used} \cup {<<a, size>>}
    BY <1>3
  <2> QED BY <1>1, <2>1
<1>7. \A i \in 1 .. n + 1 : indexOf'[usedchunk'[i]] = i - 1
  <2>1. indexOf'[a] = n BY <1>1 DEF Stored, n
  <2>2. \A b \in Used : indexOf'[b] = indexOf[b] BY <1>1 DEF Stored
  <2>3. \A i \in 1 .. n : usedchunk[i] \in Used BY <1>4 DEF Used, Elements
  <2>4. \A i \in 1 .. n : indexOf'[usedchunk'[i]] = i - 1 BY <1>1, <1>2, <1>4, <2>2, <2>3
  <2>5. indexOf'[usedchunk'[n + 1]] = (n + 1) - 1 BY <1>2, <1>4, <2>1
  <2>6. \A i \in 1 .. n + 1 : i \in 1 .. n \/ i = n + 1 BY <1>4
  <2> QED BY <2>4, <2>5, <2>6
<1>8. ChunksNumbered'
  <2>1. {<<b, sizeOf'[b]>> : b \in Elements(usedchunk')} = held' BY <1>6 DEF Used
  <2> QED BY <1>4, <1>7, <2>1 DEF ChunksNumbered
<1> QED BY <1>2, <1>3, <1>5, <1>8

\* What the invariant says of each chunk.
LEMMA ChunkFacts ==
  ASSUME IInv
  PROVE  /\ Heaped(Used, Free, heapend)
         /\ \A a \in Used \cup Free : /\ a \in Nat /\ sizeOf[a] \in Nat
                                     /\ 2 <= a /\ a + sizeOf[a] <= heapend
         /\ \A a \in Free : a + sizeOf[a] # heapend /\ a + sizeOf[a] + 2 \notin Free
<1>1. Used \cup Free \subseteq Nat BY DEF IInv, Listed, Used, Free, Elements
<1>2. Heaped(Used, Free, heapend) BY <1>1 DEF IInv, Listed, Heaped
<1>3. \A a \in Free : a + sizeOf[a] # heapend /\ a + sizeOf[a] + 2 \notin Free
  BY DEF IInv, FreeMerged, Free
<1> QED BY <1>2, <1>3, HeapedFacts

LEMMA NewChunkStep ==
  ASSUME IInv, NEW size \in Nat, newchunk(size)
  PROVE  IInv'
<1> DEFINE a == heapend + 2
<1>1. /\ Listed /\ ChunksNumbered /\ heapend \in Nat /\ freechunk \in Seq(Nat)
      /\ Once(freechunk) /\ Used \cap Free = {} /\ sizeOf \in [Used \cup Free -> Nat]
      /\ Tiled(Used \cup Free, sizeOf, heapend)
  BY DEF IInv, Listed
<1>2. /\ Given(a, size) /\ sizeOf' = Stored(sizeOf, a, size)
      /\ heapend' = a + size /\ freechunk' = freechunk
  BY DEF newchunk
<1>3. /\ \A b \in Used \cup Free : /\ b \in Nat /\ sizeOf[b] \in Nat
                                  /\ 2 <= b /\ b + sizeOf[b] <= heapend
      /\ \A b \in Free : b + sizeOf[b] # heapend /\ b + sizeOf[b] + 2 \notin Free
  BY ChunkFacts
<1>4. /\ a \in Nat /\ a \notin Used \cup Free /\ a + size \in Nat
      /\ Tiled((Used \cup Free) \cup {a}, Stored(sizeOf, a, size), a + size)
  <2>1. Used \cup Free \subseteq Nat BY <1>3
  <2> QED BY <1>1, <2>1, GrowTiled
<1>5. sizeOf'[a] = size /\ \A b \in Used \cup Free : sizeOf'[b] = sizeOf[b]
  BY <1>1, <1>2, <1>4 DEF Stored
<1>6. sizeOf' \in [(Used \cup Free) \cup {a} -> Nat] BY <1>1, <1>2, StoredFacts
<1>7. a \notin Used /\ \A b \in Used : sizeOf'[b] = sizeOf[b] BY <1>4, <1>5
<1> HIDE DEF a
<1>8. /\ usedchunk' \in Seq(Nat) /\ Once(usedchunk)' /\ Used' = Used \cup {a}
      /\ DOMAIN indexOf' = Used' /\ ChunksNumbered'
  BY <1>1, <1>2, <1>4, <1>5, <1>7, GivenFacts
<1>9. Free' = Free /\ Once(freechunk)' BY <1>1, <1>2 DEF Free, Once
<1>10. (Used \cup Free)' = (Used \cup Free) \cup {a} BY <1>8, <1>9
<1>11. Listed'
  <2>1. Used' \cap Free' = {} BY <1>1, <1>4, <1>8, <1>9
  <2>2. sizeOf' \in [Used' \cup Free' -> Nat] BY <1>6, <1>10
  <2> QED BY <1>1, <1>2, <1>4, <1>8, <1>9, <2>1, <2>2 DEF Listed
<1>12. Tiled(Used \cup Free, sizeOf, heapend)'
  <2>1. Tiled(Used' \cup Free', sizeOf', heapend') BY <1>2, <1>4, <1>10
  <2> QED BY <2>1 DEF Tiled
<1>13. FreeMerged'
  <2>1. ASSUME NEW b \in Free
        PROVE  b + sizeOf'[b] # heapend' /\ b + sizeOf'[b] + 2 \notin Free
    <3>1. sizeOf'[b] = sizeOf[b] BY <1>5
    <3>2. b \in Nat /\ sizeOf[b] \in Nat /\ b + sizeOf[b] <= heapend BY <1>3
    <3>3. b + sizeOf[b] # heapend' BY <1>1, <1>2, <3>2 DEF a
    <3> QED BY <1>3, <3>1, <3>3
  <2>2. \A b \in Free' : b + sizeOf'[b] # heapend' /\ b + sizeOf'[b] + 2 \notin Free'
    BY <1>9, <2>1
  <2> QED BY <2>2 DEF FreeMerged, Free
<1> QED BY <1>8, <1>11, <1>12, <1>13 DEF IInv

LEMMA SplitStep ==
  ASSUME IInv, NEW size \in Nat, NEW fit \in DOMAIN freechunk, splitchunk(fit, size),
         Slack(fit, size) = 0 \/ Slack(fit, size) > 2
  PROVE  IInv'
<1> DEFINE old == freechunk[fit]
           left == Rest(old, size)
           a == old + left + 2
<1>1. /\ Listed /\ ChunksNumbered /\ heapend \in Nat /\ freechunk \in Seq(Nat)
      /\ Once(freechunk) /\ Used \cap Free = {} /\ sizeOf \in [Used \cup Free -> Nat]
      /\ Tiled(Used \cup Free, sizeOf, heapend)
  BY DEF IInv, Listed
<1>2. /\ \A b \in Used \cup Free : /\ b \in Nat /\ sizeOf[b] \in Nat
                                  /\ 2 <= b /\ b + sizeOf[b] <= heapend
      /\ \A b \in Free : b + sizeOf[b] # heapend /\ b + sizeOf[b] + 2 \notin Free
      /\ Used \cup Free \subseteq Nat
  BY ChunkFacts
<1>3. old \in Free /\ old \notin Used /\ old \in Nat /\ sizeOf[old] \in Nat
  BY <1>1, <1>2 DEF Free, Elements
<1>4. left = sizeOf[old] - (size + 2) /\ Slack(fit, size) = sizeOf[old] - size
  BY DEF Rest, Slack
<1>5. CASE left > 0
  <2>1. /\ Given(a, size) /\ freechunk' = freechunk /\ heapend' = heapend
        /\ sizeOf' = Stored(Stored(sizeOf, old, left), a, size)
    BY <1>5 DEF splitchunk
  <2>2. left \in Nat /\ sizeOf[old] = left + (size + 2) BY <1>3, <1>4, <1>5
  <2>3. old \in Used \cup Free BY <1>3
  <2> HIDE DEF old, left
  <2>4. /\ a \in Nat /\ a \notin Used \cup Free
        /\ \A b \in Used \cup Free : old < b => a + size + 2 <= b
        /\ Tiled((Used \cup Free) \cup {a}, Stored(Stored(sizeOf, old, left), a, size), heapend)
    BY <1>1, <1>2, <2>2, <2>3, SplitTiled
  <2>5. old < a /\ a + size = old + sizeOf[old] BY <1>3, <2>2, <1>5
  <2> HIDE DEF a
  <2>6. Stored(sizeOf, old, left) \in [Used \cup Free -> Nat]
    <3>1. (Used \cup Free) \cup {old} = Used \cup Free BY <2>3
    <3>2. Stored(sizeOf, old, left) \in [(Used \cup Free) \cup {old} -> Nat]
      BY <1>1, <2>2, StoredFacts
    <3> QED BY <3>1, <3>2
  <2>7. sizeOf' \in [(Used \cup Free) \cup {a} -> Nat] BY <2>1, <2>6, StoredFacts
  <2>8. /\ sizeOf'[a] = size /\ sizeOf'[old] = left
        /\ \A b \in Used \cup Free : b # old => sizeOf'[b] = sizeOf[b]
    <3>1. /\ Stored(sizeOf, old, left)[old] = left
          /\ \A b \in Used \cup Free : b # old => Stored(sizeOf, old, left)[b] = sizeOf[b]
      BY <1>1, <2>3 DEF Stored
    <3>2. /\ sizeOf'[a] = size
          /\ \A b \in Used \cup Free : sizeOf'[b] = Stored(sizeOf, old, left)[b]
      <4> DEFINE g == Stored(sizeOf, old, left)
      <4>1. g \in [Used \cup Free -> Nat] BY <2>6
      <4>2. sizeOf' = Stored(g, a, size) BY <2>1
      <4> HIDE DEF g
      <4>3. sizeOf'[a] = size /\ \A b \in Used \cup Free : sizeOf'[b] = g[b]
        BY <2>4, <4>1, <4>2 DEF Stored
      <4> QED BY <4>3 DEF g
    <3> QED BY <2>3, <3>1, <3>2
  <2>9. a \notin Used /\ \A b \in Used : sizeOf'[b] = sizeOf[b] BY <1>3, <2>4, <2>8
  <2>10. /\ usedchunk' \in Seq(Nat) /\ Once(usedchunk)' /\ Used' = Used \cup {a}
         /\ DOMAIN indexOf' = Used' /\ ChunksNumbered'
    BY <1>1, <2>1, <2>4, <2>8, <2>9, GivenFacts
  <2>11. Free' = Free /\ Once(freechunk)' BY <1>1, <2>1 DEF Free, Once
  <2>12. (Used \cup Free)' = (Used \cup Free) \cup {a} BY <2>10, <2>11
  <2>13. Listed'
    <3>1. Used' \cap Free' = {} BY <1>1, <2>4, <2>10, <2>11
    <3>2. sizeOf' \in [Used' \cup Free' -> Nat] BY <2>7, <2>12
    <3> QED BY <1>1, <2>1, <2>10, <2>11, <3>1, <3>2 DEF Listed
  <2>14. Tiled(Used \cup Free, sizeOf, heapend)'
    <3>1. Tiled(Used' \cup Free', sizeOf', heapend') BY <2>1, <2>4, <2>12
    <3> QED BY <3>1 DEF Tiled
  <2>15. FreeMerged'
    <3>1. ASSUME NEW b \in Free
          PROVE  b + sizeOf'[b] # heapend' /\ b + sizeOf'[b] + 2 \notin Free
      <4>1. CASE b # old BY <1>2, <2>1, <2>8, <3>1, <4>1
      <4>2. CASE b = old
        <5>1. old + left + 2 = a /\ a \notin Free BY <2>4 DEF a
        <5>2. old + left < heapend BY <1>1, <1>2, <1>3, <2>2
        <5> QED BY <1>1, <1>3, <2>1, <2>2, <2>8, <4>2, <5>1, <5>2
      <4> QED BY <4>1, <4>2
    <3>2. \A b \in Free' : b + sizeOf'[b] # heapend' /\ b + sizeOf'[b] + 2 \notin Free'
      BY <2>11, <3>1
    <3> QED BY <3>2 DEF FreeMerged, Free
  <2> QED BY <2>10, <2>13, <2>14, <2>15 DEF IInv
<1>6. CASE ~(left > 0)
  <2>1. /\ Given(old, size) /\ freechunk' = Moved(freechunk, fit) /\ heapend' = heapend
        /\ sizeOf' = sizeOf
    BY <1>6 DEF splitchunk
  <2>2. sizeOf[old] = size BY <1>3, <1>4, <1>6
  <2>3. fit \in 1 .. Len(freechunk) BY <1>1
  <2>4. /\ freechunk' \in Seq(Nat) /\ Once(freechunk') /\ Elements(freechunk') = Free \ {old}
    BY <1>1, <2>1, <2>3, MovedFacts DEF Free
  <2>5. Free' = Free \ {old} /\ Once(freechunk)' BY <2>4 DEF Free, Once
  <2> HIDE DEF old, left
  <2>6. sizeOf'[old] = size /\ \A b \in Used : sizeOf'[b] = sizeOf[b] BY <2>1, <2>2
  <2>7. /\ usedchunk' \in Seq(Nat) /\ Once(usedchunk)' /\ Used' = Used \cup {old}
        /\ DOMAIN indexOf' = Used' /\ ChunksNumbered'
    BY <1>1, <1>3, <2>1, <2>6, GivenFacts
  <2>8. (Used \cup Free)' = Used \cup Free BY <1>3, <2>5, <2>7
  <2>9. Listed'
    <3>1. Used' \cap Free' = {} BY <1>1, <2>5, <2>7
    <3>2. sizeOf' \in [Used' \cup Free' -> Nat] BY <1>1, <2>1, <2>8
    <3> QED BY <1>1, <2>1, <2>4, <2>5, <2>7, <3>1, <3>2 DEF Listed
  <2>10. Tiled(Used \cup Free, sizeOf, heapend)'
    <3>1. Tiled(Used' \cup Free', sizeOf', heapend') BY <1>1, <2>1, <2>8
    <3> QED BY <3>1 DEF Tiled
  <2>11. FreeMerged'
    <3>1. \A b \in Free' : b + sizeOf'[b] # heapend' /\ b + sizeOf'[b] + 2 \notin Free'
      BY <1>2, <2>1, <2>5
    <3> QED BY <3>1 DEF FreeMerged, Free
  <2> QED BY <2>7, <2>9, <2>10, <2>11 DEF IInv
<1> QED BY <1>5, <1>6

LEMMA AllocateStep ==
  ASSUME IInv, NEW size \in Nat, forthallocate(size)
  PROVE  IInv'
<1>1. CASE Exact(size) \cup Roomy(size) = {}
  <2>1. newchunk(size) BY <1>1 DEF forthallocate
  <2> QED BY <2>1, NewChunkStep
<1>2. CASE Exact(size) \cup Roomy(size) # {}
  <2>1. splitchunk(searchfit(size), size) BY <1>2 DEF forthallocate
  <2>2. Listed BY DEF IInv
  <2>3. /\ searchfit(size) \in DOMAIN freechunk
        /\ Slack(searchfit(size), size) = 0 \/ Slack(searchfit(size), size) > 2
    BY <1>2, <2>2, FitFacts
  <2> QED BY <2>1, <2>3, SplitStep
<1> QED BY <1>1, <1>2

-----------------------------------------------------------------------------
(* FREE. *)

\* What it leaves of the free chunks and the freed one.
Left(q) ==
  LET sorted == Ascending(Heads(q))
  IN IF RunEnd(q)[sorted[Len(sorted)]] = heapend
     THEN SubSeq(sorted, 1, Len(sorted) - 1) ELSE sorted

\* The heads stay, all or but the last, whose run ends with the heap.
LEMMA LeftFacts ==
  ASSUME NEW used, NEW q, Heaped(used, q, heapend), q # {}
  PROVE  LET sorted == Ascending(Heads(q))
             last == sorted[Len(sorted)]
         IN /\ Left(q) \in Seq(Nat) /\ Once(Left(q))
            /\ last \in Heads(q) /\ \A h \in Heads(q) : h <= last
            /\ Elements(Left(q)) = IF RunEnd(q)[last] = heapend THEN Heads(q) \ {last} ELSE Heads(q)
<1> DEFINE sorted == Ascending(Heads(q))
           last == sorted[Len(sorted)]
<1>1. Heads(q) # {} BY HeadBelow
<1>2. Heads(q) \subseteq Nat /\ IsFiniteSet(Heads(q))
  <2>1. heapend \in Nat /\ used \cup q \subseteq 0 .. heapend BY HeapedFacts
  <2>2. Heads(q) \in SUBSET (0 .. heapend) BY <2>1 DEF Heads
  <2>3. IsFiniteSet(0 .. heapend)
    <3>1. \A m \in Nat : IsFiniteSet(0 .. m) BY FS_Interval
    <3> QED BY <2>1, <3>1
  <2>4. IsFiniteSet(Heads(q)) BY <2>2, <2>3, FS_Subset
  <2> QED BY <2>1, <2>2, <2>4
<1>3. /\ sorted \in Seq(Nat) /\ Len(sorted) # 0 /\ Once(sorted) /\ Elements(sorted) = Heads(q)
      /\ \A h \in Heads(q) : h <= last
  BY <1>1, <1>2, AscendingFacts
<1> HIDE DEF sorted
<1>4. last \in Heads(q)
  <2>1. Len(sorted) \in DOMAIN sorted BY <1>3
  <2> QED BY <1>3, <2>1 DEF Elements
<1>5. LET p == SubSeq(sorted, 1, Len(sorted) - 1)
      IN p \in Seq(Nat) /\ Once(p) /\ Elements(p) = Heads(q) \ {last}
  BY <1>3, SubSeqFacts
<1>6. Left(q) = IF RunEnd(q)[last] = heapend THEN SubSeq(sorted, 1, Len(sorted) - 1) ELSE sorted
  BY DEF Left, sorted
<1>7. /\ Left(q) \in Seq(Nat) /\ Once(Left(q))
      /\ Elements(Left(q)) = IF RunEnd(q)[last] = heapend THEN Heads(q) \ {last} ELSE Heads(q)
  <2>1. CASE RunEnd(q)[last] = heapend BY <1>5, <1>6, <2>1
  <2>2. CASE RunEnd(q)[last] # heapend BY <1>3, <1>6, <2>2
  <2> QED BY <2>1, <2>2
<1> QED BY <1>3, <1>4, <1>7 DEF sorted

\* The chunks in use that stay keep their numbers right: the last has moved.
LEMMA RenumberedFacts ==
  ASSUME Listed, ChunksNumbered, NEW i \in 1 .. Len(usedchunk)
  PROVE  LET moved == Moved(usedchunk, i)
         IN \A j \in DOMAIN moved : Renumbered(i - 1)[moved[j]] = j - 1
<1> DEFINE n == Len(usedchunk)
           moved == Moved(usedchunk, i)
<1>1. /\ n \in Nat /\ n >= 1 /\ DOMAIN usedchunk = 1 .. n /\ i \in 1 .. n /\ n \in 1 .. n
      /\ usedchunk \in Seq(Nat) /\ Once(usedchunk) /\ DOMAIN indexOf = Used
      /\ \A j \in 1 .. n : indexOf[usedchunk[j]] = j - 1
  BY DEF Listed, ChunksNumbered
<1>2. /\ DOMAIN moved = 1 .. n - 1
      /\ \A j \in 1 .. n - 1 : moved[j] = IF j = i THEN usedchunk[n] ELSE usedchunk[j]
  BY DEF Moved
<1>3. \A j \in 1 .. n : usedchunk[j] \in DOMAIN indexOf BY <1>1 DEF Used, Elements
<1>4. \A j, k \in 1 .. n : usedchunk[j] = usedchunk[k] => j = k BY <1>1 DEF Once
<1>5. Renumbered(i - 1) = IF i - 1 < n - 1 THEN [indexOf EXCEPT ![usedchunk[n]] = i - 1] ELSE indexOf
  BY DEF Renumbered
<1> HIDE DEF n, moved
<1>6. ASSUME NEW j \in 1 .. n - 1 PROVE Renumbered(i - 1)[moved[j]] = j - 1
  <2>1. j \in 1 .. n /\ j # n BY <1>1
  <2>2. CASE j = i
    <3>1. i - 1 < n - 1 /\ moved[j] = usedchunk[n] BY <1>1, <1>2, <2>1, <2>2
    <3>2. Renumbered(i - 1) = [indexOf EXCEPT ![usedchunk[n]] = i - 1] BY <1>5, <3>1
    <3> QED BY <1>1, <1>3, <2>2, <3>1, <3>2
  <2>3. CASE j # i
    <3>1. moved[j] = usedchunk[j] BY <1>2, <2>3
    <3>2. usedchunk[j] # usedchunk[n] BY <1>1, <1>4, <2>1
    <3>3. Renumbered(i - 1)[usedchunk[j]] = indexOf[usedchunk[j]] BY <1>3, <1>5, <2>1, <3>2
    <3> QED BY <1>1, <2>1, <3>1, <3>3
  <2> QED BY <2>2, <2>3
<1> QED BY <1>2, <1>6 DEF moved

LEMMA FreeStep ==
  ASSUME IInv, NEW a, forthfree(a)
  PROVE  IInv'
<1> DEFINE used == Used \ {a}
           q == Free \cup {a}
           sorted == Ascending(Heads(q))
           last == sorted[Len(sorted)]
<1>1. /\ Listed /\ ChunksNumbered /\ heapend \in Nat
      /\ usedchunk \in Seq(Nat) /\ Once(usedchunk) /\ DOMAIN indexOf = Used
      /\ Used \cap Free = {} /\ sizeOf \in [Used \cup Free -> Nat]
      /\ Tiled(Used \cup Free, sizeOf, heapend)
  BY DEF IInv, Listed
<1>2. /\ a \in Used
      /\ usedchunk' = Moved(usedchunk, indexOf[a] + 1)
      /\ indexOf' = [b \in used |-> Renumbered(indexOf[a])[b]]
      /\ freechunk' = Left(q)
      /\ sizeOf' = [b \in used \cup Elements(Left(q)) |->
                      IF b \in used THEN sizeOf[b] ELSE RunEnd(q)[b] - b]
      /\ heapend' = IF RunEnd(q)[last] = heapend THEN last - 2 ELSE heapend
      /\ held' = {c \in held : c[1] # a}
  BY DEF forthfree, Left, Used, Free
<1>3. sizeOf' = Merged(used, Elements(Left(q)), q) BY <1>2 DEF Merged
<1>4. Heaped(used, q, heapend) /\ q # {} /\ used \cup q = Used \cup Free /\ used \cap q = {}
  <2>1. used \cup q = Used \cup Free /\ used \cap q = {} BY <1>1, <1>2
  <2>2. Used \cup Free \subseteq Nat BY ChunkFacts DEF Heaped
  <2> QED BY <1>1, <2>1, <2>2 DEF Heaped
<1> HIDE DEF q
<1>5. /\ Left(q) \in Seq(Nat) /\ Once(Left(q))
      /\ last \in Heads(q) /\ \A h \in Heads(q) : h <= last
      /\ Elements(Left(q)) = IF RunEnd(q)[last] = heapend THEN Heads(q) \ {last} ELSE Heads(q)
  BY <1>4, LeftFacts
<1> HIDE DEF last
<1>6. Free' = Elements(Left(q)) /\ Once(freechunk)' /\ Free' \subseteq Heads(q) /\ Free' \subseteq q
  <2>1. Free' = Elements(Left(q)) /\ Once(freechunk)' BY <1>2, <1>5 DEF Free, Once
  <2>2. Heads(q) \subseteq q BY DEF Heads
  <2> QED BY <1>5, <2>1, <2>2
<1>7. PICK i \in 1 .. Len(usedchunk) : usedchunk[i] = a
  <2>1. DOMAIN usedchunk = 1 .. Len(usedchunk) BY <1>1
  <2> QED BY <1>2, <2>1 DEF Used, Elements
<1>8. indexOf[a] = i - 1 /\ indexOf[a] + 1 = i
  <2>1. DOMAIN usedchunk = 1 .. Len(usedchunk) BY <1>1
  <2>2. indexOf[a] = i - 1 BY <1>1, <1>7, <2>1 DEF ChunksNumbered
  <2> QED BY <2>2
<1>9. /\ usedchunk' \in Seq(Nat) /\ Once(usedchunk') /\ Elements(usedchunk') = Used \ {a}
  BY <1>1, <1>2, <1>7, <1>8, MovedFacts DEF Used
<1>10. Used' = used /\ Once(usedchunk)' BY <1>9 DEF Used, Once
<1>11. DOMAIN indexOf' = Used' BY <1>2, <1>10
<1>12. \A j \in DOMAIN usedchunk' : indexOf'[usedchunk'[j]] = j - 1
  <2>1. \A j \in DOMAIN usedchunk' : Renumbered(i - 1)[usedchunk'[j]] = j - 1
    BY <1>1, <1>2, <1>8, RenumberedFacts
  <2>2. \A j \in DOMAIN usedchunk' : usedchunk'[j] \in used BY <1>9 DEF Elements
  <2> QED BY <1>2, <1>8, <2>1, <2>2
<1> HIDE DEF used
<1>13. heapend' \in Nat /\ Tiled(used \cup Free', sizeOf', heapend')
  <2>1. CASE RunEnd(q)[last] = heapend
    <3>1. /\ last - 2 \in Nat
          /\ Tiled(used \cup (Heads(q) \ {last}), Merged(used, Heads(q) \ {last}, q), last - 2)
      BY <1>4, <1>5, <2>1, CutTiled
    <3> QED BY <1>2, <1>3, <1>5, <1>6, <2>1, <3>1
  <2>2. CASE RunEnd(q)[last] # heapend
    <3>1. Tiled(used \cup Heads(q), Merged(used, Heads(q), q), heapend) BY <1>4, MergedTiled
    <3> QED BY <1>1, <1>2, <1>3, <1>5, <1>6, <2>2, <3>1
  <2> QED BY <2>1, <2>2
<1>14. Listed'
  <2>1. sizeOf' \in [Used' \cup Free' -> Nat] BY <1>3, <1>4, <1>6, <1>10, MergedFacts
  <2>2. Used' \cap Free' = {} BY <1>4, <1>6, <1>10
  <2>3. freechunk' \in Seq(Nat) BY <1>2, <1>5
  <2> QED BY <1>6, <1>9, <1>10, <1>11, <1>13, <2>1, <2>2, <2>3 DEF Listed
<1>15. Tiled(Used \cup Free, sizeOf, heapend)'
  <2>1. Tiled(Used' \cup Free', sizeOf', heapend') BY <1>10, <1>13
  <2> QED BY <2>1 DEF Tiled
<1>16. ChunksNumbered'
  <2>1. {<<b, sizeOf[b]>> : b \in Used} = held BY <1>1 DEF ChunksNumbered, Used
  <2>2. \A b \in used : sizeOf'[b] = sizeOf[b] BY <1>3, MergedUsed
  <2>3. {<<b, sizeOf'[b]>> : b \in used} = held'
    <3>1. held' = {c \in held : c[1] # a} BY <1>2
    <3>2. \A b \in used : <<b, sizeOf'[b]>> \in held'
      <4> SUFFICES ASSUME NEW b \in used PROVE <<b, sizeOf'[b]>> \in held' OBVIOUS
      <4>1. b \in Used /\ b # a BY DEF used
      <4>2. <<b, sizeOf[b]>> \in held BY <2>1, <4>1
      <4> QED BY <2>2, <3>1, <4>1, <4>2
    <3>3. \A c \in held' : \E b \in used : c = <<b, sizeOf'[b]>>
      <4> SUFFICES ASSUME NEW c \in held' PROVE \E b \in used : c = <<b, sizeOf'[b]>> OBVIOUS
      <4>1. c \in held /\ c[1] # a BY <3>1
      <4>2. PICK b \in Used : c = <<b, sizeOf[b]>> BY <2>1, <4>1
      <4>3. b \in used BY <4>1, <4>2 DEF used
      <4> QED BY <2>2, <4>2, <4>3
    <3> QED BY <3>2, <3>3
  <2>4. {<<b, sizeOf'[b]>> : b \in Elements(usedchunk')} = held' BY <1>9, <2>3 DEF used
  <2> QED BY <1>12, <2>4 DEF ChunksNumbered
<1>17. FreeMerged'
  <2>1. ASSUME NEW b \in Free' PROVE b + sizeOf'[b] # heapend' /\ b + sizeOf'[b] + 2 \notin Free'
    <3>1. b \in Heads(q) /\ b \in q /\ last \in q BY <1>5, <1>6 DEF Heads
    <3>2. b + sizeOf'[b] = RunEnd(q)[b] BY <1>3, <1>4, <1>6, MergedEnd
    <3>3. RunEnd(q)[b] \in Nat /\ RunEnd(q)[b] + 2 \notin q BY <1>4, <3>1, RunInside
    <3>4. last \in Nat /\ last <= heapend /\ b \in Nat /\ b <= last
      <4>1. sizeOf[last] \in Nat /\ last + sizeOf[last] <= heapend /\ last \in Nat /\ b \in Nat
        BY <1>4, <3>1, HeapedFacts
      <4> QED BY <1>1, <1>5, <3>1, <4>1
    <3>5. RunEnd(q)[b] # heapend'
      <4>1. CASE RunEnd(q)[last] = heapend
        <5>1. heapend' = last - 2 BY <1>2, <4>1
        <5>2. RunEnd(q)[b] # last - 2 BY <3>1, <3>3, <3>4
        <5> QED BY <5>1, <5>2
      <4>2. CASE RunEnd(q)[last] # heapend
        <5>1. heapend' = heapend BY <1>2, <4>2
        <5>2. CASE b = last BY <4>2, <5>1, <5>2
        <5>3. CASE b # last
          <6>1. b < last BY <3>4, <5>3
          <6>2. RunEnd(q)[b] + 2 <= last BY <1>4, <1>5, <3>1, <6>1, RunBefore
          <6> QED BY <1>1, <3>3, <3>4, <5>1, <6>2
        <5> QED BY <5>2, <5>3
      <4> QED BY <4>1, <4>2
    <3> QED BY <1>6, <3>2, <3>3, <3>5
  <2> QED BY <2>1 DEF FreeMerged, Free
<1> QED BY <1>14, <1>15, <1>16, <1>17 DEF IInv

-----------------------------------------------------------------------------
(* The theorems. *)

LEMMA InitHolds == HeapInit => IInv
<1> SUFFICES ASSUME HeapInit PROVE IInv OBVIOUS
<1>1. /\ heapend = 0 /\ usedchunk = <<>> /\ freechunk = <<>>
      /\ indexOf = NoCells /\ sizeOf = NoCells /\ held = {}
  BY DEF HeapInit
<1>2. Used = {} /\ Free = {} BY <1>1 DEF Used, Free, Elements
<1>3. Listed
  <2>1. sizeOf \in [Used \cup Free -> Nat] /\ DOMAIN indexOf = Used BY <1>1, <1>2 DEF NoCells
  <2>2. Once(usedchunk) /\ Once(freechunk) BY <1>1 DEF Once
  <2> QED BY <1>1, <1>2, <2>1, <2>2 DEF Listed
<1>4. Tiled(Used \cup Free, sizeOf, heapend) BY <1>1, <1>2 DEF Tiled
<1>5. ChunksNumbered BY <1>1, <1>2 DEF ChunksNumbered, Used
<1>6. FreeMerged BY <1>1, <1>2 DEF FreeMerged, Free
<1> QED BY <1>3, <1>4, <1>5, <1>6 DEF IInv

LEMMA StepHolds == IInv /\ [HeapNext]_heapVars => IInv'
<1> SUFFICES ASSUME IInv, [HeapNext]_heapVars PROVE IInv' OBVIOUS
<1>1. ASSUME NEW size \in ChunkSizes, forthallocate(size) PROVE IInv'
  <2>1. size \in Nat BY ChunkSizesAssumption
  <2> QED BY <1>1, <2>1, AllocateStep
<1>2. ASSUME NEW c \in held, forthfree(c[1]) PROVE IInv' BY <1>2, FreeStep
<1>3. CASE UNCHANGED heapVars
  <2>1. /\ heapend' = heapend /\ usedchunk' = usedchunk /\ freechunk' = freechunk
        /\ indexOf' = indexOf /\ sizeOf' = sizeOf /\ held' = held
    BY <1>3 DEF heapVars
  <2>2. Used' = Used /\ Free' = Free BY <2>1 DEF Used, Free
  <2>3. Listed' BY <2>1, <2>2 DEF IInv, Listed, Once
  <2>4. Tiled(Used \cup Free, sizeOf, heapend)' BY <2>1, <2>2 DEF IInv, Tiled
  <2>5. ChunksNumbered' BY <2>1 DEF IInv, ChunksNumbered
  <2>6. FreeMerged' BY <2>1 DEF IInv, FreeMerged
  <2> QED BY <2>3, <2>4, <2>5, <2>6 DEF IInv
<1> QED BY <1>1, <1>2, <1>3 DEF HeapNext

\* The inductive invariant: the tables, the cells and the history agree.
THEOREM HeapInvariant == HeapSpec => []IInv
BY InitHolds, StepHolds, PTL DEF HeapSpec

\* Every cell up to heapend is of one chunk, its header or its data, and the
\* tables list each chunk once, after any order of ALLOCATEs and FREEs.
THEOREM HeapStaysTiled == HeapSpec => []HeapTiled
<1>1. IInv => HeapTiled
  <2> SUFFICES ASSUME IInv PROVE HeapTiled OBVIOUS
  <2> DEFINE chunks == Used \cup Free
  <2>1. /\ heapend \in Nat
        /\ \A a \in chunks : a \in Nat /\ sizeOf[a] \in Nat /\ 2 <= a /\ a + sizeOf[a] <= heapend
    BY ChunkFacts DEF Heaped
  <2>2. /\ \A a, b \in chunks : a < b => a + sizeOf[a] + 2 <= b
        /\ \A n \in 0 .. heapend - 1 : \E a \in chunks : a - 2 <= n /\ n < a + sizeOf[a]
    BY DEF IInv, Tiled
  <2>3. Cardinality(chunks) = Len(usedchunk) + Len(freechunk)
    <3>1. /\ usedchunk \in Seq(Nat) /\ freechunk \in Seq(Nat) /\ Once(usedchunk)
          /\ Once(freechunk) /\ Used \cap Free = {}
      BY DEF IInv, Listed
    <3>2. /\ IsFiniteSet(Used) /\ Cardinality(Used) = Len(usedchunk)
          /\ IsFiniteSet(Free) /\ Cardinality(Free) = Len(freechunk)
      BY <3>1, ElementsCounted DEF Used, Free
    <3>3. Cardinality(chunks) = Cardinality(Used) + Cardinality(Free) - Cardinality(Used \cap Free)
      BY <3>2, FS_Union
    <3>4. Cardinality(Used \cap Free) = 0 BY <3>1, FS_EmptySet
    <3>5. Len(usedchunk) \in Nat /\ Len(freechunk) \in Nat BY <3>1
    <3> QED BY <3>2, <3>3, <3>4, <3>5
  <2> HIDE DEF chunks
  <2>4. \A a \in chunks, n \in Int : n \in Extent(a) <=> a - 2 <= n /\ n < a + sizeOf[a]
    BY <2>1 DEF Extent
  <2>5. \A a \in chunks : Extent(a) \subseteq 0 .. heapend - 1
    <3> SUFFICES ASSUME NEW a \in chunks, NEW n \in Extent(a) PROVE n \in 0 .. heapend - 1
      OBVIOUS
    <3>1. n \in Int BY <2>1 DEF Extent
    <3>2. a - 2 <= n /\ n < a + sizeOf[a] BY <2>4, <3>1
    <3> QED BY <2>1, <3>1, <3>2
  <2>6. UNION {Extent(a) : a \in chunks} = 0 .. heapend - 1
    <3>1. ASSUME NEW n \in UNION {Extent(a) : a \in chunks} PROVE n \in 0 .. heapend - 1
      <4>1. PICK a \in chunks : n \in Extent(a) OBVIOUS
      <4> QED BY <2>5, <4>1
    <3>2. ASSUME NEW n \in 0 .. heapend - 1 PROVE n \in UNION {Extent(a) : a \in chunks}
      <4>1. PICK a \in chunks : a - 2 <= n /\ n < a + sizeOf[a] BY <2>2
      <4>2. n \in Int BY <2>1
      <4>3. n \in Extent(a) BY <2>4, <4>1, <4>2
      <4> QED BY <4>3
    <3> QED BY <3>1, <3>2
  <2>7. \A a, b \in chunks : a # b => Extent(a) \cap Extent(b) = {}
    <3>1. ASSUME NEW a \in chunks, NEW b \in chunks, a < b, NEW n \in Extent(a), n \in Extent(b)
          PROVE  FALSE
      <4>1. n \in Int BY <2>1 DEF Extent
      <4>2. n < a + sizeOf[a] /\ b - 2 <= n BY <2>4, <3>1, <4>1
      <4>3. a + sizeOf[a] + 2 <= b BY <2>2, <3>1
      <4> QED BY <2>1, <4>1, <4>2, <4>3
    <3>2. \A a, b \in chunks : a # b => a < b \/ b < a BY <2>1
    <3> QED BY <3>1, <3>2
  <2> QED BY <2>3, <2>6, <2>7 DEF HeapTiled, chunks, Used, Free
<1> QED BY <1>1, HeapInvariant, PTL

\* The program's chunks are those in use, of the size asked for, and each
\* header has the index FREE relies on.
THEOREM HeadersStayRight == HeapSpec => []ChunksNumbered
<1>1. IInv => ChunksNumbered BY DEF IInv
<1> QED BY <1>1, HeapInvariant, PTL

\* However many chunks a FREE joins, no two free chunks are neighbours after it,
\* none is at the heap's end, and ALLOCATE leaves it so.
THEOREM FreeStaysMerged == HeapSpec => []FreeMerged
<1>1. IInv => FreeMerged BY DEF IInv
<1> QED BY <1>1, HeapInvariant, PTL

=============================================================================
