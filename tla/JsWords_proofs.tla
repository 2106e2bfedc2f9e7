--------------------------- MODULE JsWords_proofs ---------------------------
(***************************************************************************)
(* Theorems about word sets of JS-Forth that are models of their own: its  *)
(* names (JsNames), its screen and ACCEPT (JsConsole), where it reads from *)
(* (JsSources) and its arithmetic (JsMath).                                *)
(***************************************************************************)
EXTENDS JsNames, JsConsole, JsSources, JsMath, WellFoundedInduction, TLAPS

-----------------------------------------------------------------------------
(* Numbers and sequences. *)

\* A set of naturals has a least element.
LEMMA LeastExists ==
  ASSUME NEW T, T \subseteq Nat, T # {}
  PROVE  \E i \in T : \A j \in T : i <= j
<1> DEFINE R == {ss \in Nat \X Nat : ss[1] < ss[2]}
<1>1. R = OpToRel(<, Nat) BY DEF OpToRel
<1>2. IsWellFoundedOn(R, Nat) BY <1>1, NatLessThanWellFounded
<1>3. PICK i \in T : \A j \in T : ~(<<j, i>> \in R) BY <1>2, WFMin
<1>4. \A j \in T : i \in Nat /\ j \in Nat /\ <<j, i>> \in Nat \X Nat OBVIOUS
<1>5. \A j \in T : ~(j < i) BY <1>3, <1>4
<1> QED BY <1>4, <1>5

\* A set of naturals with a bound has a last element.
LEMMA LastExists ==
  ASSUME NEW n \in Nat, NEW T, T \subseteq 0 .. n, T # {}
  PROVE  \E i \in T : \A j \in T : j <= i
<1> DEFINE U == {n - i : i \in T}
<1>1. \A i \in T : i \in Nat /\ n - i \in Nat OBVIOUS
<1>2. U \subseteq Nat /\ U # {} BY <1>1
<1>3. PICK k \in U : \A j \in U : k <= j BY <1>2, LeastExists
<1>4. PICK i \in T : k = n - i BY <1>3
<1>5. \A j \in T : n - i <= n - j BY <1>3, <1>4
<1> QED BY <1>1, <1>5

\* A sequence of anything.
IsSeq(q) == q \in Seq({q[i] : i \in DOMAIN q})

\* A sequence is a function of its indices.
LEMMA SeqFacts ==
  ASSUME NEW q, IsSeq(q)
  PROVE  Len(q) \in Nat /\ DOMAIN q = 1 .. Len(q) /\ q = [i \in 1 .. Len(q) |-> q[i]]
BY DEF IsSeq

\* A function of 1 .. n is a sequence of that length.
LEMMA SeqMade ==
  ASSUME NEW q, NEW n \in Nat, DOMAIN q = 1 .. n, q = [i \in 1 .. n |-> q[i]]
  PROVE  IsSeq(q) /\ Len(q) = n
<1> DEFINE S == {q[i] : i \in 1 .. n}
<1>1. q \in [1 .. n -> S] OBVIOUS
<1>2. q \in Seq(S)
  <2> HIDE DEF S
  <2> QED BY <1>1
<1>3. IsSeq(q) BY <1>2 DEF IsSeq
<1>4. Len(q) = n
  <2> HIDE DEF S
  <2> QED BY <1>1, <1>2
<1> QED BY <1>3, <1>4

\* What is appended is the last, and the others stay.
LEMMA AppendSeq ==
  ASSUME NEW q, IsSeq(q), NEW x
  PROVE  /\ IsSeq(Append(q, x)) /\ Len(Append(q, x)) = Len(q) + 1
         /\ \A i \in 1 .. Len(q) : Append(q, x)[i] = q[i]
         /\ Append(q, x)[Len(q) + 1] = x
<1> DEFINE S == {q[i] : i \in DOMAIN q} \cup {x}
<1>1. q \in Seq(S) /\ x \in S BY DEF IsSeq
<1> HIDE DEF S
<1> DEFINE p == Append(q, x)
           n == Len(q)
<1>2. /\ n \in Nat /\ p \in Seq(S) /\ Len(p) = n + 1
      /\ \A i \in 1 .. n : p[i] = q[i]
      /\ p[n + 1] = x
  BY <1>1
<1> HIDE DEF p
<1>3. DOMAIN p = 1 .. n + 1 /\ p = [i \in 1 .. n + 1 |-> p[i]] /\ n + 1 \in Nat
  <2>1. p \in Seq(S) /\ Len(p) = n + 1 BY <1>2
  <2>2. DOMAIN p = 1 .. Len(p) /\ p = [i \in 1 .. Len(p) |-> p[i]] BY <2>1
  <2> QED BY <1>2, <2>1, <2>2
<1>4. IsSeq(p) BY <1>3, SeqMade
<1> QED BY <1>2, <1>4 DEF p

\* The first elements of a sequence.
LEMMA CutSeq ==
  ASSUME NEW q, IsSeq(q), NEW m \in 0 .. Len(q)
  PROVE  /\ IsSeq(SubSeq(q, 1, m)) /\ Len(SubSeq(q, 1, m)) = m
         /\ SubSeq(q, 1, m) = [i \in 1 .. m |-> q[i]]
         /\ \A i \in 1 .. m : SubSeq(q, 1, m)[i] = q[i]
<1> DEFINE p == SubSeq(q, 1, m)
<1>1. Len(q) \in Nat BY SeqFacts
<1>2. m \in Nat BY <1>1
<1>3. p = [i \in 1 .. m |-> q[i]] BY <1>2
<1> HIDE DEF p
<1>4. DOMAIN p = 1 .. m /\ p = [i \in 1 .. m |-> p[i]] /\ \A i \in 1 .. m : p[i] = q[i] BY <1>3
<1>5. IsSeq(p) /\ Len(p) = m BY <1>2, <1>4, SeqMade
<1> QED BY <1>3, <1>4, <1>5 DEF p

-----------------------------------------------------------------------------
(* Markers.  A header changes only while it is the last one, so what a      *)
(* marker keeps stays what is before it.                                    *)

Fields == {"name", "voc", "revealed", "immediate", "what", "bit", "kept"}

HeadsListed == IsSeq(heads) /\ \A i \in 1 .. Len(heads) : DOMAIN heads[i] = Fields

KeptIsBefore ==
  \A i \in 1 .. Len(heads) : heads[i].what = "marker" => heads[i].kept = SubSeq(heads, 1, i - 1)

NamesInv == HeadsListed /\ KeptIsBefore

\* A search finds a header, or none.
LEMMA SearchFinds ==
  ASSUME HeadsListed, NEW name
  PROVE  forthsearch(name) \in 0 .. Len(heads)
<1> DEFINE n == Len(heads)
<1>1. n \in Nat /\ DOMAIN heads = 1 .. n BY SeqFacts DEF HeadsListed
<1>2. ASSUME NEW voc PROVE forthsearch1(name, voc) \in 0 .. n
  <2> DEFINE those == {i \in DOMAIN heads :
                         heads[i].name = name /\ heads[i].voc = voc /\ heads[i].revealed}
  <2>1. CASE those = {} BY <1>1, <2>1 DEF forthsearch1
  <2>2. CASE those # {}
    <3>1. those \subseteq 0 .. n /\ those \subseteq 1 .. n BY <1>1
    <3>2. forthsearch1(name, voc) = CHOOSE i \in those : \A j \in those : j <= i
      BY <2>2 DEF forthsearch1
    <3> HIDE DEF those, n
    <3>3. \E i \in those : \A j \in those : j <= i BY <1>1, <2>2, <3>1, LastExists
    <3>4. forthsearch1(name, voc) \in those BY <3>2, <3>3
    <3> QED BY <3>1, <3>4
  <2> QED BY <2>1, <2>2
<1> DEFINE has == {k \in DOMAIN Order : forthsearch1(name, Order[k]) # 0}
<1>3. CASE has = {}
  <2>1. forthsearch(name) = 0 BY <1>3 DEF forthsearch
  <2> QED BY <1>1, <2>1
<1>4. CASE has # {}
  <2> DEFINE k == CHOOSE k \in has : \A j \in has : k <= j
  <2>1. forthsearch(name) = forthsearch1(name, Order[k]) BY <1>4 DEF forthsearch
  <2> HIDE DEF k
  <2> QED BY <1>2, <2>1
<1> QED BY <1>3, <1>4

\* What is kept is there whenever the headers before it are.
LEMMA SamePrefix ==
  ASSUME HeadsListed, HeadsListed', KeptIsBefore, NEW m \in 0 .. Len(heads), m <= Len(heads)',
         \A i \in 1 .. m : heads'[i] = heads[i]
  PROVE  \A i \in 1 .. m : heads'[i].what = "marker" => heads'[i].kept = SubSeq(heads', 1, i - 1)
<1>1. /\ Len(heads) \in Nat /\ Len(heads') \in Nat /\ m \in Nat
  BY SeqFacts DEF HeadsListed
<1> SUFFICES ASSUME NEW i \in 1 .. m, heads'[i].what = "marker"
             PROVE  heads'[i].kept = SubSeq(heads', 1, i - 1)
  OBVIOUS
<1>2. i \in 1 .. Len(heads) /\ i - 1 \in 0 .. Len(heads) /\ i - 1 \in 0 .. Len(heads') BY <1>1
<1>3. heads'[i].kept = SubSeq(heads, 1, i - 1) BY <1>2 DEF KeptIsBefore
<1>4. SubSeq(heads, 1, i - 1) = [j \in 1 .. i - 1 |-> heads[j]] BY <1>2, CutSeq DEF HeadsListed
<1>5. SubSeq(heads', 1, i - 1) = [j \in 1 .. i - 1 |-> heads'[j]] BY <1>2, CutSeq DEF HeadsListed
<1>6. \A j \in 1 .. i - 1 : heads'[j] = heads[j]
  <2>1. \A j \in 1 .. i - 1 : j \in 1 .. m BY <1>1
  <2> QED BY <2>1
<1> QED BY <1>3, <1>4, <1>5, <1>6

\* A new header, a marker's or another's, keeps the invariant.
LEMMA NewHeaderStep ==
  ASSUME NamesInv, NEW name, NEW what, NEW shown, NEW bit, NEW kept,
         newheader(name, what, shown, bit, kept), what = "marker" => kept = heads
  PROVE  NamesInv'
<1> DEFINE n == Len(heads)
           head == [name |-> name, voc |-> current, revealed |-> shown,
                    immediate |-> FALSE, what |-> what, bit |-> bit, kept |-> kept]
<1>1. IsSeq(heads) /\ n \in Nat /\ heads' = Append(heads, head)
  BY SeqFacts DEF newheader, NamesInv, HeadsListed
<1>2. /\ DOMAIN head = Fields /\ head.what = what /\ head.kept = kept BY DEF Fields
<1> HIDE DEF head, n
<1>3. /\ IsSeq(heads') /\ Len(heads') = n + 1 /\ heads'[n + 1] = head
      /\ \A i \in 1 .. n : heads'[i] = heads[i]
  BY <1>1, AppendSeq DEF n
<1>4. \A i \in 1 .. n + 1 : i \in 1 .. n \/ i = n + 1 BY <1>1
<1>5. HeadsListed'
  <2>1. \A i \in 1 .. n : DOMAIN heads[i] = Fields BY DEF NamesInv, HeadsListed, n
  <2>2. \A i \in 1 .. Len(heads') : DOMAIN heads'[i] = Fields BY <1>2, <1>3, <1>4, <2>1
  <2> QED BY <1>3, <2>2 DEF HeadsListed
<1>6. \A i \in 1 .. n : heads'[i].what = "marker" => heads'[i].kept = SubSeq(heads', 1, i - 1)
  <2>1. n \in 0 .. Len(heads) /\ n <= Len(heads)' BY <1>1, <1>3 DEF n
  <2> QED BY <1>3, <1>5, <2>1, SamePrefix DEF NamesInv
<1>7. SubSeq(heads', 1, (n + 1) - 1) = heads
  <2>1. n \in 0 .. Len(heads') /\ (n + 1) - 1 = n BY <1>1, <1>3
  <2>2. SubSeq(heads', 1, n) = [i \in 1 .. n |-> heads'[i]] BY <1>3, <2>1, CutSeq
  <2>3. heads = [i \in 1 .. n |-> heads[i]] BY <1>1, SeqFacts DEF n
  <2>4. [i \in 1 .. n |-> heads'[i]] = [i \in 1 .. n |-> heads[i]] BY <1>3
  <2> QED BY <2>1, <2>2, <2>3, <2>4
<1>8. KeptIsBefore'
  <2>1. heads'[n + 1].what = "marker" => heads'[n + 1].kept = SubSeq(heads', 1, (n + 1) - 1)
    BY <1>2, <1>3, <1>7
  <2>2. \A i \in 1 .. Len(heads') :
          heads'[i].what = "marker" => heads'[i].kept = SubSeq(heads', 1, i - 1)
    BY <1>3, <1>4, <1>6, <2>1
  <2> QED BY <2>2 DEF KeptIsBefore
<1> QED BY <1>5, <1>8 DEF NamesInv

\* So do changes to the last header's bits.
LEMMA FlagsStep ==
  ASSUME NamesInv, NEW revealed, NEW immediate, Flags(revealed, immediate)
  PROVE  NamesInv'
<1> DEFINE n == Len(heads)
           head == [heads[n] EXCEPT !.revealed = revealed, !.immediate = immediate]
<1>1. /\ IsSeq(heads) /\ n \in Nat /\ DOMAIN heads = 1 .. n
      /\ heads = [i \in 1 .. n |-> heads[i]] /\ heads # <<>>
  BY SeqFacts DEF Flags, NamesInv, HeadsListed
<1>2. n # 0
  <2> SUFFICES ASSUME n = 0 PROVE FALSE OBVIOUS
  <2>1. heads = [i \in 1 .. 0 |-> heads[i]] BY <1>1
  <2> QED BY <1>1, <2>1
<1>3. n \in 1 .. n /\ DOMAIN heads[n] = Fields BY <1>1, <1>2 DEF NamesInv, HeadsListed
<1>4. heads' = [heads EXCEPT ![n] = head] BY <1>1, <1>3 DEF Flags
<1>5. /\ DOMAIN head = Fields /\ head.what = heads[n].what /\ head.kept = heads[n].kept
  BY <1>3 DEF Fields
<1> HIDE DEF head, n
<1>6. /\ DOMAIN heads' = 1 .. n /\ heads' = [i \in 1 .. n |-> heads'[i]]
      /\ heads'[n] = head /\ \A i \in 1 .. n : i # n => heads'[i] = heads[i]
  BY <1>1, <1>3, <1>4
<1>7. IsSeq(heads') /\ Len(heads') = n BY <1>1, <1>6, SeqMade
<1>8. HeadsListed'
  <2>1. \A i \in 1 .. n : DOMAIN heads[i] = Fields BY DEF NamesInv, HeadsListed, n
  <2>2. \A i \in 1 .. Len(heads') : DOMAIN heads'[i] = Fields BY <1>5, <1>6, <1>7, <2>1
  <2> QED BY <1>7, <2>2 DEF HeadsListed
<1>9. \A i \in 1 .. n - 1 : heads'[i] = heads[i]
  <2>1. \A i \in 1 .. n - 1 : i \in 1 .. n /\ i # n BY <1>1
  <2> QED BY <1>6, <2>1
<1>10. n - 1 \in 0 .. n /\ n - 1 \in 0 .. Len(heads) /\ n - 1 <= Len(heads)'
  BY <1>1, <1>2, <1>7 DEF n
<1>11. \A i \in 1 .. n - 1 : heads'[i].what = "marker" => heads'[i].kept = SubSeq(heads', 1, i - 1)
  BY <1>8, <1>9, <1>10, SamePrefix DEF NamesInv
<1>12. heads'[n].what = "marker" => heads'[n].kept = SubSeq(heads', 1, n - 1)
  <2>1. heads[n].what = "marker" => heads[n].kept = SubSeq(heads, 1, n - 1)
    BY <1>1, <1>3 DEF NamesInv, KeptIsBefore, n
  <2>2. SubSeq(heads, 1, n - 1) = [i \in 1 .. n - 1 |-> heads[i]] BY <1>1, <1>10, CutSeq
  <2>3. SubSeq(heads', 1, n - 1) = [i \in 1 .. n - 1 |-> heads'[i]] BY <1>7, <1>10, CutSeq
  <2> QED BY <1>5, <1>6, <1>9, <2>1, <2>2, <2>3
<1>13. KeptIsBefore'
  <2>1. \A i \in 1 .. n : i \in 1 .. n - 1 \/ i = n BY <1>1
  <2>2. \A i \in 1 .. Len(heads') :
          heads'[i].what = "marker" => heads'[i].kept = SubSeq(heads', 1, i - 1)
    BY <1>7, <1>11, <1>12, <2>1
  <2> QED BY <2>2 DEF KeptIsBefore
<1> QED BY <1>8, <1>13 DEF NamesInv

\* So does forgetting headers from one on.
LEMMA ForgetStep ==
  ASSUME NamesInv, NEW i \in 1 .. Len(heads), heads' = SubSeq(heads, 1, i - 1)
  PROVE  NamesInv'
<1>1. IsSeq(heads) /\ Len(heads) \in Nat BY SeqFacts DEF NamesInv, HeadsListed
<1>2. i - 1 \in 0 .. Len(heads) /\ i - 1 \in Nat BY <1>1
<1>3. /\ IsSeq(heads') /\ Len(heads') = i - 1 /\ \A j \in 1 .. i - 1 : heads'[j] = heads[j]
  BY <1>1, <1>2, CutSeq
<1>4. \A j \in 1 .. i - 1 : j \in 1 .. Len(heads) BY <1>1
<1>5. HeadsListed'
  <2>1. \A j \in 1 .. Len(heads') : DOMAIN heads'[j] = Fields
    BY <1>3, <1>4 DEF NamesInv, HeadsListed
  <2> QED BY <1>3, <2>1 DEF HeadsListed
<1>6. i - 1 <= Len(heads)' BY <1>2, <1>3
<1>7. \A j \in 1 .. i - 1 : heads'[j].what = "marker" => heads'[j].kept = SubSeq(heads', 1, j - 1)
  BY <1>2, <1>3, <1>5, <1>6, SamePrefix DEF NamesInv
<1>8. KeptIsBefore' BY <1>3, <1>7 DEF KeptIsBefore
<1> QED BY <1>5, <1>8 DEF NamesInv

\* Of the words a program executes by name, which have i a header.
LEMMA NamedFacts ==
  ASSUME NamesInv, NEW name, ExecuteNamed(name)
  PROVE  LET i == forthsearch(name)
         IN /\ i \in 1 .. Len(heads)
            /\ forthbrmarker(i) \/ dovocabulary(i)
<1>1. forthsearch(name) \in 0 .. Len(heads) /\ Len(heads) \in Nat
  BY SearchFinds, SeqFacts DEF NamesInv, HeadsListed
<1>2. forthsearch(name) # 0 /\ (forthbrmarker(forthsearch(name)) \/ dovocabulary(forthsearch(name)))
  BY DEF ExecuteNamed
<1> QED BY <1>1, <1>2

\* Every step of the module on names keeps the invariant.
LEMMA NamesStep == NamesInv /\ [NamesNext]_namesVars => NamesInv'
<1> SUFFICES ASSUME NamesInv, [NamesNext]_namesVars PROVE NamesInv' OBVIOUS
<1>1. ASSUME heads' = heads PROVE NamesInv' BY <1>1 DEF NamesInv, HeadsListed, KeptIsBefore
<1>2. CASE heads' = <<>>
  <2>1. IsSeq(heads') /\ Len(heads') = 0 BY <1>2 DEF IsSeq
  <2> QED BY <2>1 DEF NamesInv, HeadsListed, KeptIsBefore
<1>3. ASSUME NEW name \in Names, Create(name) PROVE NamesInv'
  BY <1>3, NewHeaderStep DEF Create
<1>4. ASSUME NEW name \in Names, Marker(name) PROVE NamesInv'
  BY <1>4, NewHeaderStep DEF Marker
<1>5. ASSUME NEW name \in Names, forthvocabulary(name) PROVE NamesInv'
  BY <1>5, NewHeaderStep DEF forthvocabulary
<1>6. ASSUME NEW name, Colon(name) PROVE NamesInv'
  BY <1>6, NewHeaderStep DEF Colon
<1>7. CASE forthcolonnoname BY <1>6, <1>7 DEF forthcolonnoname
<1>8. CASE Semicolon BY <1>8, FlagsStep DEF Semicolon
<1>9. CASE forthhide BY <1>9, FlagsStep DEF forthhide
<1>10. CASE forthreveal BY <1>10, FlagsStep DEF forthreveal
<1>11. CASE forthimmediate BY <1>11, FlagsStep DEF forthimmediate
<1>12. ASSUME NEW name \in Names, ExecuteNamed(name) PROVE NamesInv'
  <2> DEFINE i == forthsearch(name)
  <2>1. i \in 1 .. Len(heads) /\ (forthbrmarker(i) \/ dovocabulary(i)) BY <1>12, NamedFacts
  <2>2. CASE forthbrmarker(i)
    <3>1. heads' = SubSeq(heads, 1, i - 1) BY <2>2 DEF forthbrmarker, WcOf
    <3> QED BY <2>1, <3>1, ForgetStep
  <2>3. CASE dovocabulary(i) BY <1>1, <2>3 DEF dovocabulary
  <2> QED BY <2>1, <2>2, <2>3
<1>13. CASE forthcoldinit BY <1>2, <1>13 DEF forthcoldinit
<1>14. CASE Brackets \/ forthonly \/ forthforth \/ forthdefinitions \/ forthalso \/ forthprevious
  BY <1>1, <1>14 DEF Brackets, forthonly, forthforth, forthdefinitions, forthalso, forthprevious
<1>15. CASE UNCHANGED namesVars BY <1>1, <1>15 DEF namesVars
<1> QED BY <1>3, <1>4, <1>5, <1>6, <1>7, <1>8, <1>9, <1>10, <1>11, <1>12, <1>13, <1>14, <1>15
        DEF NamesNext

\* Every header is a full one, and a marker keeps the headers before it.
THEOREM NamesInvariant == NamesSpec => []NamesInv
<1>1. NamesInit => NamesInv
  <2> SUFFICES ASSUME NamesInit PROVE NamesInv OBVIOUS
  <2>1. heads = <<>> /\ IsSeq(heads) /\ Len(heads) = 0 BY DEF NamesInit, IsSeq
  <2> QED BY <2>1 DEF NamesInv, HeadsListed, KeptIsBefore
<1> QED BY <1>1, NamesStep, PTL DEF NamesSpec

\* Executing a marker leaves the headers there were when it was made, for any
\* number of words, vocabularies and markers.
THEOREM MarkersAlwaysForget == NamesSpec => MarkersForget
<1>1. NamesInv /\ [NamesNext]_namesVars =>
        [namesVars' # namesVars => \A name \in Names :
           LET i == forthsearch(name)
           IN (ExecuteNamed(name) /\ heads[i].what = "marker") => heads' = heads[i].kept]_namesVars
  <2> SUFFICES ASSUME NamesInv, NEW name \in Names, ExecuteNamed(name),
                      heads[forthsearch(name)].what = "marker"
               PROVE  heads' = heads[forthsearch(name)].kept
    OBVIOUS
  <2> DEFINE i == forthsearch(name)
  <2>1. i \in 1 .. Len(heads) /\ (forthbrmarker(i) \/ dovocabulary(i)) BY NamedFacts
  <2>2. ~dovocabulary(i) BY DEF dovocabulary
  <2>3. heads' = SubSeq(heads, 1, i - 1) BY <2>1, <2>2 DEF forthbrmarker, WcOf
  <2> HIDE DEF i
  <2>4. heads[i].kept = SubSeq(heads, 1, i - 1) BY <2>1 DEF NamesInv, KeptIsBefore, i
  <2> QED BY <2>3, <2>4 DEF i
<1> QED BY <1>1, NamesInvariant, PTL DEF NamesSpec, MarkersForget

-----------------------------------------------------------------------------
(* The screen and the line ACCEPT reads. *)

\* An element appended to a sequence over a set.
LEMMA PushedFacts ==
  ASSUME NEW S, NEW q \in Seq(S), NEW x \in S
  PROVE  /\ Append(q, x) \in Seq(S) /\ Len(Append(q, x)) = Len(q) + 1
         /\ \A i \in 1 .. Len(q) : Append(q, x)[i] = q[i]
         /\ Append(q, x)[Len(q) + 1] = x
OBVIOUS

\* An element of a sequence replaced.
LEMMA ReplacedFacts ==
  ASSUME NEW S, NEW q \in Seq(S), NEW n \in 1 .. Len(q), NEW x \in S
  PROVE  /\ [q EXCEPT ![n] = x] \in Seq(S) /\ Len([q EXCEPT ![n] = x]) = Len(q)
         /\ \A i \in 1 .. Len(q) : i # n => [q EXCEPT ![n] = x][i] = q[i]
         /\ [q EXCEPT ![n] = x][n] = x
OBVIOUS

\* A cut in the second of two joined sequences.
LEMMA CutJoined ==
  ASSUME NEW S, NEW p \in Seq(S), NEW q \in Seq(S), NEW k \in 0 .. Len(q)
  PROVE  SubSeq(p \o q, 1, Len(p) + k) = p \o SubSeq(q, 1, k)
<1> DEFINE a == SubSeq(p \o q, 1, Len(p) + k)
           b == p \o SubSeq(q, 1, k)
<1>1. a \in Seq(S) /\ Len(a) = Len(p) + k OBVIOUS
<1>2. SubSeq(q, 1, k) \in Seq(S) /\ Len(SubSeq(q, 1, k)) = k OBVIOUS
<1>3. b \in Seq(S) /\ Len(b) = Len(p) + k BY <1>2
<1>4. \A i \in 1 .. Len(p) + k : a[i] = b[i]
  <2> SUFFICES ASSUME NEW i \in 1 .. Len(p) + k PROVE a[i] = b[i] OBVIOUS
  <2>1. a[i] = (p \o q)[i] OBVIOUS
  <2>2. CASE i <= Len(p) BY <2>1, <2>2, <1>2
  <2>3. CASE ~(i <= Len(p))
    <3>1. i - Len(p) \in 1 .. k BY <2>3
    <3>2. SubSeq(q, 1, k)[i - Len(p)] = q[i - Len(p)] BY <3>1
    <3> QED BY <1>2, <2>1, <2>3, <3>1, <3>2
  <2> QED BY <2>2, <2>3
<1> HIDE DEF a, b
<1>5. a = b BY <1>1, <1>3, <1>4
<1> QED BY <1>5 DEF a, b

\* The last elements of a sequence.
LEMMA TailFacts ==
  ASSUME NEW S, NEW q \in Seq(S), NEW k \in Nat, NEW n \in Nat, Len(q) = n + k
  PROVE  /\ SubSeq(q, k + 1, n + k) \in Seq(S) /\ Len(SubSeq(q, k + 1, n + k)) = n
         /\ \A i \in 1 .. n : SubSeq(q, k + 1, n + k)[i] = q[i + k]
<1>1. (n + k) - (k + 1) + 1 = n /\ k + 1 \in Nat \ {0} OBVIOUS
<1>2. SubSeq(q, k + 1, n + k) = [i \in 1 .. n |-> q[i + k]]
  <2>1. SubSeq(q, k + 1, n + k) = [i \in 1 .. (n + k) - (k + 1) + 1 |-> q[i + (k + 1) - 1]]
    OBVIOUS
  <2>2. \A i \in 1 .. n : i + (k + 1) - 1 = i + k OBVIOUS
  <2> QED BY <1>1, <2>1, <2>2
<1>3. \A i \in 1 .. n : i + k \in 1 .. Len(q) OBVIOUS
<1>4. \A i \in 1 .. n : q[i + k] \in S BY <1>3
<1> QED BY <1>2, <1>4

Text == Seq(Chars)

\* A screen whose lines are counted and fit, but for the last, of long characters.
Lined(z, long) ==
  /\ z = [t |-> z.t, c |-> z.c, n |-> z.n]
  /\ z.n \in Nat \ {0} /\ z.t \in Seq(Text) /\ z.c \in Seq(Nat)
  /\ Len(z.t) = z.n /\ Len(z.c) = z.n
  /\ \A i \in 1 .. z.n : z.c[i] = Len(z.t[i])
  /\ \A i \in 1 .. z.n - 1 : z.c[i] <= LineLen
  /\ z.c[z.n] = long

\* It has one line too many at most.
Counted(z, long) == Lined(z, long) /\ z.n <= Lines + 1

\* All its lines fit.
Fits(z) == \E long \in 0 .. LineLen : Counted(z, long)

\* Lines scrolled away leave the screen's lines counted.
LEMMA WithoutLined ==
  ASSUME NEW long, NEW z, Lined(z, long), NEW k \in 0 .. z.n - 1
  PROVE  Lined(Without(z, k), long) /\ Without(z, k).n = z.n - k
<1> DEFINE y == Without(z, k)
           n == z.n - k
<1>1. z.n \in Nat \ {0} /\ k \in Nat /\ n \in Nat \ {0} /\ z.n = n + k BY DEF Lined
<1>2. y.t = SubSeq(z.t, k + 1, n + k) /\ y.c = SubSeq(z.c, k + 1, n + k) /\ y.n = n
  BY <1>1 DEF Without, Lined
<1>3. y = [t |-> y.t, c |-> y.c, n |-> y.n] BY DEF Without
<1> HIDE DEF y, n
<1>4. /\ y.t \in Seq(Text) /\ Len(y.t) = n /\ \A i \in 1 .. n : y.t[i] = z.t[i + k]
  <2> DEFINE q == z.t
  <2>1. q \in Seq(Text) /\ Len(q) = n + k BY <1>1 DEF Lined
  <2> HIDE DEF q
  <2>2. /\ SubSeq(q, k + 1, n + k) \in Seq(Text) /\ Len(SubSeq(q, k + 1, n + k)) = n
        /\ \A i \in 1 .. n : SubSeq(q, k + 1, n + k)[i] = q[i + k]
    BY <1>1, <2>1, TailFacts
  <2> QED BY <1>2, <2>2 DEF q
<1>5. /\ y.c \in Seq(Nat) /\ Len(y.c) = n /\ \A i \in 1 .. n : y.c[i] = z.c[i + k]
  <2> DEFINE q == z.c
  <2>1. q \in Seq(Nat) /\ Len(q) = n + k BY <1>1 DEF Lined
  <2> HIDE DEF q
  <2>2. /\ SubSeq(q, k + 1, n + k) \in Seq(Nat) /\ Len(SubSeq(q, k + 1, n + k)) = n
        /\ \A i \in 1 .. n : SubSeq(q, k + 1, n + k)[i] = q[i + k]
    BY <1>1, <2>1, TailFacts
  <2> QED BY <1>2, <2>2 DEF q
<1>6. \A i \in 1 .. n : i + k \in 1 .. z.n BY <1>1
<1>7. \A i \in 1 .. n : y.c[i] = Len(y.t[i]) BY <1>4, <1>5, <1>6 DEF Lined
<1>8. \A i \in 1 .. n - 1 : i + k \in 1 .. z.n - 1 /\ i \in 1 .. n BY <1>1
<1>9. \A i \in 1 .. n - 1 : y.c[i] <= LineLen BY <1>5, <1>8 DEF Lined
<1>10. y.c[n] = long
  <2>1. n \in 1 .. n /\ n + k = z.n BY <1>1
  <2>2. y.c[n] = z.c[z.n] BY <1>5, <2>1
  <2> QED BY <2>2 DEF Lined
<1>11. Lined(y, long) BY <1>1, <1>2, <1>3, <1>4, <1>5, <1>7, <1>9, <1>10 DEF Lined
<1> QED BY <1>2, <1>11 DEF y, n

\* The last line gets another text.
WithLast(z, line) ==
  [t |-> [z.t EXCEPT ![z.n] = line], c |-> [z.c EXCEPT ![z.n] = Len(line)], n |-> z.n]

\* So does a last line put in another's place.
LEMMA ReplacedLined ==
  ASSUME NEW long, NEW z, Lined(z, long), NEW line \in Text, NEW y, y = WithLast(z, line)
  PROVE  Lined(y, Len(line)) /\ y.n = z.n /\ y.t[z.n] = line
<1>0. y = [t |-> [z.t EXCEPT ![z.n] = line], c |-> [z.c EXCEPT ![z.n] = Len(line)], n |-> z.n]
  BY DEF WithLast
<1> USE <1>0
<1> DEFINE n == z.n
<1>1. /\ n \in Nat \ {0} /\ n \in 1 .. n /\ z.t \in Seq(Text) /\ z.c \in Seq(Nat)
      /\ Len(z.t) = n /\ Len(z.c) = n
  BY DEF Lined
<1>2. Len(line) \in Nat BY DEF Text
<1>3. y.n = n /\ y = [t |-> y.t, c |-> y.c, n |-> y.n] OBVIOUS
<1> HIDE DEF n
<1>4. /\ y.t \in Seq(Text) /\ Len(y.t) = n /\ y.t[n] = line
      /\ \A i \in 1 .. n : i # n => y.t[i] = z.t[i]
  BY <1>1, ReplacedFacts DEF n
<1>5. /\ y.c \in Seq(Nat) /\ Len(y.c) = n /\ y.c[n] = Len(line)
      /\ \A i \in 1 .. n : i # n => y.c[i] = z.c[i]
  BY <1>1, <1>2, ReplacedFacts DEF n
<1>6. \A i \in 1 .. n : y.c[i] = Len(y.t[i])
  <2>1. \A i \in 1 .. n : z.c[i] = Len(z.t[i]) BY DEF Lined, n
  <2> QED BY <1>4, <1>5, <2>1
<1>7. \A i \in 1 .. n - 1 : y.c[i] <= LineLen
  <2>1. \A i \in 1 .. n - 1 : z.c[i] <= LineLen BY DEF Lined, n
  <2>2. \A i \in 1 .. n - 1 : i \in 1 .. n /\ i # n BY <1>1
  <2> QED BY <1>5, <2>1, <2>2
<1>8. Lined(y, Len(line)) BY <1>1, <1>3, <1>4, <1>5, <1>6, <1>7 DEF Lined
<1> QED BY <1>3, <1>4, <1>8 DEF n

\* Another line begins, after one that fits.
AndLine(z, line) == [t |-> Append(z.t, line), c |-> Append(z.c, Len(line)), n |-> z.n + 1]

\* So does a line begun when the last one fits.
LEMMA PushedLined ==
  ASSUME NEW long, NEW z, Lined(z, long), long <= LineLen, NEW line \in Text,
         NEW y, y = AndLine(z, line)
  PROVE  Lined(y, Len(line)) /\ y.n = z.n + 1
<1>0. y = [t |-> Append(z.t, line), c |-> Append(z.c, Len(line)), n |-> z.n + 1]
  BY DEF AndLine
<1> USE <1>0
<1> DEFINE n == z.n
<1>1. /\ n \in Nat \ {0} /\ n \in 1 .. n /\ z.t \in Seq(Text) /\ z.c \in Seq(Nat)
      /\ Len(z.t) = n /\ Len(z.c) = n
  BY DEF Lined
<1>2. Len(line) \in Nat BY DEF Text
<1>3. y.n = n + 1 /\ y = [t |-> y.t, c |-> y.c, n |-> y.n] OBVIOUS
<1>4. y.t = Append(z.t, line) /\ y.c = Append(z.c, Len(line)) OBVIOUS
<1> HIDE DEF n
<1>5. /\ y.t \in Seq(Text) /\ Len(y.t) = n + 1 /\ y.t[n + 1] = line
      /\ \A i \in 1 .. n : y.t[i] = z.t[i]
  <2> DEFINE q == Append(z.t, line)
  <2>1. /\ q \in Seq(Text) /\ Len(q) = Len(z.t) + 1 /\ q[Len(z.t) + 1] = line
        /\ \A i \in 1 .. Len(z.t) : q[i] = z.t[i]
    BY <1>1, PushedFacts
  <2> HIDE DEF q
  <2> QED BY <1>1, <1>4, <2>1 DEF q
<1>6. /\ y.c \in Seq(Nat) /\ Len(y.c) = n + 1 /\ y.c[n + 1] = Len(line)
      /\ \A i \in 1 .. n : y.c[i] = z.c[i]
  <2> DEFINE q == Append(z.c, Len(line))
  <2>1. /\ q \in Seq(Nat) /\ Len(q) = Len(z.c) + 1 /\ q[Len(z.c) + 1] = Len(line)
        /\ \A i \in 1 .. Len(z.c) : q[i] = z.c[i]
    BY <1>1, <1>2, PushedFacts
  <2> HIDE DEF q
  <2> QED BY <1>1, <1>4, <2>1 DEF q
<1>7. \A i \in 1 .. n + 1 : i \in 1 .. n \/ i = n + 1 BY <1>1
<1>8. \A i \in 1 .. n + 1 : y.c[i] = Len(y.t[i])
  <2>1. \A i \in 1 .. n : z.c[i] = Len(z.t[i]) BY DEF Lined, n
  <2> QED BY <1>5, <1>6, <1>7, <2>1
<1>9. \A i \in 1 .. (n + 1) - 1 : y.c[i] <= LineLen
  <2>1. \A i \in 1 .. n - 1 : z.c[i] <= LineLen BY DEF Lined, n
  <2>2. z.c[n] = long BY DEF Lined, n
  <2>3. \A i \in 1 .. (n + 1) - 1 : i \in 1 .. n /\ (i \in 1 .. n - 1 \/ i = n) BY <1>1
  <2> QED BY <1>6, <2>1, <2>2, <2>3
<1>10. n + 1 \in Nat \ {0} BY <1>1
<1>11. Lined(y, Len(line)) BY <1>3, <1>5, <1>6, <1>8, <1>9, <1>10 DEF Lined
<1> QED BY <1>3, <1>11 DEF n

\* Of the last line.
LEMMA LastFacts ==
  ASSUME NEW long, NEW z, Lined(z, long)
  PROVE  /\ z.n \in Nat \ {0} /\ z.t[z.n] \in Text /\ Len(z.t[z.n]) = long /\ long \in Nat
         /\ z.c[z.n] = long
BY DEF Lined

\* A turn of type()'s loop: the last line is cut, and its rest begins another.
LEMMA BrokenCounted ==
  ASSUME NEW long \in Nat, NEW z, Counted(z, long), long > LineLen
  PROVE  Counted(Broken(z), long - LineLen)
<1> DEFINE y == IF z.n > Lines THEN Without(z, 1) ELSE z
           line == y.t[y.n]
           first == SubSeq(line, 1, LineLen)
           rest == SubSeq(line, LineLen + 1, Len(line))
<1>1. LineLen \in Nat \ {0} /\ Lines \in Nat \ {0} BY ScreenAssumption
<1>2. Lined(z, long) /\ z.n \in Nat /\ z.n <= Lines + 1 BY DEF Counted, Lined
<1>3. Lined(y, long) /\ y.n <= Lines
  <2>1. CASE z.n > Lines
    <3>1. 1 \in 0 .. z.n - 1 /\ z.n - 1 <= Lines BY <1>1, <1>2, <2>1
    <3> QED BY <1>2, <2>1, <3>1, WithoutLined
  <2>2. CASE ~(z.n > Lines) BY <1>1, <1>2, <2>2
  <2> QED BY <2>1, <2>2
<1>4. Broken(z) = [t |-> Append([y.t EXCEPT ![y.n] = first], rest),
                   c |-> Append([y.c EXCEPT ![y.n] = LineLen], y.c[y.n] - LineLen),
                   n |-> y.n + 1]
  BY DEF Broken, CutAt
<1> HIDE DEF y
<1>5. y.n \in Nat /\ line \in Text /\ Len(line) = long /\ y.c[y.n] = long BY <1>3, LastFacts
<1> HIDE DEF line
<1>6. first \in Text /\ Len(first) = LineLen BY <1>1, <1>5 DEF Text
<1>7. rest \in Text /\ Len(rest) = long - LineLen BY <1>1, <1>5 DEF Text
<1> HIDE DEF first, rest
<1> DEFINE x == WithLast(y, first)
<1>8. Lined(x, Len(first)) /\ x.n = y.n BY <1>3, <1>6, ReplacedLined
<1>9. Broken(z) = AndLine(x, rest) BY <1>4, <1>5, <1>6, <1>7 DEF WithLast, AndLine
<1> HIDE DEF x
<1>10. Len(first) <= LineLen BY <1>1, <1>6
<1>11. Lined(Broken(z), Len(rest)) /\ Broken(z).n = x.n + 1
  BY <1>7, <1>8, <1>9, <1>10, PushedLined
<1>12. Broken(z).n <= Lines + 1 BY <1>1, <1>3, <1>5, <1>8, <1>11
<1> QED BY <1>7, <1>11, <1>12 DEF Counted

\* The screen before the loop.
Longer(z, str) == [z EXCEPT !.t[z.n] = @ \o str, !.c[z.n] = @ + Len(str)]

\* type() puts its text on the last line and counts it there.
LEMMA LongerCounted ==
  ASSUME NEW long \in Nat, NEW z, Counted(z, long), NEW str \in Text
  PROVE  /\ Counted(Longer(z, str), long + Len(str))
         /\ Longer(z, str).n = z.n /\ Longer(z, str).t[z.n] = z.t[z.n] \o str
<1> DEFINE line == z.t[z.n] \o str
<1>1. z.t[z.n] \in Text /\ Len(z.t[z.n]) = long /\ z.c[z.n] = long BY LastFacts DEF Counted
<1>2. line \in Text /\ Len(line) = long + Len(str)
  <2> DEFINE old == z.t[z.n]
  <2>1. old \in Text /\ Len(old) = long BY <1>1
  <2> HIDE DEF old
  <2>2. old \o str \in Text /\ Len(old \o str) = long + Len(str) BY <2>1 DEF Text
  <2> QED BY <2>2 DEF old
<1>3. z = [t |-> z.t, c |-> z.c, n |-> z.n] BY DEF Counted, Lined
<1>4. Longer(z, str) = [t |-> [z.t EXCEPT ![z.n] = line],
                        c |-> [z.c EXCEPT ![z.n] = long + Len(str)], n |-> z.n]
  <2> DEFINE y == Longer(z, str)
  <2>1. y.t = [z.t EXCEPT ![z.n] = line] BY <1>3 DEF Longer
  <2>2. y.c = [z.c EXCEPT ![z.n] = long + Len(str)] BY <1>1, <1>3 DEF Longer
  <2>3. y.n = z.n BY <1>3 DEF Longer
  <2>4. y = [t |-> y.t, c |-> y.c, n |-> y.n]
    <3>1. DOMAIN z = {"t", "c", "n"} BY <1>3
    <3>2. DOMAIN y = {"t", "c", "n"} BY <3>1 DEF Longer
    <3>3. y = [x \in {"t", "c", "n"} |-> y[x]] BY <3>2 DEF Longer
    <3> HIDE DEF y
    <3> QED BY <3>3
  <2> HIDE DEF y
  <2> QED BY <2>1, <2>2, <2>3, <2>4 DEF y
<1>5. Longer(z, str) = WithLast(z, line) BY <1>2, <1>4 DEF WithLast
<1> HIDE DEF line
<1>6. /\ Lined(Longer(z, str), Len(line))
      /\ Longer(z, str).n = z.n /\ Longer(z, str).t[z.n] = line
  <2> DEFINE y == Longer(z, str)
  <2>1. Lined(z, long) /\ line \in Text BY <1>2 DEF Counted
  <2>2. y = WithLast(z, line) BY <1>5
  <2> HIDE DEF y
  <2>3. Lined(y, Len(line)) /\ y.n = z.n /\ y.t[z.n] = line BY <2>1, <2>2, ReplacedLined
  <2> QED BY <2>3 DEF y
<1> QED BY <1>2, <1>6 DEF Counted, line

-----------------------------------------------------------------------------
(* type(): its loop, turn by turn. *)

Turns(f, z, m) == f = [k \in 0 .. m |-> IF k = 0 THEN z ELSE Broken(f[k - 1])]

\* There is a function that the definition of type describes.
LEMMA TurnsExist ==
  ASSUME NEW z, NEW m \in Nat
  PROVE  \E f : Turns(f, z, m)
<1> SUFFICES \E f : f = [k \in 0 .. m |-> IF k = 0 THEN z ELSE Broken(f[k - 1])]
  BY DEF Turns
<1> DEFINE T == {i \in Nat : ~\E f : f = [k \in 0 .. i |-> IF k = 0 THEN z ELSE Broken(f[k - 1])]}
<1>1. SUFFICES ASSUME T # {} PROVE FALSE OBVIOUS
<1>2. T \subseteq Nat OBVIOUS
<1>3. PICK i \in T : \A j \in T : i <= j
  <2> HIDE DEF T
  <2> QED BY <1>1, <1>2, LeastExists
<1>4. i \in Nat /\ ~\E f : f = [k \in 0 .. i |-> IF k = 0 THEN z ELSE Broken(f[k - 1])] BY <1>3
<1>5. CASE i = 0
  <2> DEFINE f == [k \in 0 .. i |-> z]
  <2>1. \A k \in 0 .. i : k = 0 BY <1>5
  <2>2. f = [k \in 0 .. i |-> IF k = 0 THEN z ELSE Broken(f[k - 1])] BY <2>1
  <2> QED BY <1>4, <2>2
<1>6. CASE i # 0
  <2>1. i - 1 \in Nat /\ ~(i <= i - 1) BY <1>4, <1>6
  <2>2. i - 1 \notin T BY <1>3, <2>1
  <2>3. PICK f : f = [k \in 0 .. i - 1 |-> IF k = 0 THEN z ELSE Broken(f[k - 1])] BY <2>1, <2>2
  <2> DEFINE g == [k \in 0 .. i |-> IF k = i THEN Broken(f[i - 1]) ELSE f[k]]
  <2>4. \A k \in 0 .. i : g[k] = IF k = 0 THEN z ELSE Broken(g[k - 1])
    <3> SUFFICES ASSUME NEW k \in 0 .. i PROVE g[k] = IF k = 0 THEN z ELSE Broken(g[k - 1])
      OBVIOUS
    <3>1. CASE k = i
      <4>1. i - 1 \in 0 .. i /\ i - 1 # i BY <1>4, <2>1
      <4>2. g[i] = Broken(f[i - 1]) /\ g[i - 1] = f[i - 1] BY <1>4, <4>1
      <4> HIDE DEF g
      <4> QED BY <1>6, <3>1, <4>2
    <3>2. CASE k # i
      <4>1. k \in 0 .. i - 1 BY <1>4, <3>2
      <4>2. g[k] = f[k] BY <3>2
      <4>3. CASE k = 0
        <5>1. f[k] = z BY <2>3, <4>1, <4>3
        <5> HIDE DEF g
        <5> QED BY <4>2, <4>3, <5>1
      <4>4. CASE k # 0
        <5>1. k - 1 \in 0 .. i /\ k - 1 # i BY <1>4, <4>1, <4>4
        <5>2. g[k - 1] = f[k - 1] BY <5>1
        <5>3. f[k] = Broken(f[k - 1]) BY <2>3, <4>1, <4>4
        <5> HIDE DEF g
        <5> QED BY <4>2, <4>4, <5>2, <5>3
      <4> QED BY <4>3, <4>4
    <3> QED BY <3>1, <3>2
  <2>5. g = [k \in 0 .. i |-> g[k]] OBVIOUS
  <2> HIDE DEF g
  <2>6. g = [k \in 0 .. i |-> IF k = 0 THEN z ELSE Broken(g[k - 1])] BY <2>4, <2>5
  <2> QED BY <1>4, <2>6
<1> QED BY <1>5, <1>6

\* type() is so many turns.
LEMMA TypeTurns ==
  ASSUME NEW z, NEW str, Breaks(z, str) \in Nat
  PROVE  \E f : /\ type(z, str) = f[Breaks(z, str)]
                /\ f[0] = Longer(z, str)
                /\ \A k \in 1 .. Breaks(z, str) : f[k] = Broken(f[k - 1])
<1> DEFINE m == Breaks(z, str)
           f == CHOOSE g : g = [k \in 0 .. m |-> IF k = 0 THEN Longer(z, str) ELSE Broken(g[k - 1])]
<1>1. type(z, str) = f[m] BY DEF type, Longer
<1>2. f = [k \in 0 .. m |-> IF k = 0 THEN Longer(z, str) ELSE Broken(f[k - 1])]
  <2> DEFINE y == Longer(z, str)
  <2>1. m \in Nat OBVIOUS
  <2> HIDE DEF m, y, f
  <2>2. \E g : g = [k \in 0 .. m |-> IF k = 0 THEN y ELSE Broken(g[k - 1])]
    <3>1. \E g : Turns(g, y, m) BY <2>1, TurnsExist
    <3> QED BY <3>1 DEF Turns
  <2> QED BY <2>2 DEF y, f
<1>3. m \in Nat OBVIOUS
<1> HIDE DEF f, m
<1>4. 0 \in 0 .. m /\ \A k \in 1 .. m : k \in 0 .. m /\ k # 0 BY <1>3
<1>5. f[0] = Longer(z, str) BY <1>2, <1>4
<1>6. \A k \in 1 .. m : f[k] = Broken(f[k - 1]) BY <1>2, <1>4
<1> QED BY <1>1, <1>5, <1>6 DEF m

-----------------------------------------------------------------------------
\* A quotient of naturals, rounded down.
LEMMA QuotientFacts ==
  ASSUME NEW a \in Nat, NEW b \in Nat \ {0}
  PROVE  a \div b \in Nat /\ (a \div b) * b <= a /\ a < (a \div b) * b + b
OBVIOUS

\* One more time a number is still no more than more times.
LEMMA TimesFacts ==
  ASSUME NEW k \in Nat, NEW m \in Nat, NEW b \in Nat, k < m
  PROVE  k * b \in Nat /\ m * b \in Nat /\ (k + 1) * b = k * b + b /\ k * b + b <= m * b
<1>1. k * b \in Nat /\ m * b \in Nat /\ (m - (k + 1)) * b \in Nat OBVIOUS
<1>2. (k + 1) * b = k * b + b OBVIOUS
<1>3. m * b = (m - (k + 1)) * b + (k + 1) * b OBVIOUS
<1> QED BY <1>1, <1>2, <1>3

\* How far k turns are from the end.
LEMMA BreaksFacts ==
  ASSUME NEW z, NEW str, NEW long \in Nat, long = z.c[z.n] + Len(str)
  PROVE  /\ Breaks(z, str) \in Nat
         /\ long - Breaks(z, str) * LineLen \in 0 .. LineLen
         /\ \A k \in Nat : k < Breaks(z, str) => long - k * LineLen > LineLen
         /\ Breaks(z, str) = 0 <=> long <= LineLen
<1> DEFINE m == Breaks(z, str)
<1>1. LineLen \in Nat \ {0} BY ScreenAssumption
<1>2. CASE long <= LineLen
  <2>1. m = 0 BY <1>2 DEF Breaks
  <2> HIDE DEF m
  <2>2. m * LineLen = 0 BY <1>1, <2>1
  <2>3. long - m * LineLen \in 0 .. LineLen BY <1>1, <1>2, <2>2
  <2> QED BY <1>2, <2>1, <2>3 DEF m
<1>3. CASE ~(long <= LineLen)
  <2>1. m = (long - 1) \div LineLen /\ long - 1 \in Nat BY <1>1, <1>3 DEF Breaks
  <2> HIDE DEF m
  <2>2. m \in Nat /\ m * LineLen <= long - 1 /\ long - 1 < m * LineLen + LineLen
    BY <1>1, <2>1, QuotientFacts
  <2>3. m * LineLen \in Nat BY <1>1, <2>2
  <2>4. m # 0
    <3> SUFFICES ASSUME m = 0 PROVE FALSE OBVIOUS
    <3>1. m * LineLen = 0 BY <1>1
    <3> QED BY <1>1, <1>3, <2>2, <3>1
  <2>5. long - m * LineLen \in 0 .. LineLen BY <1>1, <2>2, <2>3
  <2>6. ASSUME NEW k \in Nat, k < m PROVE long - k * LineLen > LineLen
    <3>1. k * LineLen \in Nat /\ k * LineLen + LineLen <= m * LineLen
      BY <1>1, <2>2, <2>6, TimesFacts
    <3> DEFINE a == k * LineLen
               b == m * LineLen
    <3>2. a \in Nat /\ b \in Nat /\ a + LineLen <= b /\ b <= long - 1 BY <2>2, <2>3, <3>1
    <3> HIDE DEF a, b
    <3>3. long - a > LineLen BY <1>1, <3>2
    <3> QED BY <3>3 DEF a
  <2> QED BY <1>3, <2>2, <2>4, <2>5, <2>6 DEF m
<1> QED BY <1>2, <1>3

\* Output leaves lines that fit, and one line longer if it fits that.
LEMMA TypeCounted ==
  ASSUME NEW long \in Nat, NEW z, Counted(z, long), NEW str \in Text
  PROVE  /\ \E left \in 0 .. LineLen : Counted(type(z, str), left)
         /\ Breaks(z, str) = 0 =>
              type(z, str).n = z.n /\ type(z, str).t[z.n] = z.t[z.n] \o str
<1> DEFINE m == Breaks(z, str)
           all == long + Len(str)
<1>1. Len(str) \in Nat /\ all \in Nat /\ LineLen \in Nat BY ScreenAssumption DEF Text
<1>2. all = z.c[z.n] + Len(str) BY DEF Counted, Lined
<1> HIDE DEF all
<1>3. /\ m \in Nat /\ all - m * LineLen \in 0 .. LineLen
      /\ \A k \in Nat : k < m => all - k * LineLen > LineLen
  BY <1>1, <1>2, BreaksFacts
<1>4. PICK f : /\ type(z, str) = f[m] /\ f[0] = Longer(z, str)
               /\ \A k \in 1 .. m : f[k] = Broken(f[k - 1])
  BY <1>3, TypeTurns
<1>5. /\ Counted(f[0], all)
      /\ f[0].n = z.n /\ f[0].t[z.n] = z.t[z.n] \o str
  BY <1>4, LongerCounted DEF all
<1> HIDE DEF m
<1>6. ASSUME NEW k \in 0 .. m PROVE Counted(f[k], all - k * LineLen)
  <2> DEFINE T == {i \in 0 .. m : ~Counted(f[i], all - i * LineLen)}
  <2>1. SUFFICES ASSUME T # {} PROVE FALSE OBVIOUS
  <2>2. T \subseteq Nat OBVIOUS
  <2>3. PICK i \in T : \A j \in T : i <= j
    <3> HIDE DEF T
    <3> QED BY <2>1, <2>2, LeastExists
  <2>4. i \in 0 .. m /\ ~Counted(f[i], all - i * LineLen) BY <2>3
  <2>5. CASE i = 0
    <3>1. all - i * LineLen = all BY <1>1, <2>5
    <3> QED BY <1>5, <2>4, <2>5, <3>1
  <2>6. CASE i # 0
    <3>1. i - 1 \in 0 .. m /\ i \in 1 .. m /\ i - 1 \in Nat /\ i - 1 < m /\ ~(i <= i - 1)
      BY <1>3, <2>4, <2>6
    <3>2. Counted(f[i - 1], all - (i - 1) * LineLen) BY <2>3, <3>1
    <3>3. /\ (i - 1) * LineLen \in Nat /\ all - (i - 1) * LineLen > LineLen
      BY <1>1, <1>3, <3>1, TimesFacts
    <3> DEFINE now == all - (i - 1) * LineLen
    <3>4. now \in Nat /\ now > LineLen BY <1>1, <3>3
    <3>5. now - LineLen = all - i * LineLen
      <4>1. ((i - 1) + 1) * LineLen = (i - 1) * LineLen + LineLen BY <1>1, <1>3, <3>1, TimesFacts
      <4>2. (i - 1) + 1 = i BY <3>1
      <4>3. i * LineLen = (i - 1) * LineLen + LineLen BY <4>1, <4>2
      <4> QED BY <1>1, <3>3, <4>3
    <3> HIDE DEF now
    <3>6. Counted(Broken(f[i - 1]), now - LineLen)
      <4>1. Counted(f[i - 1], now) BY <3>2 DEF now
      <4> QED BY <3>4, <4>1, BrokenCounted
    <3> QED BY <1>4, <2>4, <3>1, <3>5, <3>6
  <2> QED BY <2>5, <2>6
<1>7. Counted(f[m], all - m * LineLen) BY <1>3, <1>6
<1>8. \E left \in 0 .. LineLen : Counted(type(z, str), left) BY <1>3, <1>4, <1>7
<1> QED BY <1>4, <1>5, <1>8 DEF m

\* On a screen where all fits, the last line has at most its width.
LEMMA FitsFacts ==
  ASSUME NEW z, Fits(z)
  PROVE  /\ z.c[z.n] \in 0 .. LineLen /\ z.c[z.n] \in Nat /\ LineLen \in Nat /\ Lines \in Nat \ {0}
         /\ Counted(z, z.c[z.n]) /\ Lined(z, z.c[z.n]) /\ z.n \in 1 .. Lines + 1
<1>1. PICK long \in 0 .. LineLen : Counted(z, long) BY DEF Fits
<1>2. z.c[z.n] = long /\ Lined(z, long) /\ z.n \in Nat \ {0} /\ z.n <= Lines + 1
  BY <1>1, LastFacts DEF Counted
<1>3. LineLen \in Nat \ {0} /\ Lines \in Nat \ {0} BY ScreenAssumption
<1> QED BY <1>1, <1>2, <1>3

\* type() leaves a screen where all fits; without a break it adds its text to the last line.
LEMMA TypeFits ==
  ASSUME NEW z, Fits(z), NEW str \in Text
  PROVE  /\ Fits(type(z, str))
         /\ Breaks(z, str) = 0 =>
              type(z, str).n = z.n /\ type(z, str).t[z.n] = z.t[z.n] \o str
BY FitsFacts, TypeCounted DEF Fits

\* A new line leaves a screen where all fits.
LEMMA CrFits ==
  ASSUME NEW z, Fits(z)
  PROVE  Fits(cr(z))
<1> DEFINE y == [t |-> Append(z.t, <<>>), c |-> Append(z.c, 0), n |-> z.n + 1]
           long == z.c[z.n]
<1>1. /\ long \in 0 .. LineLen /\ Lined(z, long) /\ z.n \in 1 .. Lines + 1
      /\ Lines \in Nat \ {0} /\ LineLen \in Nat
  BY FitsFacts
<1>2. <<>> \in Text /\ Len(<<>>) = 0 BY DEF Text
<1>3. y = AndLine(z, <<>>) BY <1>2 DEF AndLine
<1>4. cr(z) = IF y.n > Lines THEN Without(y, y.n - Lines) ELSE y BY DEF cr
<1> HIDE DEF y, long
<1>5. Lined(y, 0) /\ y.n = z.n + 1
  <2>1. long <= LineLen BY <1>1
  <2> QED BY <1>1, <1>2, <1>3, <2>1, PushedLined
<1>6. CASE y.n > Lines
  <2>1. y.n - Lines \in 0 .. y.n - 1 /\ y.n - (y.n - Lines) = Lines BY <1>1, <1>5, <1>6
  <2>2. Lined(Without(y, y.n - Lines), 0) /\ Without(y, y.n - Lines).n = Lines
    BY <1>5, <2>1, WithoutLined
  <2>3. Counted(cr(z), 0) BY <1>1, <1>4, <1>6, <2>2 DEF Counted
  <2> QED BY <1>1, <2>3 DEF Fits
<1>7. CASE ~(y.n > Lines)
  <2>1. y.n <= Lines + 1 BY <1>1, <1>5, <1>7
  <2>2. Counted(cr(z), 0) BY <1>4, <1>5, <1>7, <2>1 DEF Counted
  <2> QED BY <1>1, <2>2 DEF Fits
<1> QED BY <1>6, <1>7

\* So does a text put on a new line when it does not fit the old one.
LEMMA QueryFits ==
  ASSUME NEW z, Fits(z), NEW str \in Text
  PROVE  Fits(querytype(z, str))
BY CrFits, TypeFits DEF querytype

\* One empty line.
LEMMA EmptyFits ==
  ASSUME NEW w, NEW z, z = cls(w)
  PROVE  Fits(z)
<1>1. LineLen \in Nat \ {0} /\ Lines \in Nat \ {0} BY ScreenAssumption
<1>2. <<>> \in Text /\ Len(<<>>) = 0 BY DEF Text
<1>3. z.t \in Seq(Text) /\ Len(z.t) = 1 /\ z.t[1] = <<>> BY <1>2 DEF cls
<1>4. z.c \in Seq(Nat) /\ Len(z.c) = 1 /\ z.c[1] = 0 BY DEF cls
<1>5. z.n = 1 /\ z = [t |-> z.t, c |-> z.c, n |-> z.n] BY DEF cls
<1>6. \A i \in 1 .. 1 : z.c[i] = Len(z.t[i]) BY <1>2, <1>3, <1>4
<1>7. Lined(z, 0) BY <1>3, <1>4, <1>5, <1>6 DEF Lined
<1>8. Counted(z, 0) /\ 0 \in 0 .. LineLen BY <1>1, <1>5, <1>7 DEF Counted
<1> QED BY <1>8 DEF Fits

\* The last line loses its last k characters, or all it has.
LEMMA BackFits ==
  ASSUME NEW z, Fits(z), NEW k \in Nat
  PROVE  /\ Fits(backspaces(z, k)) /\ backspaces(z, k).n = z.n
         /\ k <= Len(z.t[z.n]) =>
              backspaces(z, k).t[z.n] = SubSeq(z.t[z.n], 1, Len(z.t[z.n]) - k)
<1> DEFINE long == z.c[z.n]
           left == IF long < k THEN 0 ELSE long - k
           line == SubSeq(z.t[z.n], 1, left)
           y == backspaces(z, k)
<1>1. /\ long \in 0 .. LineLen /\ Lined(z, long) /\ z.n \in 1 .. Lines + 1
      /\ Lines \in Nat \ {0} /\ LineLen \in Nat
  BY FitsFacts
<1>2. z.t[z.n] \in Text /\ Len(z.t[z.n]) = long /\ long \in Nat BY <1>1, LastFacts
<1> HIDE DEF long
<1>3. left \in 0 .. LineLen /\ left \in 0 .. long BY <1>1, <1>2
<1>4. z = [t |-> z.t, c |-> z.c, n |-> z.n] BY <1>1 DEF Lined
<1>5. y = [t |-> [z.t EXCEPT ![z.n] = line], c |-> [z.c EXCEPT ![z.n] = left], n |-> z.n]
  <2>1. y = [z EXCEPT !.t[z.n] = SubSeq(@, 1, left), !.c[z.n] = left] BY DEF backspaces, long
  <2>2. y.t = [z.t EXCEPT ![z.n] = line] BY <1>4, <2>1
  <2>3. y.c = [z.c EXCEPT ![z.n] = left] BY <1>4, <2>1
  <2>4. y.n = z.n BY <1>4, <2>1
  <2>5. DOMAIN z = {"t", "c", "n"} BY <1>4
  <2>6. DOMAIN y = {"t", "c", "n"} BY <2>1, <2>5
  <2>7. y = [x \in {"t", "c", "n"} |-> y[x]] BY <2>1, <2>6
  <2> HIDE DEF y
  <2> QED BY <2>2, <2>3, <2>4, <2>7
<1> HIDE DEF y, left
<1>6. line \in Text /\ Len(line) = left BY <1>2, <1>3 DEF Text
<1> HIDE DEF line
<1>7. Lined(y, Len(line)) /\ y.n = z.n /\ y.t[z.n] = line
  <2>1. y = WithLast(z, line) BY <1>5, <1>6 DEF WithLast
  <2> QED BY <1>1, <1>6, <2>1, ReplacedLined
<1>8. Counted(y, left) BY <1>1, <1>6, <1>7 DEF Counted
<1>9. Fits(y) BY <1>3, <1>8 DEF Fits
<1>10. k <= long => left = long - k BY <1>2 DEF left
<1> QED BY <1>2, <1>7, <1>9, <1>10 DEF y, line

-----------------------------------------------------------------------------
(* The screen and ACCEPT. *)

\* The inductive invariant.
ConsoleInv ==
  /\ Fits(Screen)
  /\ input \in Text /\ before \in Text /\ nkeys \in Nat
  /\ EchoIsInput

\* What is shown becomes the variables of the screen.
LEMMA ShownFits ==
  ASSUME NEW z, Fits(z), Shows(z)
  PROVE  Fits(Screen)' /\ terminal' = z.t /\ linesonscreen' = z.n
<1>1. z = [t |-> z.t, c |-> z.c, n |-> z.n] BY FitsFacts DEF Lined
<1>2. Screen' = z BY <1>1 DEF Screen, Shows
<1>3. Fits(Screen') BY <1>2
<1> QED BY <1>3 DEF Shows, Fits, Counted, Lined

\* The last line on screen.
LEMMA ScreenFacts ==
  ASSUME Fits(Screen)
  PROVE  /\ Screen.n = linesonscreen /\ Screen.t[Screen.n] = terminal[linesonscreen]
         /\ terminal[linesonscreen] \in Text
         /\ linesonscreen \in Nat /\ TibSize \in Nat
BY FitsFacts, LastFacts, ScreenAssumption DEF Screen

\* A program's output keeps the terminal's invariant.
LEMMA OutputStep == ConsoleInv /\ Output => ConsoleInv'
<1> SUFFICES ASSUME ConsoleInv, Output PROVE ConsoleInv' OBVIOUS
<1>1. /\ nkeys = 0 /\ nkeys' = nkeys /\ input' = input /\ before' = before /\ broken' = broken
      /\ Fits(Screen)
  BY DEF Output, ConsoleInv
<1>2. \E z : Fits(z) /\ Shows(z)
  <2>1. ASSUME NEW str \in Typed, Shows(type(Screen, str)) PROVE \E z : Fits(z) /\ Shows(z)
    BY <1>1, <2>1, TypeFits, TypedAssumption DEF Text
  <2>2. ASSUME NEW str \in Typed, Shows(querytype(Screen, str)) PROVE \E z : Fits(z) /\ Shows(z)
    BY <1>1, <2>2, QueryFits, TypedAssumption DEF Text
  <2>3. CASE Shows(cr(Screen)) BY <1>1, <2>3, CrFits
  <2>4. CASE Shows(cls(Screen)) BY <1>1, <2>4, EmptyFits
  <2> QED BY <2>1, <2>2, <2>3, <2>4 DEF Output
<1>3. Fits(Screen)' BY <1>2, ShownFits
<1> QED BY <1>1, <1>3 DEF ConsoleInv, EchoIsInput

\* So does the beginning of ACCEPT.
LEMMA AcceptStep == ConsoleInv /\ Accept => ConsoleInv'
<1> SUFFICES ASSUME ConsoleInv, Accept PROVE ConsoleInv' OBVIOUS
<1>1. /\ Fits(Screen) /\ nkeys' = TibSize + 1 /\ input' = <<>> /\ before' = terminal[linesonscreen]
      /\ terminal' = terminal /\ charsperline' = charsperline /\ linesonscreen' = linesonscreen
  BY DEF Accept, ConsoleInv, screen
<1>2. /\ terminal[linesonscreen] \in Text /\ linesonscreen \in Nat /\ TibSize \in Nat
  BY <1>1, ScreenFacts
<1>3. Fits(Screen)'
  <2>1. Screen' = Screen BY <1>1 DEF Screen
  <2>2. Fits(Screen') BY <1>1, <2>1
  <2> QED BY <2>2 DEF Fits, Counted, Lined
<1>4. <<>> \in Text /\ Len(<<>>) = 0 BY DEF Text
<1>5. terminal[linesonscreen] \o <<>> = terminal[linesonscreen] BY <1>2 DEF Text
<1> QED BY <1>1, <1>2, <1>3, <1>4, <1>5 DEF ConsoleInv, EchoIsInput

\* So does a key that is stored and shown.
LEMMA PrintableStep ==
  ASSUME ConsoleInv, NEW key \in Keys, forthacceptprintable(key)
  PROVE  ConsoleInv'
<1>1. /\ Fits(Screen) /\ input \in Text /\ before \in Text /\ nkeys \in Nat /\ nkeys > 0
      /\ before' = before /\ Len(input) + nkeys = TibSize + 1
      /\ ~broken => terminal[linesonscreen] = before \o input
  BY DEF ConsoleInv, EchoIsInput, forthacceptprintable
<1>2. CASE nkeys > 1
  <2> DEFINE str == <<key>>
             z == type(Screen, str)
  <2>1. /\ input' = Append(input, key) /\ nkeys' = nkeys - 1 /\ Shows(z)
        /\ broken' = (broken \/ Breaks(Screen, str) > 0)
    BY <1>2 DEF forthacceptprintable, RoomLeft
  <2>2. str \in Text /\ Len(str) = 1 BY DEF Text, Chars
  <2>3. /\ Screen.n = linesonscreen /\ Screen.t[Screen.n] = terminal[linesonscreen]
        /\ TibSize \in Nat
    BY <1>1, ScreenFacts
  <2>4. Fits(z) /\ (Breaks(Screen, str) = 0 =>
                      z.n = linesonscreen /\ z.t[linesonscreen] = terminal[linesonscreen] \o str)
    BY <1>1, <2>2, <2>3, TypeFits
  <2>5. Fits(Screen)' /\ terminal' = z.t /\ linesonscreen' = z.n BY <2>1, <2>4, ShownFits
  <2>6. Breaks(Screen, str) \in Nat
    <3>1. Screen.c[Screen.n] \in Nat BY <1>1, FitsFacts
    <3>2. Screen.c[Screen.n] + Len(str) \in Nat BY <2>2, <3>1
    <3> QED BY <3>2, BreaksFacts
  <2> HIDE DEF z
  <2>7. Append(input, key) \in Text /\ Len(Append(input, key)) = Len(input) + 1
    BY <1>1 DEF Text, Chars
  <2>8. ASSUME ~broken' PROVE terminal'[linesonscreen'] = before' \o input'
    <3>1. ~broken /\ Breaks(Screen, str) = 0
      <4>1. ~broken /\ ~(Breaks(Screen, str) > 0) BY <2>1, <2>8
      <4> QED BY <2>6, <4>1
    <3>2. terminal'[linesonscreen'] = (before \o input) \o str BY <1>1, <2>4, <2>5, <3>1
    <3>3. (before \o input) \o str = before \o Append(input, key) BY <1>1, <2>2 DEF Text
    <3> QED BY <1>1, <2>1, <3>2, <3>3
  <2>9. Len(input)' + nkeys' = TibSize + 1 /\ nkeys' \in Nat /\ Len(input)' <= TibSize
    <3>1. Len(input) \in Nat BY <1>1 DEF Text
    <3> QED BY <1>1, <1>2, <2>1, <2>3, <2>7, <3>1
  <2> QED BY <1>1, <2>1, <2>5, <2>7, <2>8, <2>9 DEF ConsoleInv, EchoIsInput
<1>3. CASE ~(nkeys > 1)
  <2>1. /\ nkeys' = nkeys /\ input' = input /\ broken' = broken
        /\ terminal' = terminal /\ charsperline' = charsperline /\ linesonscreen' = linesonscreen
    BY <1>3 DEF forthacceptprintable, RoomLeft, screen
  <2>2. Fits(Screen)'
    <3>1. Screen' = Screen BY <2>1 DEF Screen
    <3>2. Fits(Screen') BY <1>1, <3>1
    <3> QED BY <3>2 DEF Fits, Counted, Lined
  <2> QED BY <1>1, <2>1, <2>2 DEF ConsoleInv, EchoIsInput
<1> QED BY <1>2, <1>3

\* The last k characters are deleted, in memory and on screen.
LEMMA DeletedStep ==
  ASSUME ConsoleInv, nkeys > 0, NEW k \in 0 .. Len(input),
         input' = SubSeq(input, 1, Len(input) - k), nkeys' = nkeys + k,
         Shows(backspaces(Screen, k)), before' = before, broken' = broken
  PROVE  ConsoleInv'
<1> DEFINE z == backspaces(Screen, k)
           line == terminal[linesonscreen]
<1>1. /\ Fits(Screen) /\ input \in Text /\ before \in Text /\ nkeys \in Nat
      /\ Len(input) + nkeys = TibSize + 1
      /\ ~broken => line = before \o input
  BY DEF ConsoleInv, EchoIsInput
<1>2. /\ Screen.n = linesonscreen /\ Screen.t[Screen.n] = line
      /\ TibSize \in Nat
  BY <1>1, ScreenFacts
<1>3. Len(input) \in Nat /\ Len(before) \in Nat /\ k \in Nat /\ k <= Len(input) BY <1>1 DEF Text
<1>4. /\ Fits(z) /\ z.n = linesonscreen
      /\ k <= Len(line) => z.t[linesonscreen] = SubSeq(line, 1, Len(line) - k)
  BY <1>1, <1>2, <1>3, BackFits
<1>5. Fits(Screen)' /\ terminal' = z.t /\ linesonscreen' = z.n BY <1>4, ShownFits
<1> HIDE DEF z, line
<1>6. input' \in Text /\ Len(input') = Len(input) - k BY <1>1, <1>3 DEF Text
<1>7. ASSUME ~broken PROVE terminal'[linesonscreen'] = before \o input'
  <2>1. line = before \o input /\ Len(line) = Len(before) + Len(input) BY <1>1, <1>7 DEF Text
  <2>2. k <= Len(line) BY <1>3, <2>1
  <2>3. terminal'[linesonscreen'] = SubSeq(line, 1, Len(line) - k) BY <1>4, <1>5, <2>2
  <2>4. SubSeq(before \o input, 1, Len(before) + (Len(input) - k))
          = before \o SubSeq(input, 1, Len(input) - k)
    <3>1. Len(input) - k \in 0 .. Len(input) BY <1>3
    <3> QED BY <1>1, <3>1, CutJoined DEF Text
  <2>5. Len(line) - k = Len(before) + (Len(input) - k) BY <1>3, <2>1
  <2> QED BY <2>1, <2>3, <2>4, <2>5
<1>8. Len(input') + nkeys' = TibSize + 1 /\ nkeys' \in Nat /\ Len(input') <= TibSize
  <2> DEFINE m == Len(input)
             l == Len(input')
  <2>1. /\ m \in Nat /\ l = m - k /\ k \in Nat /\ k <= m /\ m + nkeys = TibSize + 1
        /\ nkeys \in Nat /\ nkeys > 0
    BY <1>1, <1>3, <1>6
  <2> HIDE DEF m, l
  <2>2. l + nkeys' = TibSize + 1 /\ nkeys' \in Nat /\ l <= TibSize BY <1>2, <2>1
  <2> QED BY <2>2 DEF l
<1> QED BY <1>1, <1>5, <1>6, <1>7, <1>8 DEF ConsoleInv, EchoIsInput

\* Every step of the terminal keeps its invariant.
LEMMA ConsoleStep == ConsoleInv /\ [ConsoleNext]_consoleVars => ConsoleInv'
<1> SUFFICES ASSUME ConsoleInv, [ConsoleNext]_consoleVars PROVE ConsoleInv' OBVIOUS
<1>1. Len(input) \in Nat /\ input \in Text /\ nkeys \in Nat BY DEF ConsoleInv, Text
<1>2. ASSUME screen' = screen, input' = input, before' \in Text, nkeys' = 0 PROVE ConsoleInv'
  <2>1. Fits(Screen') BY <1>2 DEF screen, Screen, ConsoleInv
  <2>2. Fits(Screen)' BY <2>1 DEF Fits, Counted, Lined
  <2> QED BY <1>2, <2>2 DEF ConsoleInv, EchoIsInput
<1>3. ASSUME consoleVars' = consoleVars PROVE ConsoleInv'
  <2>1. /\ terminal' = terminal /\ charsperline' = charsperline /\ linesonscreen' = linesonscreen
        /\ input' = input /\ nkeys' = nkeys /\ before' = before /\ broken' = broken
    BY <1>3 DEF consoleVars, screen
  <2>2. Fits(Screen') BY <2>1 DEF Screen, ConsoleInv
  <2>3. Fits(Screen)' BY <2>2 DEF Fits, Counted, Lined
  <2> QED BY <2>1, <2>3 DEF ConsoleInv, EchoIsInput
<1>4. CASE Output BY <1>4, OutputStep
<1>5. CASE Accept BY <1>5, AcceptStep
<1>6. ASSUME NEW key \in Keys, forthacceptprintable(key) PROVE ConsoleInv'
  BY <1>6, PrintableStep
<1>7. CASE forthacceptescape
  <2>1. Len(input) \in 0 .. Len(input) /\ Len(input) - Len(input) = 0 BY <1>1
  <2>2. SubSeq(input, 1, 0) = <<>> BY <1>1 DEF Text
  <2>3. input' = SubSeq(input, 1, Len(input) - Len(input)) BY <1>7, <2>1, <2>2
    DEF forthacceptescape
  <2> QED BY <1>7, <2>1, <2>3, DeletedStep DEF forthacceptescape
<1>8. CASE forthacceptbackspace
  <2>1. CASE input = <<>>
    <3>1. consoleVars' = consoleVars BY <1>8, <2>1 DEF forthacceptbackspace, consoleVars
    <3> QED BY <1>3, <3>1
  <2>2. CASE input # <<>>
    <3>1. Len(input) # 0 BY <1>1, <2>2 DEF Text
    <3>2. 1 \in 0 .. Len(input) BY <1>1, <3>1
    <3> QED BY <1>8, <2>2, <3>2, DeletedStep DEF forthacceptbackspace
  <2> QED BY <2>1, <2>2
<1>9. CASE forthacceptreturn
  <2>1. <<>> \in Text BY DEF Text
  <2> QED BY <1>2, <1>9, <2>1 DEF forthacceptreturn
<1> QED BY <1>3, <1>4, <1>5, <1>6, <1>7, <1>8, <1>9 DEF ConsoleNext

\* Lines that are counted and fit, and an echo in step with memory.
THEOREM ConsoleInvariant == ConsoleSpec => []ConsoleInv
<1>1. ConsoleInit => ConsoleInv
  <2> SUFFICES ASSUME ConsoleInit PROVE ConsoleInv OBVIOUS
  <2>1. /\ terminal = << <<>> >> /\ charsperline = <<0>> /\ linesonscreen = 1
        /\ input = <<>> /\ nkeys = 0 /\ before = <<>>
    BY DEF ConsoleInit
  <2>2. Fits(Screen)
    <3>1. Screen = cls(Screen) BY <2>1 DEF Screen, cls
    <3> QED BY <3>1, EmptyFits
  <2>3. <<>> \in Text /\ Len(<<>>) = 0 BY DEF Text
  <2>4. TibSize \in Nat BY ScreenAssumption
  <2> QED BY <2>1, <2>2, <2>3, <2>4 DEF ConsoleInv, EchoIsInput
<1> QED BY <1>1, ConsoleStep, PTL DEF ConsoleSpec

\* For any terminal and any texts, the counts stay those of the lines, which
\* stay within the terminal's width.
THEOREM ScreenStaysCounted == ConsoleSpec => []ScreenCounted
<1>1. ConsoleInv => ScreenCounted
  <2> SUFFICES ASSUME ConsoleInv PROVE ScreenCounted OBVIOUS
  <2> DEFINE z == Screen
  <2>1. /\ z.c[z.n] \in 0 .. LineLen /\ Lined(z, z.c[z.n]) /\ z.n \in 1 .. Lines + 1
        /\ LineLen \in Nat
    BY FitsFacts DEF ConsoleInv
  <2>2. z.t = terminal /\ z.c = charsperline /\ z.n = linesonscreen BY DEF Screen
  <2> HIDE DEF z
  <2>3. z.n \in Nat /\ \A i \in 1 .. z.n : i \in 1 .. z.n - 1 \/ i = z.n BY <2>1
  <2>4. \A i \in 1 .. z.n : z.c[i] <= LineLen BY <2>1, <2>3 DEF Lined
  <2>5. /\ Len(terminal) = linesonscreen /\ Len(charsperline) = linesonscreen
        /\ DOMAIN terminal = 1 .. linesonscreen
    BY <2>1, <2>2 DEF Lined
  <2> QED BY <2>1, <2>2, <2>4, <2>5 DEF ScreenCounted, Lined
<1> QED BY <1>1, ConsoleInvariant, PTL

\* For any keys, in any order, ACCEPT stores no more than it was asked for,
\* and while no line broke the screen shows what is stored.
THEOREM EchoStaysInput == ConsoleSpec => []EchoIsInput
<1>1. ConsoleInv => EchoIsInput BY DEF ConsoleInv
<1> QED BY <1>1, ConsoleInvariant, PTL

-----------------------------------------------------------------------------
(* Where the program is read from. *)

\* The first elements of a sequence over a set.
LEMMA CutFacts ==
  ASSUME NEW S, NEW q \in Seq(S), NEW m \in 0 .. Len(q)
  PROVE  /\ SubSeq(q, 1, m) \in Seq(S) /\ Len(SubSeq(q, 1, m)) = m
         /\ \A i \in 1 .. m : SubSeq(q, 1, m)[i] = q[i]
OBVIOUS

\* None, one or two elements joined to a sequence.
LEMMA JoinedSeq ==
  ASSUME NEW q, IsSeq(q), NEW x, NEW y
  PROVE  /\ q \o <<>> = q /\ q \o <<x>> = Append(q, x)
         /\ q \o <<x, y>> = Append(Append(q, x), y)
<1> DEFINE S == {q[i] : i \in DOMAIN q} \cup {x, y}
<1>1. q \in Seq(S)
  <2>1. Len(q) \in Nat /\ DOMAIN q = 1 .. Len(q) /\ q = [i \in 1 .. Len(q) |-> q[i]] BY SeqFacts
  <2>2. q \in [1 .. Len(q) -> S] BY <2>1
  <2> HIDE DEF S
  <2> QED BY <2>1, <2>2
<1>2. x \in S /\ y \in S OBVIOUS
<1> HIDE DEF S
<1> QED BY <1>1, <1>2

-----------------------------------------------------------------------------
(* Input sources.  The return stack is in levels: a level begins after the   *)
(* one below it, and is EVALUATE's frame with LOAD's and CATCH's below it.   *)

Start(g, j) == IF j = 1 THEN 0 ELSE g[j - 1]

\* The level of EVALUATE's frame b, above a, does not load a block.
Unloaded(fs, a, b) == b = a + 1 \/ fs[b - 1].word # "load"

\* The frames a + 1 .. b are a level.
Level(fs, a, b) ==
  /\ fs[b].word = "evaluate"
  /\ \/ b = a + 1
     \/ b = a + 2 /\ fs[a + 1].word \in {"load", "catch"}
     \/ b = a + 3 /\ fs[a + 1].word = "catch" /\ fs[a + 2].word = "load"
  /\ Unloaded(fs, a, b) \/ fs[b - 1].saved = fs[b].from.blk

\* The tops of the levels of fs are g.
Levels(fs, g) ==
  /\ g \in Seq(Nat)
  /\ Len(fs) = IF Len(g) = 0 THEN 0 ELSE g[Len(g)]
  /\ \A j \in 1 .. Len(g) :
       g[j] \in 1 .. Len(fs) /\ Start(g, j) < g[j] /\ Level(fs, Start(g, j), g[j])

\* The last positions saved are those of the levels' callers, and each caller
\* but those of LOAD had the BLK that the level has, or had when it called.
Rejoined(fs, g, ids, b) ==
  /\ Len(g) <= Len(ids)
  /\ \A j \in 1 .. Len(g) :
       LET from == fs[g[j]].from
       IN /\ from = [source |-> from.source, toin |-> from.toin, blk |-> from.blk]
          /\ ids[Len(ids) - Len(g) + j] = <<from.toin, from.source>>
          /\ Unloaded(fs, Start(g, j), g[j]) =>
               from.blk = IF j = Len(g) THEN b ELSE fs[g[j + 1]].from.blk

\* The inductive invariant.
SourcesInv ==
  /\ IsSeq(frames) /\ IsSeq(sourceid)
  /\ ~caught => \E g : Levels(frames, g) /\ Rejoined(frames, g, sourceid, blk)

\* Where a level of the return stack begins and ends.
LEMMA LevelFacts ==
  ASSUME NEW fs, NEW g, Levels(fs, g), NEW j \in 1 .. Len(g)
  PROVE  /\ Len(g) \in Nat /\ g[j] \in Nat \ {0} /\ Start(g, j) \in Nat
         /\ Start(g, j) < g[j] /\ g[j] \in 1 .. Len(fs) /\ Level(fs, Start(g, j), g[j])
         /\ Start(g, j) # 0 => /\ j - 1 \in 1 .. Len(g) /\ Start(g, j) = g[j - 1]
                               /\ fs[Start(g, j)].word = "evaluate"
<1>1. Len(g) \in Nat /\ g \in Seq(Nat) /\ j \in Nat \ {0} BY DEF Levels
<1>2. g[j] \in Nat /\ g[j] \in 1 .. Len(fs) /\ Start(g, j) < g[j] /\ Level(fs, Start(g, j), g[j])
  BY <1>1 DEF Levels
<1>3. CASE j = 1
  <2>1. Start(g, j) = 0 BY <1>3 DEF Start
  <2> QED BY <1>1, <1>2, <2>1
<1>4. CASE j # 1
  <2>1. j - 1 \in 1 .. Len(g) BY <1>1, <1>4
  <2>2. Start(g, j) = g[j - 1] /\ g[j - 1] \in Nat BY <1>1, <1>4, <2>1 DEF Start
  <2>3. fs[g[j - 1]].word = "evaluate" BY <2>1 DEF Levels, Level
  <2> QED BY <1>1, <1>2, <2>1, <2>2, <2>3
<1> QED BY <1>3, <1>4

\* The first k frames of both are the same.
Alike(gs, fs, k) == \A i \in 1 .. k : gs[i] = fs[i]

\* A level is made by its frames alone.
LEMMA SameLevel ==
  ASSUME NEW fs, NEW gs, NEW k \in Nat, Alike(gs, fs, k),
         NEW y \in 1 .. k, NEW x \in Nat, x < y, Level(fs, x, y)
  PROVE  Level(gs, x, y) /\ (Unloaded(gs, x, y) <=> Unloaded(fs, x, y))
<1>0. \A i \in 1 .. k : gs[i] = fs[i] BY DEF Alike
<1> USE <1>0
<1>1. gs[y] = fs[y] OBVIOUS
<1>2. y # x + 1 => y - 1 \in 1 .. k OBVIOUS
<1>3. y # x + 1 => gs[y - 1] = fs[y - 1] BY <1>2
<1>4. Unloaded(gs, x, y) <=> Unloaded(fs, x, y) BY <1>3 DEF Unloaded
<1>5. x + 1 \in 1 .. k OBVIOUS
<1>6. gs[x + 1] = fs[x + 1] BY <1>5
<1>7. y = x + 3 => x + 2 \in 1 .. k OBVIOUS
<1>8. y = x + 3 => gs[x + 2] = fs[x + 2] BY <1>7
<1>9. Unloaded(fs, x, y) \/ gs[y - 1] = fs[y - 1] BY <1>3 DEF Unloaded
<1>10. Level(gs, x, y) BY <1>1, <1>4, <1>6, <1>8, <1>9 DEF Level
<1> QED BY <1>4, <1>10

\* A level for one call, of d frames, from here on top of fs, and its saved
\* position on top of ids.
LevelPushed(fs, ids, b, gs, jds, c, d, from) ==
  /\ IsSeq(fs) /\ IsSeq(ids)
  /\ d \in 1 .. 3 /\ Len(gs) = Len(fs) + d /\ \A i \in 1 .. Len(fs) : gs[i] = fs[i]
  /\ Level(gs, Len(fs), Len(gs)) /\ gs[Len(gs)].from = from
  /\ from = [source |-> from.source, toin |-> from.toin, blk |-> from.blk]
  /\ from.blk = b /\ jds = Append(ids, <<from.toin, from.source>>)
  /\ Unloaded(gs, Len(fs), Len(gs)) => c = b

\* A level is put on top.
LEMMA PushedLevel ==
  ASSUME NEW fs, NEW ids, NEW b, NEW g, Levels(fs, g), Rejoined(fs, g, ids, b),
         NEW gs, NEW jds, NEW c, NEW d, NEW from,
         LevelPushed(fs, ids, b, gs, jds, c, d, from)
  PROVE  \E h : Levels(gs, h) /\ Rejoined(gs, h, jds, c)
<1>0. /\ IsSeq(fs) /\ IsSeq(ids)
      /\ d \in 1 .. 3 /\ Len(gs) = Len(fs) + d /\ \A i \in 1 .. Len(fs) : gs[i] = fs[i]
      /\ Level(gs, Len(fs), Len(gs)) /\ gs[Len(gs)].from = from
      /\ from = [source |-> from.source, toin |-> from.toin, blk |-> from.blk]
      /\ from.blk = b /\ jds = Append(ids, <<from.toin, from.source>>)
      /\ Unloaded(gs, Len(fs), Len(gs)) => c = b
  BY DEF LevelPushed
<1> USE <1>0
<1> DEFINE n == Len(g)
           m == Len(ids)
           k == Len(fs)
           h == Append(g, k + d)
<1>1. n \in Nat /\ g \in Seq(Nat) /\ m \in Nat /\ k \in Nat /\ n <= m /\ k + d \in Nat \ {0}
  BY SeqFacts DEF Levels, Rejoined
<1>2. h \in Seq(Nat) /\ Len(h) = n + 1 /\ h[n + 1] = k + d /\ \A j \in 1 .. n : h[j] = g[j]
  BY <1>1
<1>3. /\ Len(jds) = m + 1 /\ jds[m + 1] = <<from.toin, from.source>>
      /\ \A i \in 1 .. m : jds[i] = ids[i]
  BY AppendSeq
<1>4. k = IF n = 0 THEN 0 ELSE g[n] BY DEF Levels
<1> HIDE DEF n, m, h
<1>5. Start(h, n + 1) = k
  <2>1. CASE n = 0 BY <1>4, <2>1 DEF Start
  <2>2. CASE n # 0
    <3>1. n + 1 # 1 /\ (n + 1) - 1 = n /\ n \in 1 .. n BY <1>1, <2>2
    <3> QED BY <1>2, <1>4, <2>2, <3>1 DEF Start
  <2> QED BY <2>1, <2>2
<1>6. \A j \in 1 .. n : Start(h, j) = Start(g, j)
  <2> SUFFICES ASSUME NEW j \in 1 .. n PROVE Start(h, j) = Start(g, j) OBVIOUS
  <2>1. j # 1 => j - 1 \in 1 .. n BY <1>1
  <2> QED BY <1>2, <2>1 DEF Start
<1>7. \A j \in 1 .. n :
        /\ g[j] \in 1 .. k /\ g[j] \in Nat /\ Start(g, j) \in Nat /\ Start(g, j) < g[j]
        /\ Level(fs, Start(g, j), g[j]) /\ (Start(g, j) # 0 => Start(g, j) \in 1 .. k)
  <2> SUFFICES ASSUME NEW j \in 1 .. n
               PROVE  /\ g[j] \in 1 .. k /\ g[j] \in Nat /\ Start(g, j) \in Nat
                      /\ Start(g, j) < g[j] /\ Level(fs, Start(g, j), g[j])
                      /\ (Start(g, j) # 0 => Start(g, j) \in 1 .. k)
    OBVIOUS
  <2>1. /\ g[j] \in 1 .. k /\ g[j] \in Nat /\ Start(g, j) \in Nat /\ Start(g, j) < g[j]
        /\ Level(fs, Start(g, j), g[j])
    BY LevelFacts DEF n
  <2> QED BY <1>1, <2>1
<1>8. \A j \in 1 .. n :
        /\ Level(gs, Start(g, j), g[j])
        /\ Unloaded(gs, Start(g, j), g[j]) <=> Unloaded(fs, Start(g, j), g[j])
  <2> SUFFICES ASSUME NEW j \in 1 .. n
               PROVE  /\ Level(gs, Start(g, j), g[j])
                      /\ Unloaded(gs, Start(g, j), g[j]) <=> Unloaded(fs, Start(g, j), g[j])
    OBVIOUS
  <2>1. /\ g[j] \in 1 .. k /\ g[j] \in Nat /\ Start(g, j) \in Nat /\ Start(g, j) < g[j]
        /\ Level(fs, Start(g, j), g[j])
    BY <1>7
  <2>2. Alike(gs, fs, k) /\ k \in Nat BY <1>1 DEF Alike
  <2> QED BY <2>1, <2>2, SameLevel
<1>9. Levels(gs, h)
  <2>1. \A j \in 1 .. n : g[j] \in 1 .. k + d
    <3>1. \A i \in 1 .. k : i \in 1 .. k + d BY <1>1
    <3>2. \A j \in 1 .. n : g[j] \in 1 .. k BY <1>7
    <3> QED BY <3>1, <3>2
  <2>2. \A j \in 1 .. n + 1 : j \in 1 .. n \/ j = n + 1 BY <1>1
  <2>3. k + d \in 1 .. k + d /\ k < k + d BY <1>1
  <2>4. Len(gs) = k + d OBVIOUS
  <2> HIDE DEF k
  <2>5. \A j \in 1 .. n + 1 :
          h[j] \in 1 .. Len(gs) /\ Start(h, j) < h[j] /\ Level(gs, Start(h, j), h[j])
    BY <1>2, <1>5, <1>6, <1>7, <1>8, <2>1, <2>2, <2>3, <2>4 DEF k
  <2>6. Len(h) # 0 BY <1>1, <1>2
  <2> QED BY <1>2, <2>4, <2>5, <2>6 DEF Levels
<1>10. Rejoined(gs, h, jds, c)
  <2> SUFFICES ASSUME NEW j \in 1 .. n + 1
               PROVE  LET e == gs[h[j]].from
                      IN /\ e = [source |-> e.source, toin |-> e.toin, blk |-> e.blk]
                         /\ jds[(m + 1) - (n + 1) + j] = <<e.toin, e.source>>
                         /\ Unloaded(gs, Start(h, j), h[j]) =>
                              e.blk = IF j = n + 1 THEN c ELSE gs[h[j + 1]].from.blk
    <3>1. n + 1 <= m + 1 BY <1>1
    <3>2. Len(h) = n + 1 /\ Len(jds) = m + 1 BY <1>2, <1>3
    <3> QED BY <3>1, <3>2 DEF Rejoined
  <2>1. CASE j = n + 1
    <3>1. (m + 1) - (n + 1) + j = m + 1 BY <1>1, <2>1
    <3>2. h[j] = Len(gs) /\ Start(h, j) = Len(fs) BY <1>2, <1>5, <2>1
    <3> QED BY <1>3, <2>1, <3>1, <3>2
  <2>2. CASE j # n + 1
    <3>1. j \in 1 .. n BY <1>1, <2>2
    <3>2. (m + 1) - (n + 1) + j = m - n + j /\ m - n + j \in 1 .. m BY <1>1, <3>1
    <3>3. h[j] = g[j] /\ Start(h, j) = Start(g, j) /\ g[j] \in 1 .. k BY <1>2, <1>6, <1>7, <3>1
    <3>4. gs[h[j]] = fs[g[j]] BY <3>3
    <3> DEFINE e == fs[g[j]].from
    <3>5. /\ e = [source |-> e.source, toin |-> e.toin, blk |-> e.blk]
          /\ ids[m - n + j] = <<e.toin, e.source>>
          /\ Unloaded(fs, Start(g, j), g[j]) =>
               e.blk = IF j = n THEN b ELSE fs[g[j + 1]].from.blk
      BY <3>1 DEF Rejoined, n, m
    <3>6. jds[(m + 1) - (n + 1) + j] = <<e.toin, e.source>> BY <1>3, <3>2, <3>5
    <3>7. gs[h[j + 1]].from.blk = IF j = n THEN b ELSE fs[g[j + 1]].from.blk
      <4>1. CASE j = n BY <1>2, <4>1
      <4>2. CASE j # n
        <5>1. j + 1 \in 1 .. n BY <1>1, <3>1, <4>2
        <5>2. h[j + 1] = g[j + 1] /\ g[j + 1] \in 1 .. k BY <1>2, <1>7, <5>1
        <5> QED BY <4>2, <5>2
      <4> QED BY <4>1, <4>2
    <3>8. Unloaded(gs, Start(h, j), h[j]) => Unloaded(fs, Start(g, j), g[j])
      BY <1>8, <3>1, <3>3
    <3> HIDE DEF e
    <3> QED BY <2>2, <3>4, <3>5, <3>6, <3>7, <3>8 DEF e
  <2> QED BY <2>1, <2>2
<1> QED BY <1>9, <1>10

\* The level on top is left.
LevelPopped(fs, g, ids, hs, jds, c) ==
  /\ IsSeq(fs) /\ IsSeq(ids) /\ Len(g) # 0
  /\ hs = SubSeq(fs, 1, Start(g, Len(g))) /\ jds = SubSeq(ids, 1, Len(ids) - 1)
  /\ c = fs[Len(fs)].from.blk

\* Without the top level, the others are levels and go back as they did.
LEMMA PoppedLevel ==
  ASSUME NEW fs, NEW g, NEW ids, NEW b, Levels(fs, g), Rejoined(fs, g, ids, b),
         NEW hs, NEW jds, NEW c, LevelPopped(fs, g, ids, hs, jds, c)
  PROVE  \E h : Levels(hs, h) /\ Rejoined(hs, h, jds, c)
<1>0. IsSeq(fs) /\ IsSeq(ids) /\ Len(g) # 0 BY DEF LevelPopped
<1> DEFINE n == Len(g)
           m == Len(ids)
           k == Start(g, n)
           h == SubSeq(g, 1, n - 1)
<1>1. n \in Nat \ {0} /\ g \in Seq(Nat) /\ m \in Nat /\ n <= m /\ n - 1 \in Nat /\ n \in 1 .. n
  BY <1>0, SeqFacts DEF Levels, Rejoined
<1>2. h \in Seq(Nat) /\ Len(h) = n - 1 /\ \A j \in 1 .. n - 1 : h[j] = g[j]
  <2>1. n - 1 \in 0 .. Len(g) BY <1>1
  <2> QED BY <1>1, <2>1, CutFacts
<1>3. k \in Nat /\ k < g[n] /\ g[n] \in 1 .. Len(fs) /\ g[n] = Len(fs)
  BY <1>1, LevelFacts DEF Levels
<1> HIDE DEF n, m, h, k
<1>4. Len(hs) = k /\ \A i \in 1 .. k : hs[i] = fs[i]
  <2>1. Len(fs) \in Nat BY <1>0, SeqFacts
  <2>3. hs = SubSeq(fs, 1, k) BY DEF LevelPopped, k, n
  <2>2. k \in 0 .. Len(fs) BY <1>3, <2>1
  <2> QED BY <1>0, <2>2, <2>3, CutSeq
<1>5. Len(jds) = m - 1 /\ \A i \in 1 .. m - 1 : jds[i] = ids[i]
  <2>1. m - 1 \in 0 .. Len(ids) BY <1>1 DEF m
  <2>2. jds = SubSeq(ids, 1, m - 1) BY DEF LevelPopped, m
  <2> QED BY <1>0, <2>1, <2>2, CutSeq
<1>6. k = IF n - 1 = 0 THEN 0 ELSE g[n - 1]
  <2>1. n = 1 <=> n - 1 = 0 BY <1>1
  <2> QED BY <2>1 DEF k, Start
<1>7. \A j \in 1 .. n - 1 : Start(h, j) = Start(g, j)
  <2> SUFFICES ASSUME NEW j \in 1 .. n - 1 PROVE Start(h, j) = Start(g, j) OBVIOUS
  <2>1. j # 1 => j - 1 \in 1 .. n - 1 BY <1>1
  <2> QED BY <1>2, <2>1 DEF Start
\* Tops below are not above the start of the level left.
<1>8. \A j \in 1 .. n - 1 : g[j] <= k
  <2> DEFINE T == {j \in 1 .. n - 1 : ~(g[j] <= k)}
  <2>1. SUFFICES ASSUME T # {} PROVE FALSE OBVIOUS
  <2>2. T \subseteq 0 .. n - 1 /\ n - 1 \in Nat BY <1>1
  <2>3. PICK j \in T : \A i \in T : i <= j
    <3> HIDE DEF T
    <3> QED BY <2>1, <2>2, LastExists
  <2>4. j \in 1 .. n - 1 /\ ~(g[j] <= k) BY <2>3
  <2>5. j # n - 1
    <3> SUFFICES ASSUME j = n - 1 PROVE FALSE OBVIOUS
    <3>1. n - 1 # 0 BY <1>1, <2>4
    <3> QED BY <1>3, <1>6, <2>4, <3>1
  <2>6. j + 1 \in 1 .. n - 1 /\ j + 1 \in 1 .. n /\ ~(j + 1 <= j) /\ j + 1 # 1 /\ (j + 1) - 1 = j
    BY <1>1, <2>4, <2>5
  <2>7. g[j + 1] <= k BY <2>3, <2>6
  <2>8. Start(g, j + 1) < g[j + 1] /\ g[j + 1] \in Nat /\ Start(g, j + 1) \in Nat
    BY <2>6, LevelFacts DEF n
  <2>9. Start(g, j + 1) = g[j] BY <2>6 DEF Start
  <2> QED BY <1>3, <2>4, <2>7, <2>8, <2>9
<1>9. \A j \in 1 .. n - 1 :
        /\ j \in 1 .. n /\ g[j] \in 1 .. k /\ g[j] \in Nat
        /\ Start(g, j) \in Nat /\ Start(g, j) < g[j] /\ Level(fs, Start(g, j), g[j])
  <2> SUFFICES ASSUME NEW j \in 1 .. n - 1
               PROVE  /\ j \in 1 .. n /\ g[j] \in 1 .. k /\ g[j] \in Nat
                      /\ Start(g, j) \in Nat /\ Start(g, j) < g[j]
                      /\ Level(fs, Start(g, j), g[j])
    OBVIOUS
  <2>1. j \in 1 .. n /\ g[j] <= k BY <1>1, <1>8
  <2>2. /\ g[j] \in Nat \ {0} /\ Start(g, j) \in Nat /\ Start(g, j) < g[j]
        /\ Level(fs, Start(g, j), g[j])
    BY <2>1, LevelFacts DEF n
  <2> QED BY <1>3, <2>1, <2>2
<1>10. \A j \in 1 .. n - 1 :
         /\ Level(hs, Start(g, j), g[j])
         /\ Unloaded(hs, Start(g, j), g[j]) <=> Unloaded(fs, Start(g, j), g[j])
  <2> SUFFICES ASSUME NEW j \in 1 .. n - 1
               PROVE  /\ Level(hs, Start(g, j), g[j])
                      /\ Unloaded(hs, Start(g, j), g[j]) <=> Unloaded(fs, Start(g, j), g[j])
    OBVIOUS
  <2>1. g[j] \in 1 .. k /\ g[j] \in Nat /\ Start(g, j) \in Nat /\ Start(g, j) < g[j]
        /\ Level(fs, Start(g, j), g[j])
    BY <1>9
  <2>2. Alike(hs, fs, k) /\ k \in Nat BY <1>3, <1>4 DEF Alike
  <2> QED BY <2>1, <2>2, SameLevel
<1>11. Levels(hs, h)
  <2>1. \A j \in 1 .. n - 1 :
          h[j] \in 1 .. Len(hs) /\ Start(h, j) < h[j] /\ Level(hs, Start(h, j), h[j])
    BY <1>2, <1>4, <1>7, <1>9, <1>10
  <2>2. Len(hs) = IF Len(h) = 0 THEN 0 ELSE h[Len(h)]
    <3>1. n - 1 # 0 => n - 1 \in 1 .. n - 1 BY <1>1
    <3> QED BY <1>2, <1>4, <1>6, <3>1
  <2> QED BY <1>2, <2>1, <2>2 DEF Levels
<1>12. Rejoined(hs, h, jds, c)
  <2> SUFFICES ASSUME NEW j \in 1 .. n - 1
               PROVE  LET e == hs[h[j]].from
                      IN /\ e = [source |-> e.source, toin |-> e.toin, blk |-> e.blk]
                         /\ jds[(m - 1) - (n - 1) + j] = <<e.toin, e.source>>
                         /\ Unloaded(hs, Start(h, j), h[j]) =>
                              e.blk = IF j = n - 1 THEN c ELSE hs[h[j + 1]].from.blk
    <3>1. n - 1 <= m - 1 BY <1>1
    <3>2. Len(h) = n - 1 /\ Len(jds) = m - 1 BY <1>2, <1>5
    <3> QED BY <3>1, <3>2 DEF Rejoined
  <2>1. j \in 1 .. n /\ j # n BY <1>1
  <2>2. (m - 1) - (n - 1) + j = m - n + j /\ m - n + j \in 1 .. m - 1 BY <1>1
  <2>3. h[j] = g[j] /\ Start(h, j) = Start(g, j) /\ g[j] \in 1 .. k BY <1>2, <1>7, <1>9
  <2>4. hs[h[j]] = fs[g[j]] BY <1>4, <2>3
  <2> DEFINE e == fs[g[j]].from
  <2>5. /\ e = [source |-> e.source, toin |-> e.toin, blk |-> e.blk]
        /\ ids[m - n + j] = <<e.toin, e.source>>
        /\ Unloaded(fs, Start(g, j), g[j]) => e.blk = fs[g[j + 1]].from.blk
    BY <2>1 DEF Rejoined, n, m
  <2>6. jds[(m - 1) - (n - 1) + j] = <<e.toin, e.source>> BY <1>5, <2>2, <2>5
  <2>7. fs[g[j + 1]].from.blk = IF j = n - 1 THEN c ELSE hs[h[j + 1]].from.blk
    <3>1. CASE j = n - 1
      <4>1. j + 1 = n BY <1>1, <3>1
      <4>2. c = fs[g[n]].from.blk BY <1>3 DEF LevelPopped
      <4> QED BY <3>1, <4>1, <4>2
    <3>2. CASE j # n - 1
      <4>1. j + 1 \in 1 .. n - 1 BY <1>1, <3>2
      <4>2. h[j + 1] = g[j + 1] /\ g[j + 1] \in 1 .. k BY <1>2, <1>9, <4>1
      <4> QED BY <1>4, <3>2, <4>2
    <3> QED BY <3>1, <3>2
  <2>8. Unloaded(hs, Start(h, j), h[j]) => Unloaded(fs, Start(g, j), g[j]) BY <1>10, <2>3
  <2> HIDE DEF e
  <2> QED BY <2>4, <2>5, <2>6, <2>7, <2>8 DEF e
<1> QED BY <1>11, <1>12

\* Without its last a sequence is one still.
LEMMA DropSeq ==
  ASSUME NEW q, IsSeq(q)
  PROVE  IsSeq(SubSeq(q, 1, Len(q) - 1))
<1>1. Len(q) \in Nat /\ q = [i \in 1 .. Len(q) |-> q[i]] BY SeqFacts
<1>2. CASE Len(q) = 0
  <2>1. q = <<>> BY <1>1, <1>2
  <2>2. SubSeq(<<>>, 1, -1) = <<>> OBVIOUS
  <2>3. Len(q) - 1 = -1 BY <1>2
  <2>4. SubSeq(q, 1, Len(q) - 1) = <<>> BY <2>1, <2>2, <2>3
  <2>5. IsSeq(<<>>) BY DEF IsSeq
  <2> QED BY <2>4, <2>5
<1>3. CASE Len(q) # 0
  <2>1. Len(q) - 1 \in 0 .. Len(q) BY <1>1, <1>3
  <2> QED BY <2>1, CutSeq
<1> QED BY <1>2, <1>3

\* The frames below a word are a sequence.
LEMMA BelowSeq ==
  ASSUME NEW q, IsSeq(q), NEW word
  PROVE  IsSeq(Below(q, word))
BY DropSeq DEF Below

\* What is below the topmost frame is a prefix too.
LEMMA BelowFacts ==
  ASSUME NEW q, IsSeq(q), NEW k \in 0 .. Len(q), NEW word
  PROVE  Below(SubSeq(q, 1, k), word) =
           SubSeq(q, 1, IF k # 0 /\ q[k].word = word THEN k - 1 ELSE k)
<1> DEFINE p == SubSeq(q, 1, k)
<1>1. Len(q) \in Nat /\ k \in Nat BY SeqFacts
<1>2. IsSeq(p) /\ Len(p) = k /\ p = [i \in 1 .. k |-> q[i]] /\ \A i \in 1 .. k : p[i] = q[i]
  BY CutSeq
<1>3. CASE k = 0
  <2>1. p = <<>> BY <1>2, <1>3
  <2> QED BY <1>3, <2>1 DEF Below
<1>4. CASE k # 0
  <2>1. k \in 1 .. k /\ k - 1 \in 0 .. k /\ k - 1 \in 0 .. Len(q) BY <1>1, <1>4
  <2>2. p # <<>> BY <1>2, <1>4
  <2>3. p[Len(p)] = q[k] BY <1>2, <2>1
  <2>4. SubSeq(p, 1, k - 1) = SubSeq(q, 1, k - 1)
    <3> HIDE DEF p
    <3>1. SubSeq(p, 1, k - 1) = [i \in 1 .. k - 1 |-> p[i]] BY <1>2, <2>1, CutSeq
    <3>2. SubSeq(q, 1, k - 1) = [i \in 1 .. k - 1 |-> q[i]] BY <2>1, CutSeq
    <3>3. \A i \in 1 .. k - 1 : i \in 1 .. k BY <1>1
    <3> QED BY <1>2, <3>1, <3>2, <3>3
  <2> HIDE DEF p
  <2>5. Below(p, word) = IF q[k].word = word THEN SubSeq(q, 1, k - 1) ELSE p
    BY <1>2, <2>2, <2>3, <2>4 DEF Below
  <2> QED BY <1>4, <2>5 DEF p
<1> QED BY <1>3, <1>4

\* What the end of a text finds: its level, and whose place it goes back to.
LEMMA PopFacts ==
  ASSUME IsSeq(frames), IsSeq(sourceid), forthpopsource,
         NEW g, Levels(frames, g), Rejoined(frames, g, sourceid, blk)
  PROVE  LET from == Evaluated.from
         IN /\ Len(g) # 0
            /\ frames' = SubSeq(frames, 1, Start(g, Len(g)))
            /\ sourceid' = SubSeq(sourceid, 1, Len(sourceid) - 1)
            /\ from = [source |-> from.source, toin |-> from.toin, blk |-> from.blk]
            /\ blk' = from.blk /\ toin' = from.toin
            /\ source' = IF Loaded THEN SourceOf(from.blk) ELSE from.source
            /\ sourceid[Len(sourceid)][2] = from.source
<1> DEFINE n == Len(g)
           x == Start(g, n)
           y == Len(frames)
           from == frames[y].from
<1>1. y \in Nat /\ y # 0 /\ n \in Nat /\ frames = [i \in 1 .. y |-> frames[i]]
  <2>1. y \in Nat /\ frames = [i \in 1 .. y |-> frames[i]] BY SeqFacts
  <2>2. frames # <<>> BY DEF forthpopsource, AtEnd
  <2>3. y # 0
    <3> SUFFICES ASSUME y = 0 PROVE FALSE OBVIOUS
    <3>1. frames = <<>> BY <2>1
    <3> QED BY <2>2, <3>1
  <2> QED BY <2>1, <2>3 DEF Levels
<1>2. n # 0 /\ n \in 1 .. n /\ g[n] = y BY <1>1 DEF Levels
<1>3. /\ x \in Nat /\ x < y /\ Level(frames, x, y)
      /\ x # 0 => frames[x].word = "evaluate"
  BY <1>2, LevelFacts
<1>4. /\ from = [source |-> from.source, toin |-> from.toin, blk |-> from.blk]
      /\ sourceid[Len(sourceid)] = <<from.toin, from.source>>
      /\ Unloaded(frames, x, y) => from.blk = blk
  <2>1. Len(sourceid) - n + n = Len(sourceid) BY <1>1, SeqFacts
  <2> QED BY <1>2, <2>1 DEF Rejoined
<1>5. Evaluated = frames[y] BY DEF Evaluated
<1> DEFINE Pre(k) == SubSeq(frames, 1, k)
<1>6. \A k \in 0 .. y : \A word :
        Below(Pre(k), word) = Pre(IF k # 0 /\ frames[k].word = word THEN k - 1 ELSE k)
  BY BelowFacts
<1>7. \A k \in 0 .. y : Pre(k) = <<>> <=> k = 0
  <2> SUFFICES ASSUME NEW k \in 0 .. y PROVE Pre(k) = <<>> <=> k = 0 OBVIOUS
  <2>1. IsSeq(Pre(k)) /\ Len(Pre(k)) = k /\ Pre(k) = [i \in 1 .. k |-> frames[i]] BY CutSeq
  <2> HIDE DEF Pre
  <2>2. Pre(k) = <<>> => k = 0 BY <2>1
  <2>3. k = 0 => Pre(k) = <<>> BY <2>1
  <2> QED BY <2>2, <2>3
<1>8. \A k \in 1 .. y : Pre(k)[Len(Pre(k))] = frames[k]
  <2> SUFFICES ASSUME NEW k \in 1 .. y PROVE Pre(k)[Len(Pre(k))] = frames[k] OBVIOUS
  <2>1. k \in 0 .. y /\ k \in 1 .. k BY <1>1
  <2> QED BY <2>1, CutSeq
<1>9. frames = Pre(y)
  <2>1. y \in 0 .. y BY <1>1
  <2> QED BY <1>1, <2>1, CutSeq
<1> HIDE DEF Pre, x, y, from
<1>10. Outer = Pre(y - 1)
  <2>1. frames[y].word = "evaluate" /\ y \in 0 .. y BY <1>1, <1>3 DEF Level
  <2> QED BY <1>1, <1>6, <1>9, <2>1 DEF Outer
<1>11. y - 1 \in 0 .. y /\ y - 1 \in Nat BY <1>1
<1>12. Loaded <=> ~Unloaded(frames, x, y)
  <2>1. Loaded <=> y - 1 # 0 /\ frames[y - 1].word = "load"
    <3>1. y - 1 # 0 => y - 1 \in 1 .. y BY <1>1, <1>11
    <3> QED BY <1>7, <1>8, <1>10, <1>11, <3>1 DEF Loaded
  <2>2. CASE y = x + 1
    <3>1. y - 1 = x BY <1>3, <2>2
    <3> QED BY <1>3, <2>1, <2>2, <3>1 DEF Unloaded
  <2>3. CASE y # x + 1
    <3>1. y - 1 # 0 BY <1>1, <1>3, <2>3
    <3> QED BY <2>1, <2>3, <3>1 DEF Unloaded
  <2> QED BY <2>2, <2>3
<1>13. Loaded => SavedBlk = from.blk
  <2> SUFFICES ASSUME Loaded PROVE SavedBlk = from.blk OBVIOUS
  <2>1. ~Unloaded(frames, x, y) BY <1>12
  <2>2. frames[y - 1].saved = frames[y].from.blk BY <1>3, <2>1 DEF Level
  <2>3. y - 1 \in 1 .. y BY <1>1, <1>3, <2>1 DEF Unloaded
  <2> QED BY <1>8, <1>10, <2>2, <2>3 DEF SavedBlk, from
<1>14. Below(Below(Outer, "load"), "catch") = Pre(x)
  <2>1. x \in 0 .. y /\ Below(Pre(x), "load") = Pre(x) /\ Below(Pre(x), "catch") = Pre(x)
    BY <1>1, <1>3, <1>6
  <2>2. CASE y = x + 1
    <3>1. y - 1 = x BY <1>3, <2>2
    <3> QED BY <1>10, <2>1, <3>1
  <2>3. CASE y = x + 2 /\ frames[x + 1].word \in {"load", "catch"}
    <3>1. y - 1 = x + 1 /\ x + 1 \in 0 .. y /\ x + 1 # 0 /\ (x + 1) - 1 = x BY <1>3, <2>3
    <3>2. CASE frames[x + 1].word = "load"
      <4>1. Below(Outer, "load") = Pre(x) BY <1>6, <1>10, <3>1, <3>2
      <4> QED BY <2>1, <4>1
    <3>3. CASE frames[x + 1].word = "catch"
      <4>1. Below(Outer, "load") = Outer BY <1>6, <1>10, <3>1, <3>3
      <4>2. Below(Outer, "catch") = Pre(x) BY <1>6, <1>10, <3>1, <3>3
      <4> QED BY <4>1, <4>2
    <3> QED BY <2>3, <3>2, <3>3
  <2>4. CASE y = x + 3 /\ frames[x + 1].word = "catch" /\ frames[x + 2].word = "load"
    <3>1. /\ y - 1 = x + 2 /\ x + 2 \in 0 .. y /\ x + 2 # 0 /\ (x + 2) - 1 = x + 1
          /\ x + 1 \in 0 .. y /\ x + 1 # 0 /\ (x + 1) - 1 = x
      BY <1>3, <2>4
    <3>2. Below(Outer, "load") = Pre(x + 1) BY <1>6, <1>10, <2>4, <3>1
    <3>3. Below(Pre(x + 1), "catch") = Pre(x) BY <1>6, <2>4, <3>1
    <3> QED BY <3>2, <3>3
  <2> QED BY <1>3, <2>2, <2>3, <2>4 DEF Level
<1>15. frames' = Pre(x) BY <1>14 DEF forthpopsource
<1>16. /\ toin' = from.toin /\ sourceid' = SubSeq(sourceid, 1, Len(sourceid) - 1)
       /\ sourceid[Len(sourceid)][2] = from.source
  BY <1>4 DEF forthpopsource
<1>17. blk' = from.blk /\ source' = IF Loaded THEN SourceOf(from.blk) ELSE from.source
  <2>1. CASE Loaded BY <1>13, <2>1 DEF forthpopsource
  <2>2. CASE ~Loaded BY <1>4, <1>12, <1>16, <2>2 DEF forthpopsource
  <2> QED BY <2>1, <2>2
<1> QED BY <1>2, <1>4, <1>5, <1>15, <1>16, <1>17 DEF from, x, Pre

\* The m frames there are after some calls above the first k of base.
Called(fs, base, k, m) ==
  /\ IsSeq(fs) /\ Len(fs) = m /\ m \in Nat
  /\ \A i \in 1 .. k : fs[i] = base[i]

\* One more frame above m of them.
Topped(hs, fs, m, a) == hs[m + 1] = a /\ \A i \in 1 .. m : hs[i] = fs[i]

\* A frame more on top of those of a call.
LEMMA CalledFacts ==
  ASSUME NEW base, NEW k \in Nat, NEW fs, NEW m, Called(fs, base, k, m), k <= m,
         NEW a, NEW hs, hs = Append(fs, a)
  PROVE  Called(hs, base, k, m + 1) /\ Topped(hs, fs, m, a)
<1>1. m \in Nat /\ Len(fs) = m /\ IsSeq(fs) /\ \A i \in 1 .. k : fs[i] = base[i] BY DEF Called
<1>2. \A i \in 1 .. k : i \in 1 .. m BY <1>1
<1>3. IsSeq(hs) /\ Len(hs) = m + 1 /\ hs[m + 1] = a /\ \A i \in 1 .. m : hs[i] = fs[i]
  BY <1>1, AppendSeq
<1>4. m + 1 \in Nat BY <1>1
<1> QED BY <1>1, <1>2, <1>3, <1>4 DEF Called, Topped

\* Sequences of at most two elements.
LEMMA ShortSeqs ==
  ASSUME NEW a, NEW b
  PROVE  /\ Append(<<>>, a) = <<a>> /\ Append(<<a>>, b) = <<a, b>>
         /\ IsSeq(<<>>) /\ IsSeq(<<a>>) /\ <<a>>[1] = a /\ Len(<<a>>) = 1 /\ Len(<<>>) = 0
<1>1. IsSeq(<<>>) BY DEF IsSeq
<1>2. <<a>> \in Seq({<<a>>[i] : i \in DOMAIN <<a>>})
  <2>1. a \in {<<a>>[i] : i \in DOMAIN <<a>>}
    <3>1. 1 \in DOMAIN <<a>> /\ <<a>>[1] = a OBVIOUS
    <3> QED BY <3>1
  <2> DEFINE S == {<<a>>[i] : i \in DOMAIN <<a>>}
  <2> HIDE DEF S
  <2>2. a \in S => <<a>> \in Seq(S) OBVIOUS
  <2> QED BY <2>1, <2>2 DEF S
<1>3. Append(<<>>, a) = <<a>> /\ Append(<<>>, b) = <<b>> OBVIOUS
<1>4. Append(<<a>>, b) = <<a>> \o <<b>>
  <2> DEFINE q == <<a>>
  <2>1. IsSeq(q) BY <1>2 DEF IsSeq
  <2> HIDE DEF q
  <2> QED BY <2>1, JoinedSeq DEF q
<1>5. <<a>> \o <<b>> = <<a, b>>
  <2> DEFINE p == <<a>> \o <<b>>
  <2>1. DOMAIN p = 1 .. 2 /\ p = [i \in DOMAIN p |-> p[i]] /\ p[1] = a /\ p[2] = b
    OBVIOUS
  <2>2. <<a, b>> = [i \in 1 .. 2 |-> IF i = 1 THEN a ELSE b] OBVIOUS
  <2>3. \A i \in 1 .. 2 : i = 1 \/ i = 2 OBVIOUS
  <2> HIDE DEF p
  <2>4. p = [i \in 1 .. 2 |-> IF i = 1 THEN a ELSE b] BY <2>1, <2>3
  <2> QED BY <2>2, <2>4 DEF p
<1> QED BY <1>1, <1>2, <1>3, <1>4, <1>5 DEF IsSeq

\* The frames EVALUATE or LOAD, caught or not, leaves.
NestedCalls(fs, outer, b, f, here, c, l, e, gs) ==
  /\ e.word = "evaluate" /\ e.from = here /\ here.blk = b
  /\ c.word = "catch" /\ l.word = "load" /\ l.saved = b
  /\ (outer \in {<<>>, <<c>>} /\ f = b) \/ outer \in {<<l>>, <<c, l>>}
  /\ gs = (fs \o outer) \o <<e>>

\* Those frames are a level, of the word's, LOAD's and CATCH's.
LEMMA CalledFrames ==
  ASSUME NEW fs, NEW k \in Nat, Called(fs, fs, k, k), NEW outer, NEW b, NEW f, NEW here,
         NEW c, NEW l, NEW e,
         NEW gs, NestedCalls(fs, outer, b, f, here, c, l, e, gs)
  PROVE  \E d \in 1 .. 3 : /\ Called(gs, fs, k, k + d) /\ gs[k + d] = e
                           /\ Level(gs, k, k + d)
                           /\ Unloaded(gs, k, k + d) => f = b
<1>0. /\ e.word = "evaluate" /\ e.from = here /\ here.blk = b
      /\ c.word = "catch" /\ l.word = "load" /\ l.saved = b
      /\ (outer \in {<<>>, <<c>>} /\ f = b) \/ outer \in {<<l>>, <<c, l>>}
      /\ gs = (fs \o outer) \o <<e>>
  BY DEF NestedCalls
<1> USE <1>0
<1>1. IsSeq(fs) BY DEF Called
<1>2. CASE outer = <<>> /\ f = b
  <2>1. fs \o outer = fs BY <1>1, <1>2, JoinedSeq
  <2>2. gs = Append(fs, e) BY <1>1, <2>1, JoinedSeq
  <2>3. k <= k BY <1>1
  <2>4. Called(gs, fs, k, k + 1) /\ Topped(gs, fs, k, e) BY <2>2, <2>3, CalledFacts
  <2>5. gs[k + 1] = e /\ Level(gs, k, k + 1) BY <2>4 DEF Level, Unloaded, Topped
  <2>6. 1 \in 1 .. 3 OBVIOUS
  <2> QED BY <1>2, <2>4, <2>5, <2>6
<1>3. ASSUME NEW a, outer = <<a>>, (a = c /\ f = b) \/ a = l
      PROVE  \E d \in 1 .. 3 : /\ Called(gs, fs, k, k + d) /\ gs[k + d] = e
                               /\ Level(gs, k, k + d)
                               /\ Unloaded(gs, k, k + d) => f = b
  <2> DEFINE p == Append(fs, a)
  <2>1. fs \o outer = p /\ p = Append(fs, a) BY <1>1, <1>3, JoinedSeq
  <2> HIDE DEF p
  <2>2. k <= k /\ k <= k + 1 /\ (k + 1) + 1 = k + 2 /\ k + 1 \in 1 .. k + 1 BY <1>1
  <2>3. Called(p, fs, k, k + 1) /\ Topped(p, fs, k, a) BY <2>1, <2>2, CalledFacts
  <2>4. IsSeq(p) BY <2>3 DEF Called
  <2>5. gs = Append(p, e) BY <2>1, <2>4, JoinedSeq
  <2>6. Called(gs, fs, k, (k + 1) + 1) /\ Topped(gs, p, k + 1, e)
    BY <2>2, <2>3, <2>5, CalledFacts
  <2>7. Called(gs, fs, k, k + 2) /\ gs[k + 2] = e /\ gs[k + 1] = a
    BY <2>2, <2>3, <2>6 DEF Topped
  <2>8. k + 2 # k + 1 /\ (k + 2) - 1 = k + 1 BY <1>1
  <2>9. Unloaded(gs, k, k + 2) <=> a.word # "load" BY <2>7, <2>8 DEF Unloaded
  <2>10. Level(gs, k, k + 2)
    <3>1. CASE a = c BY <2>7, <2>9, <3>1 DEF Level
    <3>2. CASE a = l
      <4>1. gs[(k + 2) - 1].saved = gs[k + 2].from.blk BY <2>7, <2>8, <3>2
      <4> QED BY <2>7, <2>9, <3>2, <4>1 DEF Level
    <3> QED BY <1>3, <3>1, <3>2
  <2>11. 2 \in 1 .. 3 OBVIOUS
  <2>12. Unloaded(gs, k, k + 2) => f = b BY <1>3, <2>9
  <2> QED BY <2>7, <2>10, <2>11, <2>12
<1>4. CASE outer = <<c, l>>
  <2> DEFINE p == Append(fs, c)
             q == Append(p, l)
  <2>1. /\ k <= k /\ k <= k + 1 /\ (k + 1) + 1 = k + 2 /\ k + 1 \in 1 .. k + 1
        /\ k <= k + 2 /\ (k + 2) + 1 = k + 3 /\ k + 1 \in 1 .. k + 2 /\ k + 2 \in 1 .. k + 2
    BY <1>1
  <2>2. fs \o outer = q /\ q = Append(p, l) /\ p = Append(fs, c) BY <1>1, <1>4, JoinedSeq
  <2> HIDE DEF p, q
  <2>3. Called(p, fs, k, k + 1) /\ Topped(p, fs, k, c) BY <2>1, <2>2, CalledFacts
  <2>4. Called(q, fs, k, (k + 1) + 1) /\ Topped(q, p, k + 1, l)
    BY <2>1, <2>2, <2>3, CalledFacts
  <2>5. Called(q, fs, k, k + 2) /\ q[k + 2] = l /\ q[k + 1] = c 
    BY <2>1, <2>3, <2>4 DEF Topped
  <2>6. IsSeq(q) BY <2>5 DEF Called
  <2>7. gs = Append(q, e) BY <2>2, <2>6, JoinedSeq
  <2>8. Called(gs, fs, k, (k + 2) + 1) /\ Topped(gs, q, k + 2, e)
    BY <2>1, <2>5, <2>7, CalledFacts
  <2>9. Called(gs, fs, k, k + 3) /\ gs[k + 3] = e /\ gs[k + 2] = l /\ gs[k + 1] = c
    BY <2>1, <2>5, <2>8 DEF Topped
  <2>10. k + 3 # k + 1 /\ (k + 3) - 1 = k + 2 BY <1>1
  <2>11. ~Unloaded(gs, k, k + 3) BY <2>9, <2>10 DEF Unloaded
  <2>12. gs[(k + 3) - 1].saved = gs[k + 3].from.blk BY <2>9, <2>10
  <2>13. Level(gs, k, k + 3) BY <2>9, <2>12 DEF Level
  <2>14. 3 \in 1 .. 3 OBVIOUS
  <2> QED BY <2>9, <2>11, <2>13, <2>14
<1> QED BY <1>2, <1>3, <1>4

\* EVALUATE and LOAD, caught or not, put a level on top.
LEMMA CalledLevel ==
  ASSUME SourcesInv, NEW text, NEW outer, Evaluates(text, outer),
         \/ outer \in Catching /\ blk' = blk
         \/ \E c \in Catching : outer = Append(c, Frame("load", blk, Here))
  PROVE  SourcesInv'
<1> DEFINE c == Frame("catch", 0, Here)
           l == Frame("load", blk, Here)
           e == Frame("evaluate", 0, Here)
           k == Len(frames)
           from == Here
           b == blk
           f == blk'
           gs == frames'
           jds == sourceid'
<1>1. /\ IsSeq(frames) /\ IsSeq(sourceid) /\ k \in Nat
      /\ jds = Append(sourceid, <<toin + 1, source>>)
      /\ caught' = caught
  BY SeqFacts DEF SourcesInv, Evaluates
<1>2. gs = (frames \o outer) \o <<e>> BY DEF Evaluates
<1>3. e.word = "evaluate" /\ e.from = from /\ l.word = "load" /\ l.saved = b /\ c.word = "catch"
  BY DEF Frame
<1>4. /\ from = [source |-> from.source, toin |-> from.toin, blk |-> from.blk] /\ from.blk = b
      /\ <<toin + 1, source>> = <<from.toin, from.source>>
  BY DEF Here
<1>5. \/ outer \in {<<>>, <<c>>} /\ f = b
      \/ \E p \in {<<>>, <<c>>} : outer = Append(p, l)
  BY DEF Catching
<1> HIDE DEF c, l, e, from, b, f, gs, k, jds
<1>6. (outer \in {<<>>, <<c>>} /\ f = b) \/ outer \in {<<l>>, <<c, l>>}
  <2>1. Append(<<>>, l) = <<l>> /\ Append(<<c>>, l) = <<c, l>> BY ShortSeqs
  <2> QED BY <1>5, <2>1
<1>7. \E d \in 1 .. 3 : /\ Called(gs, frames, k, k + d) /\ gs[k + d] = e /\ Level(gs, k, k + d)
                        /\ Unloaded(gs, k, k + d) => f = b
  <2>1. Called(frames, frames, k, k) BY <1>1 DEF k, Called
  <2>2. NestedCalls(frames, outer, b, f, from, c, l, e, gs)
    BY <1>2, <1>3, <1>4, <1>6 DEF NestedCalls
  <2> QED BY <1>1, <2>1, <2>2, CalledFrames
<1>8. PICK d \in 1 .. 3 : /\ Called(gs, frames, k, k + d) /\ gs[k + d] = e
                          /\ Level(gs, k, k + d)
                          /\ Unloaded(gs, k, k + d) => f = b
  BY <1>7
<1>9. /\ IsSeq(gs) /\ Len(gs) = k + d /\ \A i \in 1 .. k : gs[i] = frames[i]
  BY <1>8 DEF Called
<1>10. IsSeq(jds) BY <1>1, AppendSeq
<1>11. ASSUME ~caught' PROVE \E h : Levels(gs, h) /\ Rejoined(gs, h, jds, f)
  <2>1. ~caught BY <1>1, <1>11
  <2>2. PICK g : Levels(frames, g) /\ Rejoined(frames, g, sourceid, b)
    BY <2>1 DEF SourcesInv, b
  <2>3. gs[Len(gs)].from = from BY <1>3, <1>8, <1>9
  <2>4. jds = Append(sourceid, <<from.toin, from.source>>) BY <1>1, <1>4
  <2>5. k = Len(frames) BY DEF k
  <2>6. /\ Len(gs) = Len(frames) + d /\ \A i \in 1 .. Len(frames) : gs[i] = frames[i]
        /\ Level(gs, Len(frames), Len(gs))
        /\ Unloaded(gs, Len(frames), Len(gs)) => f = b
    BY <1>8, <1>9, <2>5
  <2>7. LevelPushed(frames, sourceid, b, gs, jds, f, d, from)
    BY <1>1, <1>4, <1>9, <2>3, <2>4, <2>6 DEF LevelPushed
  <2> QED BY <2>2, <2>7, PushedLevel
<1> QED BY <1>9, <1>10, <1>11 DEF SourcesInv, gs, jds, f

\* Every step of the input sources keeps their invariant.
LEMMA SourcesStep == SourcesInv /\ [SourcesNext]_sourcesVars => SourcesInv'
<1> SUFFICES ASSUME SourcesInv, [SourcesNext]_sourcesVars PROVE SourcesInv' OBVIOUS
<1>1. IsSeq(frames) /\ IsSeq(sourceid) BY DEF SourcesInv
<1>2. ASSUME frames' = frames, sourceid' = sourceid, blk' = blk, caught' = caught
      PROVE  SourcesInv'
  BY <1>2 DEF SourcesInv
<1>3. CASE query
  <2> DEFINE from == [source |-> Line, toin |-> 0, blk |-> blk]
             F == Frame("evaluate", 0, from)
  <2>1. /\ frames = <<>> /\ frames' = <<F>> /\ sourceid' = Append(sourceid, <<0, Line>>)
        /\ blk' = blk
    BY <1>3 DEF query
  <2>2. F.word = "evaluate" /\ F.from = from BY DEF Frame
  <2>3. from.toin = 0 /\ from.source = Line /\ from.blk = blk
        /\ from = [source |-> from.source, toin |-> from.toin, blk |-> from.blk]
    OBVIOUS
  <2> HIDE DEF F, from
  <2>4. IsSeq(<<>>) /\ Len(<<>>) = 0 BY ShortSeqs
  <2>5. IsSeq(frames') /\ Len(frames') = 1 /\ frames'[1] = F BY <2>1, ShortSeqs
  <2>6. IsSeq(sourceid') BY <1>1, <2>1, AppendSeq
  <2>7. Levels(<<>>, <<>>) /\ Rejoined(<<>>, <<>>, sourceid, blk)
    <3>1. Len(sourceid) \in Nat BY <1>1, SeqFacts
    <3> QED BY <3>1 DEF Levels, Rejoined
  <2>8. Level(frames', 0, 1) BY <2>2, <2>5 DEF Level, Unloaded
  <2> DEFINE gs == frames'
             fs == <<>>
             nil == <<>>
             b == blk'
  <2>9. /\ Len(gs) = Len(fs) + 1 /\ \A i \in 1 .. Len(fs) : gs[i] = fs[i]
        /\ Level(gs, Len(fs), Len(gs)) /\ gs[Len(gs)].from = from
        /\ sourceid' = Append(sourceid, <<from.toin, from.source>>)
        /\ Levels(fs, nil) /\ Rejoined(fs, nil, sourceid, blk) /\ IsSeq(fs)
        /\ 1 \in 1 .. 3 /\ (Unloaded(gs, Len(fs), Len(gs)) => b = blk)
    BY <1>1, <2>1, <2>2, <2>3, <2>4, <2>5, <2>7, <2>8
  <2> HIDE DEF gs, fs, nil, b
  <2>10. LevelPushed(fs, sourceid, blk, gs, sourceid', b, 1, from)
    BY <1>1, <2>3, <2>9 DEF LevelPushed
  <2>11. \E h : Levels(gs, h) /\ Rejoined(gs, h, sourceid', b) BY <2>9, <2>10, PushedLevel
  <2> QED BY <2>1, <2>5, <2>6, <2>11 DEF SourcesInv, gs, b
<1>4. CASE evaluate
  <2>1. PICK n \in Strings, outer \in Catching : Evaluates(<<"string", n>>, outer)
    BY <1>4 DEF evaluate
  <2> QED BY <1>4, <2>1, CalledLevel DEF evaluate
<1>5. CASE load
  <2>1. PICK n \in BlockTexts, outer \in Catching :
          Evaluates(<<"block", n>>, Append(outer, Frame("load", blk, Here)))
    BY <1>5 DEF load
  <2> QED BY <2>1, CalledLevel
<1>6. CASE OtherWord BY <1>2, <1>6 DEF OtherWord
<1>7. CASE forththrow
  <2> DEFINE catches == {i \in DOMAIN frames : frames[i].word = "catch"}
  <2>1. CASE catches = {}
    <3>1. frames' = <<>> /\ sourceid' = sourceid BY <1>7, <2>1 DEF forththrow
    <3>2. IsSeq(<<>>) BY DEF IsSeq
    <3>3. Levels(<<>>, <<>>) /\ Rejoined(<<>>, <<>>, sourceid, blk')
      <4>1. Len(sourceid) \in Nat BY <1>1, SeqFacts
      <4> QED BY <4>1 DEF Levels, Rejoined
    <3> QED BY <1>1, <3>1, <3>2, <3>3 DEF SourcesInv
  <2>2. CASE catches # {}
    <3> DEFINE last == CHOOSE i \in catches : \A j \in catches : j <= i
    <3>1. frames' = SubSeq(frames, 1, last - 1) /\ sourceid' = sourceid /\ caught' = TRUE
      BY <1>7, <2>2 DEF forththrow
    <3>2. catches \subseteq 0 .. Len(frames) /\ Len(frames) \in Nat
          /\ \A i \in catches : i - 1 \in 0 .. Len(frames)
      BY <1>1, SeqFacts
    <3> HIDE DEF catches
    <3>3. last \in catches BY <2>2, <3>2, LastExists
    <3> HIDE DEF last
    <3>4. IsSeq(frames') BY <1>1, <3>1, <3>2, <3>3, CutSeq
    <3> QED BY <1>1, <3>1, <3>4 DEF SourcesInv
  <2> QED BY <2>1, <2>2
<1>8. CASE forthpopsource
  <2>1. /\ sourceid' = SubSeq(sourceid, 1, Len(sourceid) - 1) /\ caught' = caught
        /\ frames' = Below(Below(Outer, "load"), "catch")
    BY <1>8 DEF forthpopsource
  <2>2. IsSeq(frames') /\ IsSeq(sourceid')
    <3>1. IsSeq(Outer) BY <1>1, BelowSeq DEF Outer
    <3>2. IsSeq(Below(Outer, "load")) BY <3>1, BelowSeq
    <3> QED BY <1>1, <2>1, <3>2, BelowSeq, DropSeq
  <2>3. CASE ~caught
    <3>1. PICK g : Levels(frames, g) /\ Rejoined(frames, g, sourceid, blk) BY <2>3 DEF SourcesInv
    <3>2. /\ Len(g) # 0 /\ frames' = SubSeq(frames, 1, Start(g, Len(g)))
          /\ blk' = frames[Len(frames)].from.blk
      BY <1>1, <1>8, <3>1, PopFacts DEF Evaluated
    <3>3. \E h : Levels(frames', h) /\ Rejoined(frames', h, sourceid', blk')
      <4>1. LevelPopped(frames, g, sourceid, frames', sourceid', blk')
        BY <1>1, <2>1, <3>2 DEF LevelPopped
      <4> QED BY <3>1, <4>1, PoppedLevel
    <3> QED BY <2>2, <3>3 DEF SourcesInv
  <2> QED BY <2>1, <2>2, <2>3 DEF SourcesInv
<1>9. CASE UNCHANGED sourcesVars BY <1>2, <1>9 DEF sourcesVars
<1> QED BY <1>3, <1>4, <1>5, <1>6, <1>7, <1>8, <1>9 DEF SourcesNext

\* The return stack, while nothing was caught, is of levels: an EVALUATE on top
\* of what LOAD and CATCH put below it.  Each goes back to a place of which the
\* text and the word are the position saved for it, and whose BLK the LOAD below
\* it kept, or, with none, the level above it goes back to.
THEOREM SourcesInvariant == SourcesSpec => []SourcesInv
<1>1. SourcesInit => SourcesInv
  <2> SUFFICES ASSUME SourcesInit PROVE SourcesInv OBVIOUS
  <2>1. frames = <<>> /\ sourceid = <<>> BY DEF SourcesInit
  <2>2. IsSeq(<<>>) BY DEF IsSeq
  <2>3. Levels(<<>>, <<>>) /\ Rejoined(<<>>, <<>>, <<>>, blk) BY DEF Levels, Rejoined
  <2> QED BY <2>1, <2>2, <2>3 DEF SourcesInv
<1>2. SourcesInv /\ [SourcesNext]_sourcesVars => SourcesInv' BY SourcesStep
<1> QED BY <1>1, <1>2, PTL DEF SourcesSpec

\* So the end of a text pops exactly its caller's place.
LEMMA Returned ==
  SourcesInv /\ forthpopsource /\ ~caught =>
    LET from == Evaluated.from
        home == from.blk = -1 \/ from.source = <<"block", from.blk>>
    IN (Loaded => home) => [source |-> source', toin |-> toin', blk |-> blk'] = from
<1> DEFINE from == Evaluated.from
<1> SUFFICES ASSUME SourcesInv, forthpopsource, ~caught,
                    Loaded => from.blk = -1 \/ from.source = <<"block", from.blk>>
             PROVE  [source |-> source', toin |-> toin', blk |-> blk'] = from
  OBVIOUS
<1>1. IsSeq(frames) /\ IsSeq(sourceid) BY DEF SourcesInv
<1>2. PICK g : Levels(frames, g) /\ Rejoined(frames, g, sourceid, blk) BY DEF SourcesInv
<1>3. /\ from = [source |-> from.source, toin |-> from.toin, blk |-> from.blk]
      /\ blk' = from.blk /\ toin' = from.toin
      /\ source' = IF Loaded THEN SourceOf(from.blk) ELSE from.source
      /\ sourceid[Len(sourceid)][2] = from.source
  BY <1>1, <1>2, PopFacts
<1> HIDE DEF from
<1>4. source' = from.source
  <2>1. CASE ~Loaded BY <1>3, <2>1
  <2>2. CASE Loaded /\ from.blk = -1
    <3>1. SourceOf(-1) = sourceid[Len(sourceid)][2] BY DEF SourceOf
    <3> QED BY <1>3, <2>2, <3>1
  <2>3. CASE Loaded /\ from.blk # -1
    <3>1. from.source = <<"block", from.blk>> BY <2>3
    <3>2. SourceOf(from.blk) = from.source BY <1>3, <3>1 DEF SourceOf
    <3> QED BY <1>3, <2>3, <3>2
  <2> QED BY <2>1, <2>2, <2>3
<1> QED BY <1>3, <1>4

\* EVALUATE and LOAD come back to the text, the word and the BLK of their
\* caller, for any nesting of the two and of CATCH: what the end of a text pops
\* off the saved positions and the return stack is the place its caller left.
THEOREM SourcesAlwaysReturn == SourcesSpec => SourceReturns
<1>1. SourcesInv /\ [SourcesNext]_sourcesVars =>
        [forthpopsource /\ ~caught =>
           LET from == Evaluated.from
               home == from.blk = -1 \/ from.source = <<"block", from.blk>>
           IN (Loaded => home) =>
                [source |-> source', toin |-> toin', blk |-> blk'] = from]_sourcesVars
  BY Returned
<1> QED BY <1>1, SourcesInvariant, PTL DEF SourcesSpec, SourceReturns

-----------------------------------------------------------------------------
(* Arithmetic.  A loop over the bits of a cell or over the digits of a      *)
(* number is a recursive function: that there is such a function, and what  *)
(* it has after each turn, is shown by counting up.                         *)

\* A quotient and a remainder make up the dividend.
LEMMA QuotientAndRest ==
  ASSUME NEW n \in Int, NEW m \in Nat \ {0}
  PROVE  n % m \in 0 .. m - 1 /\ n \div m \in Int /\ n = (n \div m) * m + (n % m)
OBVIOUS

\* A multiple that is not zero is no smaller than what it is a multiple of.
LEMMA Multiples ==
  ASSUME NEW m \in Nat \ {0}, NEW k \in Int
  PROVE  k * m \in Int /\ (k > 0 => k * m >= m) /\ (k < 0 => k * m <= -m)
OBVIOUS

\* What makes up a dividend is its quotient and its remainder.
LEMMA RestIsUnique ==
  ASSUME NEW m \in Nat \ {0}, NEW n \in Int, NEW k \in Int, NEW r \in 0 .. m - 1, n = k * m + r
  PROVE  n % m = r /\ n \div m = k
<1> DEFINE q == n \div m
           s == n % m
<1>1. q \in Int /\ s \in 0 .. m - 1 /\ n = q * m + s BY QuotientAndRest
<1> HIDE DEF q, s
<1>2. (q - k) * m = r - s
  <2>1. (q - k) * m = q * m - k * m BY <1>1
  <2> QED BY <2>1, <1>1
<1>3. q = k
  <2> DEFINE e == q - k
  <2>1. e \in Int BY <1>1
  <2>2. e * m = r - s BY <1>2
  <2>3. ~(e > 0) /\ ~(e < 0)
    <3> HIDE DEF e
    <3> QED BY <2>1, <2>2, <1>1, Multiples
  <2> QED BY <2>1, <2>3, <1>1
<1>4. s = r BY <1>1, <1>3
<1> QED BY <1>3, <1>4 DEF q, s

\* What holds of 0, and of a number when it holds of the one before, holds of all
\* up to n.
LEMMA CountedUp ==
  ASSUME NEW n \in Nat, NEW T, 0 \in T, \A i \in 1 .. n : i - 1 \in T => i \in T
  PROVE  \A i \in 0 .. n : i \in T
<1> DEFINE U == {i \in 0 .. n : i \notin T}
<1>1. SUFFICES ASSUME U # {} PROVE FALSE OBVIOUS
<1>2. U \subseteq Nat OBVIOUS
<1>3. PICK i \in U : \A j \in U : i <= j
  <2> HIDE DEF U
  <2> QED BY <1>1, <1>2, LeastExists
<1>4. i \in 0 .. n /\ i \notin T BY <1>3
<1>5. i \in 1 .. n /\ i - 1 \in 0 .. n /\ ~(i <= i - 1) BY <1>4
<1>6. i - 1 \notin U BY <1>3, <1>5
<1> QED BY <1>4, <1>5, <1>6

\* What a loop from x of n turns, the i-th of which is F[i], passes through.
Passes(f, n, S, x, F) ==
  f \in [0 .. n -> S] /\ f[0] = x /\ \A i \in 1 .. n : f[i] = F[i][f[i - 1]]

\* A loop runs.
LEMMA LoopRuns ==
  ASSUME NEW n \in Nat, NEW S, NEW x \in S, NEW F \in [1 .. n -> [S -> S]]
  PROVE  \E f : Passes(f, n, S, x, F)
<1> DEFINE T == {m \in 0 .. n :
                   \E f \in [0 .. m -> S] : f[0] = x /\ \A i \in 1 .. m : f[i] = F[i][f[i - 1]]}
<1>1. 0 \in T
  <2> DEFINE f == [i \in 0 .. 0 |-> x]
  <2>1. f \in [0 .. 0 -> S] /\ f[0] = x /\ 1 .. 0 = {} OBVIOUS
  <2> HIDE DEF f
  <2> QED BY <2>1
<1>2. ASSUME NEW m \in 1 .. n, m - 1 \in T PROVE m \in T
  <2>1. PICK f \in [0 .. m - 1 -> S] :
          f[0] = x /\ \A i \in 1 .. m - 1 : f[i] = F[i][f[i - 1]] BY <1>2
  <2>2. m \in 0 .. n /\ m - 1 \in 0 .. m - 1 OBVIOUS
  <2>3. F[m] \in [S -> S] /\ f[m - 1] \in S BY <2>2
  <2> DEFINE g == [i \in 0 .. m |-> IF i = m THEN F[m][f[m - 1]] ELSE f[i]]
  <2>4. g \in [0 .. m -> S] BY <2>3
  <2>5. g[0] = x BY <2>1
  <2>6. ASSUME NEW i \in 1 .. m PROVE g[i] = F[i][g[i - 1]]
    <3>1. i - 1 \in 0 .. m /\ i - 1 # m /\ i \in 0 .. m OBVIOUS
    <3>2. g[i - 1] = f[i - 1] BY <3>1
    <3>3. g[i] = F[i][f[i - 1]]
      <4>1. CASE i = m BY <3>1, <4>1
      <4>2. CASE i # m
        <5>1. i \in 1 .. m - 1 BY <4>2
        <5>2. g[i] = f[i] BY <3>1, <4>2
        <5> HIDE DEF g
        <5> QED BY <2>1, <5>1, <5>2
      <4> QED BY <4>1, <4>2
    <3> HIDE DEF g
    <3> QED BY <3>2, <3>3
  <2> HIDE DEF g
  <2> QED BY <2>2, <2>4, <2>5, <2>6
<1> HIDE DEF T
<1>3. n \in T
  <2>1. \A i \in 0 .. n : i \in T BY <1>1, <1>2, CountedUp
  <2> QED BY <2>1
<1>4. PICK f \in [0 .. n -> S] : f[0] = x /\ \A i \in 1 .. n : f[i] = F[i][f[i - 1]]
  BY <1>3 DEF T
<1> QED BY <1>4 DEF Passes

\* A power of two is a number, and twice the one before.
LEMMA Powers ==
  /\ \A i \in 0 .. 2 * MathBits : 2 ^ i \in Nat \ {0}
  /\ \A i \in 1 .. 2 * MathBits : 2 ^ i = 2 * 2 ^ (i - 1)
  /\ 2 ^ 0 = 1
<1> DEFINE T == {i \in 0 .. 2 * MathBits : 2 ^ i \in Nat \ {0}}
           n == 2 * MathBits
<1>1. n \in Nat /\ 0 \in 0 .. n BY MathAssumption
<1>2. 0 \in T BY <1>1, MathAssumption
<1>3. ASSUME NEW i \in 1 .. n, i - 1 \in T PROVE i \in T
  <2>1. 2 ^ (i - 1) \in Nat \ {0} BY <1>3
  <2>2. 2 ^ i = 2 * 2 ^ (i - 1) BY MathAssumption
  <2>3. 2 ^ i \in Nat \ {0} BY <2>1, <2>2
  <2>4. i \in 0 .. n BY <1>1
  <2> QED BY <2>3, <2>4
<1>4. \A i \in 0 .. n : i \in T
  <2> HIDE DEF T, n
  <2> QED BY <1>1, <1>2, <1>3, CountedUp
<1> QED BY <1>4, MathAssumption

\* The cell's modulus and its sign bit.
LEMMA CellFacts ==
  Modulus \in Nat \ {0} /\ Sign \in Nat \ {0} /\ Modulus = 2 * Sign
<1>1. MathBits \in 1 .. 2 * MathBits /\ MathBits \in 0 .. 2 * MathBits
      /\ MathBits - 1 \in 0 .. 2 * MathBits
  BY MathAssumption
<1> QED BY <1>1, Powers DEF Modulus, Sign

\* Taken modulo the cell, a number keeps its residue, as an unsigned one and as
\* a signed one.
LEMMA Conversions ==
  ASSUME NEW n \in Int
  PROVE  /\ Unsigned(n) \in 0 .. Modulus - 1
         /\ Signed(n) \in Cells
         /\ Unsigned(Signed(n)) = Unsigned(n)
<1>1. Unsigned(n) \in 0 .. Modulus - 1 BY CellFacts, QuotientAndRest DEF Unsigned
<1> DEFINE u == Unsigned(n)
<1>2. Signed(n) = IF u >= Sign THEN u - Modulus ELSE u BY DEF Signed
<1> HIDE DEF u
<1>u. u \in 0 .. Modulus - 1 BY <1>1 DEF u
<1>3. Signed(n) \in Cells BY <1>2, <1>u, CellFacts DEF Cells
<1>4. Unsigned(Signed(n)) = u
  <2>1. CASE u >= Sign
    <3>1. Signed(n) = (-1) * Modulus + u /\ Signed(n) \in Int BY <2>1, <1>2, <1>u, CellFacts
    <3> QED BY <3>1, <1>u, CellFacts, RestIsUnique DEF Unsigned
  <2>2. CASE ~(u >= Sign)
    <3>1. Signed(n) = 0 * Modulus + u /\ Signed(n) \in Int BY <2>2, <1>2, <1>u, CellFacts
    <3> QED BY <3>1, <1>u, CellFacts, RestIsUnique DEF Unsigned
  <2> QED BY <2>1, <2>2
<1> QED BY <1>1, <1>3, <1>4 DEF u

\* A number less than a modulus away from the unsigned cells is one of them, or
\* becomes one by the modulus.
LEMMA UnsignedOf ==
  ASSUME NEW n \in Int, n < Modulus, -Modulus <= n
  PROVE  Unsigned(n) = IF n < 0 THEN n + Modulus ELSE n
<1>1. CASE n < 0
  <2>1. n = (-1) * Modulus + (n + Modulus) /\ n + Modulus \in 0 .. Modulus - 1 BY <1>1, CellFacts
  <2> QED BY <1>1, <2>1, CellFacts, RestIsUnique DEF Unsigned
<1>2. CASE ~(n < 0)
  <2>1. n = 0 * Modulus + n /\ n \in 0 .. Modulus - 1 BY <1>2, CellFacts
  <2> QED BY <1>2, <2>1, CellFacts, RestIsUnique DEF Unsigned
<1> QED BY <1>1, <1>2

\* A cell is a number less than half a modulus away from zero.
LEMMA CellsBounded ==
  ASSUME NEW n \in Cells
  PROVE  n \in Int /\ n < Sign /\ -Sign <= n /\ n < Modulus /\ -Modulus <= n
BY CellFacts DEF Cells

\* As a signed number a cell is itself.
LEMMA SignedOfCell ==
  ASSUME NEW n \in Cells
  PROVE  Signed(n) = n
<1>1. Unsigned(n) = IF n < 0 THEN n + Modulus ELSE n BY CellsBounded, UnsignedOf
<1> QED BY <1>1, CellsBounded, CellFacts DEF Signed

\* The shifts: to the left modulo the cell, to the right with zeroes on the left.
LEMMA Shifts ==
  ASSUME NEW n \in Int, NEW u \in 0 .. MathBits - 1
  PROVE  /\ Unsigned(shifted(n, u, TRUE)) = (n * 2 ^ u) % Modulus
         /\ Unsigned(shifted(n, u, FALSE)) = Unsigned(n) \div 2 ^ u
<1>1. u \in Int /\ ~(u >= MathBits) /\ u \in 0 .. 2 * MathBits BY MathAssumption
<1>2. u % MathBits = u
  <2>1. u = 0 * MathBits + u BY MathAssumption
  <2> QED BY <2>1, <1>1, MathAssumption, RestIsUnique
<1> DEFINE p == 2 ^ u
<1>3. p \in Nat \ {0} BY <1>1, Powers
<1>4. shifted(n, u, TRUE) = Signed(n * p) /\ shifted(n, u, FALSE) = Unsigned(n) \div p
  BY <1>1, <1>2 DEF shifted
<1> HIDE DEF p
<1>5. Unsigned(Signed(n * p)) = (n * p) % Modulus BY <1>3, Conversions DEF Unsigned
<1>6. Unsigned(Unsigned(n) \div p) = Unsigned(n) \div p
  <2> DEFINE a == Unsigned(n)
             q == a \div p
             s == a % p
  <2>1. a \in 0 .. Modulus - 1 BY Conversions
  <2>2. q \in Int /\ s \in 0 .. p - 1 /\ a = q * p + s
    <3> HIDE DEF a
    <3> QED BY <2>1, <1>3, CellFacts, QuotientAndRest
  <2>3. q >= 0 /\ q <= a
    <3> HIDE DEF a, q, s
    <3>1. q < 0 => q * p <= -p BY <2>2, <1>3, Multiples
    <3>2. q * p \in Int BY <2>2, <1>3
    <3>3. q >= 0 BY <3>1, <3>2, <2>1, <2>2, <1>3, CellFacts
    <3>4. q * p >= q BY <3>3, <2>2, <1>3
    <3> QED BY <3>2, <3>3, <3>4, <2>1, <2>2, <1>3, CellFacts
  <2> HIDE DEF q
  <2>4. q < Modulus /\ -Modulus <= q /\ ~(q < 0) BY <2>1, <2>2, <2>3, CellFacts
  <2>5. Unsigned(q) = q BY <2>2, <2>4, UnsignedOf
  <2> QED BY <2>5 DEF q
<1> QED BY <1>4, <1>5, <1>6 DEF p

\* Half of a cell, rounded down.
LEMMA Halved ==
  ASSUME NEW n \in Cells
  PROVE  n - 2 * (Signed(n) \div 2) \in {0, 1}
<1>1. Signed(n) = n /\ n \in Int BY CellsBounded, SignedOfCell
<1>2. n % 2 \in 0 .. 1 /\ n \div 2 \in Int /\ n = (n \div 2) * 2 + (n % 2)
  BY <1>1, QuotientAndRest
<1> DEFINE q == n \div 2
           r == n % 2
<1> HIDE DEF q, r
<1>3. r \in 0 .. 1 /\ q \in Int /\ n = q * 2 + r BY <1>2 DEF q, r
<1>4. n - 2 * q \in {0, 1} BY <1>1, <1>3
<1> QED BY <1>1, <1>4 DEF q

\* U< compares the unsigned numbers with the same bits.
LEMMA UnsignedLess ==
  ASSUME NEW u1 \in Cells, NEW u2 \in Cells
  PROVE  (forthuless(u1, u2) = -1) = (Unsigned(u1) < Unsigned(u2))
<1>1. Unsigned(u1) = IF u1 < 0 THEN u1 + Modulus ELSE u1 BY CellsBounded, UnsignedOf
<1>2. Unsigned(u2) = IF u2 < 0 THEN u2 + Modulus ELSE u2 BY CellsBounded, UnsignedOf
<1> QED BY <1>1, <1>2 DEF forthuless, Flag

\* WITHIN goes around the end of the cells.
LEMMA CircularRange ==
  ASSUME NEW n \in Cells, NEW lo \in Cells, NEW hi \in Cells
  PROVE  (forthwithin(n, lo, hi) = -1) = (Unsigned(n - lo) < Unsigned(hi - lo))
<1>1. n - lo \in Int /\ n - lo < Modulus /\ -Modulus <= n - lo BY CellsBounded, CellFacts
<1>2. hi - lo \in Int /\ hi - lo < Modulus /\ -Modulus <= hi - lo BY CellsBounded, CellFacts
<1>3. Unsigned(n - lo) = IF n - lo < 0 THEN (n - lo) + Modulus ELSE n - lo BY <1>1, UnsignedOf
<1>4. Unsigned(hi - lo) = IF hi - lo < 0 THEN (hi - lo) + Modulus ELSE hi - lo
  BY <1>2, UnsignedOf
<1> DEFINE p == \/ lo < hi /\ lo <= n /\ n < hi
                \/ lo > hi /\ (lo <= n \/ n < hi)
<1>5. forthwithin(n, lo, hi) = IF p THEN -1 ELSE 0 BY DEF forthwithin, Flag
<1>6. n \in Int /\ lo \in Int /\ hi \in Int /\ Modulus \in Int
      /\ n < Sign /\ -Sign <= n /\ lo < Sign /\ -Sign <= lo /\ hi < Sign /\ -Sign <= hi
      /\ Sign \in Int /\ Modulus = 2 * Sign
  BY CellsBounded, CellFacts
<1>7. p <=> (Unsigned(n - lo) < Unsigned(hi - lo)) BY <1>3, <1>4, <1>6
<1> HIDE DEF p
<1>8. (forthwithin(n, lo, hi) = -1) <=> p BY <1>5
<1> QED BY <1>7, <1>8

\* A number that needs no more bits than there are is not rounded.
LEMMA NotRounded ==
  ASSUME NEW n, Precise(n)
  PROVE  Rounded(n) = n
BY DEF Precise, Rounded

\* Cells are not rounded, nor are smaller numbers than one that is not.
LEMMA CellsPrecise ==
  /\ \A n \in Cells : Precise(n)
  /\ \A n, m \in Nat : n <= m /\ Precise(m) => Precise(n)
<1>1. 2 ^ Mantissa \in Nat /\ 2 * Modulus < 2 ^ Mantissa BY MathAssumption
<1>2. ASSUME NEW n \in Cells PROVE Precise(n)
  <2>1. n \in Int /\ n >= -Sign /\ n < Sign BY CellsBounded, CellFacts DEF Cells
  <2>2. Sign \in Nat /\ Modulus = 2 * Sign BY CellFacts
  <2> QED BY <1>1, <2>1, <2>2 DEF Precise, Magnitude
<1>3. ASSUME NEW n \in Nat, NEW m \in Nat, n <= m, Precise(m) PROVE Precise(n)
  BY <1>1, <1>3 DEF Precise, Magnitude
<1> QED BY <1>2, <1>3

\* Either the quotient is a negative whole number below -1, or it is truncated
\* and makes up the dividend with the remainder.
LEMMA Divided ==
  ASSUME NEW n \in Int, NEW d \in Int, d # 0, Precise(n)
  PROVE  \/ n * d < 0 /\ n % Magnitude(d) = 0 /\ Magnitude(n) > Magnitude(d)
         \/ /\ Quotient(n, d) = Truncated(n, d)
            /\ n = Quotient(n, d) * d + Remainder(n, d)
<1> DEFINE an == Magnitude(n)
           ad == Magnitude(d)
           q == an \div ad
           r == an % ad
<1>1. an \in Nat /\ ad \in Nat \ {0} BY DEF Magnitude
<1>a. an = IF n < 0 THEN -n ELSE n BY DEF Magnitude
<1>b. ad = IF d < 0 THEN -d ELSE d BY DEF Magnitude
<1> HIDE DEF an, ad
<1>2. q \in Int /\ r \in 0 .. ad - 1 /\ an = q * ad + r BY <1>1, QuotientAndRest
<1>3. /\ Quotient(n, d) = IF n * d < 0 THEN NegativeQuotient(q, r = 0) ELSE q
      /\ Truncated(n, d) = IF n * d < 0 THEN -q ELSE q
      /\ Remainder(n, d) = IF n < 0 THEN -r ELSE r
  <2>1. an < 2 ^ Mantissa BY DEF Precise, an
  <2>2. Ratio(an, ad) = [whole |-> q, exact |-> r = 0] BY <2>1 DEF Ratio
  <2>3. Ratio(an, ad).whole = q /\ Ratio(an, ad).exact = (r = 0) BY <2>2
  <2>4. /\ Quotient(n, d) = IF n * d < 0 THEN NegativeQuotient(Ratio(an, ad).whole, Ratio(an, ad).exact)
                            ELSE Ratio(an, ad).whole
        /\ Truncated(n, d) = IF n * d < 0 THEN -q ELSE q
        /\ Remainder(n, d) = IF n < 0 THEN -r ELSE r
    BY DEF Quotient, Truncated, Remainder, an, ad
  <2> HIDE DEF q, r
  <2> QED BY <2>3, <2>4
<1> HIDE DEF q, r
<1>4. n * d < 0 <=> (n < 0 /\ d > 0) \/ (n > 0 /\ d < 0) OBVIOUS
<1>5. q * d = IF d < 0 THEN -(q * ad) ELSE q * ad BY <1>1, <1>2, <1>b
<1>6. (-q) * d = -(q * d) /\ q * d \in Int /\ q * ad \in Int BY <1>1, <1>2
<1>7. CASE n * d < 0 /\ r = 0 /\ q > 1
  <2>1. an = q * ad BY <1>1, <1>2, <1>7
  <2>2. an > ad BY <2>1, <1>1, <1>2, <1>7
  <2>3. n % ad = 0
    <3>1. CASE n < 0
      <4>1. n = (-q) * ad + 0 /\ -q \in Int
        <5>1. (-q) * ad = -(q * ad) BY <1>1, <1>2
        <5> DEFINE qa == q * ad
                   nq == (-q) * ad
        <5>2. nq = -qa /\ qa \in Int /\ an = qa BY <5>1, <1>6, <2>1
        <5> HIDE DEF qa, nq
        <5>3. n = nq + 0 BY <5>2, <3>1, <1>a
        <5> QED BY <5>3, <1>2 DEF nq
      <4>2. 0 \in 0 .. ad - 1 BY <1>1
      <4> QED BY <4>1, <4>2, <1>1, RestIsUnique
    <3>2. CASE ~(n < 0)
      <4>1. n = q * ad + 0 BY <3>2, <2>1, <1>1, <1>2, <1>a
      <4> QED BY <4>1, <1>1, <1>2, RestIsUnique
    <3> QED BY <3>1, <3>2
  <2> QED BY <1>7, <2>2, <2>3 DEF an, ad
<1>8. CASE n * d < 0 /\ ~(r = 0 /\ q > 1)
  <2>1. Quotient(n, d) = -q
    <3>1. ~(r = 0 /\ q \in 2 .. 2 ^ Mantissa) BY <1>2, <1>8, MathAssumption
    <3> QED BY <1>3, <1>8, <3>1 DEF NegativeQuotient
  <2>2. n = (-q) * d + Remainder(n, d)
    <3> DEFINE qd == q * d
               qa == q * ad
    <3>1. qd = IF d < 0 THEN -qa ELSE qa BY <1>5
    <3>2. qd \in Int /\ qa \in Int /\ (-q) * d = -qd BY <1>6
    <3>3. an = qa + r BY <1>2
    <3> HIDE DEF qd, qa
    <3> QED BY <3>1, <3>2, <3>3, <1>2, <1>3, <1>4, <1>8, <1>a
  <2> QED BY <1>3, <1>8, <2>1, <2>2
<1>9. CASE ~(n * d < 0)
  <2>1. Quotient(n, d) = q BY <1>3, <1>9
  <2>2. n = q * d + Remainder(n, d)
    <3> DEFINE qd == q * d
               qa == q * ad
    <3>1. qd = IF d < 0 THEN -qa ELSE qa BY <1>5
    <3>2. qd \in Int /\ qa \in Int BY <1>6
    <3>3. an = qa + r BY <1>2
    <3>4. n = 0 => qa = 0 /\ r = 0
      <4>1. SUFFICES ASSUME n = 0 PROVE qa = 0 /\ r = 0 OBVIOUS
      <4>2. qa + r = 0 BY <4>1, <3>3, <1>a
      <4>3. q < 0 => qa <= -ad BY <1>1, <1>2, Multiples
      <4>4. q > 0 => qa >= ad BY <1>1, <1>2, Multiples
      <4>5. q = 0 => qa = 0 BY <1>1
      <4> HIDE DEF qa
      <4> QED BY <4>2, <4>3, <4>4, <4>5, <3>2, <1>1, <1>2
    <3> HIDE DEF qd, qa
    <3>5. (n < 0 => d < 0) /\ (n > 0 => d > 0) BY <1>4, <1>9
    <3>6. n = qd + Remainder(n, d) BY <3>1, <3>2, <3>3, <3>4, <3>5, <1>2, <1>3, <1>a
    <3> QED BY <3>6 DEF qd
  <2> QED BY <1>3, <1>9, <2>1, <2>2
<1> QED BY <1>7, <1>8, <1>9

\* What a call of one of the words on single cells is given.
LEMMA CallsOnSingles ==
  ASSUME NEW c \in Calls
  PROVE  /\ c[1] \in {"2*", "2/"} => c[2] = <<c[2][1]>> /\ c[2][1] \in Cells
         /\ c[1] \in {"u<", "+", "-", "*", "lshift", "rshift"} =>
              c[2][1] \in Cells /\ c[2][2] \in Cells
         /\ c[1] = "/mod" => c[2][1] \in Cells /\ c[2][2] \in Cells /\ c[2][2] # 0
         /\ c[1] = "*/mod" =>
              c[2][1] \in Cells /\ c[2][2] \in Cells /\ c[2][3] \in Cells /\ c[2][3] # 0
         /\ c[1] = "within" => c[2][1] \in Cells /\ c[2][2] \in Cells /\ c[2][3] \in Cells
<1>1. Corners \subseteq Cells BY MathAssumption
<1>2. CASE c[1] \in {"2*", "2/"} BY <1>2 DEF Calls
<1>3. CASE c[1] \in {"u<", "+", "-", "*", "lshift", "rshift"}
  <2>1. c[2] \in Cells \X Cells BY <1>3 DEF Calls
  <2> QED BY <1>3, <2>1
<1>4. CASE c[1] = "/mod" BY <1>4 DEF Calls
<1>5. CASE c[1] = "*/mod"
  <2>1. c[2] \in Corners \X Corners \X Cells /\ c[2][3] # 0 BY <1>5 DEF Calls
  <2> QED BY <1>1, <1>5, <2>1
<1>6. CASE c[1] = "within"
  <2>1. c[2] \in Cells \X Corners \X Corners BY <1>6 DEF Calls
  <2> QED BY <1>1, <1>6, <2>1
<1> QED BY <1>2, <1>3, <1>4, <1>5, <1>6

\* A call leaves what the word's name says.
LEMMA CallExact ==
  ASSUME MathNext
  PROVE  SinglesExact'
<1>1. PICK c \in Calls : mathWord' = c[1] /\ mathArgs' = c[2] /\ mathResult' = Computed(c[1], c[2])
  BY DEF MathNext
<1> DEFINE w == c[1]
           a == c[2]
           z == Computed(w, a)
<1>2. mathWord' = w /\ mathArgs' = a /\ mathResult' = z BY <1>1
<1>c. CASE w \in {"u<", "+", "-", "*", "lshift", "rshift"}
  <2>1. a[1] \in Cells /\ a[2] \in Cells BY <1>c, CallsOnSingles
  <2>2. a[1] \in Int /\ a[2] \in Int BY <2>1, CellsBounded
  <2>3. CASE w = "+"
    <3>1. z = <<a[1] + a[2]>> BY <2>3 DEF Computed
    <3>2. Unsigned(z[1]) = (a[1] + a[2]) % Modulus BY <3>1 DEF Unsigned
    <3> HIDE DEF a, z
    <3> QED BY <1>2, <2>3, <3>2 DEF SinglesExact
  <2>4. CASE w = "-"
    <3>1. z = <<a[1] - a[2]>> BY <2>4 DEF Computed
    <3>2. Unsigned(z[1]) = (a[1] - a[2]) % Modulus BY <3>1 DEF Unsigned
    <3> HIDE DEF a, z
    <3> QED BY <1>2, <2>4, <3>2 DEF SinglesExact
  <2>5. CASE w = "*"
    <3>1. z = <<Signed(Rounded(a[1] * a[2]))>> BY <2>5 DEF Computed
    <3>2. Unsigned(Signed(a[1] * a[2])) = Unsigned(a[1] * a[2]) BY <2>2, Conversions
    <3>3. Precise(a[1] * a[2]) => Unsigned(z[1]) = (a[1] * a[2]) % Modulus
      BY <3>1, <3>2, NotRounded DEF Unsigned
    <3> HIDE DEF a, z
    <3> QED BY <1>2, <2>5, <3>3 DEF SinglesExact
  <2>6. CASE w = "lshift"
    <3>1. z = <<shifted(a[1], a[2], TRUE)>> BY <2>6 DEF Computed
    <3>2. a[2] \in 0 .. MathBits - 1 => Unsigned(z[1]) = (a[1] * 2 ^ a[2]) % Modulus
      <4>1. z[1] = shifted(a[1], a[2], TRUE) BY <3>1
      <4> HIDE DEF a, z
      <4> QED BY <2>2, <4>1, Shifts
    <3> HIDE DEF a, z
    <3> QED BY <1>2, <2>6, <3>2 DEF SinglesExact
  <2>7. CASE w = "rshift"
    <3>1. z = <<shifted(a[1], a[2], FALSE)>> BY <2>7 DEF Computed
    <3>2. a[2] \in 0 .. MathBits - 1 => Unsigned(z[1]) = Unsigned(a[1]) \div 2 ^ a[2]
      <4>1. z[1] = shifted(a[1], a[2], FALSE) BY <3>1
      <4> HIDE DEF a, z
      <4> QED BY <2>2, <4>1, Shifts
    <3> HIDE DEF a, z
    <3> QED BY <1>2, <2>7, <3>2 DEF SinglesExact
  <2>8. CASE w = "u<"
    <3>1. z = <<forthuless(a[1], a[2])>> BY <2>8 DEF Computed
    <3>2. (z[1] = -1) = (Unsigned(a[1]) < Unsigned(a[2])) BY <2>1, <3>1, UnsignedLess
    <3> HIDE DEF a, z
    <3> QED BY <1>2, <2>8, <3>2 DEF SinglesExact
  <2> QED BY <1>c, <2>3, <2>4, <2>5, <2>6, <2>7, <2>8
<1>d. CASE w \in {"2*", "2/"}
  <2>1. a[1] \in Cells BY <1>d, CallsOnSingles
  <2>2. a[1] \in Int BY <2>1, CellsBounded
  <2>3. CASE w = "2*"
    <3>1. z = <<Signed(2 * a[1])>> BY <2>3 DEF Computed
    <3>2. Unsigned(Signed(2 * a[1])) = Unsigned(2 * a[1]) BY <2>2, Conversions
    <3>3. Unsigned(z[1]) = (2 * a[1]) % Modulus BY <3>1, <3>2 DEF Unsigned
    <3> HIDE DEF a, z
    <3> QED BY <1>2, <2>3, <3>3 DEF SinglesExact
  <2>4. CASE w = "2/"
    <3>1. z = <<Signed(a[1]) \div 2>> BY <2>4 DEF Computed
    <3>2. a[1] - 2 * z[1] \in {0, 1} BY <2>1, <3>1, Halved
    <3> HIDE DEF a, z
    <3> QED BY <1>2, <2>4, <3>2 DEF SinglesExact
  <2> QED BY <1>d, <2>3, <2>4
<1> DEFINE Divides(n, d) ==
             \/ n * d < 0 /\ n % Magnitude(d) = 0 /\ Magnitude(n) > Magnitude(d)
             \/ z[2] = Truncated(n, d) /\ n = z[2] * d + z[1]
<1>e. CASE w = "/mod"
  <2>1. a[1] \in Int /\ a[2] \in Int /\ a[2] # 0 /\ Precise(a[1])
    BY <1>e, CallsOnSingles, CellsBounded, CellsPrecise
  <2>2. z = <<Remainder(a[1], a[2]), Quotient(a[1], a[2])>> BY <1>e DEF Computed
  <2>3. Divides(a[1], a[2]) BY <2>1, <2>2, Divided
  <2> HIDE DEF a, z
  <2> QED BY <1>2, <1>e, <2>3 DEF SinglesExact
<1>f. CASE w = "*/mod"
  <2>1. a[1] \in Int /\ a[2] \in Int /\ a[3] \in Int /\ a[3] # 0
    BY <1>f, CallsOnSingles, CellsBounded
  <2>2. a[1] * a[2] \in Int BY <2>1
  <2> DEFINE p == a[1] * a[2]
  <2>3. z = <<Remainder(Rounded(p), a[3]), Quotient(Rounded(p), a[3])>> BY <1>f DEF Computed
  <2>4. ASSUME Precise(p) PROVE Divides(p, a[3])
    <3>1. z = <<Remainder(p, a[3]), Quotient(p, a[3])>>
      <4>1. Rounded(p) = p BY <2>4, NotRounded
      <4> HIDE DEF p
      <4> QED BY <2>3, <4>1
    <3>2. p \in Int BY <2>2
    <3> HIDE DEF p
    <3> QED BY <2>1, <2>4, <3>1, <3>2, Divided
  <2> HIDE DEF a, z
  <2> QED BY <1>2, <1>f, <2>4 DEF SinglesExact
<1>g. CASE w = "within"
  <2>1. a[1] \in Cells /\ a[2] \in Cells /\ a[3] \in Cells BY <1>g, CallsOnSingles
  <2>2. z = <<forthwithin(a[1], a[2], a[3])>> BY <1>g DEF Computed
  <2>3. (z[1] = -1) = (Unsigned(a[1] - a[2]) < Unsigned(a[3] - a[2]))
    BY <2>1, <2>2, CircularRange
  <2> HIDE DEF a, z
  <2> QED BY <1>2, <1>g, <2>3 DEF SinglesExact
<1>h. CASE w \notin {"u<", "+", "-", "*", "lshift", "rshift", "2*", "2/", "/mod", "*/mod", "within"}
  <2> HIDE DEF a, z
  <2> QED BY <1>2, <1>h DEF SinglesExact
<1> QED BY <1>c, <1>d, <1>e, <1>f, <1>g, <1>h

\* In every width of a cell and of the mantissa, a word on single cells leaves what
\* its name says, modulo the cell, but for products that JavaScript rounds and for
\* the quotients that are negative whole numbers.
THEOREM SingleCellsExact == MathSpec => []SinglesExact
<1>1. MathInit => SinglesExact BY DEF MathInit, SinglesExact
<1>2. SinglesExact /\ [MathNext]_mathVars => SinglesExact'
  <2>1. SinglesExact /\ UNCHANGED mathVars => SinglesExact' BY DEF mathVars, SinglesExact
  <2> QED BY <2>1, CallExact
<1> QED BY <1>1, <1>2, PTL DEF MathSpec

-----------------------------------------------------------------------------
(* Doubles. *)

\* A product of a number that is not less.
LEMMA ProductsOrdered ==
  ASSUME NEW a \in Nat, NEW b \in Nat, NEW k \in Nat, a <= b
  PROVE  k * a \in Nat /\ k * b \in Nat /\ k * a <= k * b /\ a * k = k * a /\ b * k = k * b
<1>1. k * a \in Nat /\ k * b \in Nat /\ a * k = k * a /\ b * k = k * b OBVIOUS
<1>2. b - a \in Nat /\ k * (b - a) = k * b - k * a OBVIOUS
<1>3. k * (b - a) \in Nat BY <1>2
<1> QED BY <1>1, <1>2, <1>3

\* A number and what it is converted to differ by a multiple of the modulus.
LEMMA SignedCongruent ==
  ASSUME NEW n \in Int
  PROVE  \E j \in Int : Signed(n) = n + j * Modulus /\ j * Modulus \in Int
<1> DEFINE q == n \div Modulus
           u == Unsigned(n)
<1>1. q \in Int /\ u \in 0 .. Modulus - 1 /\ n = q * Modulus + u
  BY CellFacts, QuotientAndRest DEF Unsigned
<1>2. Signed(n) = IF u >= Sign THEN u - Modulus ELSE u BY DEF Signed
<1> HIDE DEF q, u
<1>3. (-q) * Modulus = -(q * Modulus) /\ (-q - 1) * Modulus = -(q * Modulus) - Modulus
      /\ q * Modulus \in Int
  BY <1>1, CellFacts
<1>4. CASE u >= Sign
  <2>1. Signed(n) = n + (-q - 1) * Modulus
    <3> DEFINE qm == q * Modulus
               j == (-q - 1) * Modulus
    <3>1. qm \in Int /\ j = -qm - Modulus /\ n = qm + u BY <1>1, <1>3
    <3> HIDE DEF qm, j
    <3>2. Signed(n) = n + j BY <3>1, <1>1, <1>2, <1>4, CellFacts
    <3> QED BY <3>2 DEF j
  <2>2. -q - 1 \in Int /\ (-q - 1) * Modulus \in Int BY <1>1, CellFacts
  <2> QED BY <2>1, <2>2
<1>5. CASE ~(u >= Sign)
  <2>1. Signed(n) = n + (-q) * Modulus
    <3> DEFINE qm == q * Modulus
               j == (-q) * Modulus
    <3>1. qm \in Int /\ j = -qm /\ n = qm + u BY <1>1, <1>3
    <3> HIDE DEF qm, j
    <3>2. Signed(n) = n + j BY <3>1, <1>1, <1>2, <1>5, CellFacts
    <3> QED BY <3>2 DEF j
  <2>2. -q \in Int /\ (-q) * Modulus \in Int BY <1>1, CellFacts
  <2> QED BY <2>1, <2>2
<1> QED BY <1>4, <1>5

\* A number of so many moduli and an unsigned cell.
LEMMA UnsignedIs ==
  ASSUME NEW n \in Int, NEW k \in Int, NEW u \in 0 .. Modulus - 1, n = k * Modulus + u
  PROVE  Unsigned(n) = u
BY CellFacts, RestIsUnique DEF Unsigned

\* The next bit of a number, from the left.
LEMMA NextBit ==
  ASSUME NEW a \in Nat, NEW p \in Nat \ {0}
  PROVE  /\ a \div p \in Nat /\ a \div p <= a
         /\ (a \div p) % 2 \in {0, 1}
         /\ a \div p = 2 * (a \div (2 * p)) + ((a \div p) % 2)
<1> DEFINE q == a \div p
           r == a % p
           h == q \div 2
           b == q % 2
<1>1. q \in Int /\ r \in 0 .. p - 1 /\ a = q * p + r BY QuotientAndRest
<1>2. h \in Int /\ b \in 0 .. 1 /\ q = h * 2 + b
  <2> HIDE DEF q
  <2> QED BY <1>1, QuotientAndRest
<1> HIDE DEF q, r, h, b
<1>3. q >= 0 /\ q <= a
  <2>1. q < 0 => q * p <= -p BY <1>1, Multiples
  <2>2. q * p \in Int BY <1>1
  <2>3. q >= 0 BY <1>1, <2>1, <2>2
  <2>4. q * p >= q BY <2>3, <1>1
  <2> QED BY <1>1, <2>2, <2>3, <2>4
<1>4. a \div (2 * p) = h
  <2>1. q * p = h * (2 * p) + b * p BY <1>1, <1>2
  <2>2. b * p = 0 \/ b * p = p BY <1>2
  <2>3. 2 * p \in Nat \ {0} /\ b * p + r \in 0 .. 2 * p - 1 BY <1>1, <2>2
  <2>4. a = h * (2 * p) + (b * p + r)
    <3> DEFINE x == q * p
               y == h * (2 * p)
               w == b * p
    <3>1. x = y + w /\ y \in Int /\ w \in Int /\ a = x + r BY <1>1, <1>2, <2>1, <2>2
    <3> HIDE DEF x, y, w
    <3>2. a = y + (w + r) BY <3>1, <1>1
    <3> QED BY <3>2 DEF y, w
  <2> QED BY <2>3, <2>4, <1>2, RestIsUnique
<1>5. q = 2 * h + b /\ b \in {0, 1} BY <1>2
<1>6. q \in Nat BY <1>1, <1>3
<1> QED BY <1>3, <1>4, <1>5, <1>6 DEF q, b

\* The most significant bit of a cell is set from the sign bit on.
LEMMA TopBit ==
  ASSUME NEW n \in Int
  PROVE  Bit(n, MathBits - 1) = IF Unsigned(n) >= Sign THEN 1 ELSE 0
<1> DEFINE u == Unsigned(n)
<1>1. u \in 0 .. Modulus - 1 BY Conversions
<1>2. Bit(n, MathBits - 1) = (u \div Sign) % 2 BY DEF Bit, Sign
<1> HIDE DEF u
<1>3. CASE u >= Sign
  <2>1. u = 1 * Sign + (u - Sign) /\ u - Sign \in 0 .. Sign - 1 BY <1>1, <1>3, CellFacts
  <2>2. u \div Sign = 1 BY <2>1, <1>1, CellFacts, RestIsUnique
  <2> QED BY <1>2, <1>3, <2>2 DEF u
<1>4. CASE ~(u >= Sign)
  <2>1. u = 0 * Sign + u /\ u \in 0 .. Sign - 1 BY <1>1, <1>4, CellFacts
  <2>2. u \div Sign = 0 BY <2>1, <1>1, CellFacts, RestIsUnique
  <2> QED BY <1>2, <1>4, <2>2 DEF u
<1> QED BY <1>3, <1>4

\* What a turn of UM* makes of a partial product that fits a cell twice over.
LEMMA ShiftAddTurn ==
  ASSUME NEW lo \in Int, NEW p \in Nat, NEW u1 \in Nat, NEW bit \in {0, 1}, NEW r \in Nat,
         -Sign <= lo, lo <= p, Unsigned(lo) = p,
         r = 2 * p + (IF bit = 0 THEN 0 ELSE u1), r < Modulus
  PROVE  \E l \in Int : /\ ShiftAdd(u1, bit, <<lo, 0>>) = <<l, 0>>
                        /\ -Sign <= l /\ l <= r /\ Unsigned(l) = r
<1> DEFINE l == Signed(2 * lo)
<1>1. 2 * p \in 0 .. Modulus - 1 /\ 2 * p <= r /\ ~(p >= Sign) BY CellFacts
<1>2. Unsigned(2 * lo) = 2 * p
  <2> DEFINE k == lo \div Modulus
  <2>1. k \in Int /\ lo = k * Modulus + p BY CellFacts, QuotientAndRest DEF Unsigned
  <2> HIDE DEF k
  <2>2. 2 * lo = (2 * k) * Modulus + 2 * p
    <3> DEFINE m == k * Modulus
    <3>1. m \in Int /\ (2 * k) * Modulus = 2 * m BY <2>1, CellFacts
    <3>2. lo = m + p BY <2>1
    <3> HIDE DEF m
    <3>3. 2 * lo = 2 * m + 2 * p BY <3>1, <3>2
    <3> QED BY <3>1, <3>3
  <2>3. 2 * lo \in Int /\ 2 * k \in Int BY <2>1
  <2> QED BY <1>1, <2>2, <2>3, UnsignedIs
<1>3. l \in Int /\ -Sign <= l /\ l <= 2 * p
  <2>1. l = IF 2 * p >= Sign THEN 2 * p - Modulus ELSE 2 * p BY <1>2 DEF Signed
  <2> HIDE DEF l
  <2> QED BY <2>1, <1>1, CellFacts
<1>4. Unsigned(l) = 2 * p BY <1>2, Conversions
<1>5. Signed(2 * 0) = 0
  <2>1. 0 \in Cells BY CellFacts DEF Cells
  <2> QED BY <2>1, SignedOfCell
<1>6. Bit(lo, MathBits - 1) = 0 BY <1>1, TopBit
<1>7. ShiftAdd(u1, bit, <<lo, 0>>)
        = IF bit = 0 THEN <<l, 0>> ELSE <<l + u1, IF l + u1 > Modulus - 1 THEN 1 ELSE 0>>
  <2> DEFINE d == <<lo, 0>>
             hi == Signed(2 * d[2]) + Bit(d[1], MathBits - 1)
  <2>1. d[1] = lo /\ d[2] = 0 OBVIOUS
  <2>2. Signed(2 * d[1]) = l /\ hi = 0 BY <2>1, <1>5, <1>6
  <2>3. ShiftAdd(u1, bit, d)
          = IF bit = 0 THEN <<Signed(2 * d[1]), hi>>
            ELSE <<Signed(2 * d[1]) + u1,
                   IF Signed(2 * d[1]) + u1 > Modulus - 1 THEN hi + 1 ELSE hi>>
    BY DEF ShiftAdd
  <2> HIDE DEF l, hi
  <2> QED BY <2>2, <2>3
<1> HIDE DEF l
<1>8. CASE bit = 0 BY <1>1, <1>3, <1>4, <1>7, <1>8
<1>9. CASE bit = 1
  <2>1. r = 2 * p + u1 /\ l + u1 \in Int /\ l + u1 <= r /\ -Sign <= l + u1 BY <1>3, <1>9, CellFacts
  <2>2. ShiftAdd(u1, bit, <<lo, 0>>) = <<l + u1, 0>> BY <1>7, <1>9, <2>1, CellFacts
  <2>3. Unsigned(l + u1) = r
    <3> DEFINE k == l \div Modulus
    <3>a. k \in Int /\ l = k * Modulus + (l % Modulus) BY <1>3, CellFacts, QuotientAndRest
    <3>b. l % Modulus = 2 * p BY <1>4 DEF Unsigned
    <3> HIDE DEF k
    <3>1. k \in Int /\ l = k * Modulus + 2 * p BY <3>a, <3>b
    <3>2. l + u1 = k * Modulus + r
      <4> DEFINE m == k * Modulus
      <4>1. m \in Int /\ l = m + 2 * p BY <3>1, CellFacts
      <4> HIDE DEF m
      <4>2. l + u1 = m + r BY <4>1, <2>1
      <4> QED BY <4>2 DEF m
    <3>3. r \in 0 .. Modulus - 1 BY CellFacts
    <3> QED BY <2>1, <3>1, <3>2, <3>3, UnsignedIs
  <2> QED BY <2>1, <2>2, <2>3
<1> QED BY <1>8, <1>9

\* The loop of UM*.
MultiplyLoop(f, u1, u2) ==
  f = [i \in 0 .. MathBits |->
         IF i = 0 THEN <<0, 0>> ELSE ShiftAdd(u1, Bit(u2, MathBits - i), f[i - 1])]

\* There is such a loop.
LEMMA MultiplyRuns ==
  ASSUME NEW u1 \in Int, NEW u2 \in Int
  PROVE  \E f : MultiplyLoop(f, u1, u2)
<1> DEFINE S == Int \X Int
           F == [i \in 1 .. MathBits |-> [d \in S |-> ShiftAdd(u1, Bit(u2, MathBits - i), d)]]
<1>1. ASSUME NEW b, NEW d \in S PROVE ShiftAdd(u1, b, d) \in S
  <2>1. d[1] \in Int /\ d[2] \in Int BY <1>1
  <2>2. Signed(2 * d[1]) \in Int /\ Signed(2 * d[2]) \in Int
    BY <2>1, Conversions, CellsBounded
  <2>3. Bit(d[1], MathBits - 1) \in Int BY <2>1, TopBit
  <2> QED BY <2>2, <2>3, CellFacts DEF ShiftAdd
<1>2. F \in [1 .. MathBits -> [S -> S]] BY <1>1
<1> DEFINE x == <<0, 0>>
<1>3. x \in S /\ MathBits \in Nat BY MathAssumption
<1>4. PICK f : Passes(f, MathBits, S, x, F)
  <2> HIDE DEF F, S, x
  <2> QED BY <1>2, <1>3, LoopRuns
<1>9. /\ f \in [0 .. MathBits -> S] /\ f[0] = x
      /\ \A i \in 1 .. MathBits : f[i] = F[i][f[i - 1]]
  BY <1>4 DEF Passes
<1>5. ASSUME NEW i \in 1 .. MathBits
      PROVE  f[i] = ShiftAdd(u1, Bit(u2, MathBits - i), f[i - 1])
  <2>1. i - 1 \in 0 .. MathBits BY <1>3
  <2>2. f[i - 1] \in S BY <1>9, <2>1
  <2>3. F[i][f[i - 1]] = ShiftAdd(u1, Bit(u2, MathBits - i), f[i - 1])
    <3> HIDE DEF S
    <3> QED BY <2>2
  <2> QED BY <1>9, <2>3
<1>6. f = [i \in 0 .. MathBits |-> f[i]] BY <1>9
<1>7. \A i \in 0 .. MathBits :
        f[i] = IF i = 0 THEN <<0, 0>> ELSE ShiftAdd(u1, Bit(u2, MathBits - i), f[i - 1])
  <2> SUFFICES ASSUME NEW i \in 0 .. MathBits
               PROVE  f[i] = IF i = 0 THEN <<0, 0>>
                             ELSE ShiftAdd(u1, Bit(u2, MathBits - i), f[i - 1])
    OBVIOUS
  <2>1. CASE i = 0 BY <1>9, <2>1
  <2>2. CASE i # 0
    <3>1. i \in 1 .. MathBits BY <1>3, <2>2
    <3> QED BY <1>5, <2>2, <3>1
  <2> QED BY <2>1, <2>2
<1>8. MultiplyLoop(f, u1, u2) BY <1>6, <1>7 DEF MultiplyLoop
<1> QED BY <1>8

\* A product that fits a cell is the low cell of what UM* leaves, and the other
\* is 0.
LEMMA MultiplyExact ==
  ASSUME NEW u1 \in 0 .. Sign, NEW u2 \in 0 .. Sign, u1 * u2 < Modulus
  PROVE  \E l \in Int : /\ forthummul(u1, u2) = <<l, 0>>
                        /\ -Sign <= l /\ l <= u1 * u2 /\ Unsigned(l) = u1 * u2
<1>0. u1 \in Nat /\ u2 \in Nat /\ u2 < Modulus /\ u2 \in 0 .. Modulus - 1 BY CellFacts
<1> DEFINE f == CHOOSE g : MultiplyLoop(g, u1, u2)
           n == MathBits
<1>1. forthummul(u1, u2) = f[n] BY DEF forthummul, MultiplyLoop
<1>2. MultiplyLoop(f, u1, u2) BY <1>0, MultiplyRuns
<1>3. n \in Nat \ {0} BY MathAssumption
<1> HIDE DEF f, n
<1>4. f[0] = <<0, 0>> /\ \A i \in 1 .. n : f[i] = ShiftAdd(u1, Bit(u2, n - i), f[i - 1])
  <2>1. f = [i \in 0 .. n |-> IF i = 0 THEN <<0, 0>>
                              ELSE ShiftAdd(u1, Bit(u2, n - i), f[i - 1])]
    BY <1>2 DEF MultiplyLoop, n
  <2>2. 0 \in 0 .. n /\ \A i \in 1 .. n : i \in 0 .. n /\ i # 0 BY <1>3
  <2> QED BY <2>1, <2>2
<1>5. Unsigned(u2) = u2
  <2>1. u2 = 0 * Modulus + u2 BY <1>0, CellFacts
  <2> QED BY <1>0, <2>1, UnsignedIs
<1> DEFINE Prefix(i) == u2 \div 2 ^ (n - i)
           Holds(i) == \E l \in Int : /\ f[i] = <<l, 0>>
                                      /\ -Sign <= l /\ l <= u1 * Prefix(i)
                                      /\ Unsigned(l) = u1 * Prefix(i)
           T == {i \in 0 .. n : Holds(i)}
<1>6. 0 \in T
  <2>1. Prefix(0) = 0
    <3>1. u2 = 0 * Modulus + u2 BY <1>0, CellFacts
    <3>2. u2 \div Modulus = 0 BY <1>0, <3>1, CellFacts, RestIsUnique
    <3>3. n - 0 = n BY <1>3
    <3> QED BY <3>2, <3>3 DEF Modulus, n
  <2>2. u1 * Prefix(0) = 0 BY <1>0, <2>1
  <2>3. Unsigned(0) = 0
    <3>1. 0 = 0 * Modulus + 0 /\ 0 \in 0 .. Modulus - 1 BY CellFacts
    <3> QED BY <3>1, UnsignedIs
  <2>4. -Sign <= 0 /\ 0 \in 0 .. n BY CellFacts, <1>3
  <2> QED BY <1>4, <2>2, <2>3, <2>4
<1>7. ASSUME NEW i \in 1 .. n, i - 1 \in T PROVE i \in T
  <2>1. PICK lo \in Int : /\ f[i - 1] = <<lo, 0>>
                          /\ -Sign <= lo /\ lo <= u1 * Prefix(i - 1)
                          /\ Unsigned(lo) = u1 * Prefix(i - 1)
    BY <1>7
  <2> DEFINE e == n - i
             h == Prefix(i - 1)
             q == Prefix(i)
             b == Bit(u2, e)
  <2>2. e \in 0 .. 2 * n /\ e + 1 \in 1 .. 2 * n /\ n - (i - 1) = e + 1 /\ (e + 1) - 1 = e
    BY <1>3
  <2>3. 2 ^ e \in Nat \ {0} /\ 2 ^ (e + 1) = 2 * 2 ^ e
    <3> HIDE DEF e
    <3> QED BY <2>2, Powers DEF n
  <2>4. h = u2 \div (2 * 2 ^ e) /\ q = u2 \div 2 ^ e
    <3>1. h = u2 \div 2 ^ (e + 1) BY <2>2
    <3> QED BY <2>3, <3>1
  <2>5. b = q % 2 BY <1>5 DEF Bit
  <2> DEFINE pw == 2 ^ e
  <2>6. q \in Nat /\ q <= u2 /\ b \in {0, 1} /\ q = 2 * h + b
    <3> HIDE DEF e, h, q, b
    <3>1. u2 \div pw \in Nat /\ u2 \div pw <= u2 /\ (u2 \div pw) % 2 \in {0, 1}
          /\ u2 \div pw = 2 * (u2 \div (2 * pw)) + ((u2 \div pw) % 2)
      <4>1. pw \in Nat \ {0} BY <2>3
      <4> HIDE DEF pw
      <4> QED BY <4>1, <1>0, NextBit
    <3> QED BY <3>1, <2>4, <2>5
  <2>7. h \in Nat
    <3>1. u2 \div (2 * pw) \in Nat
      <4>1. 2 * pw \in Nat \ {0} BY <2>3
      <4> DEFINE p2 == 2 * pw
      <4> HIDE DEF p2
      <4>2. u2 \div p2 \in Nat BY <4>1, <1>0, NextBit DEF p2
      <4> QED BY <4>2 DEF p2
    <3> HIDE DEF h, e, q
    <3> QED BY <3>1, <2>4
  <2> HIDE DEF e, h, q, b, pw
  <2>8. u1 * q = 2 * (u1 * h) + (IF b = 0 THEN 0 ELSE u1) /\ u1 * h \in Nat /\ u1 * q \in Nat
    <3>1. u1 * (2 * h + b) = 2 * (u1 * h) + u1 * b BY <1>0, <2>6, <2>7
    <3>2. u1 * b = IF b = 0 THEN 0 ELSE u1 BY <1>0, <2>6
    <3> QED BY <1>0, <2>6, <2>7, <3>1, <3>2
  <2>9. u1 * q < Modulus
    <3>1. u1 * q <= u1 * u2 /\ u1 * q \in Nat /\ u1 * u2 \in Nat
      BY <1>0, <2>6, ProductsOrdered
    <3> DEFINE x == u1 * q
               y == u1 * u2
    <3>2. x <= y /\ x \in Nat /\ y \in Nat /\ y < Modulus BY <3>1
    <3> HIDE DEF x, y
    <3>3. x < Modulus BY <3>2, CellFacts
    <3> QED BY <3>3 DEF x
  <2>10. \E l \in Int : /\ ShiftAdd(u1, b, <<lo, 0>>) = <<l, 0>>
                        /\ -Sign <= l /\ l <= u1 * q /\ Unsigned(l) = u1 * q
    <3>1. lo <= u1 * h /\ Unsigned(lo) = u1 * h /\ -Sign <= lo BY <2>1 DEF h
    <3> DEFINE p == u1 * h
               r == u1 * q
    <3>2. p \in Nat /\ r \in Nat /\ r < Modulus /\ lo <= p /\ Unsigned(lo) = p
          /\ r = 2 * p + (IF b = 0 THEN 0 ELSE u1)
      BY <2>8, <2>9, <3>1
    <3> HIDE DEF p, r
    <3>3. \E l \in Int : /\ ShiftAdd(u1, b, <<lo, 0>>) = <<l, 0>>
                         /\ -Sign <= l /\ l <= r /\ Unsigned(l) = r
      BY <3>1, <3>2, <1>0, <2>6, ShiftAddTurn
    <3> QED BY <3>3 DEF r
  <2>11. f[i] = ShiftAdd(u1, b, <<lo, 0>>) BY <1>4, <2>1 DEF b, e
  <2>12. Holds(i) BY <2>10, <2>11 DEF q
  <2>13. i \in 0 .. n BY <1>3
  <2> HIDE DEF Holds
  <2> QED BY <2>12, <2>13
<1>8. n \in T
  <2>1. \A i \in 0 .. n : i \in T
    <3> HIDE DEF T
    <3> QED BY <1>3, <1>6, <1>7, CountedUp
  <2>2. n \in 0 .. n BY <1>3
  <2> HIDE DEF T
  <2> QED BY <2>1, <2>2
<1>9. Holds(n) BY <1>8
<1>10. Prefix(n) = u2
  <2>1. n - n = 0 BY <1>3
  <2>2. u2 = u2 * 1 + 0 /\ 1 \in Nat \ {0} /\ 0 \in 0 .. 1 - 1 BY <1>0
  <2>3. u2 \div 1 = u2 BY <1>0, <2>2, RestIsUnique
  <2> QED BY <2>1, <2>3, Powers
<1> QED BY <1>1, <1>9, <1>10

\* No bit of the dividend is skipped for a divisor up to a quarter of the modulus.
LEMMA NoneSkipped ==
  ASSUME NEW u \in 1 .. Sign \div 2
  PROVE  u \in Nat \ {0} /\ 2 * u <= Sign /\ Skipped(u) = 0
<1>1. u \in Nat \ {0} /\ 2 * u <= Sign
  <2>1. Sign \div 2 \in Int /\ Sign % 2 \in 0 .. 1 /\ Sign = (Sign \div 2) * 2 + (Sign % 2)
    BY CellFacts, QuotientAndRest
  <2> DEFINE h == Sign \div 2
             r == Sign % 2
  <2>2. h \in Int /\ r \in 0 .. 1 /\ Sign = h * 2 + r /\ u \in 1 .. h BY <2>1
  <2> HIDE DEF h, r
  <2> QED BY <2>2, CellFacts
<1>2. Bit(u, MathBits - 1) = 0
  <2>1. u = 0 * Modulus + u /\ u \in 0 .. Modulus - 1 BY <1>1, CellFacts
  <2>2. Unsigned(u) = u BY <2>1, UnsignedIs
  <2> QED BY <1>1, <2>2, CellFacts, TopBit
<1> DEFINE Leading(k) ==
             /\ \A i \in 1 .. k : Bit(u, MathBits - i) = 1
             /\ k < MathBits => Bit(u, MathBits - k - 1) = 0
<1>3. Leading(0) /\ 0 \in 0 .. MathBits
  <2>1. MathBits - 0 - 1 = MathBits - 1 /\ 1 .. 0 = {} BY MathAssumption
  <2> QED BY <1>2, <2>1, MathAssumption
<1>4. ASSUME NEW k \in 0 .. MathBits, Leading(k) PROVE k = 0
  <2>1. SUFFICES ASSUME k # 0 PROVE FALSE OBVIOUS
  <2>2. 1 \in 1 .. k BY <2>1, MathAssumption
  <2>3. Bit(u, MathBits - 1) = 1 BY <1>4, <2>2
  <2> QED BY <1>2, <2>3
<1>5. Skipped(u) = CHOOSE k \in 0 .. MathBits : Leading(k)
  <2>1. u # 0 BY <1>1
  <2> QED BY <2>1 DEF Skipped
<1> HIDE DEF Leading
<1>6. Skipped(u) = 0 BY <1>3, <1>4, <1>5
<1> QED BY <1>1, <1>6

\* The remainder and quotient that UM/MOD has of the first bits, d as a number.
Partial(z, d, u) ==
  /\ z = <<z[1], z[2]>> /\ z[1] \in 0 .. u - 1 /\ z[2] \in Int /\ z[2] <= Sign /\ -Sign <= z[2]
  /\ \E c \in Nat, k \in Int : z[2] = k * Modulus + c /\ d = c * u + z[1]

\* A turn of UM/MOD takes the next bit.
LEMMA ShiftSubtractTurn ==
  ASSUME NEW u \in Nat \ {0}, 2 * u <= Sign, NEW bit \in {0, 1}, NEW d \in Nat, NEW z,
         Partial(z, d, u)
  PROVE  Partial(ShiftSubtract(u, bit, z), 2 * d + bit, u)
<1>1. PICK c \in Nat, k \in Int : z[2] = k * Modulus + c /\ d = c * u + z[1] BY DEF Partial
<1>2. z[1] \in 0 .. u - 1 /\ z[2] \in Int BY DEF Partial
<1> DEFINE r == z[1]
           q == z[2]
           q2 == Signed(2 * q)
           rest == Signed(2 * r) + bit
<1>3. r \in 0 .. u - 1 /\ q \in Int BY <1>2
<1>4. q2 \in Cells /\ q2 \in Int /\ q2 < Sign /\ -Sign <= q2
  <2>1. 2 * q \in Int BY <1>3
  <2> HIDE DEF q
  <2> QED BY <2>1, Conversions, CellsBounded
<1>5. rest = 2 * r + bit
  <2>1. 2 * r \in Cells BY <1>3, CellFacts DEF Cells
  <2> HIDE DEF r
  <2> QED BY <2>1, SignedOfCell
<1>6. \E m \in Int : q2 = m * Modulus + 2 * c /\ m * Modulus \in Int
  <2>1. 2 * q \in Int BY <1>3
  <2>2. PICK j \in Int : q2 = 2 * q + j * Modulus /\ j * Modulus \in Int
    <3> HIDE DEF q
    <3> QED BY <2>1, SignedCongruent
  <2>3. (2 * k + j) * Modulus = 2 * (k * Modulus) + j * Modulus /\ k * Modulus \in Int
    BY CellFacts
  <2> DEFINE km == k * Modulus
             jm == j * Modulus
             m == 2 * k + j
             mm == m * Modulus
  <2>4. mm = 2 * km + jm /\ km \in Int /\ jm \in Int /\ mm \in Int /\ m \in Int
    BY <2>2, <2>3, CellFacts
  <2>5. q = km + c /\ q2 = 2 * q + jm BY <1>1, <2>2
  <2> HIDE DEF q, q2, km, jm
  <2>6. q2 = mm + 2 * c
    <3> HIDE DEF mm
    <3> QED BY <2>4, <2>5, <1>3
  <2> QED BY <2>4, <2>6
<1>7. PICK m \in Int : q2 = m * Modulus + 2 * c /\ m * Modulus \in Int BY <1>6
<1>8. c * u \in Int /\ (2 * c) * u = 2 * (c * u) /\ (2 * c + 1) * u = 2 * (c * u) + u OBVIOUS
<1>9. ShiftSubtract(u, bit, z) = IF rest >= u THEN <<rest - u, q2 + 1>> ELSE <<rest, q2>>
  BY DEF ShiftSubtract
<1>10. d = c * u + r BY <1>1
<1> HIDE DEF r, q, q2, rest
<1>11. CASE rest >= u
  <2> DEFINE y == ShiftSubtract(u, bit, z)
  <2>1. y = <<rest - u, q2 + 1>> BY <1>9, <1>11
  <2> HIDE DEF y
  <2>2. rest - u \in 0 .. u - 1 BY <1>3, <1>5, <1>11
  <2>3. q2 + 1 = m * Modulus + (2 * c + 1)
    <3> DEFINE mm == m * Modulus
    <3>1. mm \in Int /\ q2 = mm + 2 * c BY <1>7
    <3> HIDE DEF mm
    <3>2. q2 + 1 = mm + (2 * c + 1) BY <3>1, <1>4
    <3> QED BY <3>2 DEF mm
  <2>4. 2 * d + bit = (2 * c + 1) * u + (rest - u)
    <3> DEFINE cu == c * u
               cv == (2 * c + 1) * u
    <3>1. cu \in Int /\ cv = 2 * cu + u /\ d = cu + r BY <1>8, <1>10
    <3> HIDE DEF cu, cv
    <3>2. 2 * d + bit = cv + (rest - u) BY <3>1, <1>3, <1>5
    <3> QED BY <3>2 DEF cv
  <2>5. q2 + 1 \in Int /\ q2 + 1 <= Sign /\ -Sign <= q2 + 1 BY <1>4, CellFacts
  <2>6. y[1] = rest - u /\ y[2] = q2 + 1 /\ 2 * c + 1 \in Nat BY <2>1
  <2>7. y = <<y[1], y[2]>> BY <2>1, <2>6
  <2>8. Partial(y, 2 * d + bit, u) BY <2>2, <2>3, <2>4, <2>5, <2>6, <2>7 DEF Partial
  <2> QED BY <2>8 DEF y
<1>12. CASE ~(rest >= u)
  <2> DEFINE y == ShiftSubtract(u, bit, z)
  <2>1. y = <<rest, q2>> BY <1>9, <1>12
  <2> HIDE DEF y
  <2>2. rest \in 0 .. u - 1 BY <1>3, <1>5, <1>12
  <2>4. 2 * d + bit = (2 * c) * u + rest
    <3> DEFINE cu == c * u
               cv == (2 * c) * u
    <3>1. cu \in Int /\ cv = 2 * cu /\ d = cu + r BY <1>8, <1>10
    <3> HIDE DEF cu, cv
    <3>2. 2 * d + bit = cv + rest BY <3>1, <1>3, <1>5
    <3> QED BY <3>2 DEF cv
  <2>5. q2 \in Int /\ q2 <= Sign /\ -Sign <= q2 BY <1>4, CellFacts
  <2>6. y[1] = rest /\ y[2] = q2 /\ 2 * c \in Nat BY <2>1
  <2>7. y = <<y[1], y[2]>> BY <2>1, <2>6
  <2>8. Partial(y, 2 * d + bit, u) BY <1>7, <2>2, <2>4, <2>5, <2>6, <2>7 DEF Partial
  <2> QED BY <2>8 DEF y
<1> QED BY <1>11, <1>12

\* The loop of UM/MOD.
DivideLoop(f, lo, hi, u) ==
  f = [k \in 0 .. 2 * MathBits |->
         IF k = 0 THEN <<0, 0>>
         ELSE ShiftSubtract(u, DividendBit(lo, hi, MathBits, k), f[k - 1])]

\* A bit is 0 or 1.
LEMMA BitsAre ==
  ASSUME NEW n \in Int, NEW e \in 0 .. MathBits
  PROVE  Bit(n, e) \in {0, 1}
<1>1. e \in 0 .. 2 * MathBits BY MathAssumption
<1>2. 2 ^ e \in Nat \ {0} BY <1>1, Powers
<1>3. Unsigned(n) \in Nat BY Conversions, CellFacts
<1> DEFINE p == 2 ^ e
           a == Unsigned(n)
<1>4. p \in Nat \ {0} /\ a \in Nat /\ Bit(n, e) = (a \div p) % 2 BY <1>2, <1>3 DEF Bit
<1> HIDE DEF p, a
<1> QED BY <1>4, NextBit

\* There is such a loop.
LEMMA DivideRuns ==
  ASSUME NEW lo \in Int, NEW hi \in Int, NEW u \in Int
  PROVE  \E f : DivideLoop(f, lo, hi, u)
<1> DEFINE S == Int \X Int
           n == 2 * MathBits
           B(k) == DividendBit(lo, hi, MathBits, k)
           F == [k \in 1 .. n |-> [z \in S |-> ShiftSubtract(u, B(k), z)]]
<1>0. n \in Nat BY MathAssumption
<1>a. ASSUME NEW k \in 1 .. n PROVE B(k) \in Int
  <2>1. CASE k <= MathBits
    <3>1. MathBits - k \in 0 .. MathBits BY <2>1, MathAssumption
    <3> QED BY <2>1, <3>1, BitsAre DEF DividendBit
  <2>2. CASE ~(k <= MathBits)
    <3>1. MathBits + MathBits - k \in 0 .. MathBits BY <2>2, MathAssumption
    <3> QED BY <2>2, <3>1, BitsAre DEF DividendBit
  <2> QED BY <2>1, <2>2
<1>1. ASSUME NEW b \in Int, NEW z \in S PROVE ShiftSubtract(u, b, z) \in S
  <2>1. z[1] \in Int /\ z[2] \in Int BY <1>1
  <2>2. Signed(2 * z[1]) \in Int /\ Signed(2 * z[2]) \in Int
    BY <2>1, Conversions, CellsBounded
  <2> QED BY <2>2 DEF ShiftSubtract
<1>2. F \in [1 .. n -> [S -> S]] BY <1>a, <1>1
<1> DEFINE x == <<0, 0>>
<1>3. x \in S OBVIOUS
<1>4. PICK f : Passes(f, n, S, x, F)
  <2> HIDE DEF F, S, x, n
  <2> QED BY <1>0, <1>2, <1>3, LoopRuns
<1>5. /\ f \in [0 .. n -> S] /\ f[0] = x
      /\ \A k \in 1 .. n : f[k] = F[k][f[k - 1]]
  BY <1>4 DEF Passes
<1>6. ASSUME NEW k \in 1 .. n
      PROVE  f[k] = ShiftSubtract(u, B(k), f[k - 1])
  <2>1. k - 1 \in 0 .. n BY <1>0
  <2>2. f[k - 1] \in S BY <1>5, <2>1
  <2>3. F[k][f[k - 1]] = ShiftSubtract(u, B(k), f[k - 1])
    <3> HIDE DEF S, n, B
    <3> QED BY <2>2
  <2> QED BY <1>5, <2>3
<1>7. f = [k \in 0 .. n |-> f[k]] BY <1>5
<1>8. \A k \in 0 .. n : f[k] = IF k = 0 THEN <<0, 0>> ELSE ShiftSubtract(u, B(k), f[k - 1])
  <2> SUFFICES ASSUME NEW k \in 0 .. n
               PROVE  f[k] = IF k = 0 THEN <<0, 0>> ELSE ShiftSubtract(u, B(k), f[k - 1])
    OBVIOUS
  <2>1. CASE k = 0 BY <1>5, <2>1
  <2>2. CASE k # 0
    <3>1. k \in 1 .. n BY <1>0, <2>2
    <3> QED BY <1>6, <2>2, <3>1
  <2> QED BY <2>1, <2>2
<1>9. DivideLoop(f, lo, hi, u) BY <1>7, <1>8 DEF DivideLoop
<1> QED BY <1>9

\* The first k bits of a double, as a number.
FirstBits(h, l, k) ==
  IF k <= MathBits THEN h \div 2 ^ (MathBits - k)
  ELSE h * 2 ^ (k - MathBits) + (l \div 2 ^ (2 * MathBits - k))

\* No bits are 0, all of them are the double, and a bit doubles what is before it.
LEMMA FirstBitsFacts ==
  ASSUME NEW lo \in Int, NEW hi \in Int
  PROVE  /\ FirstBits(Unsigned(hi), Unsigned(lo), 0) = 0
         /\ FirstBits(Unsigned(hi), Unsigned(lo), 2 * MathBits) = Double(lo, hi)
         /\ \A k \in 0 .. 2 * MathBits : FirstBits(Unsigned(hi), Unsigned(lo), k) \in Nat
         /\ \A k \in 1 .. 2 * MathBits :
              /\ DividendBit(lo, hi, MathBits, k) \in {0, 1}
              /\ FirstBits(Unsigned(hi), Unsigned(lo), k)
                   = 2 * FirstBits(Unsigned(hi), Unsigned(lo), k - 1)
                     + DividendBit(lo, hi, MathBits, k)
<1> DEFINE n == MathBits
           h == Unsigned(hi)
           l == Unsigned(lo)
           D(k) == FirstBits(h, l, k)
           B(k) == DividendBit(lo, hi, n, k)
<1>1. n \in Nat \ {0} BY MathAssumption
<1>2. h \in 0 .. Modulus - 1 /\ l \in 0 .. Modulus - 1 BY Conversions
<1>3. h \in Nat /\ l \in Nat BY <1>2, CellFacts
<1>b. \A e \in 0 .. n : Bit(hi, e) = (h \div 2 ^ e) % 2 /\ Bit(lo, e) = (l \div 2 ^ e) % 2
  BY DEF Bit
<1>d. \A k : D(k) = IF k <= n THEN h \div 2 ^ (n - k)
                    ELSE h * 2 ^ (k - n) + (l \div 2 ^ (2 * n - k))
  BY DEF FirstBits
<1>e. \A k : B(k) = IF k <= n THEN Bit(hi, n - k) ELSE Bit(lo, n + n - k) BY DEF DividendBit
<1>m. 2 ^ n = Modulus BY DEF Modulus
<1>x. Double(lo, hi) = h * Modulus + l BY DEF Double
<1>p. /\ \A i \in 0 .. 2 * n : 2 ^ i \in Nat \ {0}
      /\ \A i \in 1 .. 2 * n : 2 ^ i = 2 * 2 ^ (i - 1)
      /\ 2 ^ 0 = 1
  BY Powers
<1> HIDE DEF n, h, l, D, B
<1>4. h \div Modulus = 0 /\ l \div Modulus = 0 /\ h \div 1 = h /\ l \div 1 = l
  <2>1. h = 0 * Modulus + h /\ l = 0 * Modulus + l BY <1>3, CellFacts
  <2>2. h = h * 1 + 0 /\ l = l * 1 + 0 /\ 1 \in Nat \ {0} /\ 0 \in 0 .. 1 - 1 BY <1>3
  <2>3. h \div Modulus = 0 /\ l \div Modulus = 0 BY <1>2, <1>3, <2>1, CellFacts, RestIsUnique
  <2>4. h \div 1 = h /\ l \div 1 = l BY <1>3, <2>2, RestIsUnique
  <2> QED BY <2>3, <2>4
<1>5. D(0) = 0
  <2>1. 0 <= n /\ n - 0 = n BY <1>1
  <2> QED BY <1>4, <1>d, <1>m, <2>1
<1>6. D(2 * n) = Double(lo, hi)
  <2>1. ~(2 * n <= n) /\ 2 * n - n = n /\ 2 * n - 2 * n = 0 BY <1>1
  <2>2. D(2 * n) = h * 2 ^ n + (l \div 2 ^ 0) BY <1>d, <2>1
  <2>3. D(2 * n) = h * Modulus + l BY <1>4, <1>m, <1>p, <2>2
  <2> QED BY <2>3, <1>x
<1>7. ASSUME NEW k \in 0 .. 2 * n PROVE D(k) \in Nat
  <2>1. CASE k <= n
    <3>1. n - k \in 0 .. 2 * n BY <1>1, <2>1
    <3>2. 2 ^ (n - k) \in Nat \ {0} BY <1>p, <3>1
    <3> DEFINE p == 2 ^ (n - k)
    <3>3. D(k) = h \div p /\ p \in Nat \ {0} BY <1>d, <2>1, <3>2
    <3> HIDE DEF p
    <3> QED BY <3>3, <1>3, NextBit
  <2>2. CASE ~(k <= n)
    <3>1. k - n \in 0 .. 2 * n /\ 2 * n - k \in 0 .. 2 * n BY <1>1, <2>2
    <3>2. 2 ^ (k - n) \in Nat \ {0} /\ 2 ^ (2 * n - k) \in Nat \ {0} BY <1>p, <3>1
    <3> DEFINE p == 2 ^ (k - n)
               r == 2 ^ (2 * n - k)
    <3>3. D(k) = h * p + (l \div r) /\ p \in Nat /\ r \in Nat \ {0} BY <1>d, <2>2, <3>2
    <3> HIDE DEF p, r
    <3>4. l \div r \in Nat BY <3>3, <1>3, NextBit
    <3>5. h * p \in Nat BY <3>3, <1>3
    <3> QED BY <3>3, <3>4, <3>5
  <2> QED BY <2>1, <2>2
<1>8. ASSUME NEW k \in 1 .. 2 * n PROVE B(k) \in {0, 1} /\ D(k) = 2 * D(k - 1) + B(k)
  <2>1. CASE k <= n
    <3>1. n - k \in 0 .. 2 * n /\ n - k + 1 \in 1 .. 2 * n /\ (n - k + 1) - 1 = n - k
          /\ n - (k - 1) = n - k + 1 /\ k - 1 <= n /\ n - k \in 0 .. n
      BY <1>1, <2>1
    <3> DEFINE p == 2 ^ (n - k)
    <3>2. p \in Nat \ {0} /\ 2 ^ (n - k + 1) = 2 * p BY <1>p, <3>1
    <3>3. D(k) = h \div p /\ B(k) = (h \div p) % 2 BY <1>b, <1>d, <1>e, <2>1, <3>1
    <3>4. D(k - 1) = h \div (2 * p) BY <1>d, <3>1, <3>2
    <3> HIDE DEF p
    <3> QED BY <3>2, <3>3, <3>4, <1>3, NextBit
  <2>2. CASE ~(k <= n)
    <3>1. k - n \in 1 .. 2 * n /\ k - n - 1 \in 0 .. 2 * n /\ 2 * n - k \in 0 .. 2 * n
          /\ 2 * n - k \in 0 .. n
          /\ 2 * n - k + 1 \in 1 .. 2 * n /\ (2 * n - k + 1) - 1 = 2 * n - k
          /\ 2 * n - (k - 1) = 2 * n - k + 1 /\ (k - 1) - n = k - n - 1
          /\ n + n - k = 2 * n - k
      BY <1>1, <2>2
    <3> DEFINE p == 2 ^ (k - n - 1)
               r == 2 ^ (2 * n - k)
    <3>2. p \in Nat \ {0} /\ 2 ^ (k - n) = 2 * p BY <1>p, <3>1
    <3>3. r \in Nat \ {0} /\ 2 ^ (2 * n - k + 1) = 2 * r BY <1>p, <3>1
    <3>4. D(k) = h * (2 * p) + (l \div r) BY <1>d, <2>2, <3>2
    <3>5. B(k) = (l \div r) % 2 BY <1>b, <1>e, <2>2, <3>1
    <3>6. D(k - 1) = h * p + (l \div (2 * r))
      <4>1. CASE k - 1 <= n
        <5>1. k - 1 = n /\ k - n - 1 = 0 /\ 2 * n - k + 1 = n /\ n - (k - 1) = 0
          BY <4>1, <1>1, <2>2
        <5>2. p = 1 /\ 2 * r = Modulus BY <1>m, <1>p, <3>3, <5>1
        <5>3. D(k - 1) = h \div 2 ^ (n - (k - 1)) BY <1>d, <4>1
        <5>4. D(k - 1) = h BY <1>4, <1>p, <5>1, <5>3
        <5>5. h * p = h /\ l \div (2 * r) = 0 BY <1>3, <1>4, <5>2
        <5> HIDE DEF p, r
        <5> QED BY <1>3, <5>4, <5>5
      <4>2. CASE ~(k - 1 <= n)
        <5>1. D(k - 1) = h * 2 ^ ((k - 1) - n) + (l \div 2 ^ (2 * n - (k - 1))) BY <1>d, <4>2
        <5> QED BY <5>1, <3>1, <3>3
      <4> QED BY <4>1, <4>2
    <3> HIDE DEF p, r
    <3> DEFINE x == l \div r
               y == l \div (2 * r)
               b == x % 2
    <3>7. b \in {0, 1} /\ x = 2 * y + b /\ x \in Nat BY <3>3, <1>3, NextBit
    <3>8. y \in Nat
      <4>1. 2 * r \in Nat \ {0} BY <3>3
      <4> DEFINE s == 2 * r
      <4> HIDE DEF s
      <4>2. l \div s \in Nat BY <1>3, <4>1, NextBit DEF s
      <4> QED BY <4>2 DEF s
    <3>9. h * (2 * p) = 2 * (h * p) /\ h * p \in Nat BY <1>3, <3>2
    <3> DEFINE hp == h * p
               hpp == h * (2 * p)
    <3>10. D(k) = hpp + x /\ D(k - 1) = hp + y /\ hpp = 2 * hp /\ hp \in Nat
      BY <3>4, <3>6, <3>9
    <3>11. B(k) = b BY <3>5
    <3> HIDE DEF x, y, b, hp, hpp
    <3> QED BY <3>7, <3>8, <3>10, <3>11
  <2> QED BY <2>1, <2>2
<1> QED BY <1>5, <1>6, <1>7, <1>8 DEF D, B, h, l, n

\* A quotient of a double by a divisor up to a quarter of the modulus, when it
\* fits a cell, with its remainder.
LEMMA DivideExact ==
  ASSUME NEW lo \in Int, NEW hi \in Int, NEW u \in 1 .. Sign \div 2, Unsigned(hi) < u
  PROVE  LET z == forthumslashmod(lo, hi, u)
         IN /\ z[1] \in 0 .. u - 1 /\ z[2] \in Int /\ Unsigned(z[2]) \in Nat
            /\ Double(lo, hi) = Unsigned(z[2]) * u + z[1]
<1> DEFINE n == 2 * MathBits
           f == CHOOSE g : DivideLoop(g, lo, hi, u)
           h == Unsigned(hi)
           l == Unsigned(lo)
           D(k) == FirstBits(h, l, k)
           B(k) == DividendBit(lo, hi, MathBits, k)
           T == {k \in 0 .. n : Partial(f[k], D(k), u)}
<1>1. u \in Nat \ {0} /\ 2 * u <= Sign /\ Skipped(u) = 0 BY NoneSkipped
<1>2. MathBits - Skipped(u) = MathBits /\ MathBits + MathBits = n /\ n \in Nat
  BY <1>1, MathAssumption
<1>3. forthumslashmod(lo, hi, u) = f[n]
  <2>1. forthumslashmod(lo, hi, u) =
          LET high == MathBits - Skipped(u)
              after == CHOOSE g : g = [k \in 0 .. high + MathBits |->
                         IF k = 0 THEN <<0, 0>>
                         ELSE ShiftSubtract(u, DividendBit(lo, hi, high, k), g[k - 1])]
          IN after[high + MathBits]
    BY DEF forthumslashmod
  <2> QED BY <2>1, <1>2 DEF DivideLoop
<1>4. DivideLoop(f, lo, hi, u) BY <1>1, DivideRuns
<1>5. f[0] = <<0, 0>> /\ \A k \in 1 .. n : f[k] = ShiftSubtract(u, B(k), f[k - 1])
  <2>1. f = [k \in 0 .. n |-> IF k = 0 THEN <<0, 0>> ELSE ShiftSubtract(u, B(k), f[k - 1])]
    BY <1>4 DEF DivideLoop
  <2> HIDE DEF f, n, B
  <2>2. 0 \in 0 .. n /\ \A k \in 1 .. n : k \in 0 .. n /\ k # 0 BY <1>2
  <2> QED BY <2>1, <2>2
<1>6. D(0) = 0 /\ D(n) = Double(lo, hi) /\ (\A k \in 0 .. n : D(k) \in Nat)
      /\ \A k \in 1 .. n : B(k) \in {0, 1} /\ D(k) = 2 * D(k - 1) + B(k)
  BY FirstBitsFacts
<1>7. h \in 0 .. Modulus - 1 /\ l \in 0 .. Modulus - 1 /\ h < u BY Conversions
<1>8. Double(lo, hi) = h * Modulus + l BY DEF Double
<1> HIDE DEF n, f, D, B, h, l
<1>9. 0 \in T
  <2>1. f[0][1] = 0 /\ f[0][2] = 0 /\ f[0] = <<f[0][1], f[0][2]>> BY <1>5
  <2>2. 0 = 0 * Modulus + 0 /\ D(0) = 0 * u + f[0][1] BY <1>1, <1>6, <2>1, CellFacts
  <2>3. 0 \in 0 .. u - 1 /\ 0 <= Sign /\ -Sign <= 0 BY <1>1, CellFacts
  <2>4. 0 \in Int /\ 0 \in Nat OBVIOUS
  <2>5. \E c \in Nat, k \in Int : f[0][2] = k * Modulus + c /\ D(0) = c * u + f[0][1]
    BY <2>1, <2>2, <2>4
  <2>6. Partial(f[0], D(0), u) BY <2>1, <2>3, <2>4, <2>5 DEF Partial
  <2> QED BY <2>6, <1>2
<1>10. ASSUME NEW k \in 1 .. n, k - 1 \in T PROVE k \in T
  <2>1. k \in 0 .. n /\ k - 1 \in 0 .. n /\ Partial(f[k - 1], D(k - 1), u) BY <1>2, <1>10
  <2>2. D(k - 1) \in Nat /\ B(k) \in {0, 1} /\ D(k) = 2 * D(k - 1) + B(k) BY <1>6, <2>1
  <2>3. Partial(ShiftSubtract(u, B(k), f[k - 1]), 2 * D(k - 1) + B(k), u)
    BY <1>1, <2>1, <2>2, ShiftSubtractTurn
  <2>4. Partial(f[k], D(k), u) BY <1>5, <2>2, <2>3
  <2> QED BY <2>1, <2>4
<1>11. Partial(f[n], Double(lo, hi), u)
  <2>1. \A k \in 0 .. n : k \in T
    <3> HIDE DEF T
    <3> QED BY <1>2, <1>9, <1>10, CountedUp
  <2>2. n \in 0 .. n BY <1>2
  <2>3. Partial(f[n], D(n), u) BY <2>1, <2>2
  <2> QED BY <1>6, <2>3
<1> DEFINE z == f[n]
<1>12. PICK c \in Nat, k \in Int : z[2] = k * Modulus + c /\ Double(lo, hi) = c * u + z[1]
  BY <1>11 DEF Partial
<1>13. z[1] \in 0 .. u - 1 /\ z[2] \in Int BY <1>11 DEF Partial
<1> HIDE DEF z
<1>14. c < Modulus
  <2>1. SUFFICES ASSUME Modulus <= c PROVE FALSE BY CellFacts
  <2>2. u * Modulus <= u * c /\ u * Modulus \in Nat /\ u * c \in Nat /\ c * u = u * c
        /\ Modulus * u = u * Modulus
    BY <1>1, <2>1, CellFacts, ProductsOrdered
  <2>3. h + 1 <= u /\ h + 1 \in Nat /\ h \in Nat BY <1>1, <1>7, CellFacts
  <2>4. Modulus * (h + 1) <= Modulus * u /\ Modulus * (h + 1) \in Nat
    BY <1>1, <2>3, CellFacts, ProductsOrdered
  <2>5. Modulus * (h + 1) = h * Modulus + Modulus /\ h * Modulus \in Nat BY <2>3, CellFacts
  <2> DEFINE uc == u * c
             um == u * Modulus
             mh == Modulus * (h + 1)
             hm == h * Modulus
             cu == c * u
  <2>6. cu = uc /\ um <= uc /\ mh <= um /\ mh = hm + Modulus /\ hm + l = cu + z[1]
        /\ uc \in Nat /\ um \in Nat /\ mh \in Nat /\ hm \in Nat
    BY <1>8, <1>12, <2>2, <2>4, <2>5
  <2> HIDE DEF uc, um, mh, hm, cu
  <2> QED BY <2>6, <1>7, <1>13, CellFacts
<1>15. Unsigned(z[2]) = c
  <2>1. c \in 0 .. Modulus - 1 BY <1>14, CellFacts
  <2> QED BY <2>1, <1>12, <1>13, UnsignedIs
<1>16. Double(lo, hi) = Unsigned(z[2]) * u + z[1] BY <1>12, <1>15
<1> QED BY <1>3, <1>13, <1>15, <1>16 DEF z

\* A quotient of a double that is a double.
LEMMA DoubleQuotient ==
  ASSUME NEW lo \in Int, NEW hi \in Int, NEW u \in 1 .. Sign \div 2
  PROVE  LET z == forthudslashmod(lo, hi, u)
         IN /\ z[1] \in 0 .. u - 1 /\ z[2] \in Int /\ z[3] \in Int
            /\ Double(z[2], z[3]) \in Nat
            /\ Double(lo, hi) = Double(z[2], z[3]) * u + z[1]
<1> DEFINE first == forthumslashmod(hi, 0, u)
           second == forthumslashmod(lo, first[1], u)
<1>1. u \in Nat \ {0} /\ 2 * u <= Sign BY NoneSkipped
<1>2. Unsigned(0) = 0
  <2>1. 0 = 0 * Modulus + 0 /\ 0 \in 0 .. Modulus - 1 BY CellFacts
  <2> QED BY <2>1, UnsignedIs
<1>3. /\ first[1] \in 0 .. u - 1 /\ first[2] \in Int /\ Unsigned(first[2]) \in Nat
      /\ Double(hi, 0) = Unsigned(first[2]) * u + first[1]
  <2> DEFINE o == 0
  <2>1. o \in Int /\ Unsigned(o) < u BY <1>1, <1>2
  <2> HIDE DEF o
  <2>2. LET y == forthumslashmod(hi, o, u)
        IN /\ y[1] \in 0 .. u - 1 /\ y[2] \in Int /\ Unsigned(y[2]) \in Nat
           /\ Double(hi, o) = Unsigned(y[2]) * u + y[1]
    BY <2>1, DivideExact
  <2> QED BY <2>2 DEF o
<1>4. Unsigned(first[1]) = first[1]
  <2> DEFINE r == first[1]
  <2> HIDE DEF r
  <2>1. r \in 0 .. u - 1 BY <1>3 DEF r
  <2>2. r \in Int /\ r \in 0 .. Modulus - 1 /\ r = 0 * Modulus + r BY <2>1, <1>1, CellFacts
  <2> QED BY <2>2, UnsignedIs DEF r
<1>5. /\ second[1] \in 0 .. u - 1 /\ second[2] \in Int /\ Unsigned(second[2]) \in Nat
      /\ Double(lo, first[1]) = Unsigned(second[2]) * u + second[1]
  <2> DEFINE r == first[1]
  <2>1. r \in Int /\ Unsigned(r) < u
    <3> HIDE DEF first
    <3> QED BY <1>3, <1>4, <1>1
  <2> HIDE DEF r
  <2>2. LET y == forthumslashmod(lo, r, u)
        IN /\ y[1] \in 0 .. u - 1 /\ y[2] \in Int /\ Unsigned(y[2]) \in Nat
           /\ Double(lo, r) = Unsigned(y[2]) * u + y[1]
    BY <2>1, DivideExact
  <2> QED BY <2>2 DEF r
<1>6. forthudslashmod(lo, hi, u) = <<second[1], second[2], first[2]>> BY DEF forthudslashmod
<1> DEFINE a == Unsigned(first[2])
           b == Unsigned(second[2])
           r == first[1]
           s == second[1]
           h == Unsigned(hi)
           l == Unsigned(lo)
           m == Modulus
<1>7. h = a * u + r
  <2>1. Double(hi, 0) = 0 * m + h BY <1>2 DEF Double
  <2>2. h \in Int /\ 0 * m = 0 BY Conversions, CellFacts
  <2>3. Double(hi, 0) = h
    <3> HIDE DEF h, m
    <3> QED BY <2>1, <2>2
  <2> QED BY <1>3, <2>3
<1>8. r * m + l = b * u + s
  <2>1. Double(lo, first[1]) = r * m + l BY <1>4 DEF Double
  <2> QED BY <1>5, <2>1
<1>9. a \in Nat /\ b \in Nat /\ r \in Int /\ s \in Int /\ h \in Int /\ l \in Int /\ m \in Nat
  BY <1>3, <1>5, Conversions, CellFacts
<1>10. Double(lo, hi) = h * m + l /\ Double(second[2], first[2]) = a * m + b BY DEF Double
<1>11. a * m + b \in Nat
  <2> HIDE DEF a, b, m
  <2> QED BY <1>9
<1>12. h * m + l = (a * m + b) * u + s
  <2> HIDE DEF a, b, r, s, h, l, m
  <2>1. h * m = (a * u) * m + r * m BY <1>1, <1>7, <1>9
  <2>2. (a * m + b) * u = (a * m) * u + b * u BY <1>1, <1>9
  <2>3. (a * u) * m = (a * m) * u BY <1>1, <1>9
  <2> DEFINE hm == h * m
             aum == (a * u) * m
             rm == r * m
             bu == b * u
             amu == (a * m) * u
             all == (a * m + b) * u
  <2>4. hm = aum + rm /\ all = amu + bu /\ aum = amu /\ rm + l = bu + s
        /\ hm \in Int /\ aum \in Int /\ rm \in Int /\ bu \in Int
    BY <1>1, <1>8, <1>9, <2>1, <2>2, <2>3
  <2> HIDE DEF hm, aum, rm, bu, amu, all
  <2>5. hm + l = all + s BY <2>4, <1>9
  <2> QED BY <2>5 DEF hm, all
<1> HIDE DEF first, second
<1>13. Double(lo, hi) = Double(second[2], first[2]) * u + second[1] BY <1>10, <1>12
<1> QED BY <1>3, <1>5, <1>6, <1>10, <1>11, <1>13

\* S>D extends the sign.
LEMMA SignExtended ==
  ASSUME NEW n \in Cells
  PROVE  LET z == forthstod(n) IN SignedDouble(z[1], z[2]) = n
<1>1. Unsigned(n) = IF n < 0 THEN n + Modulus ELSE n BY CellsBounded, UnsignedOf
<1>2. -1 \in Cells /\ 0 \in Cells BY CellFacts DEF Cells
<1>3. Signed(-1) = -1 /\ Signed(0) = 0 BY <1>2, SignedOfCell
<1>4. Bit(n, MathBits - 1) = IF n < 0 THEN 1 ELSE 0 BY <1>1, CellsBounded, CellFacts, TopBit
<1>5. forthstod(n) = <<n, IF n < 0 THEN -1 ELSE 0>> BY <1>4 DEF forthstod
<1>6. CASE n < 0
  <2>1. SignedDouble(n, -1) = (-1) * Modulus + (n + Modulus) BY <1>1, <1>3, <1>6 DEF SignedDouble
  <2>2. (-1) * Modulus + (n + Modulus) = n BY CellsBounded, CellFacts
  <2> QED BY <1>5, <1>6, <2>1, <2>2
<1>7. CASE ~(n < 0)
  <2>1. SignedDouble(n, 0) = 0 * Modulus + n BY <1>1, <1>3, <1>7 DEF SignedDouble
  <2>2. 0 * Modulus + n = n BY CellsBounded, CellFacts
  <2> QED BY <1>5, <1>7, <2>1, <2>2
<1> QED BY <1>6, <1>7

\* Two cells that are converted to are less than the square of the modulus.
LEMMA SquareFacts ==
  /\ Modulus * Modulus \in Nat \ {0}
  /\ \A h, l \in 0 .. Modulus - 1 : h * Modulus + l \in 0 .. Modulus * Modulus - 1
<1>1. Modulus * Modulus \in Nat \ {0} BY CellFacts
<1>2. ASSUME NEW h \in 0 .. Modulus - 1, NEW l \in 0 .. Modulus - 1
      PROVE  h * Modulus + l \in 0 .. Modulus * Modulus - 1
  <2>1. h \in Nat /\ h + 1 \in Nat /\ h + 1 <= Modulus /\ l \in Nat BY CellFacts
  <2>2. Modulus * (h + 1) <= Modulus * Modulus BY <2>1, CellFacts, ProductsOrdered
  <2>3. Modulus * (h + 1) = h * Modulus + Modulus /\ h * Modulus \in Nat BY <2>1, CellFacts
  <2> DEFINE mm == Modulus * Modulus
             hm == h * Modulus
             hh == Modulus * (h + 1)
  <2>4. hh <= mm /\ hh = hm + Modulus /\ hm \in Nat /\ mm \in Nat BY <1>1, <2>2, <2>3
  <2> HIDE DEF mm, hm, hh
  <2>5. hm + l \in 0 .. mm - 1 BY <2>1, <2>4, CellFacts
  <2> QED BY <2>5 DEF hm, mm
<1> QED BY <1>1, <1>2

\* DNEGATE negates modulo two cells.
LEMMA Negated ==
  ASSUME NEW lo \in Cells, NEW hi \in Cells
  PROVE  LET z == forthdnegate(lo, hi)
         IN Double(z[1], z[2]) = (-Double(lo, hi)) % (Modulus * Modulus)
<1> DEFINE m == Modulus
           mm == m * m
           h == Unsigned(hi)
           l == Unsigned(lo)
           hm == h * m
<1>1. l = IF lo < 0 THEN lo + m ELSE lo BY CellsBounded, UnsignedOf
<1>2. h = IF hi < 0 THEN hi + m ELSE hi BY CellsBounded, UnsignedOf
<1>3. /\ lo \in Int /\ hi \in Int /\ m \in Nat \ {0}
      /\ lo < m /\ -m <= lo /\ -m < lo /\ hi < m /\ -m < hi
  BY CellsBounded, CellFacts
<1>4. h \in 0 .. m - 1 /\ l \in 0 .. m - 1 /\ h \in Nat /\ l \in Nat /\ hm \in Nat
  <2>1. h \in 0 .. m - 1 /\ l \in 0 .. m - 1 BY <1>3, Conversions
  <2> HIDE DEF h, l, m
  <2> QED BY <1>3, <2>1
<1>5. Double(lo, hi) = hm + l BY DEF Double
<1>6. mm \in Nat \ {0} /\ hm + l \in 0 .. mm - 1 BY <1>4, SquareFacts
<1>7. Unsigned(-lo) = IF -lo < 0 THEN -lo + m ELSE -lo
  <2>1. -lo \in Int /\ -lo < m /\ -m <= -lo BY <1>3
  <2> QED BY <2>1, UnsignedOf
<1>8. Unsigned(-hi) = IF -hi < 0 THEN -hi + m ELSE -hi
  <2>1. -hi \in Int /\ -hi < m /\ -m <= -hi BY <1>3
  <2> QED BY <2>1, UnsignedOf
<1>9. Unsigned(-hi - 1) = IF -hi - 1 < 0 THEN (-hi - 1) + m ELSE -hi - 1
  <2>1. -hi - 1 \in Int /\ -hi - 1 < m /\ -m <= -hi - 1 BY <1>3
  <2> QED BY <2>1, UnsignedOf
<1> DEFINE ul == Unsigned(-lo)
           uh == Unsigned(-hi)
           uh1 == Unsigned(-hi - 1)
<1>a. forthdnegate(lo, hi) = <<-lo, IF lo # 0 THEN -hi - 1 ELSE -hi>> BY DEF forthdnegate
<1>b. Double(-lo, -hi) = uh * m + ul /\ Double(-lo, -hi - 1) = uh1 * m + ul BY DEF Double
<1> HIDE DEF h, l, ul, uh, uh1, m
<1>10. CASE lo # 0
  <2>1. l # 0 /\ ul = m - l BY <1>1, <1>3, <1>4, <1>7, <1>10 DEF ul
  <2>2. uh1 = m - 1 - h
    <3> HIDE DEF hm, mm
    <3> QED BY <1>2, <1>3, <1>4, <1>9 DEF uh1
  <2>3. uh1 * m = mm - m - hm
    <3>1. (m - 1 - h) * m = m * m - m - h * m BY <1>3, <1>4
    <3> QED BY <2>2, <3>1
  <2>4. uh1 * m + ul = mm - (hm + l)
    <3> DEFINE um == uh1 * m
    <3> HIDE DEF um, mm, hm
    <3>1. um = mm - m - hm BY <2>3 DEF um
    <3>2. um + ul = mm - (hm + l) BY <1>3, <1>4, <1>6, <2>1, <3>1
    <3> QED BY <3>2 DEF um
  <2>5. (-(hm + l)) % mm = mm - (hm + l)
    <3> HIDE DEF mm, hm
    <3> DEFINE w == -(hm + l)
               r == mm - (hm + l)
    <3>1. w \in Int /\ r \in 0 .. mm - 1 /\ w = (-1) * mm + r BY <1>4, <1>6, <2>1
    <3> HIDE DEF w, r
    <3>2. w % mm = r BY <1>6, <3>1, RestIsUnique
    <3> QED BY <3>2 DEF w, r
  <2> HIDE DEF mm, hm
  <2>6. Double(-lo, -hi - 1) = (-Double(lo, hi)) % mm BY <1>5, <1>b, <2>4, <2>5
  <2> QED BY <1>a, <1>10, <2>6 DEF mm, m
<1>11. CASE lo = 0
  <2>1. l = 0 /\ ul = 0 BY <1>1, <1>3, <1>7, <1>11 DEF ul
  <2>2. CASE h = 0
    <3>1. uh = 0 BY <1>2, <1>3, <1>8, <2>2 DEF uh
    <3>2. uh * m + ul = 0 /\ hm = 0 BY <1>3, <2>1, <2>2, <3>1
    <3>3. 0 % mm = 0
      <4> HIDE DEF mm
      <4>1. 0 = 0 * mm + 0 /\ 0 \in 0 .. mm - 1 BY <1>6
      <4> QED BY <1>6, <4>1, RestIsUnique
    <3>4. -(hm + l) = 0 BY <2>1, <3>2
    <3> HIDE DEF mm, hm
    <3>5. Double(-lo, -hi) = (-Double(lo, hi)) % mm BY <1>5, <1>b, <3>2, <3>3, <3>4
    <3> QED BY <1>a, <1>11, <3>5 DEF mm, m
  <2>3. CASE h # 0
    <3>1. uh = m - h
      <4> HIDE DEF hm, mm
      <4> QED BY <1>2, <1>3, <1>4, <1>8, <2>3 DEF uh
    <3>2. uh * m = mm - hm
      <4>1. (m - h) * m = m * m - h * m BY <1>3, <1>4
      <4> QED BY <3>1, <4>1
    <3>3. hm >= 1 BY <1>3, <1>4, <2>3
    <3>4. uh * m + ul = mm - hm
      <4> DEFINE um == uh * m
      <4>1. um = mm - hm BY <3>2
      <4> HIDE DEF um, mm, hm
      <4>2. um + ul = mm - hm BY <4>1, <2>1, <1>4, <1>6
      <4> QED BY <4>2 DEF um
    <3> HIDE DEF mm, hm
    <3>5. (-hm) % mm = mm - hm
      <4> DEFINE w == -hm
                 r == mm - hm
      <4>1. w \in Int /\ r \in 0 .. mm - 1 /\ w = (-1) * mm + r BY <1>4, <1>6, <2>1, <3>3
      <4> HIDE DEF w, r
      <4>2. w % mm = r BY <1>6, <4>1, RestIsUnique
      <4> QED BY <4>2 DEF w, r
    <3>6. hm + l = hm BY <1>4, <2>1
    <3>7. Double(-lo, -hi) = (-Double(lo, hi)) % mm BY <1>5, <1>b, <3>4, <3>5, <3>6
    <3> QED BY <1>a, <1>11, <3>7 DEF mm, m
  <2> QED BY <2>2, <2>3
<1> QED BY <1>10, <1>11

\* D+ adds modulo two cells, but for low cells that make up the modulus.
LEMMA Added ==
  ASSUME NEW lo1 \in Int, NEW hi1 \in Int, NEW lo2 \in Int, NEW hi2 \in Int,
         Unsigned(lo1) + Unsigned(lo2) # Modulus
  PROVE  LET z == forthdplus(lo1, hi1, lo2, hi2)
         IN Double(z[1], z[2]) = (Double(lo1, hi1) + Double(lo2, hi2)) % (Modulus * Modulus)
<1> DEFINE m == Modulus
           mm == m * m
           h1 == Unsigned(hi1)
           h2 == Unsigned(hi2)
           l1 == Unsigned(lo1)
           l2 == Unsigned(lo2)
           low == l1 + l2
           high == h1 + h2
           carry == IF low > m THEN 1 ELSE 0
           sum == Double(lo1, hi1) + Double(lo2, hi2)
<1>1. h1 \in 0 .. m - 1 /\ h2 \in 0 .. m - 1 /\ l1 \in 0 .. m - 1 /\ l2 \in 0 .. m - 1
      /\ m \in Nat \ {0}
  BY Conversions, CellFacts
<1>2. Double(lo1, hi1) = h1 * m + l1 /\ Double(lo2, hi2) = h2 * m + l2 BY DEF Double
<1>3. forthdplus(lo1, hi1, lo2, hi2)
        = IF low > m THEN <<Signed(low), Signed(high + 1)>> ELSE <<low, Signed(high)>>
  BY DEF forthdplus, Carries
<1>4. low # m OBVIOUS
<1> HIDE DEF h1, h2, l1, l2, m
<1>5. low \in Int /\ high \in Int /\ carry \in {0, 1} /\ high + carry \in Int BY <1>1
<1>6. sum = high * m + low
  <2>1. (h1 + h2) * m = h1 * m + h2 * m /\ h1 * m \in Int /\ h2 * m \in Int BY <1>1
  <2> DEFINE hm == (h1 + h2) * m
             hm1 == h1 * m
             hm2 == h2 * m
  <2>2. sum = (hm1 + l1) + (hm2 + l2) /\ hm = hm1 + hm2 /\ hm1 \in Int /\ hm2 \in Int
    BY <1>2, <2>1
  <2> HIDE DEF hm, hm1, hm2, sum
  <2>3. sum = hm + low BY <1>1, <2>2
  <2> QED BY <2>3 DEF hm
<1> DEFINE u == Unsigned(high + carry)
           v == low - carry * m
<1>7. Unsigned(IF low > m THEN Signed(low) ELSE low) = v /\ v \in 0 .. m - 1
  <2>1. CASE low > m
    <3>1. v = low - m BY <1>5, <1>1, <2>1
    <3>2. v \in 0 .. m - 1 /\ low = 1 * m + v BY <3>1, <1>1, <2>1
    <3>3. Unsigned(low) = v
      <4> HIDE DEF low, v
      <4> QED BY <1>5, <3>2, UnsignedIs DEF m
    <3>4. Unsigned(Signed(low)) = v BY <1>5, <3>3, Conversions
    <3> QED BY <2>1, <3>2, <3>4
  <2>2. CASE ~(low > m)
    <3>1. v = low BY <1>5, <1>1, <2>2
    <3>2. v \in 0 .. m - 1 /\ low = 0 * m + v BY <3>1, <1>1, <1>4, <2>2
    <3>3. Unsigned(low) = v
      <4> HIDE DEF low, v
      <4> QED BY <1>5, <3>2, UnsignedIs DEF m
    <3> QED BY <2>2, <3>2, <3>3
  <2> QED BY <2>1, <2>2
<1>8. Unsigned(Signed(high + carry)) = u /\ u \in 0 .. m - 1
  <2> HIDE DEF high, carry
  <2> QED BY <1>5, Conversions DEF m
<1>9. PICK k \in Int : high + carry = k * m + u
  <2> DEFINE w == high + carry
             q == w \div m
  <2> HIDE DEF high, carry
  <2>1. w \in Int BY <1>5
  <2> HIDE DEF w
  <2>2. q \in Int /\ w = q * m + (w % m) BY <1>1, <2>1, QuotientAndRest
  <2>3. u = w % m BY DEF Unsigned, w, m
  <2> QED BY <2>2, <2>3 DEF w
<1>10. u * m + v \in 0 .. mm - 1 /\ mm \in Nat \ {0}
  <2> HIDE DEF u, v
  <2> QED BY <1>7, <1>8, SquareFacts DEF m
<1>11. sum = k * mm + (u * m + v) /\ sum \in Int
  <2> DEFINE c == carry
  <2> HIDE DEF low, high, carry, u, sum
  <2>1. (high + c) * m = high * m + c * m /\ high * m \in Int /\ c * m \in Int BY <1>1, <1>5
  <2>2. (k * m + u) * m = k * (m * m) + u * m /\ k * (m * m) \in Int /\ u * m \in Int
    BY <1>1, <1>8
  <2> DEFINE hm == high * m
             cm == c * m
             kmm == k * (m * m)
             um == u * m
             left == (high + c) * m
             right == (k * m + u) * m
  <2>3. left = right BY <1>9
  <2>4. left = hm + cm /\ right = kmm + um /\ hm \in Int /\ cm \in Int /\ kmm \in Int /\ um \in Int
    BY <2>1, <2>2
  <2>5. sum = hm + low BY <1>6
  <2> HIDE DEF left, right, hm, cm, kmm, um
  <2>a. low \in Int BY <1>5
  <2>b. hm + cm = kmm + um BY <2>3, <2>4
  <2>6. sum = kmm + (um + (low - cm)) /\ sum \in Int BY <2>4, <2>5, <2>a, <2>b
  <2> QED BY <2>6 DEF kmm, um, cm
<1>12. sum % mm = u * m + v
  <2> DEFINE r == u * m + v
  <2>1. r \in 0 .. mm - 1 /\ sum = k * mm + r BY <1>10, <1>11
  <2> HIDE DEF r, mm, sum
  <2>2. sum % mm = r BY <1>10, <1>11, <2>1, RestIsUnique
  <2> QED BY <2>2 DEF r
<1> DEFINE zl == IF low > m THEN Signed(low) ELSE low
           zh == Signed(high + carry)
<1>13. forthdplus(lo1, hi1, lo2, hi2) = <<zl, zh>>
  <2>1. ~(low > m) => high + 0 = high BY <1>5
  <2> HIDE DEF low, high
  <2> QED BY <1>3, <2>1
<1>14. Double(zl, zh) = u * m + v
  <2> HIDE DEF u, v, low, high, carry
  <2> QED BY <1>7, <1>8 DEF Double, m
<1> HIDE DEF zl, zh, u, v, sum
<1> QED BY <1>12, <1>13, <1>14 DEF sum, mm, m

\* D< compares doubles whose high cells differ or whose low ones have the same
\* sign.
LEMMA DoublesOrdered ==
  ASSUME NEW lo1 \in Cells, NEW hi1 \in Cells, NEW lo2 \in Cells, NEW hi2 \in Cells,
         hi1 # hi2 \/ (lo1 < 0) = (lo2 < 0)
  PROVE  (forthdless(lo1, hi1, lo2, hi2) = -1)
           = (SignedDouble(lo1, hi1) < SignedDouble(lo2, hi2))
<1> DEFINE m == Modulus
           l1 == Unsigned(lo1)
           l2 == Unsigned(lo2)
           p == hi1 < hi2 \/ (hi1 = hi2 /\ lo1 < lo2)
           h1m == hi1 * m
           h2m == hi2 * m
<1>1. l1 = (IF lo1 < 0 THEN lo1 + m ELSE lo1) /\ l2 = (IF lo2 < 0 THEN lo2 + m ELSE lo2)
  BY CellsBounded, UnsignedOf
<1>2. l1 \in 0 .. m - 1 /\ l2 \in 0 .. m - 1 BY CellsBounded, Conversions
<1>3. hi1 \in Int /\ hi2 \in Int /\ lo1 \in Int /\ lo2 \in Int /\ m \in Nat \ {0}
  BY CellsBounded, CellFacts
<1>4. SignedDouble(lo1, hi1) = h1m + l1 /\ SignedDouble(lo2, hi2) = h2m + l2
  BY SignedOfCell DEF SignedDouble
<1>5. forthdless(lo1, hi1, lo2, hi2) = IF p THEN -1 ELSE 0 BY DEF forthdless, Flag
<1> HIDE DEF l1, l2, m
<1>6. (hi2 - hi1) * m = h2m - h1m /\ h1m \in Int /\ h2m \in Int BY <1>3
<1>7. p <=> h1m + l1 < h2m + l2
  <2> DEFINE e == hi2 - hi1
             em == e * m
  <2>1. e \in Int /\ (e > 0 <=> hi1 < hi2) /\ (e = 0 <=> hi1 = hi2) BY <1>3
  <2>2. em = h2m - h1m BY <1>6
  <2> HIDE DEF e
  <2>3. (e > 0 => em >= m) /\ (e < 0 => em <= -m) /\ (e = 0 => em = 0)
    BY <1>3, <2>1, Multiples
  <2> HIDE DEF em, h1m, h2m
  <2>4. CASE e > 0 BY <1>2, <1>3, <1>6, <2>1, <2>2, <2>3, <2>4
  <2>5. CASE e < 0 BY <1>2, <1>3, <1>6, <2>1, <2>2, <2>3, <2>5
  <2>6. CASE e = 0 BY <1>1, <1>2, <1>3, <1>6, <2>1, <2>2, <2>3, <2>6
  <2> QED BY <2>1, <2>4, <2>5, <2>6
<1> HIDE DEF p, h1m, h2m
<1>8. (forthdless(lo1, hi1, lo2, hi2) = -1) <=> p BY <1>5
<1> QED BY <1>4, <1>7, <1>8

\* Zero negated is zero.
LEMMA ZeroNegated == -0 = 0
<1>1. \A k \in Int : -k = 0 - k OBVIOUS
<1>2. 0 \in Int OBVIOUS
<1>3. -0 = 0 - 0 BY <1>1, <1>2, Zenon
<1> QED BY <1>3, SMT

\* M* of a product that fits a cell.
LEMMA SignedProduct ==
  ASSUME NEW n1 \in Cells, NEW n2 \in Cells, Magnitude(n1 * n2) < Modulus
  PROVE  LET z == forthmmul(n1, n2) IN SignedDouble(z[1], z[2]) = n1 * n2
<1> DEFINE u1 == Magnitude(n1)
           u2 == Magnitude(n2)
           r == u1 * u2
           m == Modulus
<1>1. u1 \in 0 .. Sign /\ u2 \in 0 .. Sign /\ u1 \in Nat /\ u2 \in Nat
  BY CellsBounded, CellFacts DEF Magnitude
<1>2. n1 * n2 = IF (n1 < 0) # (n2 < 0) THEN -r ELSE r
  <2>1. n1 \in Int /\ n2 \in Int BY CellsBounded
  <2>2. (-n1) * n2 = -(n1 * n2) /\ n1 * (-n2) = -(n1 * n2) /\ (-n1) * (-n2) = n1 * n2
        /\ n1 * n2 \in Int
    BY <2>1
  <2>3. CASE n1 < 0 /\ n2 < 0 BY <2>1, <2>2, <2>3 DEF Magnitude
  <2>4. CASE n1 < 0 /\ ~(n2 < 0)
    <3>1. r = (-n1) * n2 BY <2>4 DEF Magnitude
    <3>2. r = -(n1 * n2) BY <2>2, <3>1
    <3> DEFINE p == n1 * n2
    <3>3. p \in Int /\ r = -p BY <2>2, <3>2
    <3> HIDE DEF p, r
    <3>4. p = -r BY <3>3
    <3> QED BY <2>4, <3>4 DEF p
  <2>5. CASE ~(n1 < 0) /\ n2 < 0
    <3>1. r = n1 * (-n2) BY <2>5 DEF Magnitude
    <3>2. r = -(n1 * n2) BY <2>2, <3>1
    <3> DEFINE p == n1 * n2
    <3>3. p \in Int /\ r = -p BY <2>2, <3>2
    <3> HIDE DEF p, r
    <3>4. p = -r BY <3>3
    <3> QED BY <2>5, <3>4 DEF p
  <2>6. CASE ~(n1 < 0) /\ ~(n2 < 0) BY <2>1, <2>6 DEF Magnitude
  <2> QED BY <2>3, <2>4, <2>5, <2>6
<1>3. r \in Nat BY <1>1
<1>4. r < m /\ r \in 0 .. m - 1
  <2> HIDE DEF u1, u2
  <2>1. CASE (n1 < 0) # (n2 < 0)
    <3>1. n1 * n2 = -r BY <1>2, <2>1
    <3>2. Magnitude(-r) < m BY <3>1
    <3> HIDE DEF r
    <3> QED BY <1>3, <3>2, CellFacts DEF Magnitude
  <2>2. CASE ~((n1 < 0) # (n2 < 0))
    <3>1. n1 * n2 = r BY <1>2, <2>2
    <3>2. Magnitude(r) < m BY <3>1
    <3> HIDE DEF r
    <3> QED BY <1>3, <3>2, CellFacts DEF Magnitude
  <2> QED BY <2>1, <2>2
<1> HIDE DEF u1, u2
<1>5. PICK l \in Int : forthummul(u1, u2) = <<l, 0>> /\ -Sign <= l /\ l <= r /\ Unsigned(l) = r
  BY <1>1, <1>4, MultiplyExact
<1>6. -1 \in Cells /\ 0 \in Cells BY CellFacts DEF Cells
<1>7. Signed(-1) = -1 /\ Signed(0) = 0 BY <1>6, SignedOfCell
<1>8. m \in Nat \ {0} /\ Sign \in Nat /\ m = 2 * Sign /\ l < m /\ -m < l
  <2> HIDE DEF r
  <2> QED BY <1>3, <1>4, <1>5, CellFacts
<1>9. r = IF l < 0 THEN l + m ELSE l BY <1>5, <1>8, UnsignedOf
<1> HIDE DEF r
<1>10. CASE (n1 < 0) # (n2 < 0)
  <2>1. forthmmul(n1, n2) = forthdnegate(l, 0)
    <3> DEFINE d == forthummul(u1, u2)
    <3>1. d[1] = l /\ d[2] = 0 BY <1>5
    <3>2. forthmmul(n1, n2) = forthdnegate(d[1], d[2]) BY <1>10 DEF forthmmul, u1, u2
    <3> HIDE DEF d
    <3> QED BY <3>1, <3>2
  <2>2. CASE l = 0
    <3>a. forthdnegate(l, 0) = <<-l, IF l # 0 THEN -0 - 1 ELSE -0>> BY DEF forthdnegate
    <3>b. -l = 0 /\ -0 = 0
      <4>1. -l = -0 BY <2>2
      <4> QED BY <4>1, ZeroNegated
    <3>1. forthdnegate(l, 0) = <<0, 0>>
      <4>1. (IF l # 0 THEN -0 - 1 ELSE -0) = 0 BY <2>2, <3>b
      <4> QED BY <3>a, <3>b, <4>1
    <3>2. SignedDouble(0, 0) = 0 * m + r BY <1>5, <1>7, <2>2 DEF SignedDouble
    <3>3. r = 0 /\ 0 * m + r = -r BY <1>8, <1>9, <2>2
    <3> QED BY <1>2, <1>10, <2>1, <3>1, <3>2, <3>3
  <2>3. CASE l # 0
    <3>1. forthdnegate(l, 0) = <<-l, -1>> BY <2>3 DEF forthdnegate
    <3>2. Unsigned(-l) = IF -l < 0 THEN -l + m ELSE -l
      <4>1. -l \in Int /\ -l < m /\ -m <= -l BY <1>8
      <4> QED BY <4>1, UnsignedOf
    <3>3. Unsigned(-l) = m - r BY <1>8, <1>9, <2>3, <3>2
    <3>4. SignedDouble(-l, -1) = (-1) * m + (m - r) BY <1>7, <3>3 DEF SignedDouble
    <3>5. (-1) * m + (m - r) = -r BY <1>3, <1>8
    <3> QED BY <1>2, <1>10, <2>1, <3>1, <3>4, <3>5
  <2> QED BY <2>2, <2>3
<1>11. CASE ~((n1 < 0) # (n2 < 0))
  <2>1. forthmmul(n1, n2) = <<l, 0>> BY <1>5, <1>11 DEF forthmmul, u1, u2
  <2>2. SignedDouble(l, 0) = 0 * m + r BY <1>5, <1>7 DEF SignedDouble
  <2>3. 0 * m + r = r BY <1>3, <1>8
  <2> QED BY <1>2, <1>11, <2>1, <2>2, <2>3
<1> QED BY <1>10, <1>11

\* What a call of one of the words on doubles is given.
LEMMA CallsOnDoubles ==
  ASSUME NEW c \in Calls
  PROVE  /\ c[1] = "s>d" => c[2][1] \in Cells
         /\ c[1] \in {"dnegate", "um*", "m*"} => c[2][1] \in Cells /\ c[2][2] \in Cells
         /\ c[1] \in {"d+", "d<"} =>
              c[2][1] \in Cells /\ c[2][2] \in Cells /\ c[2][3] \in Cells /\ c[2][4] \in Cells
         /\ c[1] \in {"um/mod", "ud/mod"} => c[2][1] \in Cells /\ c[2][2] \in Cells
         /\ c[1] = "#s" => c[2][1] \in Cells /\ c[2][2] \in Cells /\ c[2][3] \in Radixes
<1>1. Corners \subseteq Cells BY MathAssumption
<1>2. CASE c[1] = "s>d" BY <1>2 DEF Calls
<1>3. CASE c[1] \in {"dnegate", "um*", "m*"}
  <2>1. c[2] \in Cells \X Cells BY <1>3 DEF Calls
  <2> QED BY <1>3, <2>1
<1>4. CASE c[1] \in {"d+", "d<"}
  <2>1. c[2] \in Corners \X Corners \X Corners \X Corners BY <1>4 DEF Calls
  <2> QED BY <1>1, <1>4, <2>1
<1>5. CASE c[1] \in {"um/mod", "ud/mod"}
  <2>1. c[2] \in Corners \X Cells \X Cells \/ c[2] \in Cells \X Corners \X Cells
    BY <1>5 DEF Calls
  <2> QED BY <1>1, <1>5, <2>1
<1>6. CASE c[1] = "#s"
  <2>1. c[2] \in Cells \X Cells \X Radixes BY <1>6 DEF Calls
  <2> QED BY <1>6, <2>1
<1> QED BY <1>2, <1>3, <1>4, <1>5, <1>6

\* A call leaves the double that arithmetic on doubles has.
LEMMA DoubleCallExact ==
  ASSUME MathNext
  PROVE  DoublesExact'
<1>1. PICK c \in Calls : mathWord' = c[1] /\ mathArgs' = c[2] /\ mathResult' = Computed(c[1], c[2])
  BY DEF MathNext
<1> DEFINE w == c[1]
           a == c[2]
           z == Computed(w, a)
<1>2. mathWord' = w /\ mathArgs' = a /\ mathResult' = z BY <1>1
<1>c. CASE w = "s>d"
  <2>1. a[1] \in Cells BY <1>c, CallsOnDoubles
  <2>2. z = forthstod(a[1]) BY <1>c DEF Computed
  <2>3. SignedDouble(z[1], z[2]) = a[1] BY <2>1, <2>2, SignExtended
  <2> HIDE DEF a, z
  <2> QED BY <1>2, <1>c, <2>3 DEF DoublesExact
<1>d. CASE w = "dnegate"
  <2>1. a[1] \in Cells /\ a[2] \in Cells BY <1>d, CallsOnDoubles
  <2>2. z = forthdnegate(a[1], a[2]) BY <1>d DEF Computed
  <2>3. Double(z[1], z[2]) = (-Double(a[1], a[2])) % (Modulus * Modulus)
    BY <2>1, <2>2, Negated
  <2> HIDE DEF a, z
  <2> QED BY <1>2, <1>d, <2>3 DEF DoublesExact
<1>e. CASE w \in {"d+", "d<"}
  <2>1. a[1] \in Cells /\ a[2] \in Cells /\ a[3] \in Cells /\ a[4] \in Cells
    BY <1>e, CallsOnDoubles
  <2>2. a[1] \in Int /\ a[2] \in Int /\ a[3] \in Int /\ a[4] \in Int BY <2>1, CellsBounded
  <2>3. CASE w = "d+"
    <3>1. z = forthdplus(a[1], a[2], a[3], a[4]) BY <2>3 DEF Computed
    <3>2. \/ Unsigned(a[1]) + Unsigned(a[3]) = Modulus
          \/ Double(z[1], z[2])
               = (Double(a[1], a[2]) + Double(a[3], a[4])) % (Modulus * Modulus)
      BY <2>2, <3>1, Added
    <3> HIDE DEF a, z
    <3> QED BY <1>2, <2>3, <3>2 DEF DoublesExact
  <2>4. CASE w = "d<"
    <3>1. z = <<forthdless(a[1], a[2], a[3], a[4])>> BY <2>4 DEF Computed
    <3>2. (a[2] # a[4] \/ (a[1] < 0) = (a[3] < 0)) =>
            (z[1] = -1) = (SignedDouble(a[1], a[2]) < SignedDouble(a[3], a[4]))
      BY <2>1, <3>1, DoublesOrdered
    <3> HIDE DEF a, z
    <3> QED BY <1>2, <2>4, <3>2 DEF DoublesExact
  <2> QED BY <1>e, <2>3, <2>4
<1>f. CASE w = "um*"
  <2>1. a[1] \in Cells /\ a[2] \in Cells BY <1>f, CallsOnDoubles
  <2>2. z = forthummul(a[1], a[2]) BY <1>f DEF Computed
  <2>3. ASSUME a[1] >= 0, a[2] >= 0, a[1] * a[2] < Modulus
        PROVE  Double(z[1], z[2]) = a[1] * a[2]
    <3> DEFINE u1 == a[1]
               u2 == a[2]
    <3>1. u1 \in 0 .. Sign /\ u2 \in 0 .. Sign /\ u1 * u2 < Modulus
      <4>1. u1 \in Cells /\ u2 \in Cells /\ u1 >= 0 /\ u2 >= 0 BY <2>1, <2>3
      <4>2. u1 * u2 < Modulus BY <2>3
      <4> HIDE DEF u1, u2
      <4>3. u1 \in 0 .. Sign /\ u2 \in 0 .. Sign BY <4>1, CellsBounded, CellFacts
      <4> QED BY <4>2, <4>3
    <3>2. z = forthummul(u1, u2) BY <2>2
    <3> HIDE DEF u1, u2, z
    <3>3. PICK l \in Int : forthummul(u1, u2) = <<l, 0>> /\ Unsigned(l) = u1 * u2
      BY <3>1, MultiplyExact
    <3>4. Unsigned(0) = 0
      <4>1. 0 = 0 * Modulus + 0 /\ 0 \in 0 .. Modulus - 1 BY CellFacts
      <4> QED BY <4>1, UnsignedIs
    <3>5. z[1] = l /\ z[2] = 0 BY <3>2, <3>3
    <3>6. Double(z[1], z[2]) = 0 * Modulus + u1 * u2 BY <3>3, <3>4, <3>5 DEF Double
    <3>7. u1 * u2 \in Int BY <3>1, CellFacts
    <3> DEFINE p == u1 * u2
    <3> HIDE DEF p
    <3>8. 0 * Modulus + p = p BY <3>7, CellFacts DEF p
    <3>9. Double(z[1], z[2]) = p BY <3>6, <3>8 DEF p
    <3> QED BY <3>9 DEF p, u1, u2
  <2> HIDE DEF a, z
  <2> QED BY <1>2, <1>f, <2>3 DEF DoublesExact
<1>g. CASE w = "m*"
  <2>1. a[1] \in Cells /\ a[2] \in Cells BY <1>g, CallsOnDoubles
  <2>2. z = forthmmul(a[1], a[2]) BY <1>g DEF Computed
  <2>3. Magnitude(a[1] * a[2]) < Modulus => SignedDouble(z[1], z[2]) = a[1] * a[2]
    BY <2>1, <2>2, SignedProduct
  <2> HIDE DEF a, z
  <2> QED BY <1>2, <1>g, <2>3 DEF DoublesExact
<1>h. CASE w \in {"um/mod", "ud/mod"}
  <2>1. a[1] \in Int /\ a[2] \in Int BY <1>h, CallsOnDoubles, CellsBounded
  <2>2. CASE w = "um/mod"
    <3>1. z = forthumslashmod(a[1], a[2], a[3]) BY <2>2 DEF Computed
    <3>2. (a[3] \in 1 .. Sign \div 2 /\ Unsigned(a[2]) < a[3]) =>
            /\ Double(a[1], a[2]) = Unsigned(z[2]) * a[3] + z[1]
            /\ z[1] \in 0 .. a[3] - 1
      BY <2>1, <3>1, DivideExact
    <3> HIDE DEF a, z
    <3> QED BY <1>2, <2>2, <3>2 DEF DoublesExact
  <2>3. CASE w = "ud/mod"
    <3>1. z = forthudslashmod(a[1], a[2], a[3]) BY <2>3 DEF Computed
    <3>2. a[3] \in 1 .. Sign \div 2 =>
            /\ Double(a[1], a[2]) = Double(z[2], z[3]) * a[3] + z[1]
            /\ z[1] \in 0 .. a[3] - 1
      BY <2>1, <3>1, DoubleQuotient
    <3> HIDE DEF a, z
    <3> QED BY <1>2, <2>3, <3>2 DEF DoublesExact
  <2> QED BY <1>h, <2>2, <2>3
<1>i. CASE w \notin {"s>d", "dnegate", "d+", "d<", "um*", "m*", "um/mod", "ud/mod"}
  <2> HIDE DEF a, z
  <2> QED BY <1>2, <1>i DEF DoublesExact
<1> QED BY <1>c, <1>d, <1>e, <1>f, <1>g, <1>h, <1>i

\* In every width of a cell, a word on doubles leaves what arithmetic on doubles
\* has, where the code gets it right: the comment of DoublesExact says where.
THEOREM DoubleCellsExact == MathSpec => []DoublesExact
<1>1. MathInit => DoublesExact BY DEF MathInit, DoublesExact
<1>2. DoublesExact /\ [MathNext]_mathVars => DoublesExact'
  <2>1. DoublesExact /\ UNCHANGED mathVars => DoublesExact' BY DEF mathVars, DoublesExact
  <2> QED BY <2>1, DoubleCallExact
<1> QED BY <1>1, <1>2, PTL DEF MathSpec

-----------------------------------------------------------------------------
(* Number output and input. *)

\* A digit held is read as its value.
LEMMA DigitReadBack ==
  ASSUME NEW v \in Nat
  PROVE  HeldDigit(v) \in Int /\ HeldDigit(v) >= 48 /\ DigitValue(HeldDigit(v)) = v
<1>1. CASE v > 9
  <2>1. HeldDigit(v) = v + 87 BY <1>1 DEF HeldDigit
  <2> QED BY <1>1, <2>1 DEF DigitValue
<1>2. CASE ~(v > 9)
  <2>1. HeldDigit(v) = v + 48 BY <1>2 DEF HeldDigit
  <2> QED BY <1>2, <2>1 DEF DigitValue
<1> QED BY <1>1, <1>2

\* Who has read a number d, reads on in str and then has d0.
ReadsOn(str, radix, d, d0) ==
  \E v \in [0 .. Len(str) -> Nat] :
    /\ v[0] = d /\ v[Len(str)] = d0
    /\ \A i \in 1 .. Len(str) :
         /\ str[i] >= 48 /\ DigitValue(str[i]) \in 0 .. radix - 1
         /\ v[i] = v[i - 1] * radix + DigitValue(str[i])

\* A character before the others.
LEMMA HeldBefore ==
  ASSUME NEW str \in Seq(Int), NEW c \in Int
  PROVE  /\ <<c>> \o str \in Seq(Int) /\ Len(<<c>> \o str) = Len(str) + 1
         /\ (<<c>> \o str)[1] = c
         /\ \A i \in 1 .. Len(str) : (<<c>> \o str)[i + 1] = str[i]
OBVIOUS

\* With the remainder held, one reads on from the quotient.
LEMMA ReadsOnFromQuotient ==
  ASSUME NEW str \in Seq(Int), NEW radix \in Nat \ {0}, NEW d, NEW d0, NEW q \in Nat,
         NEW r \in 0 .. radix - 1, d = q * radix + r, ReadsOn(str, radix, d, d0)
  PROVE  ReadsOn(<<HeldDigit(r)>> \o str, radix, q, d0)
<1> DEFINE c == HeldDigit(r)
           n == Len(str)
           s == <<c>> \o str
<1>a. r \in Nat OBVIOUS
<1>1. r \in Nat /\ c \in Int /\ c >= 48 /\ DigitValue(c) = r BY <1>a, DigitReadBack
<1> HIDE DEF c
<1>2. n \in Nat OBVIOUS
<1>3. Len(s) = n + 1 /\ s[1] = c /\ \A i \in 1 .. n : s[i + 1] = str[i] BY <1>1, HeldBefore
<1> HIDE DEF s
<1>4. PICK v \in [0 .. n -> Nat] :
        /\ v[0] = d /\ v[n] = d0
        /\ \A i \in 1 .. n :
             /\ str[i] >= 48 /\ DigitValue(str[i]) \in 0 .. radix - 1
             /\ v[i] = v[i - 1] * radix + DigitValue(str[i])
  BY DEF ReadsOn
<1> HIDE DEF n
<1> DEFINE w == [i \in 0 .. n + 1 |-> IF i = 0 THEN q ELSE v[i - 1]]
<1>5. w \in [0 .. n + 1 -> Nat]
  <2>1. \A i \in 0 .. n + 1 : i # 0 => i - 1 \in 0 .. n BY <1>2
  <2>2. \A i \in 0 .. n : v[i] \in Nat BY <1>4
  <2> QED BY <2>1, <2>2
<1>6. w[0] = q /\ w[n + 1] = d0
  <2>1. 0 \in 0 .. n + 1 /\ n + 1 \in 0 .. n + 1 /\ n + 1 # 0 /\ (n + 1) - 1 = n BY <1>2
  <2> QED BY <2>1, <1>4
<1>7. ASSUME NEW i \in 1 .. n + 1
      PROVE  /\ s[i] >= 48 /\ DigitValue(s[i]) \in 0 .. radix - 1
             /\ w[i] = w[i - 1] * radix + DigitValue(s[i])
  <2>1. i \in 0 .. n + 1 /\ i - 1 \in 0 .. n + 1 /\ i # 0 BY <1>2
  <2>2. w[i] = v[i - 1] /\ w[i - 1] = IF i - 1 = 0 THEN q ELSE v[(i - 1) - 1] BY <2>1
  <2> HIDE DEF w
  <2>3. CASE i = 1
    <3>1. w[i] = d /\ w[i - 1] = q /\ s[i] = c BY <1>3, <1>4, <2>2, <2>3
    <3> QED BY <1>1, <3>1
  <2>4. CASE i # 1
    <3>1. i - 1 \in 1 .. n /\ i - 1 # 0 /\ (i - 1) + 1 = i BY <1>2, <2>4
    <3>2. s[i] = str[i - 1] BY <1>3, <3>1
    <3>3. w[i - 1] = v[(i - 1) - 1] BY <2>2, <3>1
    <3>4. v[i - 1] = v[(i - 1) - 1] * radix + DigitValue(str[i - 1])
          /\ str[i - 1] >= 48 /\ DigitValue(str[i - 1]) \in 0 .. radix - 1
      BY <1>4, <3>1
    <3> QED BY <2>2, <3>2, <3>3, <3>4
  <2> QED BY <2>3, <2>4
<1> HIDE DEF w
<1>8. ReadsOn(s, radix, q, d0) BY <1>3, <1>5, <1>6, <1>7 DEF ReadsOn
<1> QED BY <1>8 DEF s, c

\* What #S has on its way: digits from which one reads on to d0, and a double
\* below the bound.
Holding(h, radix, d0, bound) ==
  /\ h.str \in Seq(Int) /\ h.lo \in Int /\ h.hi \in Int
  /\ Double(h.lo, h.hi) \in Nat /\ Double(h.lo, h.hi) < bound
  /\ ReadsOn(h.str, radix, Double(h.lo, h.hi), d0)

\* A turn of #S halves the bound, at least.
LEMMA HoldDigitTurn ==
  ASSUME NEW radix \in Radixes, NEW d0, NEW bound \in Nat \ {0}, NEW h,
         Holding(h, radix, d0, 2 * bound)
  PROVE  Holding(HoldDigit(radix, h), radix, d0, bound) /\ HoldDigit(radix, h).str # <<>>
<1>1. radix \in 1 .. Sign \div 2 /\ radix \in Nat \ {0} /\ radix >= 2
  <2>1. radix \in 2 .. Sign \div 2 BY MathAssumption
  <2>2. Sign \div 2 \in Int BY CellFacts, QuotientAndRest
  <2> QED BY <2>1, <2>2
<1> DEFINE z == forthudslashmod(h.lo, h.hi, radix)
           d == Double(h.lo, h.hi)
           q == Double(z[2], z[3])
<1>2. /\ h.str \in Seq(Int) /\ h.lo \in Int /\ h.hi \in Int /\ d \in Nat /\ d < 2 * bound
      /\ ReadsOn(h.str, radix, d, d0)
  BY DEF Holding
<1>3. CASE h.str # <<>> /\ h.lo = 0 /\ h.hi = 0
  <2>1. HoldDigit(radix, h) = h BY <1>3 DEF HoldDigit
  <2>2. Unsigned(0) = 0
    <3>1. 0 = 0 * Modulus + 0 /\ 0 \in 0 .. Modulus - 1 BY CellFacts
    <3> QED BY <3>1, UnsignedIs
  <2>3. d = 0 * Modulus + 0 BY <1>3, <2>2 DEF Double
  <2>4. d = 0 BY <2>3, CellFacts
  <2>5. d < bound BY <2>4
  <2>6. Holding(h, radix, d0, bound) BY <1>2, <2>5 DEF Holding
  <2> QED BY <1>3, <2>1, <2>6
<1>4. CASE ~(h.str # <<>> /\ h.lo = 0 /\ h.hi = 0)
  <2>1. /\ z[1] \in 0 .. radix - 1 /\ z[2] \in Int /\ z[3] \in Int /\ q \in Nat
        /\ d = q * radix + z[1]
    BY <1>1, <1>2, DoubleQuotient
  <2> DEFINE c == HeldDigit(z[1])
             g == [str |-> <<c>> \o h.str, lo |-> z[2], hi |-> z[3]]
  <2>2. HoldDigit(radix, h) = g BY <1>4 DEF HoldDigit
  <2>3. z[1] \in Nat /\ c \in Int BY <1>1, <2>1, DigitReadBack
  <2>4. <<c>> \o h.str \in Seq(Int) /\ Len(<<c>> \o h.str) = Len(h.str) + 1 /\ Len(h.str) \in Nat
    <3> DEFINE s == h.str
    <3>1. s \in Seq(Int) BY <1>2
    <3> HIDE DEF s, c
    <3>2. <<c>> \o s \in Seq(Int) /\ Len(<<c>> \o s) = Len(s) + 1 /\ Len(s) \in Nat
      BY <2>3, <3>1, HeldBefore
    <3> QED BY <3>2 DEF s
  <2>5. ReadsOn(<<c>> \o h.str, radix, q, d0)
    <3> DEFINE s == h.str
               r == z[1]
    <3>1. s \in Seq(Int) /\ r \in 0 .. radix - 1 /\ q \in Nat /\ d = q * radix + r
          /\ ReadsOn(s, radix, d, d0)
      BY <1>2, <2>1
    <3> HIDE DEF s, r, q, d
    <3>2. ReadsOn(<<HeldDigit(r)>> \o s, radix, q, d0) BY <1>1, <3>1, ReadsOnFromQuotient
    <3> QED BY <3>2 DEF s, r, c
  <2>6. q < bound
    <3> DEFINE qr == q * radix
               r == z[1]
    <3>1. q * 2 <= qr /\ qr \in Nat
      <4> HIDE DEF q
      <4> QED BY <1>1, <2>1, ProductsOrdered
    <3>2. d = qr + r /\ r \in Nat /\ q \in Nat BY <2>1, <2>3
    <3> HIDE DEF q, qr, r, d
    <3> QED BY <1>2, <3>1, <3>2
  <2>7. g.str = <<c>> \o h.str /\ g.lo = z[2] /\ g.hi = z[3] OBVIOUS
  <2>8. <<c>> \o h.str # <<>>
    <3> DEFINE s == <<c>> \o h.str
    <3>1. Len(s) # 0 BY <2>4
    <3> HIDE DEF s
    <3>2. s # <<>> BY <3>1
    <3> QED BY <3>2 DEF s
  <2>9. z[2] \in Int /\ z[3] \in Int /\ q \in Nat BY <2>1
  <2> HIDE DEF g, c, z
  <2>10. Holding(g, radix, d0, bound) BY <2>4, <2>5, <2>6, <2>7, <2>9 DEF Holding
  <2> QED BY <2>2, <2>7, <2>8, <2>10
<1> QED BY <1>3, <1>4

\* The loop of #S.
HoldLoop(f, lo, hi, radix) ==
  f = [k \in 0 .. 2 * MathBits |->
         IF k = 0 THEN [str |-> <<>>, lo |-> lo, hi |-> hi] ELSE HoldDigit(radix, f[k - 1])]

\* There is such a loop.
LEMMA HoldRuns ==
  ASSUME NEW lo \in Int, NEW hi \in Int, NEW radix \in Radixes
  PROVE  \E f : HoldLoop(f, lo, hi, radix)
<1> DEFINE S == [str : Seq(Int), lo : Int, hi : Int]
           n == 2 * MathBits
           F == [k \in 1 .. n |-> [h \in S |-> HoldDigit(radix, h)]]
           x == [str |-> <<>>, lo |-> lo, hi |-> hi]
<1>0. n \in Nat BY MathAssumption
<1>a. radix \in 1 .. Sign \div 2
  <2>1. radix \in 2 .. Sign \div 2 BY MathAssumption
  <2>2. Sign \div 2 \in Int BY CellFacts, QuotientAndRest
  <2> QED BY <2>1, <2>2
<1>1. ASSUME NEW h \in S PROVE HoldDigit(radix, h) \in S
  <2> DEFINE z == forthudslashmod(h.lo, h.hi, radix)
             c == HeldDigit(z[1])
  <2>1. h.str \in Seq(Int) /\ h.lo \in Int /\ h.hi \in Int OBVIOUS
  <2>2. z[1] \in 0 .. radix - 1 /\ z[2] \in Int /\ z[3] \in Int BY <1>a, <2>1, DoubleQuotient
  <2>3. z[1] \in Nat
    <3>1. radix \in Nat BY <1>a, CellFacts, QuotientAndRest
    <3> HIDE DEF z
    <3> QED BY <2>2, <3>1
  <2>4. c \in Int BY <2>3, DigitReadBack
  <2>5. <<c>> \o h.str \in Seq(Int)
    <3> HIDE DEF c
    <3> QED BY <2>1, <2>4
  <2>6. HoldDigit(radix, h) = IF h.str # <<>> /\ h.lo = 0 /\ h.hi = 0 THEN h
                              ELSE [str |-> <<c>> \o h.str, lo |-> z[2], hi |-> z[3]]
    BY DEF HoldDigit
  <2> HIDE DEF z, c
  <2> QED BY <2>2, <2>5, <2>6
<1>2. F \in [1 .. n -> [S -> S]] BY <1>1
<1>3. x \in S
  <2>1. <<>> \in Seq(Int) OBVIOUS
  <2> QED BY <2>1
<1>4. PICK f : Passes(f, n, S, x, F)
  <2> HIDE DEF F, S, x, n
  <2> QED BY <1>0, <1>2, <1>3, LoopRuns
<1>5. /\ f \in [0 .. n -> S] /\ f[0] = x
      /\ \A k \in 1 .. n : f[k] = F[k][f[k - 1]]
  BY <1>4 DEF Passes
<1>6. ASSUME NEW k \in 1 .. n
      PROVE  f[k] = HoldDigit(radix, f[k - 1])
  <2>1. k - 1 \in 0 .. n BY <1>0
  <2>2. f[k - 1] \in S BY <1>5, <2>1
  <2>3. F[k][f[k - 1]] = HoldDigit(radix, f[k - 1])
    <3> HIDE DEF S, n
    <3> QED BY <2>2
  <2> QED BY <1>5, <2>3
<1>7. f = [k \in 0 .. n |-> f[k]] BY <1>5
<1>8. \A k \in 0 .. n : f[k] = IF k = 0 THEN x ELSE HoldDigit(radix, f[k - 1])
  <2> HIDE DEF x
  <2> SUFFICES ASSUME NEW k \in 0 .. n
               PROVE  f[k] = IF k = 0 THEN x ELSE HoldDigit(radix, f[k - 1])
    OBVIOUS
  <2>1. CASE k = 0 BY <1>5, <2>1
  <2>2. CASE k # 0
    <3>1. k \in 1 .. n BY <1>0, <2>2
    <3> QED BY <1>6, <2>2, <3>1
  <2> QED BY <2>1, <2>2
<1>9. HoldLoop(f, lo, hi, radix) BY <1>7, <1>8 DEF HoldLoop
<1> QED BY <1>9

\* What #S holds are digits from which one reads the double, from 0.
LEMMA HeldReads ==
  ASSUME NEW lo \in Int, NEW hi \in Int, NEW radix \in Radixes
  PROVE  LET str == forthhashs(lo, hi, radix)
         IN str \in Seq(Int) /\ str # <<>> /\ ReadsOn(str, radix, 0, Double(lo, hi))
<1> DEFINE n == 2 * MathBits
           f == CHOOSE g : HoldLoop(g, lo, hi, radix)
           d0 == Double(lo, hi)
           b(k) == 2 ^ (n - k)
           Holds(k) == Holding(f[k], radix, d0, b(k)) /\ (k # 0 => f[k].str # <<>>)
           T == {k \in 0 .. n : Holds(k)}
<1>1. n \in Nat /\ n # 0 BY MathAssumption
<1>2. forthhashs(lo, hi, radix) = f[n].str BY DEF forthhashs, HoldLoop
<1>3. HoldLoop(f, lo, hi, radix) BY HoldRuns
<1>m. d0 \in Nat /\ d0 < b(0)
  <2>1. 2 ^ n = Modulus * Modulus
    <3> DEFINE m == MathBits
               U == {i \in 0 .. m : 2 ^ (m + i) = Modulus * 2 ^ i}
    <3>1. m \in Nat /\ n = m + m BY MathAssumption
    <3>2. 0 \in U
      <4>1. m + 0 = m /\ 0 \in 0 .. m BY <3>1
      <4>2. 2 ^ m = Modulus /\ Modulus * 1 = Modulus BY CellFacts DEF Modulus
      <4> QED BY <4>1, <4>2, Powers
    <3>3. ASSUME NEW i \in 1 .. m, i - 1 \in U PROVE i \in U
      <4>1. m + i \in 1 .. n /\ i \in 1 .. n /\ i - 1 \in 0 .. n /\ (m + i) - 1 = m + (i - 1)
            /\ i \in 0 .. m
        BY <3>1
      <4>2. 2 ^ (m + i) = 2 * 2 ^ (m + (i - 1)) BY <4>1, Powers
      <4>3. 2 ^ i = 2 * 2 ^ (i - 1) /\ 2 ^ (i - 1) \in Nat BY <4>1, Powers
      <4>4. 2 ^ (m + (i - 1)) = Modulus * 2 ^ (i - 1) BY <3>3
      <4> DEFINE p == 2 ^ (i - 1)
      <4>5. 2 ^ (m + i) = 2 * (Modulus * p) /\ 2 ^ i = 2 * p /\ p \in Nat BY <4>2, <4>3, <4>4
      <4> HIDE DEF p
      <4>6. 2 * (Modulus * p) = Modulus * (2 * p) BY <4>5, CellFacts
      <4> QED BY <4>1, <4>5, <4>6
    <3>4. \A i \in 0 .. m : i \in U
      <4> HIDE DEF U, m
      <4> QED BY <3>1, <3>2, <3>3, CountedUp
    <3>5. m \in U
      <4>1. m \in 0 .. m BY <3>1
      <4> HIDE DEF U
      <4> QED BY <3>4, <4>1
    <3>6. 2 ^ (m + m) = Modulus * 2 ^ m BY <3>5
    <3> QED BY <3>1, <3>6 DEF Modulus
  <2> DEFINE h == Unsigned(hi)
             l == Unsigned(lo)
             mm == Modulus * Modulus
  <2>2. h * Modulus + l \in 0 .. mm - 1 /\ mm \in Nat \ {0} BY Conversions, SquareFacts
  <2>3. d0 = h * Modulus + l BY DEF Double
  <2>4. b(0) = mm
    <3>1. n - 0 = n BY <1>1
    <3> QED BY <2>1, <3>1
  <2> DEFINE hl == h * Modulus + l
             b0 == b(0)
  <2>5. hl \in 0 .. mm - 1 /\ d0 = hl /\ b0 = mm BY <2>2, <2>3, <2>4
  <2> HIDE DEF hl, mm, d0, b0
  <2>6. d0 \in Nat /\ d0 < b0 BY <2>2, <2>5
  <2> QED BY <2>6 DEF b0
<1>4. /\ f[0] = [str |-> <<>>, lo |-> lo, hi |-> hi]
      /\ \A k \in 1 .. n : f[k] = HoldDigit(radix, f[k - 1])
  <2> DEFINE x == [str |-> <<>>, lo |-> lo, hi |-> hi]
  <2>1. f = [k \in 0 .. n |-> IF k = 0 THEN x ELSE HoldDigit(radix, f[k - 1])]
    BY <1>3 DEF HoldLoop
  <2> HIDE DEF f, n, x
  <2>2. 0 \in 0 .. n /\ \A k \in 1 .. n : k \in 0 .. n /\ k # 0 BY <1>1
  <2>3. f[0] = x /\ \A k \in 1 .. n : f[k] = HoldDigit(radix, f[k - 1]) BY <2>1, <2>2
  <2> QED BY <2>3 DEF x
<1> HIDE DEF f, d0
<1>5. 0 \in T
  <2>1. f[0].str = <<>> /\ f[0].lo = lo /\ f[0].hi = hi BY <1>4
  <2>2. ReadsOn(<<>>, radix, d0, d0)
    <3> DEFINE v == [i \in 0 .. 0 |-> d0]
    <3>1. Len(<<>>) = 0 /\ 1 .. 0 = {} OBVIOUS
    <3>2. v \in [0 .. 0 -> Nat] /\ v[0] = d0 BY <1>m
    <3> HIDE DEF v
    <3> QED BY <3>1, <3>2 DEF ReadsOn
  <2>3. <<>> \in Seq(Int) OBVIOUS
  <2>4. Double(f[0].lo, f[0].hi) = d0 BY <2>1 DEF d0
  <2> HIDE DEF b
  <2>5. Holding(f[0], radix, d0, b(0)) BY <1>m, <2>1, <2>2, <2>3, <2>4 DEF Holding
  <2>6. 0 \in 0 .. n BY <1>1
  <2> QED BY <2>5, <2>6
<1>6. ASSUME NEW k \in 1 .. n, k - 1 \in T PROVE k \in T
  <2>1. Holding(f[k - 1], radix, d0, b(k - 1)) BY <1>6
  <2>2. n - k \in 0 .. n /\ n - k + 1 \in 1 .. n /\ (n - k + 1) - 1 = n - k
        /\ n - (k - 1) = n - k + 1 /\ k \in 0 .. n
    BY <1>1
  <2>3. b(k) \in Nat \ {0} BY <2>2, Powers
  <2>4. b(k - 1) = 2 * b(k)
    <3>1. 2 ^ (n - k + 1) = 2 * 2 ^ (n - k) BY <2>2, Powers
    <3> QED BY <2>2, <3>1
  <2> HIDE DEF b
  <2>5. Holding(HoldDigit(radix, f[k - 1]), radix, d0, b(k))
        /\ HoldDigit(radix, f[k - 1]).str # <<>>
    BY <2>1, <2>3, <2>4, HoldDigitTurn
  <2>6. f[k] = HoldDigit(radix, f[k - 1]) BY <1>4
  <2> QED BY <2>2, <2>5, <2>6
<1>7. Holds(n)
  <2>1. \A k \in 0 .. n : k \in T
    <3> HIDE DEF T, n
    <3> QED BY <1>1, <1>5, <1>6, CountedUp
  <2>2. n \in 0 .. n BY <1>1
  <2>3. n \in T
    <3> HIDE DEF T
    <3> QED BY <2>1, <2>2
  <2> QED BY <2>3
<1>8. b(n) = 1
  <2>1. n - n = 0 BY <1>1
  <2> QED BY <2>1, Powers
<1>9. Holding(f[n], radix, d0, 1) /\ f[n].str # <<>> BY <1>1, <1>7, <1>8
<1>10. /\ f[n].str \in Seq(Int)
       /\ Double(f[n].lo, f[n].hi) \in Nat /\ Double(f[n].lo, f[n].hi) < 1
       /\ ReadsOn(f[n].str, radix, Double(f[n].lo, f[n].hi), d0)
  BY <1>9 DEF Holding
<1>11. Double(f[n].lo, f[n].hi) = 0 BY <1>10
<1> QED BY <1>2, <1>9, <1>10, <1>11 DEF d0

\* ?NUMBER reads a string of digits as the number it is, if that needs no rounding.
LEMMA ReadAsNumber ==
  ASSUME NEW str \in Seq(Int), str # <<>>, NEW radix \in Nat \ {0}, NEW d,
         ReadsOn(str, radix, 0, d), Precise(d)
  PROVE  forthqsinglenumber(str, radix) = <<Signed(d), -1>>
<1> DEFINE n == Len(str)
           Turn(x, i) == Rounded(Rounded(x * radix) + DigitValue(str[i]))
           Reading(g) == g = [i \in 0 .. n |-> IF i = 0 THEN 0 ELSE Turn(g[i - 1], i)]
           f == CHOOSE g : Reading(g)
<1>1. n \in Nat /\ n # 0 /\ DOMAIN str = 1 .. n OBVIOUS
<1>2. PICK v \in [0 .. n -> Nat] :
        /\ v[0] = 0 /\ v[n] = d
        /\ \A i \in 1 .. n :
             /\ str[i] >= 48 /\ DigitValue(str[i]) \in 0 .. radix - 1
             /\ v[i] = v[i - 1] * radix + DigitValue(str[i])
  BY DEF ReadsOn
<1>3. ~(str[1] = 45)
  <2>1. str[1] >= 48 /\ str[1] \in Int
    <3>1. 1 \in 1 .. n BY <1>1
    <3> QED BY <1>2, <3>1
  <2> QED BY <2>1
<1>4. ~\E i \in DOMAIN str : DigitValue(str[i]) \notin 0 .. radix - 1 BY <1>1, <1>2
<1>5. forthqsinglenumber(str, radix) = <<Signed(f[n]), -1>> BY <1>3, <1>4 DEF forthqsinglenumber
<1> HIDE DEF n
<1>a. ASSUME NEW i \in 1 .. n
      PROVE  /\ v[i - 1] \in Nat /\ v[i] \in Nat /\ v[i - 1] * radix \in Nat
             /\ v[i - 1] <= v[i - 1] * radix /\ v[i - 1] * radix <= v[i]
  <2>1. i - 1 \in 0 .. n /\ i \in 0 .. n BY <1>1
  <2> DEFINE x == v[i - 1]
             y == v[i]
             g == DigitValue(str[i])
  <2>2. x \in Nat /\ y \in Nat BY <1>2, <2>1
  <2>3. y = x * radix + g /\ g \in Nat BY <1>2
  <2> HIDE DEF x, y, g
  <2>4. x * radix \in Nat /\ x * 1 <= x * radix /\ x * 1 = x BY <2>2, ProductsOrdered
  <2>5. x * radix <= y BY <2>2, <2>3, <2>4
  <2> QED BY <2>2, <2>4, <2>5 DEF x, y
<1>b. \A i \in 0 .. n : v[i] <= d
  <2> DEFINE U == {i \in 0 .. n : v[n - i] <= d}
  <2>1. 0 \in U
    <3>1. n - 0 = n /\ 0 \in 0 .. n /\ n \in 0 .. n BY <1>1
    <3>2. v[n] = d /\ v[n] \in Nat BY <1>2, <3>1
    <3> QED BY <3>1, <3>2
  <2>2. ASSUME NEW i \in 1 .. n, i - 1 \in U PROVE i \in U
    <3> DEFINE j == n - (i - 1)
    <3>1. j \in 1 .. n /\ j - 1 = n - i /\ i \in 0 .. n BY <1>1
    <3>2. v[j] <= d BY <2>2
    <3>3. v[j - 1] <= v[j] /\ v[j] \in Nat /\ v[j - 1] \in Nat
      <4> HIDE DEF j
      <4>1. /\ v[j - 1] \in Nat /\ v[j] \in Nat /\ v[j - 1] * radix \in Nat
            /\ v[j - 1] <= v[j - 1] * radix /\ v[j - 1] * radix <= v[j]
        BY <1>a, <3>1
      <4> QED BY <4>1
    <3>4. d \in Nat
      <4>1. n \in 0 .. n BY <1>1
      <4> QED BY <1>2, <4>1
    <3>5. v[j - 1] <= d
      <4> HIDE DEF j
      <4> QED BY <3>2, <3>3, <3>4
    <3> QED BY <3>1, <3>5
  <2>3. \A i \in 0 .. n : i \in U
    <3> HIDE DEF U
    <3> QED BY <1>1, <2>1, <2>2, CountedUp
  <2>4. ASSUME NEW i \in 0 .. n PROVE v[i] <= d
    <3>1. n - i \in 0 .. n /\ n - (n - i) = i BY <1>1
    <3>2. n - i \in U
      <4> HIDE DEF U
      <4> QED BY <2>3, <3>1
    <3> QED BY <3>1, <3>2
  <2> QED BY <2>4
<1>c. ASSUME NEW i \in 1 .. n PROVE Turn(v[i - 1], i) = v[i]
  <2> DEFINE p == v[i - 1] * radix
  <2>1. p \in Nat /\ v[i] \in Nat /\ p <= v[i] /\ i \in 0 .. n /\ n \in 0 .. n
    BY <1>1, <1>a
  <2>2. v[i] <= d /\ d \in Nat BY <1>2, <1>b, <2>1
  <2>3. v[i] = p + DigitValue(str[i]) BY <1>2
  <2> HIDE DEF p
  <2>4. p <= d BY <2>1, <2>2
  <2>5. Precise(p) /\ Precise(v[i]) BY <2>1, <2>2, <2>4, CellsPrecise
  <2>6. Rounded(p) = p /\ Rounded(v[i]) = v[i] BY <2>5, NotRounded
  <2>7. Rounded(p) + DigitValue(str[i]) = v[i] BY <2>3, <2>6
  <2> QED BY <2>6, <2>7 DEF p
<1> HIDE DEF Turn
<1>6. Reading(v)
  <2>1. v = [i \in 0 .. n |-> v[i]] BY <1>2
  <2>2. \A i \in 0 .. n : v[i] = IF i = 0 THEN 0 ELSE Turn(v[i - 1], i)
    <3> SUFFICES ASSUME NEW i \in 0 .. n
                 PROVE  v[i] = IF i = 0 THEN 0 ELSE Turn(v[i - 1], i)
      OBVIOUS
    <3>1. CASE i = 0 BY <1>2, <3>1
    <3>2. CASE i # 0
      <4>1. i \in 1 .. n BY <1>1, <3>2
      <4> QED BY <1>c, <3>2, <4>1
    <3> QED BY <3>1, <3>2
  <2> QED BY <2>1, <2>2
<1>7. Reading(f)
  <2> HIDE DEF Reading
  <2> QED BY <1>6
<1>8. f[0] = 0 /\ \A i \in 1 .. n : f[i] = Turn(f[i - 1], i)
  <2> HIDE DEF f
  <2>1. 0 \in 0 .. n /\ \A i \in 1 .. n : i \in 0 .. n /\ i # 0 BY <1>1
  <2>2. f = [i \in 0 .. n |-> IF i = 0 THEN 0 ELSE Turn(f[i - 1], i)]
    BY <1>7
  <2> QED BY <2>1, <2>2
<1> HIDE DEF f, Reading
<1> DEFINE T == {i \in 0 .. n : f[i] = v[i]}
<1>9. 0 \in T
  <2>1. 0 \in 0 .. n BY <1>1
  <2>2. f[0] = 0 /\ v[0] = 0 BY <1>2, <1>8
  <2> QED BY <2>1, <2>2
<1>10. ASSUME NEW i \in 1 .. n, i - 1 \in T PROVE i \in T
  <2>1. f[i - 1] = v[i - 1] /\ i \in 0 .. n BY <1>1, <1>10
  <2>2. f[i] = v[i] BY <1>8, <1>c, <2>1
  <2> QED BY <2>1, <2>2
<1>11. f[n] = v[n]
  <2>1. \A i \in 0 .. n : i \in T
    <3> HIDE DEF T
    <3> QED BY <1>1, <1>9, <1>10, CountedUp
  <2>2. n \in 0 .. n BY <1>1
  <2> QED BY <2>1, <2>2
<1> QED BY <1>2, <1>5, <1>11

\* A double has the residue of its low cell.
LEMMA LowCell ==
  ASSUME NEW lo \in Int, NEW hi \in Int
  PROVE  Signed(Double(lo, hi)) = Signed(lo)
<1> DEFINE h == Unsigned(hi)
           l == Unsigned(lo)
           d == Double(lo, hi)
<1>1. h \in Int /\ l \in 0 .. Modulus - 1 BY Conversions, CellFacts
<1>2. d = h * Modulus + l BY DEF Double
<1> HIDE DEF h, l, d
<1>3. d \in Int BY <1>1, <1>2, CellFacts
<1>4. Unsigned(d) = l BY <1>1, <1>2, <1>3, UnsignedIs
<1> QED BY <1>4 DEF Signed, l, d

\* In every width of a cell and of the mantissa, and every radix that the division of
\* doubles is exact for, ?NUMBER reads what #S writes of a double as its low cell, if
\* the double needs no more bits than the mantissa has.
THEOREM WrittenNumbersReadBack == MathSpec => []NumbersReadBack
<1>1. MathInit => NumbersReadBack BY DEF MathInit, NumbersReadBack
<1>2. ASSUME MathNext PROVE NumbersReadBack'
  <2>1. PICK c \in Calls :
          mathWord' = c[1] /\ mathArgs' = c[2] /\ mathResult' = Computed(c[1], c[2])
    BY <1>2 DEF MathNext
  <2> DEFINE a == c[2]
             z == Computed(c[1], a)
  <2>2. CASE c[1] = "#s"
    <3>1. a[1] \in Int /\ a[2] \in Int /\ a[3] \in Radixes
      BY <2>2, CallsOnDoubles, CellsBounded
    <3>2. z = forthhashs(a[1], a[2], a[3]) BY <2>2 DEF Computed
    <3>3. z \in Seq(Int) /\ z # <<>> /\ ReadsOn(z, a[3], 0, Double(a[1], a[2]))
      <4> HIDE DEF a, z
      <4> QED BY <3>1, <3>2, HeldReads
    <3> HIDE DEF a, z
    <3>4. ASSUME Precise(Double(a[1], a[2]))
          PROVE  forthqsinglenumber(z, a[3]) = <<Signed(Double(a[1], a[2])), -1>>
      <4>1. a[3] \in Nat \ {0}
        <5>1. a[3] \in 2 .. Sign \div 2
          <6>1. Radixes \subseteq 2 .. Sign \div 2 BY MathAssumption
          <6> QED BY <3>1, <6>1
        <5>2. Sign \in Int BY CellFacts
        <5>3. Sign \div 2 \in Int BY <5>2, QuotientAndRest
        <5> QED BY <5>1, <5>3
      <4> QED BY <3>3, <3>4, <4>1, ReadAsNumber
    <3>5. Signed(Double(a[1], a[2])) = Signed(a[1]) BY <3>1, LowCell
    <3>6. Precise(Double(a[1], a[2])) => forthqsinglenumber(z, a[3]) = <<Signed(a[1]), -1>>
      BY <3>4, <3>5
    <3> QED BY <2>1, <3>6 DEF a, z, NumbersReadBack
  <2>3. CASE c[1] # "#s" BY <2>1, <2>3 DEF NumbersReadBack
  <2> QED BY <2>2, <2>3
<1>3. NumbersReadBack /\ [MathNext]_mathVars => NumbersReadBack'
  <2>1. NumbersReadBack /\ UNCHANGED mathVars => NumbersReadBack' BY DEF mathVars, NumbersReadBack
  <2> QED BY <1>2, <2>1
<1> QED BY <1>1, <1>3, PTL DEF MathSpec

=============================================================================
