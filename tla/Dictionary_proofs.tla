-------------------------- MODULE Dictionary_proofs --------------------------
(***************************************************************************)
(* Theorems about the dictionary, for every number of word lists, words,   *)
(* cells and quotations inside quotations.                                 *)
(***************************************************************************)
EXTENDS Dictionary, TLAPS

(* The inductive invariant. *)

\* Data of all words, and what markers saved, is in the data space.
InRange ==
  /\ \A w \in Wids : \A i \in 1 .. Len(lists[w]) : lists[w][i].data < End
  /\ \A k \in 1 .. Len(enclosing) : enclosing[k].data < End
  /\ \A a \in DOMAIN marks : marks[a].here < End

\* A definition is the head of the current list, and quotations are in one.
Opened ==
  /\ open => Len(lists[current]) # 0
  /\ Len(enclosing) # 0 => open

\* No word is in two places.
Distinct ==
  /\ \A w, v \in Wids : \A i \in 1 .. Len(lists[w]), j \in 1 .. Len(lists[v]) :
       lists[w][i].id = lists[v][j].id => w = v /\ i = j
  /\ \A w \in Wids : \A i \in 1 .. Len(lists[w]), k \in 1 .. Len(enclosing) :
       lists[w][i].id # enclosing[k].id
  /\ \A k, l \in 1 .. Len(enclosing) : enclosing[k].id = enclosing[l].id => k = l

\* How many words of a list were there before the outermost word being compiled.
Lower(w) == IF open /\ w = current THEN Len(lists[w]) - 1 ELSE Len(lists[w])

\* The definitions around a quotation are being compiled.
Compiled ==
  /\ \A k \in 1 .. Len(enclosing) : enclosing[k].hidden
  /\ "quotation" \notin uses => Len(enclosing) = 0

\* What is noted of a word being compiled.
Begun ==
  "quotation" \notin uses /\ open =>
    LET head == lists[current][Len(lists[current])]
    IN before[head.id] =
         [ids |-> [w \in Wids |-> [i \in 1 .. Lower(w) |-> lists[w][i].id]],
          here |-> head.data, current |-> current]

\* The words there were before a marker are still the first ones of every list;
\* the last of them are where the marker stops.
Marked ==
  \A a \in DOMAIN marks :
    /\ before[a].here = marks[a].here /\ before[a].current = marks[a].current
    /\ before[a].ids \in [Wids -> Seq(Addresses \cup {Builtin})]
    /\ \A w \in Wids :
         LET ids == before[a].ids[w]
         IN /\ Len(ids) <= Lower(w)
            /\ \A i \in 1 .. Len(ids) : ids[i] = lists[w][i].id
            /\ marks[a].heads[w] = IF Len(ids) = 0 THEN NULL ELSE ids[Len(ids)]

\* A marker there was before another marker saw no more words than that one.
Nested ==
  \A a, b \in DOMAIN marks : \A v \in Wids : \A i \in 1 .. Len(before[a].ids[v]) :
    before[a].ids[v][i] = b =>
      \A w \in Wids : Len(before[b].ids[w]) <= Len(before[a].ids[w])

\* Where nothing is released or quoted, words are in the order of their data.
Ordered ==
  /\ \A w \in Wids : \A i \in 1 .. Len(lists[w]) : lists[w][i].data <= here
  /\ open => \A w \in Wids : \A i \in 1 .. Lower(w) :
       lists[w][i].data <= lists[current][Len(lists[current])].data
  /\ \A a \in DOMAIN marks, w \in Wids : \A i \in 1 .. Len(before[a].ids[w]) :
       lists[w][i].data <= marks[a].here

Sound == Distinct /\ HiddenIsOpen /\ Compiled /\ Begun /\ Marked /\ Nested
IInv == TypeOK /\ InRange /\ Opened /\ (Unbroken => Sound) /\ (uses = {} => Ordered)

-----------------------------------------------------------------------------
(* What a step does to the lists, word by word: one form for all the ways    *)
(* an operation can end, an exception included.                              *)

Elsewhere == \A w \in Wids \ {current} : lists'[w] = lists[w]

\* The first n words of the current list are as they were.
Keeping(n) ==
  /\ Elsewhere /\ current' = current
  /\ \A i \in 1 .. n : lists'[current][i] = lists[current][i]

\* No word comes or goes: data is allotted, or another list made current.
Stays ==
  /\ lists' = lists /\ enclosing' = enclosing /\ open' = open
  /\ open => current' = current
  /\ uses = {} => here <= here'

\* A word is linked, to be completed if it is hidden.
Adds(a) ==
  /\ ~open /\ a \in Addresses \ Ids
  /\ Keeping(Len(lists[current]))
  /\ Len(lists'[current]) = Len(lists[current]) + 1
  /\ lists'[current][Len(lists[current]) + 1] = [id |-> a, data |-> here, hidden |-> open']
  /\ Len(enclosing') = 0 /\ here <= here' /\ open' \in BOOLEAN
  /\ open' => here' = here

\* The head is shown, the definition ended.
Shows ==
  /\ open /\ ~open' /\ Len(enclosing') = 0
  /\ Len(lists'[current]) = Len(lists[current])
  /\ Keeping(Len(lists[current]) - 1)
  /\ LET n == Len(lists[current])
     IN lists'[current][n] = [lists[current][n] EXCEPT !.hidden = FALSE]
  /\ uses = {} => here <= here'

\* The head is discarded.
Pops ==
  /\ open /\ ~open' /\ Len(enclosing') = 0
  /\ Len(lists'[current]) = Len(lists[current]) - 1
  /\ Keeping(Len(lists[current]) - 1)
  /\ here' = lists[current][Len(lists[current])].data

\* A quotation takes the place of the definition around it.
Opens(a) ==
  /\ "quotation" \in uses /\ open /\ open' /\ a \in Addresses \ Ids
  /\ Len(lists'[current]) = Len(lists[current])
  /\ Keeping(Len(lists[current]) - 1)
  /\ LET head == lists'[current][Len(lists[current])] IN head.id = a /\ head.hidden
  /\ Len(enclosing') = Len(enclosing) + 1
  /\ \A k \in 1 .. Len(enclosing) : enclosing'[k] = enclosing[k]
  /\ enclosing'[Len(enclosing) + 1] = lists[current][Len(lists[current])]

\* The definition around a quotation is put back after it.
Closes ==
  /\ open /\ open' /\ Len(enclosing) # 0
  /\ Len(lists'[current]) = Len(lists[current]) + 1
  /\ Keeping(Len(lists[current]) - 1)
  /\ LET n == Len(lists[current])
     IN /\ lists'[current][n] = [lists[current][n] EXCEPT !.hidden = FALSE]
        /\ lists'[current][n + 1] = enclosing[Len(enclosing)]
  /\ Len(enclosing') = Len(enclosing) - 1
  /\ \A k \in 1 .. Len(enclosing') : enclosing'[k] = enclosing[k]

\* A marker is run: the lists are cut to the words there were before it.
Cuts(a) ==
  /\ ~open /\ open' = open /\ enclosing' = enclosing /\ a \in DOMAIN marks
  /\ \A w \in Wids :
       /\ Len(lists'[w]) = Len(before[a].ids[w]) /\ Len(lists'[w]) <= Len(lists[w])
       /\ \A i \in 1 .. Len(lists'[w]) : lists'[w][i] = lists[w][i]
  /\ here' = marks[a].here /\ current' = marks[a].current
  /\ \A b \in DOMAIN marks' : \E w \in Wids : \E i \in 1 .. Len(lists'[w]) : lists'[w][i].id = b

\* No marker is made, and those that are left are as they were.
Remain ==
  /\ DOMAIN marks' \subseteq DOMAIN marks
  /\ \A a \in DOMAIN marks' : marks'[a] = marks[a]

\* A marker is made.
Makes(a) ==
  /\ ~open' /\ a \in DOMAIN marks' /\ DOMAIN marks' \subseteq DOMAIN marks \cup {a}
  /\ \A b \in DOMAIN marks' \ {a} : marks'[b] = marks[b]
  /\ marks'[a] = Snapshot

Effects ==
  \/ (Stays \/ Shows \/ Pops \/ Closes) /\ Remain
  \/ \E a \in Addresses \ Ids : (Adds(a) \/ Opens(a)) /\ Remain
  \/ \E a \in Addresses \ Ids : Adds(a) /\ Makes(a)
  \/ \E a \in DOMAIN marks : Cuts(a) /\ Remain

-----------------------------------------------------------------------------
(* Sequences. *)

\* Append, element by element.
LEMMA AppendFacts ==
  ASSUME NEW S, NEW s \in Seq(S), NEW a \in S
  PROVE  /\ Append(s, a) \in Seq(S)
         /\ Len(Append(s, a)) = Len(s) + 1
         /\ \A i \in 1 .. Len(s) : Append(s, a)[i] = s[i]
         /\ Append(s, a)[Len(s) + 1] = a
         /\ Len(s) \in Nat
OBVIOUS

\* A prefix, element by element.
LEMMA PrefixFacts ==
  ASSUME NEW S, NEW s \in Seq(S), NEW n \in 0 .. Len(s)
  PROVE  /\ SubSeq(s, 1, n) \in Seq(S)
         /\ Len(SubSeq(s, 1, n)) = n
         /\ \A i \in 1 .. n : SubSeq(s, 1, n)[i] = s[i]
         /\ Len(s) \in Nat
OBVIOUS

\* Replacing the last element.
LEMMA LastFacts ==
  ASSUME NEW S, NEW s \in Seq(S), NEW a \in S, Len(s) # 0
  PROVE  /\ [s EXCEPT ![Len(s)] = a] \in Seq(S)
         /\ Len([s EXCEPT ![Len(s)] = a]) = Len(s)
         /\ \A i \in 1 .. Len(s) :
              [s EXCEPT ![Len(s)] = a][i] = IF i = Len(s) THEN a ELSE s[i]
         /\ Len(s) \in Nat
OBVIOUS

\* Only the empty sequence has length zero.
LEMMA EmptyFacts ==
  ASSUME NEW S, NEW s \in Seq(S)
  PROVE  (s = <<>> <=> Len(s) = 0) /\ Len(s) \in Nat
OBVIOUS

\* The list below its head, and its head.
LEMMA HeadFacts ==
  ASSUME NEW list \in Seq(Word), Len(list) # 0
  PROVE  /\ BelowHead(list) \in Seq(Word)
         /\ Len(BelowHead(list)) = Len(list) - 1
         /\ \A i \in 1 .. Len(list) - 1 : BelowHead(list)[i] = list[i]
         /\ HeadOf(list) = list[Len(list)]
         /\ HeadOf(list) \in Word
         /\ Len(list) \in Nat \ {0}
<1>1. Len(list) \in Nat BY EmptyFacts
<1> DEFINE n == Len(list) - 1
<1>2. n \in 0 .. Len(list) BY <1>1
<1> HIDE DEF n
<1>3. SubSeq(list, 1, n) \in Seq(Word) /\ Len(SubSeq(list, 1, n)) = n
      /\ \A i \in 1 .. n : SubSeq(list, 1, n)[i] = list[i]
  BY <1>2, PrefixFacts
<1>4. list[Len(list)] \in Word BY <1>1
<1> QED BY <1>1, <1>3, <1>4 DEF BelowHead, HeadOf, n

\* Showing the head.
LEMMA ShownFacts ==
  ASSUME NEW list \in Seq(Word), Len(list) # 0
  PROVE  /\ Shown(list) \in Seq(Word)
         /\ Len(Shown(list)) = Len(list)
         /\ \A i \in 1 .. Len(list) - 1 : Shown(list)[i] = list[i]
         /\ Shown(list)[Len(list)] = [list[Len(list)] EXCEPT !.hidden = FALSE]
<1> DEFINE head == [list[Len(list)] EXCEPT !.hidden = FALSE]
<1>1. Len(list) \in Nat /\ head \in Word
  <2>1. Len(list) \in Nat BY EmptyFacts
  <2>2. list[Len(list)] \in Word BY <2>1
  <2> QED BY <2>1, <2>2 DEF Word
<1>2. Shown(list) = [list EXCEPT ![Len(list)] = head] BY DEF Shown
<1> HIDE DEF head
<1>3. LET new == [list EXCEPT ![Len(list)] = head]
      IN new \in Seq(Word) /\ Len(new) = Len(list)
         /\ \A i \in 1 .. Len(list) : new[i] = IF i = Len(list) THEN head ELSE list[i]
  BY <1>1, LastFacts
<1>4. Shown(list)[Len(list)] = head BY <1>1, <1>2, <1>3
<1>5. \A i \in 1 .. Len(list) - 1 : Shown(list)[i] = list[i] BY <1>1, <1>2, <1>3
<1> QED BY <1>2, <1>3, <1>4, <1>5 DEF head

\* A list cut to a word in it is the words down to that one.
LEMMA CutIsPrefix ==
  ASSUME NEW list \in Seq(Word), NEW stop, stop = NULL \/ stop \in IdsOf(list)
  PROVE  \E n \in 0 .. Len(list) :
           /\ CutTo(list, stop) = SubSeq(list, 1, n)
           /\ IF stop = NULL THEN n = 0 ELSE n # 0 /\ list[n].id = stop
<1>1. Len(list) \in Nat BY EmptyFacts
<1>2. CASE stop = NULL BY <1>1, <1>2 DEF CutTo
<1>3. CASE stop # NULL
  <2>1. \E j \in 1 .. Len(list) : list[j].id = stop BY <1>3 DEF IdsOf, Entries
  <2> DEFINE n == CHOOSE j \in 1 .. Len(list) : list[j].id = stop
  <2>2. n \in 1 .. Len(list) /\ list[n].id = stop BY <2>1
  <2>3. CutTo(list, stop) = SubSeq(list, 1, n) BY <1>3 DEF CutTo
  <2> HIDE DEF n
  <2> QED BY <1>1, <1>3, <2>2, <2>3
<1> QED BY <1>2, <1>3

\* The addresses of the words of all lists.
LEMMA UnionFacts ==
  ASSUME NEW ls, NEW a
  PROVE  a \in UNION {IdsOf(ls[w]) : w \in Wids} <=>
           \E w \in Wids : \E i \in 1 .. Len(ls[w]) : ls[w][i].id = a
<1>1. ASSUME NEW w \in Wids, a \in IdsOf(ls[w])
      PROVE  a \in UNION {IdsOf(ls[v]) : v \in Wids}
  <2>1. IdsOf(ls[w]) \in {IdsOf(ls[v]) : v \in Wids} OBVIOUS
  <2> QED BY <1>1, <2>1
<1>2. ASSUME a \in UNION {IdsOf(ls[v]) : v \in Wids}
      PROVE  \E w \in Wids : a \in IdsOf(ls[w])
  <2>1. PICK ids \in {IdsOf(ls[v]) : v \in Wids} : a \in ids BY <1>2
  <2>2. PICK w \in Wids : ids = IdsOf(ls[w]) BY <2>1
  <2> QED BY <2>1, <2>2
<1>3. \A w \in Wids : a \in IdsOf(ls[w]) <=> \E i \in 1 .. Len(ls[w]) : ls[w][i].id = a
  BY DEF IdsOf, Entries
<1> QED BY <1>1, <1>2, <1>3

\* The addresses in use.
LEMMA IdsFacts ==
  /\ \A a : a \in Ids <=>
       \/ \E w \in Wids : \E i \in 1 .. Len(lists[w]) : lists[w][i].id = a
       \/ \E k \in 1 .. Len(enclosing) : enclosing[k].id = a
  /\ \A a : a \in Ids' <=>
       \/ \E w \in Wids : \E i \in 1 .. Len(lists'[w]) : lists'[w][i].id = a
       \/ \E k \in 1 .. Len(enclosing') : enclosing'[k].id = a
<1>1. Ids' = (UNION {IdsOf(lists'[w]) : w \in Wids}) \cup IdsOf(enclosing')
  BY DEF Ids, IdsOf, Entries, Wids
<1>2. \A list, a : a \in IdsOf(list) <=> \E i \in 1 .. Len(list) : list[i].id = a
  BY DEF IdsOf, Entries
<1>3. \A a : a \in UNION {IdsOf(lists[w]) : w \in Wids} <=>
             \E w \in Wids : \E i \in 1 .. Len(lists[w]) : lists[w][i].id = a
  BY UnionFacts
<1>4. \A a : a \in UNION {IdsOf(lists'[w]) : w \in Wids} <=>
             \E w \in Wids : \E i \in 1 .. Len(lists'[w]) : lists'[w][i].id = a
  BY UnionFacts
<1>5. Ids = (UNION {IdsOf(lists[w]) : w \in Wids}) \cup IdsOf(enclosing)
  BY DEF Ids
<1>6. \A a : a \in Ids <=> \/ a \in UNION {IdsOf(lists[w]) : w \in Wids}
                        \/ a \in IdsOf(enclosing)
  BY <1>5
<1>7. \A a : a \in Ids' <=> \/ a \in UNION {IdsOf(lists'[w]) : w \in Wids}
                         \/ a \in IdsOf(enclosing')
  BY <1>1
<1> QED BY <1>2, <1>3, <1>4, <1>6, <1>7

\* An entry of one of the lists.
LEMMA EntryFacts ==
  ASSUME NEW ls, NEW x
  PROVE  x \in UNION {Entries(ls[w]) : w \in Wids} <=>
           \E w \in Wids : \E i \in 1 .. Len(ls[w]) : ls[w][i] = x
<1>1. ASSUME NEW w \in Wids, x \in Entries(ls[w])
      PROVE  x \in UNION {Entries(ls[v]) : v \in Wids}
  <2>1. Entries(ls[w]) \in {Entries(ls[v]) : v \in Wids} OBVIOUS
  <2> QED BY <1>1, <2>1
<1>2. ASSUME x \in UNION {Entries(ls[v]) : v \in Wids}
      PROVE  \E w \in Wids : x \in Entries(ls[w])
  <2>1. PICK X \in {Entries(ls[v]) : v \in Wids} : x \in X BY <1>2
  <2>2. PICK w \in Wids : X = Entries(ls[w]) BY <2>1
  <2> QED BY <2>1, <2>2
<1>3. \A w \in Wids : x \in Entries(ls[w]) <=> \E i \in 1 .. Len(ls[w]) : ls[w][i] = x
  BY DEF Entries
<1> QED BY <1>1, <1>2, <1>3

\* What is left of the markers are markers of words that are still there.
LEMMA SurvivingFacts ==
  ASSUME NEW ls, NEW h
  PROVE  /\ DOMAIN Surviving(ls, h) \subseteq DOMAIN marks
         /\ \A a \in DOMAIN Surviving(ls, h) :
              /\ Surviving(ls, h)[a] = marks[a]
              /\ \E w \in Wids : \E i \in 1 .. Len(ls[w]) : ls[w][i].id = a
<1> DEFINE kept == {x \in UNION {Entries(ls[w]) : w \in Wids} :
                      h <= here \/ h <= x.data \/ x.data + MarkerCells <= here}
<1>1. Surviving(ls, h) = [a \in DOMAIN marks \cap {x.id : x \in kept} |-> marks[a]]
  BY DEF Surviving
<1>2. \A x \in kept : \E w \in Wids : \E i \in 1 .. Len(ls[w]) : ls[w][i] = x
  BY EntryFacts
<1>3. \A a \in {x.id : x \in kept} : \E x \in kept : a = x.id OBVIOUS
<1> HIDE DEF kept
<1> QED BY <1>1, <1>2, <1>3
-----------------------------------------------------------------------------
(* Types. *)

Data ==
  /\ lists \in [Wids -> Seq(Word)] /\ current \in Wids /\ here \in 0 .. End - 1
  /\ open \in BOOLEAN /\ enclosing \in Seq(Word)
  /\ process \in {"running", "hung", "undefined"}
  /\ \A w \in Wids : \A i \in 1 .. Len(lists[w]) : lists[w][i].data < End
  /\ \A k \in 1 .. Len(enclosing) : enclosing[k].data < End
  /\ Opened

\* Markers are words, and what they saved has its type.
MarksTyped ==
  /\ DOMAIN marks \subseteq Ids
  /\ \A a \in DOMAIN marks : marks[a] \in Saved /\ marks[a].here < End

\* Lists that hold words whose data is in the data space.
ListsTyped(ls) ==
  /\ ls \in [Wids -> Seq(Word)]
  /\ \A w \in Wids : \A i \in 1 .. Len(ls[w]) : ls[w][i].data < End

\* What an uncaught exception leaves of the lists.
LEMMA UncaughtFacts ==
  ASSUME NEW ls \in [Wids -> Seq(Word)], NEW h, current \in Wids, Uncaught(ls, h)
  PROVE  /\ lists' \in [Wids -> Seq(Word)]
         /\ \A w \in Wids \ {current} : lists'[w] = ls[w]
         /\ current' = current /\ open' = FALSE /\ enclosing' = <<>>
         /\ process' \in {process, "hung"}
         /\ LET n == Len(ls[current])
            IN \/ /\ n # 0 /\ ls[current][n].hidden /\ Len(lists'[current]) = n - 1
                  /\ \A i \in 1 .. n - 1 : lists'[current][i] = ls[current][i]
                  /\ here' = ls[current][n].data
               \/ ~(n # 0 /\ ls[current][n].hidden) /\ lists' = ls /\ here' = h
<1>1. ls[current] \in Seq(Word) /\ (ls[current] = <<>> <=> Len(ls[current]) = 0)
  BY EmptyFacts
<1>2. lists' = [ls EXCEPT ![current] = Discarded(ls[current])]
      /\ here' = Rewound(ls[current], h)
  BY DEF Uncaught
<1>3. CASE Len(ls[current]) # 0 /\ ls[current][Len(ls[current])].hidden
  <2>1. Discarded(ls[current]) = BelowHead(ls[current])
        /\ Rewound(ls[current], h) = ls[current][Len(ls[current])].data
    BY <1>1, <1>3 DEF Discarded, Rewound, Incomplete, HeadOf
  <2>2. BelowHead(ls[current]) \in Seq(Word)
        /\ Len(BelowHead(ls[current])) = Len(ls[current]) - 1
        /\ \A i \in 1 .. Len(ls[current]) - 1 : BelowHead(ls[current])[i] = ls[current][i]
    BY <1>1, <1>3, HeadFacts
  <2> QED BY <1>2, <1>3, <2>1, <2>2 DEF Uncaught
<1>4. CASE ~(Len(ls[current]) # 0 /\ ls[current][Len(ls[current])].hidden)
  <2>1. Discarded(ls[current]) = ls[current] /\ Rewound(ls[current], h) = h
    BY <1>1, <1>4 DEF Discarded, Rewound, Incomplete, HeadOf
  <2>2. lists' = ls BY <1>2, <2>1
  <2> QED BY <1>2, <1>4, <2>1, <2>2 DEF Uncaught
<1> QED BY <1>3, <1>4

\* Markers left after cells were written, or an exception.
LEMMA RemainFacts ==
  ASSUME NEW h, marks' = Surviving(lists', h)
  PROVE  Remain /\ DOMAIN marks' \subseteq Ids'
         /\ \A a \in DOMAIN marks' :
              \E w \in Wids : \E i \in 1 .. Len(lists'[w]) : lists'[w][i].id = a
<1>1. /\ DOMAIN Surviving(lists', h) \subseteq DOMAIN marks
      /\ \A a \in DOMAIN Surviving(lists', h) :
           /\ Surviving(lists', h)[a] = marks[a]
           /\ \E w \in Wids : \E i \in 1 .. Len(lists'[w]) : lists'[w][i].id = a
  BY SurvivingFacts
<1> QED BY <1>1, IdsFacts DEF Remain

\* An exception in any state of the lists keeps the types.
LEMMA ThrownTyped ==
  ASSUME Data, NEW ls, ListsTyped(ls), NEW h \in 0 .. End - 1, Thrown(ls, h)
  PROVE  Data' /\ Remain /\ DOMAIN marks' \subseteq Ids'
<1>1. Remain /\ DOMAIN marks' \subseteq Ids'
  BY RemainFacts DEF Thrown, Uncaught, Kept, Written
<1>2. Len(<<>>) = 0 /\ <<>> \in Seq(Word) OBVIOUS
<1>3. CASE Uncaught(ls, h)
  <2>1. /\ lists' \in [Wids -> Seq(Word)]
        /\ \A w \in Wids \ {current} : lists'[w] = ls[w]
        /\ current' = current /\ open' = FALSE /\ enclosing' = <<>>
        /\ process' \in {process, "hung"}
        /\ LET n == Len(ls[current])
           IN \/ /\ n # 0 /\ ls[current][n].hidden /\ Len(lists'[current]) = n - 1
                 /\ \A i \in 1 .. n - 1 : lists'[current][i] = ls[current][i]
                 /\ here' = ls[current][n].data
              \/ ~(n # 0 /\ ls[current][n].hidden) /\ lists' = ls /\ here' = h
    BY <1>3, UncaughtFacts DEF Data, ListsTyped
  <2>2. ls[current] \in Seq(Word) /\ Len(ls[current]) \in Nat BY EmptyFacts DEF Data, ListsTyped
  <2> DEFINE n == Len(ls[current])
  <2>3. \A i \in 1 .. n : ls[current][i] \in Word /\ ls[current][i].data < End
    BY <2>2 DEF ListsTyped, Data
  <2>4. /\ here' \in 0 .. End - 1
        /\ \A w \in Wids : \A i \in 1 .. Len(lists'[w]) : lists'[w][i].data < End
    <3>1. CASE /\ n # 0 /\ ls[current][n].hidden /\ Len(lists'[current]) = n - 1
               /\ \A i \in 1 .. n - 1 : lists'[current][i] = ls[current][i]
               /\ here' = ls[current][n].data
      <4>1. ls[current][n].data \in Nat /\ ls[current][n].data < End BY <2>2, <2>3, <3>1 DEF Word
      <4>2. here' \in 0 .. End - 1 BY <3>1, <4>1, BoundsAssumption
      <4>3. \A i \in 1 .. Len(lists'[current]) : lists'[current][i].data < End
        BY <2>2, <2>3, <3>1
      <4>4. \A w \in Wids \ {current} : \A i \in 1 .. Len(lists'[w]) : lists'[w][i].data < End
        BY <2>1 DEF ListsTyped
      <4> QED BY <4>2, <4>3, <4>4
    <3>2. CASE lists' = ls /\ here' = h BY <3>2 DEF ListsTyped
    <3> QED BY <2>1, <3>1, <3>2
  <2>5. lists' \in [Wids -> Seq(Word)] /\ current' \in Wids /\ open' \in BOOLEAN
        /\ enclosing' \in Seq(Word) /\ process' \in {"running", "hung", "undefined"}
    BY <1>2, <2>1 DEF Data
  <2>6. Opened' /\ \A k \in 1 .. Len(enclosing') : enclosing'[k].data < End
    BY <1>2, <2>1 DEF Opened
  <2> QED BY <1>1, <2>4, <2>5, <2>6 DEF Data
<1>4. CASE Kept(ls, h)
  <2>1. lists' = ls /\ here' = h /\ open' = FALSE /\ enclosing' = <<>>
        /\ current' = current /\ process' = process
    BY <1>4 DEF Kept, Written
  <2>2. Opened' /\ \A k \in 1 .. Len(enclosing') : enclosing'[k].data < End
    BY <1>2, <2>1 DEF Opened
  <2>3. \A w \in Wids : \A i \in 1 .. Len(lists'[w]) : lists'[w][i].data < End
    BY <2>1 DEF ListsTyped
  <2> QED BY <1>1, <1>2, <2>1, <2>2, <2>3 DEF Data, ListsTyped
<1> QED BY <1>3, <1>4 DEF Thrown

\* What the types say of the current list.
LEMMA CurrentFacts ==
  ASSUME Data
  PROVE  /\ lists[current] \in Seq(Word) /\ Len(lists[current]) \in Nat
         /\ \A i \in 1 .. Len(lists[current]) :
              lists[current][i] \in Word /\ lists[current][i].data < End
         /\ Len(enclosing) \in Nat
         /\ \A k \in 1 .. Len(enclosing) :
              enclosing[k] \in Word /\ enclosing[k].data < End
<1>1. lists[current] \in Seq(Word) BY DEF Data
<1>2. Len(lists[current]) \in Nat /\ Len(enclosing) \in Nat BY <1>1, EmptyFacts DEF Data
<1> QED BY <1>1, <1>2 DEF Data

\* Another list in the place of the current one.
LEMMA ReplacedFacts ==
  ASSUME Data, NEW new \in Seq(Word), \A i \in 1 .. Len(new) : new[i].data < End
  PROVE  LET ls == [lists EXCEPT ![current] = new]
         IN ListsTyped(ls) /\ ls[current] = new
            /\ \A w \in Wids \ {current} : ls[w] = lists[w]
BY DEF Data, ListsTyped

\* A word is linked.
LEMMA LinkedFacts ==
  ASSUME Data, NEW a \in Addresses, NEW hidden \in BOOLEAN
  PROVE  LET ls == Linked(a, hidden)
             n == Len(lists[current])
         IN /\ ListsTyped(ls)
            /\ \A w \in Wids \ {current} : ls[w] = lists[w]
            /\ Len(ls[current]) = n + 1
            /\ \A i \in 1 .. n : ls[current][i] = lists[current][i]
            /\ ls[current][n + 1] = [id |-> a, data |-> here, hidden |-> hidden]
<1> DEFINE x == [id |-> a, data |-> here, hidden |-> hidden]
           new == Append(lists[current], x)
<1>1. x \in Word /\ x.data < End BY BoundsAssumption DEF Word, Data
<1>2. lists[current] \in Seq(Word) /\ Len(lists[current]) \in Nat
      /\ \A i \in 1 .. Len(lists[current]) : lists[current][i].data < End
  BY CurrentFacts
<1> HIDE DEF x
<1>3. new \in Seq(Word) /\ Len(new) = Len(lists[current]) + 1
      /\ (\A i \in 1 .. Len(lists[current]) : new[i] = lists[current][i])
      /\ new[Len(lists[current]) + 1] = x
  BY <1>1, <1>2, AppendFacts
<1> HIDE DEF new
<1>4. \A i \in 1 .. Len(new) : new[i].data < End
  <2>1. \A i \in 1 .. Len(new) : i \in 1 .. Len(lists[current]) \/ i = Len(lists[current]) + 1
    BY <1>2, <1>3
  <2>2. \A i \in 1 .. Len(lists[current]) : new[i].data < End BY <1>2, <1>3
  <2>3. new[Len(lists[current]) + 1].data < End BY <1>1, <1>3
  <2> QED BY <2>1, <2>2, <2>3
<1>5. LET ls == [lists EXCEPT ![current] = new]
      IN ListsTyped(ls) /\ ls[current] = new /\ \A w \in Wids \ {current} : ls[w] = lists[w]
  BY <1>3, <1>4, ReplacedFacts
<1>6. Linked(a, hidden) = [lists EXCEPT ![current] = new] BY DEF Linked, new, x
<1> HIDE DEF Linked
<1>7. ListsTyped(Linked(a, hidden)) /\ Linked(a, hidden)[current] = new
      /\ \A w \in Wids \ {current} : Linked(a, hidden)[w] = lists[w]
  BY <1>5, <1>6
<1> QED BY <1>3, <1>7 DEF x

\* The head of the current list is shown.
LEMMA ShownListFacts ==
  ASSUME Data, open
  PROVE  LET ls == [lists EXCEPT ![current] = Shown(@)]
             n == Len(lists[current])
         IN /\ n # 0 /\ ListsTyped(ls)
            /\ \A w \in Wids \ {current} : ls[w] = lists[w]
            /\ Len(ls[current]) = n
            /\ \A i \in 1 .. n - 1 : ls[current][i] = lists[current][i]
            /\ ls[current][n] = [lists[current][n] EXCEPT !.hidden = FALSE]
<1> DEFINE new == Shown(lists[current])
           n == Len(lists[current])
<1>1. lists[current] \in Seq(Word) /\ n \in Nat /\ n # 0
      /\ \A i \in 1 .. n : lists[current][i] \in Word /\ lists[current][i].data < End
  BY CurrentFacts DEF Data, Opened
<1>2. new \in Seq(Word) /\ Len(new) = n
      /\ (\A i \in 1 .. n - 1 : new[i] = lists[current][i])
      /\ new[n] = [lists[current][n] EXCEPT !.hidden = FALSE]
  BY <1>1, ShownFacts
<1>3. new[n].data < End
  <2>1. lists[current][n] \in Word /\ lists[current][n].data < End BY <1>1
  <2> QED BY <1>2, <2>1 DEF Word
<1> HIDE DEF new
<1>4. ASSUME NEW i \in 1 .. Len(new) PROVE new[i].data < End
  <2>1. i \in 1 .. n BY <1>2
  <2>2. i = n \/ i \in 1 .. n - 1 BY <1>1, <2>1
  <2>3. CASE i = n BY <1>3, <2>3
  <2>4. CASE i \in 1 .. n - 1
    <3>1. new[i] = lists[current][i] BY <1>2, <2>4
    <3> QED BY <1>1, <2>1, <3>1
  <2> QED BY <2>2, <2>3, <2>4
<1>5. LET ls == [lists EXCEPT ![current] = new]
      IN ListsTyped(ls) /\ ls[current] = new /\ \A w \in Wids \ {current} : ls[w] = lists[w]
  BY <1>2, <1>4, ReplacedFacts
<1> QED BY <1>1, <1>2, <1>5 DEF new

\* The definition around a quotation is put back after it.
LEMMA ResumedFacts ==
  ASSUME Data, open, Len(enclosing) # 0
  PROVE  LET ls == [lists EXCEPT ![current] = Append(Shown(@), HeadOf(enclosing))]
             n == Len(lists[current])
         IN /\ n # 0 /\ ListsTyped(ls)
            /\ \A w \in Wids \ {current} : ls[w] = lists[w]
            /\ Len(ls[current]) = n + 1
            /\ \A i \in 1 .. n - 1 : ls[current][i] = lists[current][i]
            /\ ls[current][n] = [lists[current][n] EXCEPT !.hidden = FALSE]
            /\ ls[current][n + 1] = enclosing[Len(enclosing)]
<1> DEFINE shown == Shown(lists[current])
           n == Len(lists[current])
           x == HeadOf(enclosing)
           new == Append(shown, x)
<1>1. lists[current] \in Seq(Word) /\ n \in Nat /\ n # 0
      /\ \A i \in 1 .. n : lists[current][i] \in Word /\ lists[current][i].data < End
  BY CurrentFacts DEF Data, Opened
<1>2. shown \in Seq(Word) /\ Len(shown) = n
      /\ (\A i \in 1 .. n - 1 : shown[i] = lists[current][i])
      /\ shown[n] = [lists[current][n] EXCEPT !.hidden = FALSE]
  BY <1>1, ShownFacts
<1>3. shown[n].data < End
  <2>1. lists[current][n] \in Word /\ lists[current][n].data < End BY <1>1
  <2> QED BY <1>2, <2>1 DEF Word
<1>4. x = enclosing[Len(enclosing)] /\ x \in Word /\ x.data < End
  BY CurrentFacts, HeadFacts DEF Data
<1> HIDE DEF shown, x
<1>5. new \in Seq(Word) /\ Len(new) = n + 1 /\ (\A i \in 1 .. n : new[i] = shown[i])
      /\ new[n + 1] = x
  BY <1>2, <1>4, AppendFacts
<1> HIDE DEF new
<1>6. ASSUME NEW i \in 1 .. Len(new) PROVE new[i].data < End
  <2>1. i \in 1 .. n - 1 \/ i = n \/ i = n + 1 BY <1>1, <1>4, <1>5
  <2>2. CASE i \in 1 .. n - 1
    <3>1. i \in 1 .. n /\ new[i] = lists[current][i] BY <1>1, <1>2, <1>5, <2>2
    <3> QED BY <1>1, <3>1
  <2>3. CASE i = n
    <3>1. new[i] = shown[n] BY <1>1, <1>5, <2>3
    <3> QED BY <1>3, <3>1
  <2>4. CASE i = n + 1 BY <1>4, <1>5, <2>4
  <2> QED BY <2>1, <2>2, <2>3, <2>4
<1>7. LET ls == [lists EXCEPT ![current] = new]
      IN ListsTyped(ls) /\ ls[current] = new /\ \A w \in Wids \ {current} : ls[w] = lists[w]
  BY <1>5, <1>6, ReplacedFacts
<1>8. /\ \A i \in 1 .. n - 1 : new[i] = lists[current][i]
      /\ new[n] = [lists[current][n] EXCEPT !.hidden = FALSE]
  <2>1. n \in 1 .. n /\ \A i \in 1 .. n - 1 : i \in 1 .. n BY <1>1
  <2>2. new[n] = shown[n] BY <1>5, <2>1
  <2>3. \A i \in 1 .. n - 1 : new[i] = shown[i] BY <1>5, <2>1
  <2> QED BY <1>2, <2>2, <2>3
<1> QED BY <1>1, <1>4, <1>5, <1>7, <1>8 DEF new, shown, x

\* A quotation takes the place of the definition around it.
LEMMA QuotedFacts ==
  ASSUME Data, open, NEW a \in Addresses, here + 2 < End
  PROVE  LET ls == [lists EXCEPT ![current] =
                      Append(BelowHead(@), [id |-> a, data |-> here + 2, hidden |-> TRUE])]
             n == Len(lists[current])
         IN /\ n # 0 /\ ListsTyped(ls)
            /\ \A w \in Wids \ {current} : ls[w] = lists[w]
            /\ Len(ls[current]) = n
            /\ \A i \in 1 .. n - 1 : ls[current][i] = lists[current][i]
            /\ ls[current][n] = [id |-> a, data |-> here + 2, hidden |-> TRUE]
<1> DEFINE below == BelowHead(lists[current])
           n == Len(lists[current])
           x == [id |-> a, data |-> here + 2, hidden |-> TRUE]
           new == Append(below, x)
<1>1. lists[current] \in Seq(Word) /\ n \in Nat /\ n # 0
      /\ \A i \in 1 .. n : lists[current][i] \in Word /\ lists[current][i].data < End
  BY CurrentFacts DEF Data, Opened
<1>2. below \in Seq(Word) /\ Len(below) = n - 1
      /\ \A i \in 1 .. n - 1 : below[i] = lists[current][i]
  BY <1>1, HeadFacts
<1>3. x \in Word /\ x.data < End BY BoundsAssumption DEF Word, Data
<1> HIDE DEF below, x
<1>4. new \in Seq(Word) /\ Len(new) = n - 1 + 1 /\ (\A i \in 1 .. n - 1 : new[i] = below[i])
      /\ new[n - 1 + 1] = x
  BY <1>2, <1>3, AppendFacts
<1>5. Len(new) = n /\ new[n] = x BY <1>1, <1>4
<1> HIDE DEF new
<1>6. ASSUME NEW i \in 1 .. Len(new) PROVE new[i].data < End
  <2>1. i \in 1 .. n - 1 \/ i = n BY <1>1, <1>5
  <2>2. CASE i \in 1 .. n - 1
    <3>1. i \in 1 .. n /\ new[i] = lists[current][i] BY <1>1, <1>2, <1>4, <2>2
    <3> QED BY <1>1, <3>1
  <2>3. CASE i = n BY <1>3, <1>5, <2>3
  <2> QED BY <2>1, <2>2, <2>3
<1>7. LET ls == [lists EXCEPT ![current] = new]
      IN ListsTyped(ls) /\ ls[current] = new /\ \A w \in Wids \ {current} : ls[w] = lists[w]
  BY <1>4, <1>6, ReplacedFacts
<1> QED BY <1>1, <1>2, <1>4, <1>5, <1>7 DEF new, below, x

\* The lists a marker leaves when those above list k have been cut.
LEMMA CutFacts ==
  ASSUME Data, NEW m \in Saved, StopsLive(m), NEW k
  PROVE  /\ ListsTyped(CutAbove(m, k))
         /\ \A w \in Wids : w > k =>
              \E n \in 0 .. Len(lists[w]) :
                /\ CutAbove(m, k)[w] = SubSeq(lists[w], 1, n)
                /\ IF m.heads[w] = NULL THEN n = 0 ELSE n # 0 /\ lists[w][n].id = m.heads[w]
<1>1. \A w \in Wids : CutAbove(m, k)[w] = IF w > k THEN CutTo(lists[w], m.heads[w]) ELSE lists[w]
  BY DEF CutAbove
<1>2. ASSUME NEW w \in Wids
      PROVE  \E n \in 0 .. Len(lists[w]) :
               /\ CutTo(lists[w], m.heads[w]) = SubSeq(lists[w], 1, n)
               /\ IF m.heads[w] = NULL THEN n = 0 ELSE n # 0 /\ lists[w][n].id = m.heads[w]
  <2>1. lists[w] \in Seq(Word) BY DEF Data
  <2>2. m.heads[w] = NULL \/ m.heads[w] \in IdsOf(lists[w]) BY DEF StopsLive
  <2> QED BY <2>1, <2>2, CutIsPrefix
<1>3. ASSUME NEW w \in Wids
      PROVE  /\ CutAbove(m, k)[w] \in Seq(Word)
             /\ \A i \in 1 .. Len(CutAbove(m, k)[w]) : CutAbove(m, k)[w][i].data < End
  <2>1. lists[w] \in Seq(Word) /\ \A i \in 1 .. Len(lists[w]) : lists[w][i].data < End
    BY DEF Data
  <2>2. CASE ~(w > k) BY <1>1, <2>1, <2>2
  <2>3. CASE w > k
    <3>1. PICK n \in 0 .. Len(lists[w]) : CutAbove(m, k)[w] = SubSeq(lists[w], 1, n)
      BY <1>1, <1>2, <2>3
    <3>2. /\ SubSeq(lists[w], 1, n) \in Seq(Word) /\ Len(SubSeq(lists[w], 1, n)) = n
          /\ \A i \in 1 .. n : SubSeq(lists[w], 1, n)[i] = lists[w][i]
          /\ Len(lists[w]) \in Nat
      BY <2>1, PrefixFacts
    <3> QED BY <2>1, <3>1, <3>2
  <2> QED BY <2>2, <2>3
<1>4. CutAbove(m, k) \in [Wids -> Seq(Word)] BY <1>3 DEF CutAbove
<1> QED BY <1>1, <1>2, <1>3, <1>4 DEF ListsTyped

\* Cells that are allotted.
LEMMA WrittenTyped ==
  ASSUME Data, NEW ls, ListsTyped(ls), NEW h \in 0 .. End - 1, Written(ls, h)
  PROVE  /\ ListsTyped(lists') /\ here' \in 0 .. End - 1
         /\ lists' = ls /\ here' = h
         /\ Remain /\ DOMAIN marks' \subseteq Ids'
<1>1. lists' = ls /\ here' = h /\ marks' = Surviving(lists', h) BY DEF Written
<1> QED BY <1>1, RemainFacts

\* Every step keeps the types of the data, and the markers that remain.
LEMMA StepTyped ==
  ASSUME Data, MarksTyped, Step
  PROVE  Data' /\ MarksTyped'
<1> USE BoundsAssumption
<1>1. ASSUME Remain, DOMAIN marks' \subseteq Ids' PROVE MarksTyped'
  BY <1>1 DEF Remain, MarksTyped
<1>2. ListsTyped(lists) BY DEF Data, ListsTyped
<1>3. ASSUME NEW ls, ListsTyped(ls), NEW h \in 0 .. End - 1, Thrown(ls, h)
      PROVE  Data' /\ MarksTyped'
  BY <1>1, <1>3, ThrownTyped
<1>4. CASE Error
  <2>1. here \in 0 .. End - 1 /\ Thrown(lists, here) BY <1>4 DEF Error, Data
  <2> QED BY <1>2, <1>3, <2>1
<1>5. ASSUME ListsTyped(lists'), here' \in 0 .. End - 1, current' = current,
             enclosing' = enclosing, open' = open, process' = process,
             Len(lists'[current]) # 0 \/ ~open
      PROVE  Data'
  BY <1>5 DEF Data, ListsTyped, Opened
<1>6. ASSUME NEW n \in {1, 0 - MaxRelease}, ALLOT(n) PROVE Data' /\ MarksTyped'
  <2>1. CASE ~MayAllot(n)
    <3>1. here \in 0 .. End - 1 /\ Thrown(lists, here) BY <1>6, <2>1 DEF ALLOT, Data
    <3> QED BY <1>2, <1>3, <3>1
  <2>2. CASE MayAllot(n)
    <3>1. here + n \in 0 .. End - 1 BY <1>6, <2>2 DEF ALLOT, MayAllot, Data
    <3>2. Written(lists, here + n) /\ UNCHANGED <<current, open, enclosing, process>>
      BY <1>6, <2>2 DEF ALLOT
    <3>3. /\ ListsTyped(lists') /\ here' \in 0 .. End - 1 /\ lists' = lists
          /\ Remain /\ DOMAIN marks' \subseteq Ids'
      BY <1>2, <3>1, <3>2, WrittenTyped
    <3>4. Len(lists'[current]) # 0 \/ ~open BY <3>3 DEF Data, Opened
    <3> QED BY <1>1, <1>5, <3>2, <3>3, <3>4
  <2> QED BY <2>1, <2>2
<1>7. ASSUME NEW w \in Wids, SET_CURRENT(w) PROVE Data' /\ MarksTyped'
  <2>1. Data' BY <1>7 DEF SET_CURRENT, Data, Opened
  <2>2. Remain /\ Ids' = Ids BY <1>7 DEF SET_CURRENT, Remain, Ids, Wids, IdsOf, Entries
  <2> QED BY <1>1, <1>7, <2>1, <2>2 DEF SET_CURRENT, MarksTyped
<1>8. ASSUME NEW a \in Addresses \ Ids, CREATE(a) PROVE Data' /\ MarksTyped'
  <2>1. ListsTyped(Linked(a, FALSE)) BY LinkedFacts
  <2>2. CASE here + 1 < End
    <3>1. Written(Linked(a, FALSE), here + 1) /\ ~open
          /\ UNCHANGED <<current, open, enclosing, process>>
      BY <1>8, <2>2 DEF CREATE
    <3>2. here + 1 \in 0 .. End - 1 BY <2>2 DEF Data
    <3>3. /\ ListsTyped(lists') /\ here' \in 0 .. End - 1
          /\ Remain /\ DOMAIN marks' \subseteq Ids'
      BY <2>1, <3>1, <3>2, WrittenTyped
    <3> QED BY <1>1, <1>5, <3>1, <3>3
  <2>3. CASE ~(here + 1 < End)
    <3>1. here \in 0 .. End - 1 /\ Thrown(Linked(a, FALSE), here)
      BY <1>8, <2>3 DEF CREATE, Data
    <3> QED BY <1>3, <2>1, <3>1
  <2> QED BY <2>2, <2>3
<1>9. ASSUME NEW a \in Addresses \ Ids, Colon(a) PROVE Data' /\ MarksTyped'
  <2>1. /\ ListsTyped(lists') /\ Len(lists'[current]) = Len(lists[current]) + 1
        /\ \A w \in Wids \ {current} : lists'[w] = lists[w]
        /\ \A i \in 1 .. Len(lists[current]) : lists'[current][i] = lists[current][i]
    BY <1>9, LinkedFacts DEF Colon
  <2>2. Len(lists[current]) \in Nat BY CurrentFacts
  <2>3. Ids \subseteq Ids'
    <3>1. \A w \in Wids : \A i \in 1 .. Len(lists[w]) :
            i \in 1 .. Len(lists'[w]) /\ lists'[w][i] = lists[w][i]
      BY <2>1, <2>2
    <3>2. enclosing' = enclosing BY <1>9 DEF Colon
    <3>3. ASSUME NEW x, \E w \in Wids : \E i \in 1 .. Len(lists[w]) : lists[w][i].id = x
          PROVE  x \in Ids'
      <4>1. PICK w \in Wids : \E i \in 1 .. Len(lists[w]) : lists[w][i].id = x BY <3>3
      <4>2. PICK i \in 1 .. Len(lists[w]) : lists[w][i].id = x BY <4>1
      <4>3. i \in 1 .. Len(lists'[w]) /\ lists'[w][i].id = x BY <3>1, <4>2
      <4> QED BY <4>3, IdsFacts
    <3> QED BY <3>2, <3>3, IdsFacts
  <2>4. MarksTyped' BY <1>9, <2>3 DEF Colon, MarksTyped
  <2>5. Len(lists'[current]) # 0 BY <2>1, <2>2
  <2> QED BY <1>9, <2>1, <2>4, <2>5 DEF Colon, Data, ListsTyped, Opened
<1>10. CASE Semicolon
  <2>1. /\ ListsTyped([lists EXCEPT ![current] = Shown(@)]) /\ open
    BY <1>10, ShownListFacts DEF Semicolon
  <2>2. CASE MayAllot(1)
    <3>1. here + 1 \in 0 .. End - 1 BY <2>2 DEF MayAllot, Data
    <3>2. Written([lists EXCEPT ![current] = Shown(@)], here + 1) /\ open' = FALSE
          /\ enclosing = <<>> /\ UNCHANGED <<current, enclosing, process>>
      BY <1>10, <2>2 DEF Semicolon
    <3>3. /\ ListsTyped(lists') /\ here' \in 0 .. End - 1
          /\ Remain /\ DOMAIN marks' \subseteq Ids'
      BY <2>1, <3>1, <3>2, WrittenTyped
    <3>4. Len(<<>>) = 0 OBVIOUS
    <3>5. Opened' BY <3>2, <3>4 DEF Opened
    <3>6. Data' BY <3>2, <3>3, <3>5 DEF Data, ListsTyped
    <3> QED BY <1>1, <3>3, <3>6
  <2>3. CASE ~MayAllot(1)
    <3>1. here \in 0 .. End - 1 /\ Thrown(lists, here) BY <1>10, <2>3 DEF Semicolon, Data
    <3> QED BY <1>2, <1>3, <3>1
  <2> QED BY <2>2, <2>3
<1>11. ASSUME NEW a \in Addresses \ Ids, OpenQuotation(a) PROVE Data' /\ MarksTyped'
  <2> DEFINE ls == [lists EXCEPT ![current] =
                      Append(BelowHead(@), [id |-> a, data |-> here + 2, hidden |-> TRUE])]
  <2>1. open /\ here + 2 < End /\ Written(ls, here + 2)
        /\ enclosing' = Append(enclosing, HeadOf(lists[current]))
        /\ UNCHANGED <<current, open, process>>
    BY <1>11 DEF OpenQuotation, MayAllot
  <2>2. ListsTyped(ls) /\ Len(ls[current]) = Len(lists[current]) /\ Len(lists[current]) # 0
    BY <2>1, QuotedFacts
  <2>3. here + 2 \in 0 .. End - 1 BY <2>1 DEF Data
  <2> HIDE DEF ls
  <2>4. /\ ListsTyped(lists') /\ here' \in 0 .. End - 1 /\ lists' = ls
        /\ Remain /\ DOMAIN marks' \subseteq Ids'
    BY <2>1, <2>2, <2>3, WrittenTyped
  <2> DEFINE x == HeadOf(lists[current])
  <2>5. x \in Word /\ x.data < End
    <3>1. lists[current] \in Seq(Word) /\ x = lists[current][Len(lists[current])] /\ x \in Word
          /\ Len(lists[current]) \in Nat \ {0}
      BY <2>2, CurrentFacts, HeadFacts
    <3> HIDE DEF x
    <3> QED BY <3>1, CurrentFacts
  <2> HIDE DEF x
  <2>6. enclosing' \in Seq(Word) /\ Len(enclosing') = Len(enclosing) + 1
        /\ (\A k \in 1 .. Len(enclosing) : enclosing'[k] = enclosing[k])
        /\ enclosing'[Len(enclosing) + 1] = x /\ Len(enclosing) \in Nat
    <3>1. enclosing' = Append(enclosing, x) BY <2>1 DEF x
    <3> QED BY <2>5, <3>1, AppendFacts DEF Data
  <2>7. \A k \in 1 .. Len(enclosing') : enclosing'[k].data < End
    BY <2>5, <2>6 DEF Data
  <2>8. Opened' BY <2>1, <2>2, <2>4 DEF Opened
  <2>9. Data' BY <2>1, <2>4, <2>6, <2>7, <2>8 DEF Data, ListsTyped
  <2> QED BY <1>1, <2>4, <2>9
<1>12. CASE CloseQuotation
  <2> DEFINE ended == [lists EXCEPT ![current] = Shown(@)]
             resumed == [lists EXCEPT ![current] = Append(Shown(@), HeadOf(enclosing))]
  <2>1. open /\ Len(enclosing) # 0
    BY <1>12, EmptyFacts DEF CloseQuotation, Data
  <2>2. ListsTyped(ended) BY <2>1, ShownListFacts
  <2>3. ListsTyped(resumed) /\ Len(resumed[current]) = Len(lists[current]) + 1
    BY <2>1, ResumedFacts
  <2>4. \/ /\ MayAllot(4) /\ Written(resumed, here + 4)
           /\ enclosing' = BelowHead(enclosing)
           /\ UNCHANGED <<current, open, process>>
        \/ Thrown(lists, here)
        \/ MayAllot(1) /\ Thrown(ended, here + 1)
        \/ MayAllot(2) /\ \E h \in here + 2 .. End - 1 : Thrown(resumed, h)
    BY <1>12 DEF CloseQuotation
  <2> HIDE DEF ended, resumed
  <2>5. CASE Thrown(lists, here)
    <3>1. here \in 0 .. End - 1 BY DEF Data
    <3> QED BY <1>2, <1>3, <2>5, <3>1
  <2>6. CASE MayAllot(1) /\ Thrown(ended, here + 1)
    <3>1. here + 1 \in 0 .. End - 1 BY <2>6 DEF MayAllot, Data
    <3> QED BY <1>3, <2>2, <2>6, <3>1
  <2>7. CASE MayAllot(2) /\ \E h \in here + 2 .. End - 1 : Thrown(resumed, h)
    <3>1. PICK h \in here + 2 .. End - 1 : Thrown(resumed, h) BY <2>7
    <3>2. h \in 0 .. End - 1 BY DEF Data
    <3> QED BY <1>3, <2>3, <3>1, <3>2
  <2>8. CASE /\ MayAllot(4) /\ Written(resumed, here + 4)
             /\ enclosing' = BelowHead(enclosing)
             /\ UNCHANGED <<current, open, process>>
    <3>1. here + 4 \in 0 .. End - 1 BY <2>8 DEF MayAllot, Data
    <3>2. /\ ListsTyped(lists') /\ here' \in 0 .. End - 1 /\ lists' = resumed
          /\ Remain /\ DOMAIN marks' \subseteq Ids'
      BY <2>3, <2>8, <3>1, WrittenTyped
    <3>3. enclosing' \in Seq(Word) /\ Len(enclosing') = Len(enclosing) - 1
          /\ (\A k \in 1 .. Len(enclosing) - 1 : enclosing'[k] = enclosing[k])
          /\ Len(enclosing) \in Nat
      BY <2>1, <2>8, HeadFacts DEF Data
    <3>4. \A k \in 1 .. Len(enclosing') : enclosing'[k].data < End BY <3>3 DEF Data
    <3>5. Len(lists[current]) \in Nat BY CurrentFacts
    <3>6. Opened' BY <2>1, <2>3, <2>8, <3>2, <3>5 DEF Opened
    <3>7. Data' BY <2>8, <3>2, <3>3, <3>4, <3>6 DEF Data, ListsTyped
    <3> QED BY <1>1, <3>2, <3>7
  <2> QED BY <2>4, <2>5, <2>6, <2>7, <2>8
<1>13. ASSUME NEW a \in Addresses \ Ids, MARKER(a) PROVE Data' /\ MarksTyped'
  <2> DEFINE linked == Linked(a, FALSE)
             kept == Surviving(linked, here + MarkerCells)
             n == Len(lists[current])
  <2>1. /\ ListsTyped(linked) /\ Len(linked[current]) = n + 1
        /\ linked[current][n + 1] = [id |-> a, data |-> here, hidden |-> FALSE]
    BY LinkedFacts
  <2>2. ~open BY <1>13 DEF MARKER
  <2>3. CASE here + MarkerCells < End
    <3>1. /\ lists' = linked /\ here' = here + MarkerCells
          /\ marks' = [b \in DOMAIN kept \cup {a} |-> IF b = a THEN Snapshot ELSE kept[b]]
          /\ UNCHANGED <<current, open, enclosing, process>>
      BY <1>13, <2>3 DEF MARKER
    <3> HIDE DEF linked
    <3>2. here' \in 0 .. End - 1 BY <2>3, <3>1 DEF MarkerCells, Data
    <3>3. Data' BY <1>5, <2>1, <2>2, <3>1, <3>2
    <3>4. /\ DOMAIN kept \subseteq DOMAIN marks
          /\ \A b \in DOMAIN kept :
               /\ kept[b] = marks[b]
               /\ \E w \in Wids : \E i \in 1 .. Len(linked[w]) : linked[w][i].id = b
      BY SurvivingFacts
    <3> HIDE DEF kept
    <3>5. Snapshot \in Saved /\ Snapshot.here < End
      <4>1. ASSUME NEW w \in Wids PROVE HeadId(lists[w]) \in Addresses \cup {Builtin, NULL}
        <5>1. lists[w] \in Seq(Word) BY DEF Data
        <5>2. CASE lists[w] = <<>> BY <5>2 DEF HeadId
        <5>3. CASE lists[w] # <<>>
          <6>1. HeadOf(lists[w]) \in Word BY <5>1, <5>3, EmptyFacts, HeadFacts
          <6> QED BY <5>3, <6>1 DEF HeadId, Word
        <5> QED BY <5>2, <5>3
      <4> QED BY <4>1 DEF Snapshot, Saved, Data
    <3>6. a \in Ids'
      <4>1. n + 1 \in 1 .. Len(lists'[current]) /\ lists'[current][n + 1].id = a
        BY <2>1, <3>1, CurrentFacts
      <4>2. current \in Wids BY DEF Data
      <4> QED BY <4>1, <4>2, IdsFacts
    <3>7. DOMAIN kept \subseteq Ids' BY <3>1, <3>4, IdsFacts
    <3>8. MarksTyped' BY <3>1, <3>4, <3>5, <3>6, <3>7 DEF MarksTyped
    <3> QED BY <3>3, <3>8
  <2>4. CASE ~(here + MarkerCells < End)
    <3>1. PICK h \in here .. End - 1 : Thrown(linked, h) BY <1>13, <2>4 DEF MARKER
    <3>2. h \in 0 .. End - 1 BY DEF Data
    <3> QED BY <1>3, <2>1, <3>1, <3>2
  <2> QED BY <2>3, <2>4
<1>14. ASSUME NEW a \in DOMAIN marks, NEW k, ~open, StopsLive(marks[a]),
              lists' = CutAbove(marks[a], k), here' = marks[a].here,
              current' = marks[a].current, marks' = Surviving(lists', here),
              UNCHANGED <<open, enclosing, process>>
       PROVE  Data' /\ MarksTyped'
  <2>1. marks[a] \in Saved /\ marks[a].here < End BY DEF MarksTyped
  <2>2. ListsTyped(lists') BY <1>14, <2>1, CutFacts
  <2>3. here' \in 0 .. End - 1 /\ current' \in Wids BY <1>14, <2>1 DEF Saved
  <2>4. Remain /\ DOMAIN marks' \subseteq Ids' BY <1>14, RemainFacts
  <2>5. Data' BY <1>14, <2>2, <2>3 DEF Data, ListsTyped, Opened
  <2> QED BY <1>1, <2>4, <2>5
<1>15. ASSUME NEW a \in DOMAIN marks, RunMarker(a) PROVE Data' /\ MarksTyped'
  BY <1>14, <1>15 DEF RunMarker
<1>16. ASSUME NEW a \in DOMAIN marks, NEW k \in Wids, RunMarkerInterrupted(a, k)
       PROVE  Data' /\ MarksTyped'
  BY <1>14, <1>16 DEF RunMarkerInterrupted
<1>17. ASSUME NEW a \in DOMAIN marks, RunStaleMarker(a) PROVE Data' /\ MarksTyped'
  <2>1. Data' BY <1>17 DEF RunStaleMarker, Data, Opened
  <2>2. Remain /\ Ids' = Ids BY <1>17 DEF RunStaleMarker, Remain, Ids, Wids, IdsOf, Entries
  <2> QED BY <1>1, <1>17, <2>1, <2>2 DEF RunStaleMarker, MarksTyped
<1> QED
  BY <1>4, <1>6, <1>7, <1>8, <1>9, <1>10, <1>11, <1>12, <1>13, <1>15, <1>16, <1>17 DEF Step

-----------------------------------------------------------------------------
(* Effects. *)

\* An exception with the lists as they are, in a session without breaks.
LEMMA ThrownEffect ==
  ASSUME Data, Unbroken, HiddenIsOpen, Thrown(lists, here)
  PROVE  (Stays \/ Pops) /\ Remain
<1> DEFINE n == Len(lists[current])
<1>1. n \in Nat /\ current \in Wids BY CurrentFacts DEF Data
<1>2. Remain BY RemainFacts DEF Thrown, Uncaught, Kept, Written
<1>3. n # 0 => (lists[current][n].hidden <=> open) BY <1>1 DEF HiddenIsOpen
<1>4. CASE Uncaught(lists, here)
  <2>1. /\ \A w \in Wids \ {current} : lists'[w] = lists[w]
        /\ current' = current /\ open' = FALSE /\ enclosing' = <<>>
        /\ \/ /\ n # 0 /\ lists[current][n].hidden /\ Len(lists'[current]) = n - 1
              /\ \A i \in 1 .. n - 1 : lists'[current][i] = lists[current][i]
              /\ here' = lists[current][n].data
           \/ ~(n # 0 /\ lists[current][n].hidden) /\ lists' = lists /\ here' = here
    BY <1>4, UncaughtFacts DEF Data
  <2>2. Len(<<>>) = 0 OBVIOUS
  <2>3. CASE open
    <3>1. n # 0 BY <2>3 DEF Data, Opened
    <3>2. Pops BY <1>3, <2>1, <2>2, <2>3, <3>1 DEF Pops, Keeping, Elsewhere
    <3> QED BY <1>2, <3>2
  <2>4. CASE ~open
    <3>1. enclosing = <<>> BY <2>4, EmptyFacts DEF Data, Opened
    <3>2. lists' = lists /\ here' = here BY <1>3, <2>1, <2>4
    <3>3. open' = open /\ current' = current /\ enclosing' = enclosing BY <2>1, <2>4, <3>1 DEF Data
    <3>4. Stays BY <3>2, <3>3 DEF Stays, Data
    <3> QED BY <1>2, <3>4
  <2> QED BY <2>3, <2>4
<1>5. CASE Kept(lists, here)
  <2>1. ~open /\ lists' = lists /\ here' = here /\ open' = FALSE /\ enclosing' = <<>>
        /\ current' = current
    BY <1>5 DEF Kept, Unbroken, Written
  <2>2. enclosing = <<>> BY <2>1, EmptyFacts DEF Data, Opened
  <2>3. open' = open /\ enclosing' = enclosing BY <2>1, <2>2 DEF Data
  <2>4. here <= here' BY <2>1 DEF Data
  <2>5. Stays BY <2>1, <2>3, <2>4 DEF Stays
  <2> QED BY <1>2, <2>5
<1> QED BY <1>4, <1>5 DEF Thrown

\* An exception after a complete word was linked.
LEMMA ThrownAddedEffect ==
  ASSUME Data, Unbroken, ~open, NEW a \in Addresses \ Ids, NEW h \in here .. End - 1,
         Thrown(Linked(a, FALSE), h)
  PROVE  Adds(a) /\ Remain
<1> DEFINE n == Len(lists[current])
           ls == Linked(a, FALSE)
<1>1. n \in Nat /\ current \in Wids BY CurrentFacts DEF Data
<1>2. Remain BY RemainFacts DEF Thrown, Uncaught, Kept, Written
<1>3. /\ ListsTyped(ls)
      /\ \A w \in Wids \ {current} : ls[w] = lists[w]
      /\ Len(ls[current]) = n + 1
      /\ \A i \in 1 .. n : ls[current][i] = lists[current][i]
      /\ ls[current][n + 1] = [id |-> a, data |-> here, hidden |-> FALSE]
  BY LinkedFacts
<1> HIDE DEF ls
<1>4. ~ls[current][Len(ls[current])].hidden BY <1>3
<1>5. lists' = ls /\ here' = h /\ current' = current /\ open' = FALSE /\ enclosing' = <<>>
  <2>1. CASE Uncaught(ls, h) BY <1>1, <1>3, <1>4, <2>1, UncaughtFacts DEF ListsTyped
  <2>2. CASE Kept(ls, h) BY <2>2 DEF Kept, Written
  <2> QED BY <2>1, <2>2 DEF Thrown, ls
<1>6. Len(<<>>) = 0 OBVIOUS
<1>7. here <= here' BY <1>5 DEF Data
<1>8. Adds(a) BY <1>3, <1>5, <1>6, <1>7 DEF Adds, Keeping, Elsewhere
<1> QED BY <1>2, <1>8

\* `;]`, whether it completes or is broken off by an exception.
LEMMA CloseEffect ==
  ASSUME Data, Unbroken, HiddenIsOpen, Compiled, CloseQuotation
  PROVE  (Shows \/ Pops \/ Closes) /\ Remain
<1> DEFINE n == Len(lists[current])
           ended == [lists EXCEPT ![current] = Shown(@)]
           resumed == [lists EXCEPT ![current] = Append(Shown(@), HeadOf(enclosing))]
           shown == [lists[current][n] EXCEPT !.hidden = FALSE]
<1>1. n \in Nat /\ current \in Wids BY CurrentFacts DEF Data
<1>2. open /\ Len(enclosing) # 0 /\ Len(enclosing) \in Nat
  BY EmptyFacts DEF CloseQuotation, Data
<1>3. n # 0 /\ ListsTyped(ended) /\ Len(ended[current]) = n
      /\ (\A w \in Wids \ {current} : ended[w] = lists[w])
      /\ (\A i \in 1 .. n - 1 : ended[current][i] = lists[current][i])
      /\ ended[current][n] = shown
  BY <1>2, ShownListFacts
<1>4. ListsTyped(resumed) /\ Len(resumed[current]) = n + 1
      /\ (\A w \in Wids \ {current} : resumed[w] = lists[w])
      /\ (\A i \in 1 .. n - 1 : resumed[current][i] = lists[current][i])
      /\ resumed[current][n] = shown
      /\ resumed[current][n + 1] = enclosing[Len(enclosing)]
  BY <1>2, ResumedFacts
<1>5. \/ /\ Written(resumed, here + 4)
         /\ enclosing' = BelowHead(enclosing)
         /\ UNCHANGED <<current, open, process>>
      \/ Thrown(lists, here)
      \/ Thrown(ended, here + 1)
      \/ \E h \in here + 2 .. End - 1 : Thrown(resumed, h)
  BY DEF CloseQuotation
<1>6. Len(<<>>) = 0 /\ uses # {} BY <1>2 DEF Compiled
<1>7. \A ls, h : Thrown(ls, h) => Uncaught(ls, h) /\ Remain
  <2>1. ASSUME NEW ls, NEW h, Thrown(ls, h) PROVE Uncaught(ls, h) /\ Remain
    <3>1. Uncaught(ls, h) BY <1>2, <2>1 DEF Thrown, Kept, Unbroken
    <3>2. Remain BY <3>1, RemainFacts DEF Uncaught
    <3> QED BY <3>1, <3>2
  <2> QED BY <2>1
<1>8. ~shown.hidden
  <2>1. lists[current][n] \in Word BY <1>1, <1>3, CurrentFacts
  <2> QED BY <2>1 DEF Word
<1> HIDE DEF ended, resumed, shown
<1>9. CASE Thrown(lists, here)
  <2>1. Pops /\ Remain BY <1>2, <1>9, <1>7, ThrownEffect DEF Stays, Uncaught
  <2> QED BY <2>1
<1>10. CASE Thrown(ended, here + 1)
  <2>1. lists' = ended /\ current' = current /\ open' = FALSE /\ enclosing' = <<>>
    BY <1>1, <1>3, <1>7, <1>8, <1>10, UncaughtFacts DEF ListsTyped
  <2>2. Shows BY <1>2, <1>3, <1>6, <2>1 DEF Shows, Keeping, Elsewhere, shown
  <2> QED BY <1>7, <1>10, <2>2
<1>11. ASSUME NEW h \in here + 2 .. End - 1, Thrown(resumed, h) PROVE Shows /\ Remain
  <2>1. enclosing[Len(enclosing)].hidden BY <1>2 DEF Compiled
  <2>2. /\ Len(lists'[current]) = n + 1 - 1
        /\ \A i \in 1 .. n + 1 - 1 : lists'[current][i] = resumed[current][i]
        /\ \A w \in Wids \ {current} : lists'[w] = resumed[w]
        /\ current' = current /\ open' = FALSE /\ enclosing' = <<>>
    <3> DEFINE top == Len(resumed[current])
    <3>1. resumed \in [Wids -> Seq(Word)] /\ Uncaught(resumed, h)
      BY <1>4, <1>7, <1>11 DEF ListsTyped
    <3>2. top = n + 1 /\ top # 0 /\ resumed[current][top].hidden BY <1>1, <1>4, <2>1
    <3>3. /\ \A w \in Wids \ {current} : lists'[w] = resumed[w]
          /\ current' = current /\ open' = FALSE /\ enclosing' = <<>>
          /\ \/ /\ top # 0 /\ resumed[current][top].hidden /\ Len(lists'[current]) = top - 1
                /\ \A i \in 1 .. top - 1 : lists'[current][i] = resumed[current][i]
             \/ ~(top # 0 /\ resumed[current][top].hidden)
      BY <1>1, <3>1, UncaughtFacts
    <3> HIDE DEF top
    <3> QED BY <3>2, <3>3
  <2>3. Len(lists'[current]) = n /\ lists'[current][n] = shown
        /\ \A i \in 1 .. n - 1 : lists'[current][i] = lists[current][i]
    <3>1. n + 1 - 1 = n /\ n \in 1 .. n /\ \A i \in 1 .. n - 1 : i \in 1 .. n
      BY <1>1, <1>3
    <3>2. Len(lists'[current]) = n /\ \A i \in 1 .. n : lists'[current][i] = resumed[current][i]
      BY <2>2, <3>1
    <3>3. lists'[current][n] = shown BY <1>4, <3>1, <3>2
    <3>4. \A i \in 1 .. n - 1 : lists'[current][i] = lists[current][i] BY <1>4, <3>1, <3>2
    <3> QED BY <3>2, <3>3, <3>4
  <2>4. Shows BY <1>2, <1>4, <1>6, <2>2, <2>3 DEF Shows, Keeping, Elsewhere, shown
  <2> QED BY <1>7, <1>11, <2>4
<1>12. CASE /\ Written(resumed, here + 4)
            /\ enclosing' = BelowHead(enclosing)
            /\ UNCHANGED <<current, open, process>>
  <2>1. lists' = resumed /\ open' /\ current' = current BY <1>2, <1>12 DEF Written
  <2>2. Len(enclosing') = Len(enclosing) - 1
        /\ \A k \in 1 .. Len(enclosing) - 1 : enclosing'[k] = enclosing[k]
    BY <1>2, <1>12, HeadFacts DEF Data
  <2>3. Closes BY <1>2, <1>4, <2>1, <2>2 DEF Closes, Keeping, Elsewhere, shown
  <2>4. Remain BY <1>12, RemainFacts DEF Written
  <2> QED BY <2>3, <2>4
<1> QED BY <1>5, <1>9, <1>10, <1>11, <1>12

\* A marker cuts the lists to the words there were before it.
LEMMA CutsEffect ==
  ASSUME Data, MarksTyped, Distinct, Marked, NEW a \in DOMAIN marks, RunMarker(a)
  PROVE  Cuts(a) /\ Remain
<1>1. /\ ~open /\ StopsLive(marks[a]) /\ lists' = CutAbove(marks[a], 0)
      /\ here' = marks[a].here /\ current' = marks[a].current
      /\ marks' = Surviving(lists', here) /\ open' = open /\ enclosing' = enclosing
  BY DEF RunMarker
<1>2. ASSUME NEW w \in Wids
      PROVE  /\ Len(lists'[w]) = Len(before[a].ids[w]) /\ Len(lists'[w]) <= Len(lists[w])
             /\ \A i \in 1 .. Len(lists'[w]) : lists'[w][i] = lists[w][i]
  <2> DEFINE ids == before[a].ids[w]
             stop == marks[a].heads[w]
  <2>1. w > 0 /\ lists[w] \in Seq(Word) /\ Len(lists[w]) \in Nat
    BY EmptyFacts DEF Wids, Data
  <2>2. marks[a] \in Saved BY DEF MarksTyped
  <2>3. PICK n \in 0 .. Len(lists[w]) :
          /\ lists'[w] = SubSeq(lists[w], 1, n)
          /\ IF stop = NULL THEN n = 0 ELSE n # 0 /\ lists[w][n].id = stop
    BY <1>1, <2>1, <2>2, CutFacts
  <2>4. /\ Len(lists'[w]) = n /\ \A i \in 1 .. n : lists'[w][i] = lists[w][i]
    BY <2>1, <2>3, PrefixFacts
  <2>5. /\ Len(ids) \in Nat /\ Len(ids) <= Len(lists[w])
        /\ \A i \in 1 .. Len(ids) : ids[i] = lists[w][i].id
        /\ stop = IF Len(ids) = 0 THEN NULL ELSE ids[Len(ids)]
    <3>1. Len(ids) <= Lower(w) /\ ids \in Seq(Addresses \cup {Builtin})
          /\ (\A i \in 1 .. Len(ids) : ids[i] = lists[w][i].id)
          /\ stop = IF Len(ids) = 0 THEN NULL ELSE ids[Len(ids)]
      BY DEF Marked
    <3>2. Lower(w) = Len(lists[w]) BY <1>1 DEF Lower
    <3> QED BY <3>1, <3>2, EmptyFacts
  <2>6. \A i \in 1 .. Len(lists[w]) : lists[w][i].id # NULL
    <3>1. \A i \in 1 .. Len(lists[w]) : lists[w][i] \in Word BY <2>1
    <3>2. \A x \in Word : x.id \in Addresses \cup {Builtin} BY DEF Word
    <3> QED BY <3>1, <3>2, AddressAssumption
  <2> HIDE DEF ids, stop
  <2>7. n = Len(ids)
    <3>1. CASE Len(ids) = 0 BY <2>3, <2>5, <3>1
    <3>2. CASE Len(ids) # 0
      <4>1. Len(ids) \in 1 .. Len(lists[w]) /\ stop = lists[w][Len(ids)].id
        BY <2>1, <2>5, <3>2
      <4>2. n \in 1 .. Len(lists[w]) /\ lists[w][n].id = stop BY <2>1, <2>3, <2>6, <4>1
      <4> QED BY <4>1, <4>2 DEF Distinct
    <3> QED BY <3>1, <3>2
  <2> QED BY <2>1, <2>4, <2>7 DEF ids
<1>3. Remain /\ \A b \in DOMAIN marks' :
        \E w \in Wids : \E i \in 1 .. Len(lists'[w]) : lists'[w][i].id = b
  BY <1>1, RemainFacts
<1> QED BY <1>1, <1>2, <1>3 DEF Cuts

\* Every step of a session without breaks has one of the effects.
LEMMA StepEffects ==
  ASSUME Data, MarksTyped, Unbroken, Distinct, HiddenIsOpen, Compiled, Marked, Step
  PROVE  Effects
<1> DEFINE n == Len(lists[current])
<1>0. n \in Nat /\ current \in Wids /\ Len(<<>>) = 0 BY CurrentFacts DEF Data
<1>1. ASSUME Thrown(lists, here) PROVE Effects
  BY <1>1, ThrownEffect DEF Effects
<1>2. CASE Error BY <1>1, <1>2 DEF Error
<1>3. ASSUME NEW k \in {1, 0 - MaxRelease}, ALLOT(k) PROVE Effects
  <2>1. CASE ~MayAllot(k) BY <1>1, <1>3, <2>1 DEF ALLOT
  <2>2. CASE MayAllot(k)
    <3>1. Written(lists, here + k) /\ UNCHANGED <<current, open, enclosing, process>>
          /\ (k < 0 => "release" \in uses)
      BY <1>3, <2>2 DEF ALLOT
    <3>2. uses = {} => here <= here'
      <4>1. here' = here + k BY <3>1 DEF Written
      <4>2. uses = {} => k \in Nat BY <3>1, BoundsAssumption
      <4> QED BY <4>1, <4>2 DEF Data
    <3>3. Stays BY <3>1, <3>2 DEF Stays, Written
    <3>4. Remain BY <3>1, RemainFacts DEF Written
    <3> QED BY <3>3, <3>4 DEF Effects
  <2> QED BY <2>1, <2>2
<1>4. ASSUME NEW w \in Wids, SET_CURRENT(w) PROVE Effects
  <2>1. here <= here' BY <1>4 DEF SET_CURRENT, Data
  <2>2. Stays /\ Remain BY <1>4, <2>1 DEF SET_CURRENT, Stays, Remain
  <2> QED BY <2>2 DEF Effects
<1>5. ASSUME NEW a \in Addresses \ Ids, CREATE(a) PROVE Effects
  <2>1. ~open BY <1>5 DEF CREATE
  <2>2. CASE here + 1 < End
    <3>1. Written(Linked(a, FALSE), here + 1) /\ UNCHANGED <<current, open, enclosing, process>>
      BY <1>5, <2>2 DEF CREATE
    <3>2. lists' = Linked(a, FALSE) /\ here <= here' BY <3>1 DEF Written, Data
    <3>3. Len(enclosing') = 0 /\ open' = FALSE BY <2>1, <3>1 DEF Data, Opened
    <3>4. Adds(a) BY <2>1, <3>1, <3>2, <3>3, LinkedFacts DEF Adds, Keeping, Elsewhere
    <3>5. Remain BY <3>1, RemainFacts DEF Written
    <3> QED BY <3>4, <3>5 DEF Effects
  <2>3. CASE ~(here + 1 < End)
    <3>1. Thrown(Linked(a, FALSE), here) BY <1>5, <2>3 DEF CREATE
    <3>2. here \in here .. End - 1
      <4>1. here \in 0 .. End - 1 BY DEF Data
      <4> QED BY <4>1, BoundsAssumption
    <3>3. Adds(a) /\ Remain BY <2>1, <3>1, <3>2, ThrownAddedEffect
    <3> QED BY <3>3 DEF Effects
  <2> QED BY <2>2, <2>3
<1>6. ASSUME NEW a \in Addresses \ Ids, Colon(a) PROVE Effects
  <2>1. ~open /\ lists' = Linked(a, TRUE) /\ open' = TRUE
        /\ UNCHANGED <<current, here, enclosing, marks, process>>
    BY <1>6 DEF Colon
  <2>2. Len(enclosing') = 0 /\ here <= here' BY <2>1 DEF Data, Opened
  <2>3. Adds(a) BY <2>1, <2>2, LinkedFacts DEF Adds, Keeping, Elsewhere
  <2>4. Remain BY <2>1 DEF Remain
  <2> QED BY <2>3, <2>4 DEF Effects
<1>7. CASE Semicolon
  <2>1. open /\ enclosing = <<>> BY <1>7 DEF Semicolon
  <2>2. CASE ~MayAllot(1) BY <1>1, <1>7, <2>2 DEF Semicolon
  <2>3. CASE MayAllot(1)
    <3>1. Written([lists EXCEPT ![current] = Shown(@)], here + 1) /\ open' = FALSE
          /\ UNCHANGED <<current, enclosing, process>>
      BY <1>7, <2>3 DEF Semicolon
    <3>2. here <= here' BY <3>1 DEF Written, Data
    <3>3. Len(enclosing') = 0 BY <1>0, <2>1, <3>1
    <3>4. Shows BY <2>1, <3>1, <3>2, <3>3, ShownListFacts DEF Shows, Keeping, Elsewhere, Written
    <3>5. Remain BY <3>1, RemainFacts DEF Written
    <3> QED BY <3>4, <3>5 DEF Effects
  <2> QED BY <2>2, <2>3
<1>8. ASSUME NEW a \in Addresses \ Ids, OpenQuotation(a) PROVE Effects
  <2>1. /\ "quotation" \in uses /\ open /\ here + 2 < End
        /\ Written([lists EXCEPT ![current] =
                Append(BelowHead(@), [id |-> a, data |-> here + 2, hidden |-> TRUE])], here + 2)
        /\ enclosing' = Append(enclosing, HeadOf(lists[current]))
        /\ UNCHANGED <<current, open, process>>
    BY <1>8 DEF OpenQuotation, MayAllot
  <2>2. /\ n # 0 /\ (\A w \in Wids \ {current} : lists'[w] = lists[w])
        /\ Len(lists'[current]) = n
        /\ \A i \in 1 .. n - 1 : lists'[current][i] = lists[current][i]
        /\ lists'[current][n] = [id |-> a, data |-> here + 2, hidden |-> TRUE]
    BY <2>1, QuotedFacts DEF Written
  <2>3. Len(enclosing') = Len(enclosing) + 1
        /\ (\A k \in 1 .. Len(enclosing) : enclosing'[k] = enclosing[k])
        /\ enclosing'[Len(enclosing) + 1] = lists[current][n]
    <3>1. HeadOf(lists[current]) \in Word /\ HeadOf(lists[current]) = lists[current][n]
      BY <2>2, CurrentFacts, HeadFacts
    <3> QED BY <2>1, <3>1, AppendFacts DEF Data
  <2>4. Opens(a) BY <2>1, <2>2, <2>3 DEF Opens, Keeping, Elsewhere
  <2>5. Remain BY <2>1, RemainFacts DEF Written
  <2> QED BY <2>4, <2>5 DEF Effects
<1>9. CASE CloseQuotation BY <1>9, CloseEffect DEF Effects
<1>10. ASSUME NEW a \in Addresses \ Ids, MARKER(a) PROVE Effects
  <2> DEFINE linked == Linked(a, FALSE)
             kept == Surviving(linked, here + MarkerCells)
  <2>1. ~open BY <1>10 DEF MARKER
  <2>2. CASE here + MarkerCells < End
    <3>1. /\ lists' = linked /\ here' = here + MarkerCells
          /\ marks' = [b \in DOMAIN kept \cup {a} |-> IF b = a THEN Snapshot ELSE kept[b]]
          /\ UNCHANGED <<current, open, enclosing, process>>
      BY <1>10, <2>2 DEF MARKER
    <3>2. Len(enclosing') = 0 /\ open' = FALSE /\ here <= here'
      BY <2>1, <3>1 DEF Data, Opened, MarkerCells
    <3>3. Adds(a) BY <2>1, <3>1, <3>2, LinkedFacts DEF Adds, Keeping, Elsewhere
    <3> HIDE DEF linked
    <3>4. DOMAIN kept \subseteq DOMAIN marks /\ \A b \in DOMAIN kept : kept[b] = marks[b]
      BY SurvivingFacts
    <3> HIDE DEF kept
    <3>5. Makes(a) BY <3>1, <3>2, <3>4 DEF Makes
    <3> QED BY <3>3, <3>5 DEF Effects
  <2>3. CASE ~(here + MarkerCells < End)
    <3>1. PICK h \in here .. End - 1 : Thrown(linked, h) BY <1>10, <2>3 DEF MARKER
    <3>2. Adds(a) /\ Remain BY <2>1, <3>1, ThrownAddedEffect
    <3> QED BY <3>2 DEF Effects
  <2> QED BY <2>2, <2>3
<1>11. ASSUME NEW a \in DOMAIN marks, RunMarker(a) PROVE Effects
  BY <1>11, CutsEffect DEF Effects
<1>12. ASSUME NEW a \in DOMAIN marks, RunStaleMarker(a) PROVE Effects
  <2>1. here <= here' BY <1>12 DEF RunStaleMarker, Data
  <2>2. Stays /\ Remain BY <1>12, <2>1 DEF RunStaleMarker, Stays, Remain
  <2> QED BY <2>2 DEF Effects
<1>13. ASSUME NEW a \in DOMAIN marks, NEW k \in Wids, RunMarkerInterrupted(a, k) PROVE Effects
  BY <1>13 DEF RunMarkerInterrupted, Unbroken
<1> QED
  BY <1>2, <1>3, <1>4, <1>5, <1>6, <1>7, <1>8, <1>9, <1>10, <1>11, <1>12, <1>13 DEF Step

-----------------------------------------------------------------------------
(* The inductive step. *)

\* What is noted of markers, and of words being compiled.
LEMMA NotedFacts ==
  ASSUME MarksTyped, Noted
  PROVE  /\ \A a \in DOMAIN marks \cap DOMAIN marks' : before'[a] = before[a]
         /\ \A a \in Undoable \cap Undoable' : before'[a] = before[a]
         /\ \A a \in Undoable' \ Ids :
              before'[a] = [ids |-> Shape, here |-> here, current |-> current]
         /\ DOMAIN marks' \subseteq Undoable' /\ DOMAIN before' = Undoable'
<1>1. DOMAIN marks \subseteq Undoable /\ DOMAIN marks' \subseteq Undoable' BY DEF Undoable
<1>2. Undoable \subseteq Ids
  <2> DEFINE hidden == {y \in (UNION {Entries(lists[w]) : w \in Wids}) \cup Entries(enclosing) : y.hidden}
  <2>1. ASSUME NEW x \in hidden PROVE x.id \in Ids
    <3>1. CASE x \in UNION {Entries(lists[w]) : w \in Wids}
      <4>1. \A y : y \in UNION {Entries(lists[w]) : w \in Wids} <=>
                     \E w \in Wids : \E i \in 1 .. Len(lists[w]) : lists[w][i] = y
        BY EntryFacts
      <4>2. \E w \in Wids : \E i \in 1 .. Len(lists[w]) : lists[w][i] = x BY <3>1, <4>1
      <4> QED BY <4>2, IdsFacts
    <3>2. CASE x \in Entries(enclosing)
      <4>1. \E k \in 1 .. Len(enclosing) : enclosing[k] = x BY <3>2 DEF Entries
      <4> QED BY <4>1, IdsFacts
    <3> QED BY <3>1, <3>2
  <2>2. Undoable = DOMAIN marks \cup {x.id : x \in hidden} BY DEF Undoable
  <2> HIDE DEF hidden
  <2> QED BY <2>1, <2>2 DEF MarksTyped
<1>3. before' = [a \in Undoable' |->
        IF a \in Undoable THEN before[a] ELSE [ids |-> Shape, here |-> here, current |-> current]]
  BY DEF Noted
<1> HIDE DEF Undoable
<1> QED BY <1>1, <1>2, <1>3

\* A hidden word in a list can be undone.
LEMMA HiddenFacts ==
  /\ \A w \in Wids : \A i \in 1 .. Len(lists[w]) :
       lists[w][i].hidden => lists[w][i].id \in Undoable
  /\ \A w \in Wids : \A i \in 1 .. Len(lists'[w]) :
       lists'[w][i].hidden => lists'[w][i].id \in Undoable'
<1>1. ASSUME NEW ls, NEW en, NEW w \in Wids, NEW i \in 1 .. Len(ls[w]), ls[w][i].hidden
      PROVE  ls[w][i].id \in
               {x.id : x \in {y \in (UNION {Entries(ls[v]) : v \in Wids}) \cup Entries(en) : y.hidden}}
  <2>1. ls[w][i] \in UNION {Entries(ls[v]) : v \in Wids} BY EntryFacts
  <2> QED BY <1>1, <2>1
<1>2. ASSUME NEW w \in Wids, NEW i \in 1 .. Len(lists[w]), lists[w][i].hidden
      PROVE  lists[w][i].id \in Undoable
  <2>1. lists[w][i].id \in
          {x.id : x \in {y \in (UNION {Entries(lists[v]) : v \in Wids}) \cup Entries(enclosing) : y.hidden}}
    BY <1>1, <1>2
  <2> QED BY <2>1 DEF Undoable
<1>3. ASSUME NEW w \in Wids, NEW i \in 1 .. Len(lists'[w]), lists'[w][i].hidden
      PROVE  lists'[w][i].id \in Undoable'
  <2>1. lists'[w][i].id \in
          {x.id : x \in {y \in (UNION {Entries(lists'[v]) : v \in Wids}) \cup Entries(enclosing') : y.hidden}}
    BY <1>1, <1>3
  <2>2. Undoable' = DOMAIN marks' \cup
          {x.id : x \in {y \in (UNION {Entries(lists'[v]) : v \in Wids}) \cup Entries(enclosing') : y.hidden}}
    BY DEF Undoable, Entries, Wids
  <2> QED BY <2>1, <2>2
<1> QED BY <1>2, <1>3

\* Lists that only lost words hold each word once.
LEMMA ShrunkDistinct ==
  ASSUME Data, Data', Distinct,
         \A w \in Wids : /\ Len(lists'[w]) <= Len(lists[w])
                         /\ \A i \in 1 .. Len(lists'[w]) : lists'[w][i].id = lists[w][i].id,
         Len(enclosing') = 0 \/ enclosing' = enclosing
  PROVE  Distinct'
<1>1. \A w \in Wids : Len(lists[w]) \in Nat /\ Len(lists'[w]) \in Nat
  BY EmptyFacts DEF Data, Wids
<1>2. \A w \in Wids : \A i \in 1 .. Len(lists'[w]) :
        i \in 1 .. Len(lists[w]) /\ lists'[w][i].id = lists[w][i].id
  BY <1>1
<1>3. CASE Len(enclosing') = 0 BY <1>2, <1>3 DEF Distinct, Wids
<1>4. CASE enclosing' = enclosing BY <1>2, <1>4 DEF Distinct, Wids
<1> QED BY <1>3, <1>4

\* No word is in two places after a step.
LEMMA DistinctStep ==
  ASSUME Data, Data', Distinct, Effects
  PROVE  Distinct'
<1> DEFINE n == Len(lists[current])
           m == Len(enclosing)
<1>1. n \in Nat /\ m \in Nat /\ current \in Wids /\ \A w \in Wids : Len(lists[w]) \in Nat
  BY CurrentFacts, EmptyFacts DEF Data
<1>2. CASE Stays
  <2>1. \A w \in Wids : Len(lists'[w]) <= Len(lists[w]) BY <1>1, <1>2 DEF Stays
  <2> QED BY <1>2, <2>1, ShrunkDistinct DEF Stays
<1>3. CASE Shows
  <2>1. open /\ n # 0 BY <1>3 DEF Shows, Data, Opened
  <2>2. lists'[current][n].id = lists[current][n].id
    <3>1. lists[current][n] \in Word BY <1>1, <2>1, CurrentFacts
    <3>2. lists'[current][n] = [lists[current][n] EXCEPT !.hidden = FALSE] BY <1>3 DEF Shows
    <3> QED BY <3>1, <3>2 DEF Word
  <2>3. /\ Len(lists'[current]) = n
        /\ \A i \in 1 .. n : lists'[current][i].id = lists[current][i].id
    <3>1. \A i \in 1 .. n : i \in 1 .. n - 1 \/ i = n BY <1>1
    <3>2. Len(lists'[current]) = n /\ \A i \in 1 .. n - 1 : lists'[current][i] = lists[current][i]
      BY <1>3 DEF Shows, Keeping
    <3> QED BY <2>2, <3>1, <3>2
  <2>4. \A w \in Wids : /\ Len(lists'[w]) <= Len(lists[w])
                        /\ \A i \in 1 .. Len(lists'[w]) : lists'[w][i].id = lists[w][i].id
    <3>1. \A w \in Wids \ {current} : lists'[w] = lists[w] BY <1>3 DEF Shows, Keeping, Elsewhere
    <3> QED BY <1>1, <2>3, <3>1
  <2> QED BY <1>3, <2>4, ShrunkDistinct DEF Shows
<1>4. CASE Pops
  <2>1. \A w \in Wids : /\ Len(lists'[w]) <= Len(lists[w])
                        /\ \A i \in 1 .. Len(lists'[w]) : lists'[w][i].id = lists[w][i].id
    BY <1>1, <1>4 DEF Pops, Keeping, Elsewhere
  <2> QED BY <1>4, <2>1, ShrunkDistinct DEF Pops
<1>5. ASSUME NEW a \in DOMAIN marks, Cuts(a) PROVE Distinct'
  BY <1>5, ShrunkDistinct DEF Cuts
<1>6. ASSUME NEW a \in Addresses \ Ids
      PROVE  /\ \A w \in Wids : \A i \in 1 .. Len(lists[w]) : lists[w][i].id # a
             /\ \A k \in 1 .. m : enclosing[k].id # a
  BY <1>6, IdsFacts
<1>7. ASSUME NEW a \in Addresses \ Ids, Adds(a) PROVE Distinct'
  <2>1. /\ \A w \in Wids \ {current} : lists'[w] = lists[w]
        /\ Len(lists'[current]) = n + 1
        /\ \A i \in 1 .. n : lists'[current][i] = lists[current][i]
        /\ lists'[current][n + 1].id = a
        /\ Len(enclosing') = 0
    BY <1>7 DEF Adds, Keeping, Elsewhere
  <2>2. \A w \in Wids : \A i \in 1 .. Len(lists'[w]) :
          \/ i \in 1 .. Len(lists[w]) /\ lists'[w][i].id = lists[w][i].id
          \/ w = current /\ i = n + 1 /\ lists'[w][i].id = a
    BY <1>1, <2>1
  <2>3. ASSUME NEW w \in Wids, NEW v \in Wids,
               NEW i \in 1 .. Len(lists'[w]), NEW j \in 1 .. Len(lists'[v]),
               lists'[w][i].id = lists'[v][j].id
        PROVE  w = v /\ i = j
    <3>1. CASE i \in 1 .. Len(lists[w]) /\ lists'[w][i].id = lists[w][i].id
      <4>1. lists[w][i].id # a BY <1>6, <3>1
      <4>2. j \in 1 .. Len(lists[v]) /\ lists[v][j].id = lists[w][i].id BY <2>2, <2>3, <3>1, <4>1
      <4> QED BY <3>1, <4>2 DEF Distinct
    <3>2. CASE w = current /\ i = n + 1 /\ lists'[w][i].id = a
      <4>1. ~(j \in 1 .. Len(lists[v]) /\ lists'[v][j].id = lists[v][j].id)
        BY <1>6, <2>3, <3>2
      <4> QED BY <2>2, <3>2, <4>1
    <3> QED BY <2>2, <3>1, <3>2
  <2>4. \A k \in 1 .. Len(enclosing') : FALSE BY <2>1
  <2> QED BY <2>3, <2>4 DEF Distinct, Wids
<1>8. ASSUME NEW a \in Addresses \ Ids, Opens(a) PROVE Distinct'
  <2>1. /\ open /\ \A w \in Wids \ {current} : lists'[w] = lists[w]
        /\ Len(lists'[current]) = n
        /\ \A i \in 1 .. n - 1 : lists'[current][i] = lists[current][i]
        /\ lists'[current][n].id = a
        /\ Len(enclosing') = m + 1
        /\ \A k \in 1 .. m : enclosing'[k] = enclosing[k]
        /\ enclosing'[m + 1] = lists[current][n]
    BY <1>8 DEF Opens, Keeping, Elsewhere
  <2>2. n # 0 BY <2>1 DEF Data, Opened
  <2>3. \A w \in Wids : \A i \in 1 .. Len(lists'[w]) :
          \/ /\ i \in 1 .. Len(lists[w]) /\ lists'[w][i].id = lists[w][i].id
             /\ ~(w = current /\ i = n)
          \/ w = current /\ i = n /\ lists'[w][i].id = a
    BY <1>1, <2>1
  <2>4. \A k \in 1 .. Len(enclosing') :
          \/ k \in 1 .. m /\ enclosing'[k].id = enclosing[k].id
          \/ k = m + 1 /\ enclosing'[k].id = lists[current][n].id
    BY <1>1, <2>1
  <2>5. n \in 1 .. Len(lists[current]) BY <1>1, <2>2
  <2>6. \A w, v \in Wids : \A i \in 1 .. Len(lists'[w]), j \in 1 .. Len(lists'[v]) :
          lists'[w][i].id = lists'[v][j].id => w = v /\ i = j
    <3>1. ASSUME NEW w \in Wids, NEW v \in Wids,
                 NEW i \in 1 .. Len(lists'[w]), NEW j \in 1 .. Len(lists'[v]),
                 lists'[w][i].id = lists'[v][j].id
          PROVE  w = v /\ i = j
      <4>1. CASE i \in 1 .. Len(lists[w]) /\ lists'[w][i].id = lists[w][i].id
        <5>1. lists[w][i].id # a BY <1>6, <4>1
        <5>2. j \in 1 .. Len(lists[v]) /\ lists[v][j].id = lists[w][i].id
          BY <2>3, <3>1, <4>1, <5>1
        <5> QED BY <4>1, <5>2 DEF Distinct
      <4>2. CASE w = current /\ i = n /\ lists'[w][i].id = a
        <5>1. ~(j \in 1 .. Len(lists[v]) /\ lists'[v][j].id = lists[v][j].id)
          BY <1>6, <3>1, <4>2
        <5> QED BY <2>3, <4>2, <5>1
      <4> QED BY <2>3, <4>1, <4>2
    <3> QED BY <3>1
  <2>7. \A w \in Wids : \A i \in 1 .. Len(lists'[w]), k \in 1 .. Len(enclosing') :
          lists'[w][i].id # enclosing'[k].id
    <3>1. ASSUME NEW w \in Wids, NEW i \in 1 .. Len(lists'[w]), NEW k \in 1 .. Len(enclosing')
          PROVE  lists'[w][i].id # enclosing'[k].id
      <4>1. CASE w = current /\ i = n /\ lists'[w][i].id = a BY <1>1, <1>6, <2>4, <2>5, <4>1
      <4>2. CASE /\ i \in 1 .. Len(lists[w]) /\ lists'[w][i].id = lists[w][i].id
                 /\ ~(w = current /\ i = n)
        BY <1>1, <2>4, <2>5, <4>2 DEF Distinct
      <4> QED BY <2>3, <4>1, <4>2
    <3> QED BY <3>1
  <2>8. \A k, l \in 1 .. Len(enclosing') : enclosing'[k].id = enclosing'[l].id => k = l
    <3>1. ASSUME NEW k \in 1 .. Len(enclosing'), NEW l \in 1 .. Len(enclosing'),
                 enclosing'[k].id = enclosing'[l].id
          PROVE  k = l
      <4>1. CASE k \in 1 .. m /\ enclosing'[k].id = enclosing[k].id
        <5>1. lists[current][n].id # enclosing[k].id BY <1>1, <2>5, <4>1 DEF Distinct
        <5>2. l \in 1 .. m /\ enclosing'[l].id = enclosing[l].id BY <2>4, <3>1, <4>1, <5>1
        <5> QED BY <3>1, <4>1, <5>2 DEF Distinct
      <4>2. CASE k = m + 1 /\ enclosing'[k].id = lists[current][n].id
        <5>1. ~(l \in 1 .. m /\ enclosing'[l].id = enclosing[l].id)
          BY <1>1, <2>5, <3>1, <4>2 DEF Distinct
        <5> QED BY <2>4, <4>2, <5>1
      <4> QED BY <2>4, <4>1, <4>2
    <3> QED BY <3>1
  <2> QED BY <2>6, <2>7, <2>8 DEF Distinct, Wids
<1>9. CASE Closes
  <2>1. /\ open /\ m # 0 /\ \A w \in Wids \ {current} : lists'[w] = lists[w]
        /\ Len(lists'[current]) = n + 1
        /\ \A i \in 1 .. n - 1 : lists'[current][i] = lists[current][i]
        /\ lists'[current][n] = [lists[current][n] EXCEPT !.hidden = FALSE]
        /\ lists'[current][n + 1] = enclosing[m]
        /\ Len(enclosing') = m - 1
        /\ \A k \in 1 .. Len(enclosing') : enclosing'[k] = enclosing[k]
    BY <1>9 DEF Closes, Keeping, Elsewhere
  <2>2. n # 0 BY <2>1 DEF Data, Opened
  <2>3. lists'[current][n].id = lists[current][n].id
    <3>1. lists[current][n] \in Word BY <1>1, <2>2, CurrentFacts
    <3> QED BY <2>1, <3>1 DEF Word
  <2>4. \A w \in Wids : \A i \in 1 .. Len(lists'[w]) :
          \/ i \in 1 .. Len(lists[w]) /\ lists'[w][i].id = lists[w][i].id
          \/ w = current /\ i = n + 1 /\ lists'[w][i].id = enclosing[m].id
    <3>1. \A i \in 1 .. n + 1 : i \in 1 .. n - 1 \/ i = n \/ i = n + 1 BY <1>1
    <3>2. \A i \in 1 .. n - 1 : i \in 1 .. n BY <1>1
    <3>3. n \in 1 .. n BY <1>1, <2>2
    <3> QED BY <2>1, <2>3, <3>1, <3>2, <3>3
  <2>5. \A k \in 1 .. Len(enclosing') : k \in 1 .. m /\ k # m /\ enclosing'[k].id = enclosing[k].id
    BY <1>1, <2>1
  <2>6. m \in 1 .. m BY <1>1, <2>1
  <2>7. \A w, v \in Wids : \A i \in 1 .. Len(lists'[w]), j \in 1 .. Len(lists'[v]) :
          lists'[w][i].id = lists'[v][j].id => w = v /\ i = j
    <3>1. ASSUME NEW w \in Wids, NEW v \in Wids,
                 NEW i \in 1 .. Len(lists'[w]), NEW j \in 1 .. Len(lists'[v]),
                 lists'[w][i].id = lists'[v][j].id
          PROVE  w = v /\ i = j
      <4>1. CASE i \in 1 .. Len(lists[w]) /\ lists'[w][i].id = lists[w][i].id
        <5>1. lists[w][i].id # enclosing[m].id BY <2>6, <4>1 DEF Distinct
        <5>2. j \in 1 .. Len(lists[v]) /\ lists[v][j].id = lists[w][i].id
          BY <2>4, <3>1, <4>1, <5>1
        <5> QED BY <4>1, <5>2 DEF Distinct
      <4>2. CASE w = current /\ i = n + 1 /\ lists'[w][i].id = enclosing[m].id
        <5>1. ~(j \in 1 .. Len(lists[v]) /\ lists'[v][j].id = lists[v][j].id)
          BY <2>6, <3>1, <4>2 DEF Distinct
        <5> QED BY <2>4, <4>2, <5>1
      <4> QED BY <2>4, <4>1, <4>2
    <3> QED BY <3>1
  <2>8. \A w \in Wids : \A i \in 1 .. Len(lists'[w]), k \in 1 .. Len(enclosing') :
          lists'[w][i].id # enclosing'[k].id
    BY <2>4, <2>5, <2>6 DEF Distinct
  <2>9. \A k, l \in 1 .. Len(enclosing') : enclosing'[k].id = enclosing'[l].id => k = l
    BY <2>5 DEF Distinct
  <2> QED BY <2>7, <2>8, <2>9 DEF Distinct, Wids
<1> QED BY <1>2, <1>3, <1>4, <1>5, <1>7, <1>8, <1>9 DEF Effects

\* The hidden word is the one being compiled after a step, too.
LEMMA HiddenStep ==
  ASSUME Data, Data', HiddenIsOpen, Compiled, uses' = uses, Effects
  PROVE  HiddenIsOpen' /\ Compiled'
<1> DEFINE n == Len(lists[current])
           m == Len(enclosing)
<1>1. n \in Nat /\ m \in Nat /\ current \in Wids /\ open \in BOOLEAN /\ open' \in BOOLEAN
      /\ (\A w \in Wids : Len(lists[w]) \in Nat) /\ (open => n # 0)
  BY CurrentFacts, EmptyFacts DEF Data, Opened
<1>2. CASE Stays
  <2>1. \A w \in Wids : \A i \in 1 .. Len(lists[w]) :
          lists[w][i].hidden <=> (w = current' /\ i = Len(lists[w]) /\ open)
    <3>1. CASE open
      <4>1. current' = current BY <1>2, <3>1 DEF Stays
      <4> QED BY <4>1 DEF HiddenIsOpen
    <3>2. CASE ~open BY <3>2 DEF HiddenIsOpen
    <3> QED BY <3>1, <3>2
  <2> QED BY <1>2, <2>1 DEF HiddenIsOpen, Compiled, Stays, Wids
<1>3. \A w \in Wids \ {current} : \A i \in 1 .. Len(lists[w]) : ~lists[w][i].hidden
  BY DEF HiddenIsOpen
<1>4. \A i \in 1 .. n - 1 : ~lists[current][i].hidden BY <1>1 DEF HiddenIsOpen
<1>5. ~open => \A i \in 1 .. n : ~lists[current][i].hidden BY <1>1 DEF HiddenIsOpen
<1>6. open => lists[current][n].hidden BY <1>1 DEF HiddenIsOpen
<1>7. ASSUME NEW top \in Nat, current' = current,
             \A w \in Wids \ {current} : lists'[w] = lists[w],
             Len(lists'[current]) = top,
             \A i \in 1 .. top - 1 : ~lists'[current][i].hidden,
             top # 0 => (lists'[current][top].hidden <=> open')
      PROVE  HiddenIsOpen'
  <2>1. ASSUME NEW w \in Wids, NEW i \in 1 .. Len(lists'[w])
        PROVE  lists'[w][i].hidden <=> (w = current /\ i = Len(lists'[w]) /\ open')
    <3>1. CASE w # current BY <1>3, <1>7, <3>1
    <3>2. CASE w = current
      <4>1. i \in 1 .. top - 1 \/ i = top BY <1>7, <3>2
      <4>2. CASE i \in 1 .. top - 1
        <5>1. ~lists'[w][i].hidden /\ i # top BY <1>7, <3>2, <4>2
        <5> QED BY <1>7, <3>2, <5>1
      <4>3. CASE i = top BY <1>7, <3>2, <4>3
      <4> QED BY <4>1, <4>2, <4>3
    <3> QED BY <3>1, <3>2
  <2> QED BY <1>7, <2>1 DEF HiddenIsOpen, Wids
<1>8. ASSUME Len(enclosing') = 0 PROVE Compiled' BY <1>8 DEF Compiled
<1>9. CASE Shows
  <2>1. /\ ~open' /\ open /\ Len(enclosing') = 0 /\ Len(lists'[current]) = n /\ current' = current
        /\ (\A w \in Wids \ {current} : lists'[w] = lists[w])
        /\ (\A i \in 1 .. n - 1 : lists'[current][i] = lists[current][i])
        /\ lists'[current][n] = [lists[current][n] EXCEPT !.hidden = FALSE]
    BY <1>9 DEF Shows, Keeping, Elsewhere
  <2>2. ~lists'[current][n].hidden
    <3>1. lists[current][n] \in Word BY <1>1, <2>1, CurrentFacts
    <3> QED BY <2>1, <3>1 DEF Word
  <2> HIDE DEF n
  <2>3. HiddenIsOpen' BY <1>1, <1>4, <1>7, <2>1, <2>2
  <2> QED BY <1>8, <2>1, <2>3
<1>10. CASE Pops
  <2>1. /\ ~open' /\ open /\ Len(enclosing') = 0 /\ Len(lists'[current]) = n - 1
        /\ current' = current
        /\ (\A w \in Wids \ {current} : lists'[w] = lists[w])
        /\ (\A i \in 1 .. n - 1 : lists'[current][i] = lists[current][i])
    BY <1>10 DEF Pops, Keeping, Elsewhere
  <2> DEFINE top == n - 1
  <2>2. top \in Nat /\ top - 1 \in Int /\ (\A i \in 1 .. top : ~lists'[current][i].hidden)
        /\ (\A i \in 1 .. top - 1 : i \in 1 .. top) /\ (top # 0 => top \in 1 .. top)
    <3>1. top \in Nat BY <1>1, <2>1
    <3>2. \A i \in 1 .. top : ~lists'[current][i].hidden BY <1>4, <2>1
    <3> HIDE DEF top
    <3> QED BY <3>1, <3>2
  <2>3. Len(lists'[current]) = top BY <2>1
  <2> HIDE DEF n, top
  <2>4. HiddenIsOpen' BY <1>1, <1>7, <2>1, <2>2, <2>3
  <2> QED BY <1>8, <2>1, <2>4
<1>11. ASSUME NEW a \in Addresses \ Ids, Adds(a) PROVE HiddenIsOpen' /\ Compiled'
  <2>1. /\ ~open /\ Len(enclosing') = 0 /\ Len(lists'[current]) = n + 1
        /\ current' = current
        /\ (\A w \in Wids \ {current} : lists'[w] = lists[w])
        /\ (\A i \in 1 .. n : lists'[current][i] = lists[current][i])
        /\ lists'[current][n + 1].hidden = open'
    BY <1>11 DEF Adds, Keeping, Elsewhere
  <2> DEFINE top == n + 1
  <2>2. top \in Nat /\ \A i \in 1 .. top - 1 : ~lists'[current][i].hidden
    BY <1>1, <1>5, <2>1
  <2>3. Len(lists'[current]) = top /\ lists'[current][top].hidden = open' BY <2>1
  <2> HIDE DEF n, top
  <2>4. HiddenIsOpen' BY <1>7, <2>1, <2>2, <2>3
  <2> QED BY <1>8, <2>1, <2>4
<1>12. ASSUME NEW a \in Addresses \ Ids, Opens(a) PROVE HiddenIsOpen' /\ Compiled'
  <2>1. /\ "quotation" \in uses /\ open /\ open' /\ Len(lists'[current]) = n /\ current' = current
        /\ (\A w \in Wids \ {current} : lists'[w] = lists[w])
        /\ (\A i \in 1 .. n - 1 : lists'[current][i] = lists[current][i])
        /\ lists'[current][n].hidden
        /\ Len(enclosing') = m + 1
        /\ (\A k \in 1 .. m : enclosing'[k] = enclosing[k])
        /\ enclosing'[m + 1] = lists[current][n]
    BY <1>12 DEF Opens, Keeping, Elsewhere
  <2>2. Compiled'
    <3>1. \A k \in 1 .. m : enclosing[k].hidden BY DEF Compiled
    <3>2. \A k \in 1 .. Len(enclosing') : k \in 1 .. m \/ k = m + 1 BY <1>1, <2>1
    <3>3. \A k \in 1 .. Len(enclosing') : enclosing'[k].hidden BY <1>6, <2>1, <3>1, <3>2
    <3> QED BY <2>1, <3>3 DEF Compiled
  <2> HIDE DEF n
  <2>3. HiddenIsOpen' BY <1>1, <1>4, <1>7, <2>1
  <2> QED BY <2>2, <2>3
<1>13. CASE Closes
  <2>1. /\ open /\ open' /\ m # 0 /\ Len(lists'[current]) = n + 1 /\ current' = current
        /\ (\A w \in Wids \ {current} : lists'[w] = lists[w])
        /\ (\A i \in 1 .. n - 1 : lists'[current][i] = lists[current][i])
        /\ lists'[current][n] = [lists[current][n] EXCEPT !.hidden = FALSE]
        /\ lists'[current][n + 1] = enclosing[m]
        /\ Len(enclosing') = m - 1
        /\ (\A k \in 1 .. Len(enclosing') : enclosing'[k] = enclosing[k])
    BY <1>13 DEF Closes, Keeping, Elsewhere
  <2>2. ~lists'[current][n].hidden
    <3>1. lists[current][n] \in Word BY <1>1, <2>1, CurrentFacts
    <3> QED BY <2>1, <3>1 DEF Word
  <2>3. Compiled' /\ enclosing[m].hidden
    <3>1. "quotation" \in uses /\ (\A k \in 1 .. m : enclosing[k].hidden) BY <2>1 DEF Compiled
    <3>2. m \in 1 .. m /\ \A k \in 1 .. Len(enclosing') : k \in 1 .. m BY <1>1, <2>1
    <3> QED BY <2>1, <3>1, <3>2 DEF Compiled
  <2> DEFINE top == n + 1
  <2>4. top \in Nat /\ \A i \in 1 .. top - 1 : ~lists'[current][i].hidden
    <3>1. top \in Nat /\ \A i \in 1 .. top - 1 : i \in 1 .. n - 1 \/ i = n BY <1>1
    <3> QED BY <1>4, <2>1, <2>2, <3>1
  <2>5. Len(lists'[current]) = top /\ lists'[current][top].hidden BY <2>1, <2>3
  <2> HIDE DEF n, top
  <2>6. HiddenIsOpen' BY <1>7, <2>1, <2>4, <2>5
  <2> QED BY <2>3, <2>6
<1>14. ASSUME NEW a \in DOMAIN marks, Cuts(a) PROVE HiddenIsOpen' /\ Compiled'
  <2>1. ~open /\ open' = open /\ enclosing' = enclosing
        /\ \A w \in Wids : /\ Len(lists'[w]) <= Len(lists[w])
                           /\ \A i \in 1 .. Len(lists'[w]) : lists'[w][i] = lists[w][i]
    BY <1>14 DEF Cuts
  <2>2. \A w \in Wids : Len(lists'[w]) \in Nat BY EmptyFacts DEF Data, Wids
  <2>3. \A w \in Wids : \A i \in 1 .. Len(lists'[w]) : i \in 1 .. Len(lists[w])
    BY <1>1, <2>1, <2>2
  <2>4. \A w \in Wids : \A i \in 1 .. Len(lists'[w]) : ~lists'[w][i].hidden
    BY <2>1, <2>3 DEF HiddenIsOpen
  <2>5. HiddenIsOpen' BY <2>1, <2>4 DEF HiddenIsOpen, Wids
  <2>6. Compiled' BY <2>1 DEF Compiled
  <2> QED BY <2>5, <2>6
<1> QED BY <1>2, <1>9, <1>10, <1>11, <1>12, <1>13, <1>14 DEF Effects

\* The words there were before the outermost definition stay where they are,
\* unless a marker is run.
Over ==
  \A w \in Wids : /\ Lower(w) <= Lower(w)'
                  /\ \A i \in 1 .. Lower(w) : lists'[w][i] = lists[w][i]

\* Every effect but a marker's is over the words before the outermost definition.
LEMMA OverStep ==
  ASSUME Data, Data', Effects
  PROVE  Over \/ \E a \in DOMAIN marks : Cuts(a) /\ Remain
<1> DEFINE n == Len(lists[current])
<1>1. n \in Nat /\ current \in Wids /\ open \in BOOLEAN /\ open' \in BOOLEAN
      /\ \A w \in Wids : Len(lists[w]) \in Nat
  BY CurrentFacts, EmptyFacts DEF Data
<1>2. \A w \in Wids : Lower(w)' = IF open' /\ w = current' THEN Len(lists'[w]) - 1 ELSE Len(lists'[w])
  BY DEF Lower
<1>3. CASE Stays
  <2>1. lists' = lists /\ open' = open /\ (open => current' = current) BY <1>3 DEF Stays
  <2>2. \A w \in Wids : Lower(w)' = Lower(w) /\ Lower(w) \in Int BY <1>1, <1>2, <2>1 DEF Lower
  <2> QED BY <2>1, <2>2 DEF Over
<1>4. ASSUME NEW low \in {n - 1, n}, Lower(current) = low, low <= Lower(current)',
             current' = current, \A w \in Wids \ {current} : lists'[w] = lists[w],
             \A i \in 1 .. low : lists'[current][i] = lists[current][i]
      PROVE  Over
  <2>1. ASSUME NEW w \in Wids \ {current}
        PROVE  Lower(w) <= Lower(w)' /\ \A i \in 1 .. Lower(w) : lists'[w][i] = lists[w][i]
    <3>1. Lower(w) = Len(lists[w]) /\ Lower(w)' = Len(lists[w]) BY <1>2, <1>4, <2>1 DEF Lower
    <3> QED BY <1>1, <1>4, <3>1
  <2>2. Lower(current) <= Lower(current)'
        /\ \A i \in 1 .. Lower(current) : lists'[current][i] = lists[current][i]
    BY <1>4
  <2>3. ASSUME NEW w \in Wids
        PROVE  Lower(w) <= Lower(w)' /\ \A i \in 1 .. Lower(w) : lists'[w][i] = lists[w][i]
    <3>1. CASE w = current
      <4>1. Lower(w)' = Lower(current)' BY <1>2, <1>4, <1>1, <3>1
      <4> QED BY <1>4, <2>2, <3>1, <4>1
    <3>2. CASE w # current BY <2>1, <3>2
    <3> QED BY <3>1, <3>2
  <2> QED BY <2>3 DEF Over
<1>5. CASE Shows
  <2>1. Lower(current) = n - 1 /\ Lower(current)' = n
    BY <1>1, <1>2, <1>5 DEF Shows, Keeping, Lower
  <2> QED BY <1>1, <1>4, <1>5, <2>1 DEF Shows, Keeping, Elsewhere
<1>6. CASE Pops
  <2>1. Lower(current) = n - 1 /\ Lower(current)' = n - 1
    BY <1>1, <1>2, <1>6 DEF Pops, Keeping, Lower
  <2> QED BY <1>1, <1>4, <1>6, <2>1 DEF Pops, Keeping, Elsewhere
<1>7. CASE Closes
  <2>1. Lower(current) = n - 1 /\ Lower(current)' = n
    BY <1>1, <1>2, <1>7 DEF Closes, Keeping, Lower
  <2> QED BY <1>1, <1>4, <1>7, <2>1 DEF Closes, Keeping, Elsewhere
<1>8. ASSUME NEW a \in Addresses \ Ids, Opens(a) PROVE Over
  <2>1. Lower(current) = n - 1 /\ Lower(current)' = n - 1
    BY <1>1, <1>2, <1>8 DEF Opens, Keeping, Lower
  <2> QED BY <1>1, <1>4, <1>8, <2>1 DEF Opens, Keeping, Elsewhere
<1>9. ASSUME NEW a \in Addresses \ Ids, Adds(a) PROVE Over
  <2>1. Lower(current) = n /\ n <= Lower(current)'
    BY <1>1, <1>2, <1>9 DEF Adds, Keeping, Lower
  <2> QED BY <1>1, <1>4, <1>9, <2>1 DEF Adds, Keeping, Elsewhere
<1> QED BY <1>3, <1>5, <1>6, <1>7, <1>8, <1>9 DEF Effects

\* The types of Marked.
LEMMA MarkedFacts ==
  ASSUME Data, Marked, NEW a \in DOMAIN marks, NEW w \in Wids
  PROVE  LET ids == before[a].ids[w]
         IN /\ ids \in Seq(Addresses \cup {Builtin}) /\ Len(ids) \in Nat
            /\ Len(ids) <= Lower(w) /\ Lower(w) <= Len(lists[w])
            /\ Lower(w) \in Int /\ Len(lists[w]) \in Nat
            /\ \A i \in 1 .. Len(ids) : ids[i] = lists[w][i].id
            /\ marks[a].heads[w] = IF Len(ids) = 0 THEN NULL ELSE ids[Len(ids)]
<1>1. before[a].ids[w] \in Seq(Addresses \cup {Builtin}) BY DEF Marked
<1>2. Len(before[a].ids[w]) \in Nat BY <1>1, EmptyFacts
<1>3. lists[w] \in Seq(Word) BY DEF Data
<1>4. Len(lists[w]) \in Nat BY <1>3, EmptyFacts
<1>5. Lower(w) <= Len(lists[w]) /\ Lower(w) \in Int BY <1>4 DEF Lower, Data
<1> QED BY <1>1, <1>2, <1>4, <1>5 DEF Marked

\* The markers that remain.
LEMMA MarkedRemain ==
  ASSUME Data, Data', MarksTyped, Marked, Nested, Over, Remain, Noted
  PROVE  Marked' /\ Nested'
<1>1. ASSUME NEW a \in DOMAIN marks'
      PROVE  a \in DOMAIN marks /\ marks'[a] = marks[a] /\ before'[a] = before[a]
  BY <1>1, NotedFacts DEF Remain
<1>2. \A w \in Wids : Lower(w)' \in Int
  <2>1. \A w \in Wids : Len(lists'[w]) \in Nat BY EmptyFacts DEF Data, Wids
  <2> QED BY <2>1 DEF Lower, Data
<1>3. ASSUME NEW a \in DOMAIN marks', NEW w \in Wids
      PROVE  LET ids == before'[a].ids[w]
             IN /\ Len(ids) <= Lower(w)'
                /\ \A i \in 1 .. Len(ids) : ids[i] = lists'[w][i].id
                /\ marks'[a].heads[w] = IF Len(ids) = 0 THEN NULL ELSE ids[Len(ids)]
  <2> DEFINE ids == before[a].ids[w]
  <2>1. /\ Len(ids) \in Nat /\ Len(ids) <= Lower(w) /\ Lower(w) \in Int
        /\ \A i \in 1 .. Len(ids) : ids[i] = lists[w][i].id
        /\ marks[a].heads[w] = IF Len(ids) = 0 THEN NULL ELSE ids[Len(ids)]
    BY <1>1, MarkedFacts
  <2>2. before'[a].ids[w] = ids /\ marks'[a].heads[w] = marks[a].heads[w] BY <1>1
  <2> HIDE DEF ids
  <2>3. Len(ids) <= Lower(w)' BY <1>2, <2>1 DEF Over
  <2>4. \A i \in 1 .. Len(ids) : ids[i] = lists'[w][i].id
    <3>1. \A i \in 1 .. Len(ids) : i \in 1 .. Lower(w) BY <2>1
    <3> QED BY <2>1, <3>1 DEF Over
  <2> QED BY <2>1, <2>2, <2>3, <2>4
<1>4. ASSUME NEW a \in DOMAIN marks'
      PROVE  /\ before'[a].here = marks'[a].here /\ before'[a].current = marks'[a].current
             /\ before'[a].ids \in [Wids -> Seq(Addresses \cup {Builtin})]
  BY <1>1 DEF Marked
<1>5. Marked' BY <1>3, <1>4 DEF Marked, Wids
<1>6. Nested' BY <1>1 DEF Nested, Wids
<1> QED BY <1>5, <1>6

\* A marker is made: it has seen all the words there are.
LEMMA MarkedMade ==
  ASSUME Data, Data', MarksTyped, Marked, Nested, Over, Noted,
         NEW a \in Addresses \ Ids, Adds(a), Makes(a)
  PROVE  Marked' /\ Nested'
<1>1. ~open /\ ~open' /\ a \notin DOMAIN marks
  BY DEF Adds, Makes, MarksTyped
<1>2. before'[a] = [ids |-> Shape, here |-> here, current |-> current]
  BY NotedFacts DEF Makes
<1>3. ASSUME NEW b \in DOMAIN marks' \ {a}
      PROVE  b \in DOMAIN marks /\ marks'[b] = marks[b] /\ before'[b] = before[b]
  BY <1>3, NotedFacts DEF Makes
<1>4. \A w \in Wids : Lower(w)' \in Int /\ Lower(w) = Len(lists[w]) /\ Len(lists[w]) \in Nat
  <2>1. \A w \in Wids : Len(lists[w]) \in Nat /\ Len(lists'[w]) \in Nat
    BY EmptyFacts DEF Data, Wids
  <2> QED BY <1>1, <2>1 DEF Lower, Data
<1>5. ASSUME NEW w \in Wids
      PROVE  /\ Shape[w] \in Seq(Addresses \cup {Builtin}) /\ Len(Shape[w]) = Len(lists[w])
             /\ \A i \in 1 .. Len(lists[w]) : Shape[w][i] = lists[w][i].id
  <2>1. \A i \in 1 .. Len(lists[w]) : lists[w][i] \in Word BY DEF Data
  <2>2. \A i \in 1 .. Len(lists[w]) : lists[w][i].id \in Addresses \cup {Builtin}
    BY <2>1 DEF Word
  <2>3. Shape[w] = [i \in 1 .. Len(lists[w]) |-> lists[w][i].id] BY DEF Shape
  <2> QED BY <1>4, <2>2, <2>3
<1>6. Shape \in [Wids -> Seq(Addresses \cup {Builtin})] BY <1>5 DEF Shape
<1>7. ASSUME NEW b \in DOMAIN marks', NEW w \in Wids
      PROVE  LET ids == before'[b].ids[w]
             IN /\ Len(ids) <= Lower(w)'
                /\ \A i \in 1 .. Len(ids) : ids[i] = lists'[w][i].id
                /\ marks'[b].heads[w] = IF Len(ids) = 0 THEN NULL ELSE ids[Len(ids)]
                /\ Len(ids) \in Nat /\ Len(ids) <= Len(lists[w])
                /\ \A i \in 1 .. Len(ids) : ids[i] = lists[w][i].id
  <2> DEFINE ids == before'[b].ids[w]
  <2>1. /\ Len(ids) \in Nat /\ Len(ids) <= Len(lists[w])
        /\ \A i \in 1 .. Len(ids) : ids[i] = lists[w][i].id
        /\ marks'[b].heads[w] = IF Len(ids) = 0 THEN NULL ELSE ids[Len(ids)]
    <3>1. CASE b # a
      <4>1. b \in DOMAIN marks BY <1>3, <3>1
      <4>2. LET q == before[b].ids[w]
            IN /\ Len(q) \in Nat /\ Len(q) <= Lower(w)
               /\ \A i \in 1 .. Len(q) : q[i] = lists[w][i].id
               /\ marks[b].heads[w] = IF Len(q) = 0 THEN NULL ELSE q[Len(q)]
        BY <4>1, MarkedFacts
      <4> QED BY <1>3, <1>4, <3>1, <4>2
    <3>2. CASE b = a
      <4>1. ids = Shape[w] BY <1>2, <3>2
      <4>2. marks'[b].heads[w] = HeadId(lists[w]) BY <3>2 DEF Makes, Snapshot
      <4>3. lists[w] = <<>> <=> Len(lists[w]) = 0 BY EmptyFacts DEF Data
      <4>4. HeadId(lists[w]) = IF Len(lists[w]) = 0 THEN NULL ELSE lists[w][Len(lists[w])].id
        BY <4>3 DEF HeadId, HeadOf
      <4> HIDE DEF ids
      <4>5. Len(ids) # 0 => ids[Len(ids)] = lists[w][Len(lists[w])].id
        BY <1>4, <1>5, <4>1
      <4> QED BY <1>4, <1>5, <4>1, <4>2, <4>4, <4>5
    <3> QED BY <3>1, <3>2
  <2> HIDE DEF ids
  <2>2. Len(ids) <= Lower(w)' BY <1>4, <2>1 DEF Over
  <2>3. \A i \in 1 .. Len(ids) : ids[i] = lists'[w][i].id
    <3>1. \A i \in 1 .. Len(ids) : i \in 1 .. Lower(w) BY <1>4, <2>1
    <3> QED BY <2>1, <3>1 DEF Over
  <2> QED BY <2>1, <2>2, <2>3 DEF ids
<1>8. ASSUME NEW b \in DOMAIN marks'
      PROVE  /\ before'[b].here = marks'[b].here /\ before'[b].current = marks'[b].current
             /\ before'[b].ids \in [Wids -> Seq(Addresses \cup {Builtin})]
  <2>1. CASE b # a BY <1>3, <2>1 DEF Marked
  <2>2. CASE b = a BY <1>2, <1>6, <2>2 DEF Makes, Snapshot
  <2> QED BY <2>1, <2>2
<1>9. Marked' BY <1>7, <1>8 DEF Marked, Wids
<1>10. ASSUME NEW b \in DOMAIN marks', NEW c \in DOMAIN marks', NEW v \in Wids,
              NEW i \in 1 .. Len(before'[b].ids[v]), before'[b].ids[v][i] = c, NEW w \in Wids
       PROVE  Len(before'[c].ids[w]) <= Len(before'[b].ids[w])
  <2>1. c # a
    <3> DEFINE ids == before'[b].ids[v]
    <3>1. i \in 1 .. Len(lists[v]) /\ lists[v][i].id = c
      <4>1. /\ Len(ids) \in Nat /\ Len(ids) <= Len(lists[v]) /\ Len(lists[v]) \in Nat
            /\ \A j \in 1 .. Len(ids) : ids[j] = lists[v][j].id
        BY <1>4, <1>7
      <4>2. i \in 1 .. Len(ids) /\ ids[i] = c BY <1>10
      <4> HIDE DEF ids
      <4> QED BY <4>1, <4>2
    <3> QED BY <3>1, IdsFacts
  <2>2. CASE b = a
    <3>1. Len(before'[b].ids[w]) = Len(lists[w]) BY <1>2, <1>5, <2>2
    <3> QED BY <1>7, <3>1
  <2>3. CASE b # a
    <3>1. b \in DOMAIN marks /\ c \in DOMAIN marks
          /\ before'[b] = before[b] /\ before'[c] = before[c]
      BY <1>3, <2>1, <2>3
    <3>2. i \in 1 .. Len(before[b].ids[v]) /\ before[b].ids[v][i] = c BY <1>10, <3>1
    <3>3. Len(before[c].ids[w]) <= Len(before[b].ids[w]) BY <3>1, <3>2 DEF Nested
    <3> QED BY <3>1, <3>3
  <2> QED BY <2>2, <2>3
<1>11. Nested' BY <1>10 DEF Nested, Wids
<1> QED BY <1>9, <1>11

\* A marker is run: the markers left are older, and saw no more words than it.
LEMMA MarkedCut ==
  ASSUME Data, Data', MarksTyped, Marked, Nested, Noted,
         NEW a \in DOMAIN marks, Cuts(a), Remain
  PROVE  Marked' /\ Nested'
<1>1. ~open /\ ~open'
      /\ \A w \in Wids :
           /\ Len(lists'[w]) = Len(before[a].ids[w]) /\ Len(lists'[w]) <= Len(lists[w])
           /\ \A i \in 1 .. Len(lists'[w]) : lists'[w][i] = lists[w][i]
  BY DEF Cuts
<1>2. ASSUME NEW b \in DOMAIN marks'
      PROVE  b \in DOMAIN marks /\ marks'[b] = marks[b] /\ before'[b] = before[b]
  BY <1>2, NotedFacts DEF Remain
<1>3. \A w \in Wids : Lower(w)' = Len(lists'[w]) BY <1>1 DEF Lower
<1>4. ASSUME NEW b \in DOMAIN marks', NEW w \in Wids
      PROVE  Len(before[b].ids[w]) <= Len(before[a].ids[w])
  <2>1. PICK v \in Wids : \E i \in 1 .. Len(lists'[v]) : lists'[v][i].id = b BY DEF Cuts
  <2>2. PICK i \in 1 .. Len(lists'[v]) : lists'[v][i].id = b BY <2>1
  <2>3. i \in 1 .. Len(before[a].ids[v]) /\ lists[v][i].id = b BY <1>1, <2>2
  <2>4. before[a].ids[v][i] = b BY <2>3 DEF Marked
  <2> QED BY <1>2, <2>3, <2>4 DEF Nested
<1>5. ASSUME NEW b \in DOMAIN marks', NEW w \in Wids
      PROVE  LET ids == before'[b].ids[w]
             IN /\ Len(ids) <= Lower(w)'
                /\ \A i \in 1 .. Len(ids) : ids[i] = lists'[w][i].id
                /\ marks'[b].heads[w] = IF Len(ids) = 0 THEN NULL ELSE ids[Len(ids)]
  <2> DEFINE ids == before[b].ids[w]
  <2>1. /\ Len(ids) \in Nat
        /\ \A i \in 1 .. Len(ids) : ids[i] = lists[w][i].id
        /\ marks[b].heads[w] = IF Len(ids) = 0 THEN NULL ELSE ids[Len(ids)]
    BY <1>2, MarkedFacts
  <2>2. Len(lists'[w]) \in Nat BY EmptyFacts DEF Data, Wids
  <2>3. Len(ids) <= Len(lists'[w]) BY <1>1, <1>4
  <2>4. before'[b].ids[w] = ids /\ marks'[b].heads[w] = marks[b].heads[w] BY <1>2
  <2> HIDE DEF ids
  <2>5. \A i \in 1 .. Len(ids) : ids[i] = lists'[w][i].id
    <3>1. \A i \in 1 .. Len(ids) : i \in 1 .. Len(lists'[w]) BY <2>1, <2>2, <2>3
    <3> QED BY <1>1, <2>1, <3>1
  <2> QED BY <1>3, <2>1, <2>3, <2>4, <2>5
<1>6. ASSUME NEW b \in DOMAIN marks'
      PROVE  /\ before'[b].here = marks'[b].here /\ before'[b].current = marks'[b].current
             /\ before'[b].ids \in [Wids -> Seq(Addresses \cup {Builtin})]
  BY <1>2 DEF Marked
<1>7. Marked' BY <1>5, <1>6, SMTT(30) DEF Marked, Wids
<1>8. Nested' BY <1>2 DEF Nested, Wids
<1> QED BY <1>7, <1>8

\* What is noted of a definition.
LEMMA BegunStep ==
  ASSUME Data, Data', MarksTyped, HiddenIsOpen, HiddenIsOpen', Compiled, Begun,
         uses' = uses, Effects, Noted
  PROVE  Begun'
<1> SUFFICES ASSUME "quotation" \notin uses, open' PROVE Begun'
  BY DEF Begun
<1> DEFINE n == Len(lists[current])
           top == Len(lists'[current'])
<1>1. n \in Nat /\ top \in Nat /\ current \in Wids /\ current' \in Wids
      /\ \A w \in Wids : Len(lists[w]) \in Nat /\ Len(lists'[w]) \in Nat
  BY EmptyFacts DEF Data, Wids
<1>2. top # 0 /\ lists'[current'][top].hidden
  BY <1>1 DEF Data, Opened, HiddenIsOpen, Wids
<1>3. lists'[current'][top].id \in Undoable'
  BY <1>1, <1>2, HiddenFacts
<1>4. Begun' <=>
        before'[lists'[current'][top].id] =
          [ids |-> [w \in Wids |-> [i \in 1 .. Lower(w)' |-> lists'[w][i].id]],
           here |-> lists'[current'][top].data, current |-> current']
  BY DEF Begun, Wids
<1>5. CASE Stays
  <2>1. open /\ lists' = lists /\ current' = current BY <1>5 DEF Stays
  <2>2. top = n /\ lists[current][n].id \in Undoable
    BY <1>1, <1>2, <2>1, HiddenFacts
  <2>3. before'[lists[current][n].id] = before[lists[current][n].id]
    BY <1>3, <2>1, <2>2, NotedFacts
  <2>4. \A w \in Wids : Lower(w)' = Lower(w) BY <2>1 DEF Lower
  <2>5. before[lists[current][n].id] =
          [ids |-> [w \in Wids |-> [i \in 1 .. Lower(w) |-> lists[w][i].id]],
           here |-> lists[current][n].data, current |-> current]
    BY <2>1 DEF Begun
  <2> HIDE DEF n, top
  <2> QED BY <1>4, <2>1, <2>2, <2>3, <2>4, <2>5
<1>6. ASSUME NEW a \in Addresses \ Ids, Adds(a) PROVE Begun'
  <2>1. /\ current' = current /\ ~open /\ top = n + 1
        /\ (\A w \in Wids \ {current} : lists'[w] = lists[w])
        /\ (\A i \in 1 .. n : lists'[current][i] = lists[current][i])
        /\ lists'[current][n + 1] = [id |-> a, data |-> here, hidden |-> open']
    BY <1>6 DEF Adds, Keeping, Elsewhere
  <2>2. before'[a] = [ids |-> Shape, here |-> here, current |-> current]
    BY <1>3, <2>1, NotedFacts
  <2>3. \A w \in Wids : Lower(w)' = Len(lists[w])
    <3>1. \A w \in Wids :
            Lower(w)' = IF open' /\ w = current' THEN Len(lists'[w]) - 1 ELSE Len(lists'[w])
      BY DEF Lower
    <3>2. Len(lists'[current]) - 1 = n BY <1>1, <2>1
    <3> QED BY <2>1, <3>1, <3>2
  <2>4. \A w \in Wids : \A i \in 1 .. Len(lists[w]) : lists'[w][i].id = lists[w][i].id
    BY <2>1
  <2>5. [w \in Wids |-> [i \in 1 .. Lower(w)' |-> lists'[w][i].id]] = Shape
    <3>1. \A w \in Wids : [i \in 1 .. Lower(w)' |-> lists'[w][i].id]
                            = [i \in 1 .. Len(lists[w]) |-> lists[w][i].id]
      BY <2>3, <2>4
    <3> QED BY <3>1 DEF Shape
  <2>6. lists'[current'][top].id = a /\ lists'[current'][top].data = here BY <2>1
  <2> HIDE DEF top
  <2> QED BY <1>4, <2>1, <2>2, <2>5, <2>6
<1>7. CASE Shows BY <1>7 DEF Shows
<1>8. CASE Pops BY <1>8 DEF Pops
<1>9. CASE Closes BY <1>9 DEF Closes, Compiled
<1>10. ASSUME NEW a \in Addresses \ Ids, Opens(a) PROVE Begun' BY <1>10 DEF Opens
<1>11. ASSUME NEW a \in DOMAIN marks, Cuts(a) PROVE Begun' BY <1>11 DEF Cuts
<1> QED BY <1>5, <1>6, <1>7, <1>8, <1>9, <1>10, <1>11 DEF Effects

\* Words stay in the order of their data where nothing is released or quoted.
LEMMA OrderedStep ==
  ASSUME Data, Data', MarksTyped, Distinct, HiddenIsOpen, Compiled, Marked, Nested, Marked',
         uses = {}, Ordered, Effects, Noted
  PROVE  Ordered'
<1> DEFINE n == Len(lists[current])
<1>1. n \in Nat /\ current \in Wids /\ open \in BOOLEAN /\ open' \in BOOLEAN /\ here \in Nat
      /\ here' \in Nat /\ (open => n # 0) /\ Len(enclosing) = 0
      /\ \A w \in Wids : Len(lists[w]) \in Nat /\ Len(lists'[w]) \in Nat
  <2>1. \A w \in Wids : Len(lists[w]) \in Nat /\ Len(lists'[w]) \in Nat
    BY EmptyFacts DEF Data, Wids
  <2> QED BY <2>1 DEF Data, Opened, Compiled
<1>2. \A w \in Wids : Lower(w)' = IF open' /\ w = current' THEN Len(lists'[w]) - 1 ELSE Len(lists'[w])
  BY DEF Lower
<1>3. \A w \in Wids : \A i \in 1 .. Len(lists[w]) : lists[w][i].data \in Nat /\ lists[w][i].data <= here
  <2>1. \A w \in Wids : \A i \in 1 .. Len(lists[w]) : lists[w][i] \in Word BY DEF Data
  <2>2. \A x \in Word : x.data \in Nat BY DEF Word
  <2> QED BY <2>1, <2>2 DEF Ordered
<1>4. ASSUME NEW a \in DOMAIN marks', NEW w \in Wids, NEW i \in 1 .. Len(before'[a].ids[w])
      PROVE  i \in 1 .. Len(lists'[w])
  <2>1. before'[a].ids[w] \in Seq(Addresses \cup {Builtin}) /\ Len(before'[a].ids[w]) <= Lower(w)'
    BY DEF Marked, Wids
  <2>2. Len(before'[a].ids[w]) \in Nat BY <2>1, EmptyFacts
  <2>3. Lower(w)' <= Len(lists'[w]) /\ Lower(w)' \in Int BY <1>1, <1>2
  <2> QED BY <1>1, <2>1, <2>2, <2>3
<1>5. ASSUME NEW a \in DOMAIN marks, NEW w \in Wids, NEW i \in 1 .. Len(before[a].ids[w])
      PROVE  /\ i \in 1 .. Len(lists[w]) /\ i \in 1 .. Lower(w)
             /\ lists[w][i].data <= marks[a].here
  <2>1. LET ids == before[a].ids[w]
        IN Len(ids) \in Nat /\ Len(ids) <= Lower(w) /\ Lower(w) <= Len(lists[w])
           /\ Lower(w) \in Int
    BY MarkedFacts
  <2> QED BY <1>1, <2>1 DEF Ordered
<1>6. ASSUME NEW a \in DOMAIN marks', NEW w \in Wids, NEW i \in 1 .. Len(before'[a].ids[w])
      PROVE  lists'[w][i].data <= marks'[a].here
  <2>1. CASE Over /\ Remain
    <3>1. a \in DOMAIN marks /\ marks'[a] = marks[a] /\ before'[a] = before[a]
      BY <1>6, <2>1, NotedFacts DEF Remain
    <3>2. i \in 1 .. Lower(w) /\ lists[w][i].data <= marks[a].here BY <1>5, <1>6, <3>1
    <3> QED BY <2>1, <3>1, <3>2 DEF Over
  <2>2. ASSUME NEW b \in DOMAIN marks, Cuts(b), Remain PROVE lists'[w][i].data <= marks'[a].here
    <3>1. a \in DOMAIN marks /\ marks'[a] = marks[a] /\ before'[a] = before[a]
      BY <1>6, <2>2, NotedFacts DEF Remain
    <3>2. lists[w][i].data <= marks[a].here BY <1>5, <1>6, <3>1
    <3>3. lists'[w][i] = lists[w][i] BY <1>4, <1>6, <2>2 DEF Cuts
    <3> QED BY <3>1, <3>2, <3>3
  <2>3. ASSUME NEW b \in Addresses \ Ids, Adds(b), Makes(b), Over
        PROVE  lists'[w][i].data <= marks'[a].here
    <3>1. CASE a = b
      <4>1. marks'[a].here = here BY <2>3, <3>1 DEF Makes, Snapshot
      <4>2. before'[a] = [ids |-> Shape, here |-> here, current |-> current]
        BY <2>3, <3>1, NotedFacts DEF Makes
      <4>3. before'[a].ids[w] = [j \in 1 .. Len(lists[w]) |-> lists[w][j].id]
        BY <4>2 DEF Shape
      <4>4. i \in 1 .. Len(lists[w])
        <5>1. Len(before'[a].ids[w]) = Len(lists[w]) BY <1>1, <4>3
        <5> QED BY <1>6, <5>1
      <4>5. Lower(w) = Len(lists[w]) BY <2>3 DEF Adds, Lower
      <4>6. lists'[w][i] = lists[w][i] BY <2>3, <4>4, <4>5 DEF Over
      <4> QED BY <1>3, <4>1, <4>4, <4>6
    <3>2. CASE a # b
      <4>1. a \in DOMAIN marks /\ marks'[a] = marks[a] /\ before'[a] = before[a]
        BY <1>6, <2>3, <3>2, NotedFacts DEF Makes
      <4>2. i \in 1 .. Lower(w) /\ lists[w][i].data <= marks[a].here BY <1>5, <1>6, <4>1
      <4> QED BY <2>3, <4>1, <4>2 DEF Over
    <3> QED BY <3>1, <3>2
  <2>4. Over \/ \E b \in DOMAIN marks : Cuts(b) /\ Remain BY OverStep
  <2> QED BY <2>1, <2>2, <2>3, <2>4 DEF Effects
<1>7. ASSUME \A w \in Wids : \A i \in 1 .. Len(lists'[w]) : lists'[w][i].data <= here',
             open' => \A w \in Wids : \A i \in 1 .. Lower(w)' :
               lists'[w][i].data <= lists'[current'][Len(lists'[current'])].data
      PROVE  Ordered'
  BY <1>6, <1>7 DEF Ordered, Wids
<1>8. CASE Stays
  <2>1. lists' = lists /\ open' = open /\ (open => current' = current) /\ here <= here'
    BY <1>8 DEF Stays
  <2>2. \A w \in Wids : \A i \in 1 .. Len(lists'[w]) : lists'[w][i].data <= here'
    BY <1>1, <1>3, <2>1
  <2>3. \A w \in Wids : Lower(w)' = Lower(w) BY <2>1 DEF Lower
  <2>4. open' => \A w \in Wids : \A i \in 1 .. Lower(w)' :
          lists'[w][i].data <= lists'[current'][Len(lists'[current'])].data
    BY <2>1, <2>3 DEF Ordered
  <2> QED BY <1>7, <2>2, <2>4
<1>9. ASSUME NEW a \in Addresses \ Ids, Adds(a) PROVE Ordered'
  <2>1. /\ ~open /\ current' = current /\ Len(lists'[current]) = n + 1 /\ here <= here'
        /\ (\A w \in Wids \ {current} : lists'[w] = lists[w])
        /\ (\A i \in 1 .. n : lists'[current][i] = lists[current][i])
        /\ lists'[current][n + 1].data = here
    BY <1>9 DEF Adds, Keeping, Elsewhere
  <2>2. \A w \in Wids : \A i \in 1 .. Len(lists'[w]) :
          \/ i \in 1 .. Len(lists[w]) /\ lists'[w][i] = lists[w][i]
          \/ w = current /\ i = n + 1
    BY <1>1, <2>1
  <2>3. \A w \in Wids : \A i \in 1 .. Len(lists'[w]) :
          lists'[w][i].data \in Nat /\ lists'[w][i].data <= here
    <3>1. ASSUME NEW w \in Wids, NEW i \in 1 .. Len(lists'[w])
          PROVE  lists'[w][i].data \in Nat /\ lists'[w][i].data <= here
      <4>1. CASE i \in 1 .. Len(lists[w]) /\ lists'[w][i] = lists[w][i] BY <1>3, <4>1
      <4>2. CASE w = current /\ i = n + 1 BY <1>1, <2>1, <4>2
      <4> QED BY <2>2, <4>1, <4>2
    <3> QED BY <3>1
  <2>4. \A w \in Wids : \A i \in 1 .. Lower(w)' : i \in 1 .. Len(lists'[w]) BY <1>1, <1>2
  <2>5. \A w \in Wids : \A i \in 1 .. Len(lists'[w]) : lists'[w][i].data <= here'
    BY <1>1, <2>1, <2>3
  <2>6. lists'[current'][Len(lists'[current'])].data = here BY <2>1
  <2> QED BY <1>7, <2>3, <2>4, <2>5, <2>6
<1>10. CASE Shows
  <2>1. /\ open /\ ~open' /\ Len(lists'[current]) = n /\ here <= here'
        /\ (\A w \in Wids \ {current} : lists'[w] = lists[w])
        /\ (\A i \in 1 .. n - 1 : lists'[current][i] = lists[current][i])
        /\ lists'[current][n] = [lists[current][n] EXCEPT !.hidden = FALSE]
    BY <1>10 DEF Shows, Keeping, Elsewhere
  <2>2. n \in 1 .. n /\ \A i \in 1 .. n : i \in 1 .. n - 1 \/ i = n BY <1>1, <2>1
  <2>3. lists'[current][n].data = lists[current][n].data
    <3>1. lists[current][n] \in Word BY <2>2, CurrentFacts
    <3> QED BY <2>1, <3>1 DEF Word
  <2>4. \A i \in 1 .. n : lists'[current][i].data = lists[current][i].data
    BY <2>1, <2>2, <2>3
  <2>5. \A w \in Wids : \A i \in 1 .. Len(lists'[w]) :
          i \in 1 .. Len(lists[w]) /\ lists'[w][i].data = lists[w][i].data
    BY <2>1, <2>4
  <2>6. \A w \in Wids : \A i \in 1 .. Len(lists'[w]) : lists'[w][i].data <= here'
    BY <1>1, <1>3, <2>1, <2>5
  <2> QED BY <1>7, <2>1, <2>6
<1>11. CASE Pops
  <2>1. /\ open /\ ~open' /\ Len(lists'[current]) = n - 1
        /\ (\A w \in Wids \ {current} : lists'[w] = lists[w])
        /\ (\A i \in 1 .. n - 1 : lists'[current][i] = lists[current][i])
        /\ here' = lists[current][n].data
    BY <1>11 DEF Pops, Keeping, Elsewhere
  <2>2. \A w \in Wids : Lower(w) = Len(lists'[w]) BY <2>1 DEF Lower
  <2>3. \A w \in Wids : \A i \in 1 .. Len(lists'[w]) : lists'[w][i] = lists[w][i]
    BY <2>1
  <2>4. \A w \in Wids : \A i \in 1 .. Len(lists'[w]) : lists'[w][i].data <= here'
    BY <2>1, <2>2, <2>3 DEF Ordered
  <2> QED BY <1>7, <2>1, <2>4
<1>12. ASSUME NEW a \in DOMAIN marks, Cuts(a) PROVE Ordered'
  <2>1. /\ ~open' /\ here' = marks[a].here
        /\ \A w \in Wids : /\ Len(lists'[w]) = Len(before[a].ids[w])
                           /\ \A i \in 1 .. Len(lists'[w]) : lists'[w][i] = lists[w][i]
    BY <1>12 DEF Cuts
  <2>2. \A w \in Wids : \A i \in 1 .. Len(lists'[w]) : lists'[w][i].data <= here'
    BY <1>5, <2>1
  <2> QED BY <1>7, <2>1, <2>2
<1>13. CASE Closes BY <1>1, <1>13 DEF Closes
<1>14. ASSUME NEW a \in Addresses \ Ids, Opens(a) PROVE Ordered' BY <1>14 DEF Opens
<1> QED BY <1>8, <1>9, <1>10, <1>11, <1>12, <1>13, <1>14 DEF Effects

-----------------------------------------------------------------------------
(* The theorems. *)

\* The type invariant, with what it needs, in the two parts the lemmas use.
LEMMA TypeParts ==
  /\ TypeOK /\ InRange /\ Opened <=>
       Data /\ MarksTyped /\ uses \in Sessions /\ DOMAIN before = Undoable
  /\ (TypeOK /\ InRange /\ Opened)' <=>
       Data' /\ MarksTyped' /\ uses' \in Sessions /\ DOMAIN before' = Undoable'
BY DEF TypeOK, InRange, Data, MarksTyped, Wids

\* A system just started has its own words and nothing else.
LEMMA InitInv == Init => IInv
<1> SUFFICES ASSUME Init PROVE IInv OBVIOUS
<1> USE BoundsAssumption
<1> DEFINE x == [id |-> Builtin, data |-> 0, hidden |-> FALSE]
<1>1. x \in Word BY DEF Word
<1>2. <<x>> \in Seq(Word) /\ Len(<<x>>) = 1 /\ <<x>>[1] = x /\ Len(<<>>) = 0 /\ <<>> \in Seq(Word)
  BY <1>1
<1>3. lists = [w \in Wids |-> IF w = 1 THEN <<x>> ELSE <<>>] BY DEF Init
<1> HIDE DEF x
<1>4. lists \in [Wids -> Seq(Word)] BY <1>2, <1>3
<1>5. \A w \in Wids : \A i \in 1 .. Len(lists[w]) : w = 1 /\ i = 1 /\ lists[w][i] = x
  BY <1>2, <1>3
<1>6. enclosing = <<>> /\ DOMAIN marks = {} /\ DOMAIN before = {} /\ open = FALSE /\ here = 0
      /\ current = 1 /\ process = "running" /\ uses \in Sessions /\ 1 \in Wids
  BY DEF Init, Wids
<1>7. Undoable = {}
  <2> DEFINE hidden == {y \in (UNION {Entries(lists[w]) : w \in Wids}) \cup Entries(enclosing) : y.hidden}
  <2>1. ASSUME NEW y \in hidden PROVE FALSE
    <3>1. y \in UNION {Entries(lists[w]) : w \in Wids} BY <1>2, <1>6 DEF Entries
    <3>2. \A z : z \in UNION {Entries(lists[w]) : w \in Wids} <=>
                   \E w \in Wids : \E i \in 1 .. Len(lists[w]) : lists[w][i] = z
      BY EntryFacts
    <3>3. y = x BY <1>5, <3>1, <3>2
    <3> QED BY <2>1, <3>3 DEF x
  <2>2. Undoable = DOMAIN marks \cup {y.id : y \in hidden} BY DEF Undoable
  <2> HIDE DEF hidden
  <2> QED BY <1>6, <2>1, <2>2
<1>8. \A w \in Wids : \A i \in 1 .. Len(lists[w]) : lists[w][i].data = 0 /\ ~lists[w][i].hidden
  BY <1>5 DEF x
<1>9. Data
  <2>1. here \in 0 .. End - 1 /\ 0 < End BY <1>6
  <2>2. \A w \in Wids : \A i \in 1 .. Len(lists[w]) : lists[w][i].data < End BY <1>8, <2>1
  <2>3. \A k \in 1 .. Len(enclosing) : enclosing[k].data < End BY <1>2, <1>6
  <2>4. Opened BY <1>2, <1>6 DEF Opened
  <2> QED BY <1>2, <1>4, <1>6, <2>1, <2>2, <2>3, <2>4 DEF Data
<1>10. TypeOK /\ InRange /\ Opened BY <1>6, <1>7, <1>9, TypeParts DEF MarksTyped
<1>11. Distinct BY <1>2, <1>5, <1>6 DEF Distinct
<1>12. HiddenIsOpen BY <1>6, <1>8 DEF HiddenIsOpen
<1>13. Compiled /\ Begun /\ Marked /\ Nested BY <1>2, <1>6 DEF Compiled, Begun, Marked, Nested
<1>14. Ordered BY <1>6, <1>8 DEF Ordered
<1> QED BY <1>10, <1>11, <1>12, <1>13, <1>14 DEF IInv, Sound

\* A step keeps it.
LEMMA NextInv == IInv /\ [Next]_vars => IInv'
<1> SUFFICES ASSUME IInv, [Next]_vars PROVE IInv' OBVIOUS
<1>1. CASE UNCHANGED vars
  <2>1. Undoable' = Undoable /\ Ids' = Ids
    BY <1>1 DEF vars, Undoable, Ids, Entries, IdsOf, Wids
  <2>2. (TypeOK /\ InRange /\ Opened)'
    BY <1>1, <2>1 DEF IInv, TypeOK, InRange, Opened, vars, Wids
  <2>3. \A w \in Wids : Lower(w)' = Lower(w) BY <1>1 DEF Lower, vars
  <2>4. (Unbroken => Distinct)' /\ (Unbroken => HiddenIsOpen)' /\ (Unbroken => Compiled)'
    BY <1>1 DEF IInv, Sound, Unbroken, Distinct, HiddenIsOpen, Compiled, vars, Wids
  <2>5. (Unbroken => Begun)'
    <3>1. ASSUME Unbroken', "quotation" \notin uses, open PROVE Begun'
      <4>1. [w \in Wids |-> [i \in 1 .. Lower(w)' |-> lists'[w][i].id]]
              = [w \in Wids |-> [i \in 1 .. Lower(w) |-> lists[w][i].id]]
        <5>1. \A w \in Wids : [i \in 1 .. Lower(w)' |-> lists'[w][i].id]
                                = [i \in 1 .. Lower(w) |-> lists[w][i].id]
          BY <1>1, <2>3 DEF vars
        <5> QED BY <5>1
      <4>2. before[lists[current][Len(lists[current])].id] =
              [ids |-> [w \in Wids |-> [i \in 1 .. Lower(w) |-> lists[w][i].id]],
               here |-> lists[current][Len(lists[current])].data, current |-> current]
        BY <1>1, <3>1 DEF IInv, Sound, Unbroken, Begun, vars
      <4> QED BY <1>1, <4>1, <4>2 DEF Begun, vars, Wids
    <3> QED BY <1>1, <3>1 DEF Begun, vars
  <2>6. (Unbroken => Marked)'
    BY <1>1, <2>3 DEF IInv, Sound, Unbroken, Marked, vars, Wids
  <2>7. (Unbroken => Nested)'
    BY <1>1 DEF IInv, Sound, Unbroken, Nested, vars, Wids
  <2>8. (uses = {} => Ordered)'
    BY <1>1, <2>3 DEF IInv, Ordered, vars, Wids
  <2> QED BY <2>2, <2>4, <2>5, <2>6, <2>7, <2>8 DEF IInv, Sound, Unbroken
<1>2. CASE Next
  <2>1. Step /\ Noted /\ uses' = uses BY <1>2 DEF Next
  <2>2. Data /\ MarksTyped /\ uses \in Sessions BY TypeParts DEF IInv
  <2>3. Data' /\ MarksTyped' BY <2>1, <2>2, StepTyped
  <2>4. DOMAIN before' = Undoable' BY <2>1, <2>2, NotedFacts
  <2>5. (TypeOK /\ InRange /\ Opened)' BY <2>1, <2>2, <2>3, <2>4, TypeParts
  <2>6. ASSUME Unbroken
        PROVE  Effects /\ Sound'
    <3>1. Distinct /\ HiddenIsOpen /\ Compiled /\ Begun /\ Marked /\ Nested
      BY <2>6 DEF IInv, Sound
    <3>2. Effects BY <2>1, <2>2, <2>6, <3>1, StepEffects
    <3>3. Distinct' BY <2>2, <2>3, <3>1, <3>2, DistinctStep
    <3>4. HiddenIsOpen' /\ Compiled' BY <2>1, <2>2, <2>3, <3>1, <3>2, HiddenStep
    <3>5. Begun' BY <2>1, <2>2, <2>3, <3>1, <3>2, <3>4, BegunStep
    <3>6. Over \/ \E a \in DOMAIN marks : Cuts(a) /\ Remain
      BY <2>2, <2>3, <3>2, OverStep
    <3>7. CASE \E a \in DOMAIN marks : Cuts(a) /\ Remain
      <4>1. Marked' /\ Nested' BY <2>1, <2>2, <2>3, <3>1, <3>7, MarkedCut
      <4> QED BY <3>2, <3>3, <3>4, <3>5, <4>1 DEF Sound
    <3>8. CASE Over /\ Remain
      <4>1. Marked' /\ Nested' BY <2>1, <2>2, <2>3, <3>1, <3>8, MarkedRemain
      <4> QED BY <3>2, <3>3, <3>4, <3>5, <4>1 DEF Sound
    <3>9. ASSUME Over, NEW a \in Addresses \ Ids, Adds(a), Makes(a) PROVE Sound'
      <4>1. Marked' /\ Nested' BY <2>1, <2>2, <2>3, <3>1, <3>9, MarkedMade
      <4> QED BY <3>3, <3>4, <3>5, <4>1 DEF Sound
    <3> QED BY <3>2, <3>6, <3>7, <3>8, <3>9 DEF Effects
  <2>7. ASSUME uses = {} PROVE Ordered'
    <3>1. Unbroken BY <2>7 DEF Unbroken
    <3>2. Effects /\ Sound' /\ Sound /\ Ordered BY <2>6, <2>7, <3>1 DEF IInv
    <3> QED BY <2>1, <2>2, <2>3, <2>7, <3>2, OrderedStep DEF Sound
  <2>8. Unbroken' => Unbroken BY <2>1 DEF Unbroken
  <2> QED BY <2>1, <2>5, <2>6, <2>7, <2>8 DEF IInv
<1> QED BY <1>1, <1>2

\* The inductive invariant holds of every reachable state.
THEOREM Invariant == Spec => []IInv
<1>1. Init => IInv BY InitInv
<1>2. IInv /\ [Next]_vars => IInv' BY NextInv
<1> QED BY <1>1, <1>2, PTL DEF Spec

\* Every variable keeps its type, in sessions with and without breaks: HERE
\* stays in the data space whatever an exception or a marker sets it back to.
THEOREM TypeCorrect == Spec => []TypeOK
<1>1. IInv => TypeOK BY DEF IInv
<1> QED BY <1>1, Invariant, PTL

\* The hidden head that p4Repl discards after an exception is the definition
\* being compiled (post4.c:1466), where nothing is broken off.
THEOREM HiddenStaysOpen == Spec => []HiddenIsOpenUnbroken
<1>1. IInv => HiddenIsOpenUnbroken BY DEF IInv, Sound, HiddenIsOpenUnbroken
<1> QED BY <1>1, Invariant, PTL

\* Words that are only created and forgotten have their data below HERE.
THEOREM WordsStayBelow == Spec => []WordsBelowHere
<1>1. IInv => WordsBelowHere BY DEF IInv, Ordered, WordsBelowHere, Entries
<1> QED BY <1>1, Invariant, PTL

\* The loops of _free_words (post4.c) find the words they stop at.
THEOREM StopsLiveAlways == Spec => []StopsStayLive
<1>1. IInv => StopsStayLive
  <2> SUFFICES ASSUME IInv, Unbroken, NEW a \in DOMAIN marks, NEW w \in Wids
               PROVE  marks[a].heads[w] = NULL \/ marks[a].heads[w] \in IdsOf(lists[w])
    BY DEF StopsStayLive, StopsLive
  <2> DEFINE ids == before[a].ids[w]
  <2>1. /\ Len(ids) \in Nat /\ Len(ids) <= Lower(w) /\ Lower(w) <= Len(lists[w])
        /\ Lower(w) \in Int /\ Len(lists[w]) \in Nat
        /\ \A i \in 1 .. Len(ids) : ids[i] = lists[w][i].id
        /\ marks[a].heads[w] = IF Len(ids) = 0 THEN NULL ELSE ids[Len(ids)]
    BY TypeParts, MarkedFacts DEF IInv, Sound
  <2> HIDE DEF ids
  <2>2. CASE Len(ids) # 0
    <3>1. Len(ids) \in 1 .. Len(lists[w]) /\ marks[a].heads[w] = lists[w][Len(ids)].id
      BY <2>1, <2>2
    <3> QED BY <3>1 DEF IdsOf, Entries
  <2> QED BY <2>1, <2>2
<1> QED BY <1>1, Invariant, PTL

\* A marker that is run leaves every list, HERE and the current list as they
\* were just before MARKER created it.
THEOREM MarkersRestore == Spec => MarkerRestores
<1>1. ASSUME IInv, [Next]_vars, Unbroken, NEW a \in DOMAIN marks, RunMarker(a)
      PROVE  Shape' = before[a].ids /\ here' = before[a].here /\ current' = before[a].current
  <2>1. Data /\ MarksTyped /\ Distinct /\ Marked BY <1>1, TypeParts DEF IInv, Sound
  <2>2. Cuts(a) BY <1>1, <2>1, CutsEffect
  <2>3. before[a].here = marks[a].here /\ before[a].current = marks[a].current
        /\ before[a].ids \in [Wids -> Seq(Addresses \cup {Builtin})]
    BY <2>1 DEF Marked
  <2>4. ASSUME NEW w \in Wids
        PROVE  [i \in 1 .. Len(lists'[w]) |-> lists'[w][i].id] = before[a].ids[w]
    <3> DEFINE ids == before[a].ids[w]
    <3>1. /\ ids \in Seq(Addresses \cup {Builtin}) /\ Len(ids) \in Nat
          /\ \A i \in 1 .. Len(ids) : ids[i] = lists[w][i].id
      BY <2>1, MarkedFacts
    <3>2. Len(lists'[w]) = Len(ids) /\ \A i \in 1 .. Len(lists'[w]) : lists'[w][i] = lists[w][i]
      BY <2>2 DEF Cuts
    <3> HIDE DEF ids
    <3>3. ids = [i \in 1 .. Len(ids) |-> ids[i]] BY <3>1
    <3> QED BY <3>1, <3>2, <3>3 DEF ids
  <2>5. Shape' = [w \in Wids |-> [i \in 1 .. Len(lists'[w]) |-> lists'[w][i].id]]
    BY DEF Shape, Wids
  <2>6. Shape' = before[a].ids BY <2>3, <2>4, <2>5
  <2> QED BY <2>2, <2>3, <2>6 DEF Cuts
<1>2. IInv /\ [Next]_vars =>
        [Unbroken => \A a \in DOMAIN marks : RunMarker(a) =>
           Shape' = before[a].ids /\ here' = before[a].here /\ current' = before[a].current]_vars
  BY <1>1
<1> QED BY <1>2, Invariant, PTL DEF Spec, MarkerRestores

\* An exception that ends a definition leaves the lists and HERE as they were
\* before the `:` that began it, where no quotation is used.
THEOREM DiscardsRestore == Spec => DiscardRestores
<1>1. ASSUME IInv, [Next]_vars, Unbroken, "quotation" \notin uses, open,
             HeadId(lists[current]) \notin Ids'
      PROVE  LET head == HeadId(lists[current])
             IN Shape' = before[head].ids /\ here' = before[head].here
  <2> DEFINE n == Len(lists[current])
  <2>1. Data /\ MarksTyped /\ Distinct /\ HiddenIsOpen /\ Compiled /\ Begun /\ Marked
    BY <1>1, TypeParts DEF IInv, Sound
  <2>2. n \in Nat /\ n # 0 /\ current \in Wids BY <1>1, <2>1, CurrentFacts DEF Data, Opened
  <2>3. HeadId(lists[current]) = lists[current][n].id
    <3>1. lists[current] # <<>> BY <2>1, <2>2, EmptyFacts DEF Data
    <3> QED BY <3>1 DEF HeadId, HeadOf
  <2>4. \A i \in 1 .. Len(lists'[current]) : lists'[current][i].id # lists[current][n].id
    BY <1>1, <2>2, <2>3, IdsFacts
  <2>5. CASE UNCHANGED vars
    <3>1. n \in 1 .. Len(lists'[current]) /\ lists'[current][n] = lists[current][n]
      BY <2>2, <2>5 DEF vars
    <3> QED BY <2>4, <3>1
  <2>6. CASE Next
    <3>1. Effects BY <1>1, <2>1, <2>6, StepEffects DEF Next
    <3>2. CASE Pops
      <4>1. /\ \A w \in Wids \ {current} : lists'[w] = lists[w]
            /\ Len(lists'[current]) = n - 1
            /\ \A i \in 1 .. n - 1 : lists'[current][i] = lists[current][i]
            /\ here' = lists[current][n].data
        BY <3>2 DEF Pops, Keeping, Elsewhere
      <4>2. \A w \in Wids : [i \in 1 .. Len(lists'[w]) |-> lists'[w][i].id]
                              = [i \in 1 .. Lower(w) |-> lists[w][i].id]
        <5>1. \A w \in Wids : Lower(w) = Len(lists'[w]) BY <1>1, <4>1 DEF Lower
        <5>2. \A w \in Wids : \A i \in 1 .. Len(lists'[w]) : lists'[w][i] = lists[w][i] BY <4>1
        <5> QED BY <5>1, <5>2
      <4>3. Shape' = [w \in Wids |-> [i \in 1 .. Len(lists'[w]) |-> lists'[w][i].id]]
        BY DEF Shape, Wids
      <4>4. Shape' = [w \in Wids |-> [i \in 1 .. Lower(w) |-> lists[w][i].id]]
        BY <4>2, <4>3
      <4>5. before[lists[current][n].id] =
              [ids |-> [w \in Wids |-> [i \in 1 .. Lower(w) |-> lists[w][i].id]],
               here |-> lists[current][n].data, current |-> current]
        BY <1>1, <2>1 DEF Begun
      <4> QED BY <2>3, <4>1, <4>4, <4>5
    <3>3. CASE Stays
      <4>1. n \in 1 .. Len(lists'[current]) /\ lists'[current][n] = lists[current][n]
        BY <2>2, <3>3 DEF Stays
      <4> QED BY <2>4, <4>1
    <3>4. CASE Shows
      <4>1. n \in 1 .. Len(lists'[current])
            /\ lists'[current][n] = [lists[current][n] EXCEPT !.hidden = FALSE]
        BY <2>2, <3>4 DEF Shows
      <4>2. lists[current][n] \in Word BY <2>1, <2>2, CurrentFacts
      <4>3. lists'[current][n].id = lists[current][n].id BY <4>1, <4>2 DEF Word
      <4> QED BY <2>4, <4>1, <4>3
    <3>5. CASE Closes BY <1>1, <2>1, <3>5 DEF Closes, Compiled
    <3>6. ASSUME NEW a \in Addresses \ Ids, Adds(a) \/ Opens(a) PROVE FALSE
      BY <1>1, <3>6 DEF Adds, Opens
    <3>7. ASSUME NEW a \in DOMAIN marks, Cuts(a) PROVE FALSE BY <1>1, <3>7 DEF Cuts
    <3> QED BY <3>1, <3>2, <3>3, <3>4, <3>5, <3>6, <3>7 DEF Effects
  <2> QED BY <1>1, <2>5, <2>6
<1>2. IInv /\ [Next]_vars =>
        [LET head == HeadId(lists[current])
         IN Unbroken /\ "quotation" \notin uses /\ open /\ head \notin Ids' =>
              Shape' = before[head].ids /\ here' = before[head].here]_vars
  BY <1>1
<1> QED BY <1>2, Invariant, PTL DEF Spec, DiscardRestores

=============================================================================
