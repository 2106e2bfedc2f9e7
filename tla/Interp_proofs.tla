--------------------------- MODULE Interp_proofs ---------------------------
(***************************************************************************)
(* Theorems about interpreting texts within texts, for every depth of      *)
(* activations and input sources and every set of mishaps.                 *)
(***************************************************************************)
EXTENDS Interp, FiniteSetTheorems, TLAPS

IInv ==
  TypeOK /\ FrameChain /\ LiveInputs /\ InputsMatchTexts /\ FilesClosed
  /\ PromptSurvives

(* The parts of IInv, said of any return stack. *)

\* The activations of some words on a return stack.
WordsIn(S, rs) == {i \in 1 .. Len(rs) : rs[i].word \in S}

\* FrameChain.
Chained(rs, f) ==
  /\ \A i \in 1 .. Len(rs) :
       /\ i < Len(rs) \/ rs[i].word = "CATCH" => rs[i].phase = "inside"
       /\ rs[i].phase = "inside" => rs[i].outer = i - 1
  /\ f = IF Len(rs) = 0 \/ rs[Len(rs)].phase = "inside" THEN Len(rs) ELSE Len(rs) - 1

\* LiveInputs.
Live(rs, ins) ==
  \A i \in WordsIn(Texts, rs) :
    /\ rs[i].under \in 1 .. Len(ins) - 1
    /\ \A k \in WordsIn(Texts, rs) : k < i => rs[k].under < rs[i].under

\* FilesClosed.
Files(rs, o, mishaps) ==
  /\ o >= Cardinality(WordsIn({"INCLUDED"}, rs))
  /\ mishaps \subseteq {"block"} => o = Cardinality(WordsIn({"INCLUDED"}, rs))

UpTo(W, i) == {k \in W : k <= i}

\* InputsMatchTexts, in a session without mishaps.
Matched(rs, ins) ==
  /\ Len(ins) = 1 + Cardinality(WordsIn(Texts, rs))
  /\ \A i \in WordsIn(Texts, rs) : rs[i].under = Cardinality(UpTo(WordsIn(Texts, rs), i))

Inputs == {"term", "file", "string", "block"}

-----------------------------------------------------------------------------
(* Sequences, and the words on them. *)

\* Append, element by element.
LEMMA AppendFacts ==
  ASSUME NEW S, NEW s \in Seq(S), NEW a \in S
  PROVE  /\ Append(s, a) \in Seq(S)
         /\ Len(Append(s, a)) = Len(s) + 1
         /\ \A i \in 1 .. Len(s) : Append(s, a)[i] = s[i]
         /\ Append(s, a)[Len(s) + 1] = a
         /\ Len(s) \in Nat
OBVIOUS

\* A prefix, element by element.
LEMMA PrefixFacts ==
  ASSUME NEW S, NEW s \in Seq(S), NEW n \in 0 .. Len(s)
  PROVE  /\ SubSeq(s, 1, n) \in Seq(S)
         /\ Len(SubSeq(s, 1, n)) = n
         /\ \A i \in 1 .. n : SubSeq(s, 1, n)[i] = s[i]
         /\ Len(s) \in Nat
OBVIOUS

\* Replacing the last element.
LEMMA LastFacts ==
  ASSUME NEW S, NEW s \in Seq(S), NEW a \in S, Len(s) # 0
  PROVE  /\ [s EXCEPT ![Len(s)] = a] \in Seq(S)
         /\ Len([s EXCEPT ![Len(s)] = a]) = Len(s)
         /\ \A i \in 1 .. Len(s) :
              [s EXCEPT ![Len(s)] = a][i] = IF i = Len(s) THEN a ELSE s[i]
         /\ Len(s) \in Nat
OBVIOUS

\* Only the empty sequence has length zero.
LEMMA EmptyFacts ==
  ASSUME NEW S, NEW s \in Seq(S)
  PROVE  (s = <<>> <=> Len(s) = 0) /\ Len(s) \in Nat
OBVIOUS

\* A return stack holds finitely many activations.
LEMMA WordsFinite ==
  ASSUME NEW S, NEW rs, Len(rs) \in Nat
  PROVE  /\ IsFiniteSet(WordsIn(S, rs))
         /\ Cardinality(WordsIn(S, rs)) \in Nat
<1>1. IsFiniteSet(1 .. Len(rs))
  BY FS_Interval
<1>2. WordsIn(S, rs) \in SUBSET (1 .. Len(rs))
  BY DEF WordsIn
<1> QED
  BY <1>1, <1>2, FS_Subset, FS_CardinalityType

\* An activation of another word changes no count.
LEMMA WordsSame ==
  ASSUME NEW S, NEW rs, NEW bs, Len(rs) \in Nat, Len(bs) \in Nat,
         \A i \in 1 .. Len(rs) : i <= Len(bs) => bs[i].word = rs[i].word,
         \A i \in 1 .. Len(rs) : i > Len(bs) => rs[i].word \notin S,
         \A i \in 1 .. Len(bs) : i > Len(rs) => bs[i].word \notin S
  PROVE  WordsIn(S, bs) = WordsIn(S, rs)
BY DEF WordsIn

\* A new innermost activation of a word is one more.
LEMMA WordsPush ==
  ASSUME NEW S, NEW rs \in Seq(Activation), NEW a \in Activation, a.word \in S
  PROVE  /\ WordsIn(S, Append(rs, a)) = WordsIn(S, rs) \cup {Len(rs) + 1}
         /\ Cardinality(WordsIn(S, Append(rs, a))) = Cardinality(WordsIn(S, rs)) + 1
<1>1. WordsIn(S, Append(rs, a)) = WordsIn(S, rs) \cup {Len(rs) + 1}
  BY AppendFacts DEF WordsIn
<1>2. Len(rs) + 1 \notin WordsIn(S, rs)
  BY EmptyFacts DEF WordsIn
<1>3. IsFiniteSet(WordsIn(S, rs))
  BY WordsFinite, EmptyFacts
<1> QED
  BY <1>1, <1>2, <1>3, FS_AddElement

\* The innermost activation of a word gone is one less.
LEMMA WordsPop ==
  ASSUME NEW S, NEW rs \in Seq(Activation), Len(rs) # 0, rs[Len(rs)].word \in S
  PROVE  /\ WordsIn(S, SubSeq(rs, 1, Len(rs) - 1)) = WordsIn(S, rs) \ {Len(rs)}
         /\ Cardinality(WordsIn(S, SubSeq(rs, 1, Len(rs) - 1)))
              = Cardinality(WordsIn(S, rs)) - 1
<1> DEFINE bs == SubSeq(rs, 1, Len(rs) - 1)
<1>1. /\ Len(bs) = Len(rs) - 1
      /\ \A i \in 1 .. Len(rs) - 1 : bs[i] = rs[i]
      /\ Len(rs) \in Nat
  <2>1. Len(rs) \in Nat /\ Len(rs) - 1 \in 0 .. Len(rs)
    BY EmptyFacts
  <2> QED
    BY <2>1, PrefixFacts
<1> HIDE DEF bs
<1>2. WordsIn(S, bs) = WordsIn(S, rs) \ {Len(rs)}
  <2>1. 1 .. Len(bs) = (1 .. Len(rs)) \ {Len(rs)}
    BY <1>1
  <2> QED
    BY <1>1, <2>1 DEF WordsIn
<1>3. Len(rs) \in WordsIn(S, rs)
  BY <1>1 DEF WordsIn
<1>4. IsFiniteSet(WordsIn(S, rs))
  BY <1>1, WordsFinite
<1> QED
  BY <1>2, <1>3, <1>4, FS_RemoveElement DEF bs

-----------------------------------------------------------------------------
(* The frame chain. *)

\* A new innermost activation, before or inside its CATCH.
LEMMA PushChain ==
  ASSUME NEW rs \in Seq(Activation), Chained(rs, Len(rs)), NEW a \in Activation,
         a.phase = "inside" => a.outer = Len(rs),
         a.word = "CATCH" => a.phase = "inside"
  PROVE  Chained(Append(rs, a), IF a.phase = "inside" THEN Len(rs) + 1 ELSE Len(rs))
<1>1. /\ Len(Append(rs, a)) = Len(rs) + 1
      /\ \A i \in 1 .. Len(rs) : Append(rs, a)[i] = rs[i]
      /\ Append(rs, a)[Len(rs) + 1] = a
      /\ Len(rs) \in Nat
  BY AppendFacts
<1>2. \A i \in 1 .. Len(rs) : rs[i].phase = "inside" /\ rs[i].outer = i - 1
  BY <1>1 DEF Chained
<1> QED
  BY <1>1, <1>2 DEF Chained

\* The innermost activation replaced, into or out of its CATCH.
LEMMA LastChain ==
  ASSUME NEW rs \in Seq(Activation), NEW f, Chained(rs, f), Len(rs) # 0,
         NEW a \in Activation,
         a.phase = "inside" => a.outer = Len(rs) - 1,
         a.word = "CATCH" => a.phase = "inside"
  PROVE  Chained([rs EXCEPT ![Len(rs)] = a],
                 IF a.phase = "inside" THEN Len(rs) ELSE Len(rs) - 1)
<1> DEFINE bs == [rs EXCEPT ![Len(rs)] = a]
<1>1. /\ Len(bs) = Len(rs)
      /\ \A i \in 1 .. Len(rs) : bs[i] = IF i = Len(rs) THEN a ELSE rs[i]
      /\ Len(rs) \in Nat \ {0}
  BY LastFacts
<1>2. \A i \in 1 .. Len(rs) - 1 : rs[i].phase = "inside" /\ rs[i].outer = i - 1
  BY <1>1 DEF Chained
<1> HIDE DEF bs
<1>3. Chained(bs, IF a.phase = "inside" THEN Len(rs) ELSE Len(rs) - 1)
  BY <1>1, <1>2 DEF Chained
<1> QED
  BY <1>3 DEF bs

\* A prefix that ends inside a CATCH, or before the innermost activation.
LEMMA PrefixChain ==
  ASSUME NEW rs \in Seq(Activation), NEW f, Chained(rs, f), NEW n \in 0 .. f
  PROVE  Chained(SubSeq(rs, 1, n), n) /\ f \in 0 .. Len(rs)
<1>1. Len(rs) \in Nat /\ f \in 0 .. Len(rs)
  BY EmptyFacts DEF Chained
<1>2. /\ Len(SubSeq(rs, 1, n)) = n
      /\ \A i \in 1 .. n : SubSeq(rs, 1, n)[i] = rs[i]
  BY <1>1, PrefixFacts
<1>3. \A i \in 1 .. n : rs[i].phase = "inside" /\ rs[i].outer = i - 1
  BY <1>1 DEF Chained
<1> QED
  BY <1>1, <1>2, <1>3 DEF Chained

-----------------------------------------------------------------------------
(* The input sources. *)

\* With the same text words, or fewer, the words return where they did.
LEMMA FewerLive ==
  ASSUME NEW rs, NEW ins, Live(rs, ins), NEW bs,
         WordsIn(Texts, bs) \subseteq WordsIn(Texts, rs),
         \A i \in WordsIn(Texts, bs) : bs[i].under = rs[i].under
  PROVE  Live(bs, ins)
BY DEF Live

\* The same text words match the input sources as before.
LEMMA SameMatched ==
  ASSUME NEW rs, NEW ins, Matched(rs, ins), NEW bs,
         WordsIn(Texts, bs) = WordsIn(Texts, rs),
         \A i \in WordsIn(Texts, bs) : bs[i].under = rs[i].under
  PROVE  Matched(bs, ins)
BY DEF Matched

\* A text word begins on an input source of its own.
LEMMA PushInputs ==
  ASSUME NEW rs \in Seq(Activation), NEW ins \in Seq(Inputs), Len(ins) # 0,
         NEW a \in Activation, a.word \in Texts, a.under = Len(ins), NEW k \in Inputs
  PROVE  /\ Live(rs, ins) => Live(Append(rs, a), Append(ins, k))
         /\ Matched(rs, ins) => Matched(Append(rs, a), Append(ins, k))
<1> DEFINE bs == Append(rs, a)
           W == WordsIn(Texts, rs)
<1>1. /\ \A i \in 1 .. Len(rs) : bs[i] = rs[i]
      /\ bs[Len(rs) + 1] = a
      /\ Len(rs) \in Nat
  BY AppendFacts
<1>2. Len(Append(ins, k)) = Len(ins) + 1 /\ Len(ins) \in Nat \ {0}
  BY AppendFacts
<1>3. /\ WordsIn(Texts, bs) = W \cup {Len(rs) + 1}
      /\ Cardinality(WordsIn(Texts, bs)) = Cardinality(W) + 1
  BY WordsPush
<1>4. Cardinality(W) \in Nat
  BY <1>1, WordsFinite
<1>5. W \subseteq 1 .. Len(rs)
  BY DEF WordsIn
<1> HIDE DEF bs, W
<1>6. ASSUME Live(rs, ins) PROVE Live(bs, Append(ins, k))
  <2>1. \A i \in W : rs[i].under \in 1 .. Len(ins) - 1
    BY <1>6 DEF Live, W
  <2>2. \A i, j \in W : j < i => rs[j].under < rs[i].under
    BY <1>6 DEF Live, W
  <2>3. \A i \in W : bs[i].under = rs[i].under /\ i < Len(rs) + 1
    BY <1>1, <1>5
  <2>4. bs[Len(rs) + 1].under = Len(ins)
    BY <1>1
  <2>5. \A i \in W \cup {Len(rs) + 1} : bs[i].under \in 1 .. Len(ins)
    BY <1>2, <2>1, <2>3, <2>4
  <2>6. \A i, j \in W \cup {Len(rs) + 1} : j < i => bs[j].under < bs[i].under
    <3>1. \A j \in W : bs[j].under < bs[Len(rs) + 1].under
      BY <1>2, <2>1, <2>3, <2>4
    <3>2. \A i \in W : ~(Len(rs) + 1 < i)
      BY <1>1, <1>5
    <3>3. \A i, j \in W : j < i => bs[j].under < bs[i].under
      BY <2>2, <2>3
    <3>4. ~(Len(rs) + 1 < Len(rs) + 1)
      BY <1>1
    <3> QED
      BY <3>1, <3>2, <3>3, <3>4
  <2> QED
    BY <1>2, <1>3, <2>5, <2>6 DEF Live
<1>7. ASSUME Matched(rs, ins) PROVE Matched(bs, Append(ins, k))
  <2>1. Len(ins) = 1 + Cardinality(W)
    BY <1>7 DEF Matched, W
  <2>2. ASSUME NEW i \in W
        PROVE  bs[i].under = Cardinality(UpTo(W \cup {Len(rs) + 1}, i))
    <3>1. UpTo(W \cup {Len(rs) + 1}, i) = UpTo(W, i)
      <4>1. i < Len(rs) + 1
        BY <1>1, <1>5
      <4> QED
        BY <1>1, <1>5, <4>1 DEF UpTo
    <3>2. bs[i].under = rs[i].under
      BY <1>1, <1>5
    <3> QED
      BY <1>7, <3>1, <3>2 DEF Matched, W
  <2>3. UpTo(W \cup {Len(rs) + 1}, Len(rs) + 1) = W \cup {Len(rs) + 1}
    <3>1. \A j \in W \cup {Len(rs) + 1} : j <= Len(rs) + 1
      BY <1>1, <1>5
    <3> QED
      BY <3>1, Zenon DEF UpTo
  <2>4. bs[Len(rs) + 1].under = Cardinality(W \cup {Len(rs) + 1})
    BY <1>1, <1>3, <1>4, <2>1
  <2>5. Len(Append(ins, k)) = 1 + Cardinality(WordsIn(Texts, bs))
    BY <1>2, <1>3, <1>4, <2>1
  <2>6. \A i \in W \cup {Len(rs) + 1} :
          bs[i].under = Cardinality(UpTo(W \cup {Len(rs) + 1}, i))
    BY <2>2, <2>3, <2>4, Zenon
  <2> QED
    BY <1>3, <2>5, <2>6, Zenon DEF Matched
<1> QED
  BY <1>6, <1>7 DEF bs

\* _input_pop: the innermost text word gives up its input source.
LEMMA PopInputs ==
  ASSUME NEW rs \in Seq(Activation), NEW ins \in Seq(Inputs), Len(rs) # 0,
         rs[Len(rs)].word \in Texts, Live(rs, ins)
  PROVE  LET bs == SubSeq(rs, 1, Len(rs) - 1)
             popped == SubSeq(ins, 1, rs[Len(rs)].under)
         IN /\ popped \in Seq(Inputs) \ {<<>>}
            /\ popped[1] = ins[1]
            /\ Live(bs, popped)
            /\ Matched(rs, ins) => Matched(bs, popped)
<1> DEFINE n == Len(rs)
           bs == SubSeq(rs, 1, n - 1)
           u == rs[n].under
           popped == SubSeq(ins, 1, u)
           W == WordsIn(Texts, rs)
<1>1. n \in Nat \ {0} /\ \A i \in 1 .. n - 1 : bs[i] = rs[i]
  <2>1. n \in Nat \ {0} /\ n - 1 \in 0 .. n
    BY EmptyFacts
  <2> QED
    BY <2>1, PrefixFacts
<1>2. n \in W /\ W \subseteq 1 .. n
  BY <1>1 DEF WordsIn
<1>3. u \in 1 .. Len(ins) - 1 /\ Len(ins) \in Nat
  BY <1>2, EmptyFacts DEF Live
<1>4. popped \in Seq(Inputs) /\ Len(popped) = u /\ popped[1] = ins[1]
  <2>1. u \in 0 .. Len(ins) /\ 1 \in 1 .. u
    BY <1>3
  <2> QED
    BY <2>1, PrefixFacts
<1>5. /\ WordsIn(Texts, bs) = W \ {n}
      /\ Cardinality(WordsIn(Texts, bs)) = Cardinality(W) - 1
  BY WordsPop
<1>6. Cardinality(W) \in Nat
  BY <1>1, WordsFinite
<1> HIDE DEF n, bs, u, popped, W
<1>7. Live(bs, popped)
  <2>1. \A i \in W : rs[i].under \in 1 .. Len(ins) - 1
    BY DEF Live, W
  <2>2. \A i, j \in W : j < i => rs[j].under < rs[i].under
    BY DEF Live, W
  <2>3. \A i \in W \ {n} : i < n /\ i \in 1 .. n - 1
    BY <1>1, <1>2
  <2>4. \A i \in W \ {n} : rs[i].under < u
    BY <1>2, <2>2, <2>3 DEF u
  <2>5. \A i \in W \ {n} : bs[i].under = rs[i].under
    BY <1>1, <2>3
  <2>6. \A i \in W \ {n} : rs[i].under \in 1 .. Len(popped) - 1
    BY <1>3, <1>4, <2>1, <2>4
  <2> QED
    BY <1>5, <2>2, <2>5, <2>6 DEF Live
<1>8. ASSUME Matched(rs, ins) PROVE Matched(bs, popped)
  <2>1. UpTo(W, n) = W
    <3>1. \A j \in W : j <= n
      BY <1>1, <1>2
    <3> QED
      BY <3>1, Zenon DEF UpTo
  <2>2. u = Cardinality(W)
    BY <1>2, <1>8, <2>1 DEF Matched, W, u
  <2>3. ASSUME NEW i \in W \ {n}
        PROVE  bs[i].under = Cardinality(UpTo(W \ {n}, i))
    <3>1. i \in 1 .. n - 1
      BY <1>1, <1>2
    <3>2. UpTo(W \ {n}, i) = UpTo(W, i)
      BY <1>1, <1>2, <3>1 DEF UpTo
    <3>3. rs[i].under = Cardinality(UpTo(W, i))
      BY <1>8 DEF Matched, W
    <3> QED
      BY <1>1, <3>1, <3>2, <3>3
  <2>4. Len(popped) = 1 + Cardinality(WordsIn(Texts, bs))
    BY <1>4, <1>5, <1>6, <2>2
  <2> QED
    BY <1>5, <2>3, <2>4, Zenon DEF Matched
<1>9. popped # <<>>
  BY <1>3, <1>4, EmptyFacts
<1> QED
  BY <1>4, <1>7, <1>8, <1>9 DEF n, bs, u, popped

-----------------------------------------------------------------------------
(* The invariant, taken apart and put together. *)

\* What IInv says of the current state.
LEMMA Parts ==
  ASSUME IInv
  PROVE  /\ session \in Session
         /\ inputs \in Seq(Inputs) \ {<<>>} /\ Len(inputs) \in Nat \ {0}
         /\ acts \in Seq(Activation) /\ Len(acts) \in Nat
         /\ open \in Nat
         /\ Chained(acts, frame)
         /\ Live(acts, inputs)
         /\ session.mishaps = {} => Matched(acts, inputs)
         /\ Files(acts, open, session.mishaps)
<1>1. TypeOK
  BY DEF IInv
<1>2. /\ inputs \in Seq(Inputs) \ {<<>>} /\ Len(inputs) \in Nat \ {0}
      /\ acts \in Seq(Activation) /\ Len(acts) \in Nat
      /\ acts = <<>> <=> Len(acts) = 0
  BY <1>1, EmptyFacts DEF TypeOK, Inputs
<1>3. Chained(acts, frame)
  BY <1>2 DEF IInv, FrameChain, Chained, Act
<1>4. Live(acts, inputs)
  BY DEF IInv, LiveInputs, Sourced, Live, WordsIn
<1>5. session.mishaps = {} => Matched(acts, inputs)
  BY Zenon DEF IInv, InputsMatchTexts, Sourced, Matched, WordsIn, UpTo
<1>6. Included = WordsIn({"INCLUDED"}, acts)
  BY DEF Included, WordsIn
<1>7. Files(acts, open, session.mishaps)
  BY <1>6 DEF IInv, FilesClosed, Files
<1> QED
  BY <1>1, <1>2, <1>3, <1>4, <1>5, <1>7 DEF TypeOK

\* What a step has to show to respect IInv.
LEMMA Assemble ==
  ASSUME session' \in Session,
         inputs' \in Seq(Inputs) \ {<<>>},
         acts' \in Seq(Activation),
         open' \in Nat,
         process' \in {"running", "ended", "thrown", "wild"},
         Chained(acts', frame'),
         Live(acts', inputs'),
         session'.mishaps = {} => Matched(acts', inputs'),
         Files(acts', open', session'.mishaps),
         PromptSurvives'
  PROVE  IInv'
<1>1. Len(acts') \in Nat /\ (acts' = <<>> <=> Len(acts') = 0)
  BY EmptyFacts
<1>2. TypeOK'
  BY <1>1 DEF TypeOK, Inputs, Chained
<1>3. FrameChain'
  BY <1>1 DEF FrameChain, Chained, Act
<1>4. LiveInputs'
  BY DEF LiveInputs, Sourced, Live, WordsIn
<1>5. InputsMatchTexts'
  BY Zenon DEF InputsMatchTexts, Sourced, Matched, WordsIn, UpTo
<1>6. Included' = WordsIn({"INCLUDED"}, acts')
  BY DEF Included, WordsIn
<1>7. FilesClosed'
  BY <1>6 DEF FilesClosed, Files
<1> QED
  BY <1>2, <1>3, <1>4, <1>5, <1>7 DEF IInv

\* A step that begins and ends no text, and leaves the rest alone.
LEMMA SameTexts ==
  ASSUME IInv, UNCHANGED <<session, inputs, open, process>>,
         acts' \in Seq(Activation), Chained(acts', frame'),
         WordsIn(Texts, acts') = WordsIn(Texts, acts),
         WordsIn({"INCLUDED"}, acts') = WordsIn({"INCLUDED"}, acts),
         \A i \in WordsIn(Texts, acts') : acts'[i].under = acts[i].under
  PROVE  IInv'
<1>1. Live(acts', inputs')
  BY Parts, FewerLive
<1>2. session'.mishaps = {} => Matched(acts', inputs')
  BY Parts, SameMatched
<1>3. Files(acts', open', session'.mishaps)
  BY Parts DEF Files
<1>4. PromptSurvives'
  BY DEF IInv, PromptSurvives
<1>5. process' \in {"running", "ended", "thrown", "wild"}
  BY DEF IInv, TypeOK
<1> QED
  BY <1>1, <1>2, <1>3, <1>4, <1>5, Parts, Assemble

\* The innermost activation goes into or out of its CATCH.
LEMMA LastStep ==
  ASSUME IInv, UNCHANGED <<session, inputs, open, process>>, Len(acts) # 0,
         NEW a \in Activation, a.word = Act.word, a.under = Act.under,
         a.phase = "inside" => a.outer = Len(acts) - 1,
         a.word # "CATCH",
         acts' = WithAct(a),
         frame' = IF a.phase = "inside" THEN Len(acts) ELSE Len(acts) - 1
  PROVE  IInv'
<1>1. acts \in Seq(Activation) /\ Chained(acts, frame) /\ Len(acts) \in Nat \ {0}
  BY Parts
<1>2. /\ acts' \in Seq(Activation)
      /\ Len(acts') = Len(acts)
      /\ \A i \in 1 .. Len(acts) : acts'[i] = IF i = Len(acts) THEN a ELSE acts[i]
  BY <1>1, LastFacts DEF WithAct
<1>3. Chained(acts', frame')
  BY <1>1, LastChain DEF WithAct
<1>4. \A i \in 1 .. Len(acts) :
        acts'[i].word = acts[i].word /\ acts'[i].under = acts[i].under
  BY <1>2 DEF Act
<1>5. \A S : WordsIn(S, acts') = WordsIn(S, acts)
  BY <1>2, <1>4 DEF WordsIn
<1>6. \A i \in WordsIn(Texts, acts') : acts'[i].under = acts[i].under
  BY <1>2, <1>4 DEF WordsIn
<1> QED
  BY <1>2, <1>3, <1>5, <1>6, SameTexts

-----------------------------------------------------------------------------
(* Exceptions. *)

\* Where THROW or p4Repl leaves the return stack: cut somewhere above the frame,
\* with nothing but CATCHes gone from inside it.
LEMMA ThrownShape ==
  ASSUME NEW rs \in Seq(Activation), Chained(rs, frame), NEW ins, Thrown(rs, ins),
         process = "running"
  PROVE  /\ acts' \in Seq(Activation) /\ Len(acts') \in 0 .. Len(rs)
         /\ \A i \in 1 .. Len(acts') :
              acts'[i].word = rs[i].word /\ acts'[i].under = rs[i].under
         /\ \A i \in 1 .. Len(rs) :
              i > Len(acts') => rs[i].word = "CATCH" \/ i > frame
         /\ Chained(acts', frame')
         /\ inputs' = ins
         /\ process' \in {"running", "thrown"}
         /\ process' = "thrown" => frame = 0 /\ CurrentOf(ins) # "term"
<1>1. Len(rs) \in Nat /\ frame \in 0 .. Len(rs)
  BY EmptyFacts DEF Chained
<1>2. inputs' = ins
  BY DEF Thrown
<1>3. CASE ToRepl(rs, ins) /\ CurrentOf(ins) = "term"
  <2>1. acts' = <<>> /\ frame = 0 /\ frame' = 0 /\ process' = "running"
    BY <1>3 DEF ToRepl
  <2>2. Chained(acts', frame')
    BY <2>1 DEF Chained
  <2> QED
    BY <1>1, <1>2, <2>1, <2>2
<1>4. CASE ToRepl(rs, ins) /\ CurrentOf(ins) # "term"
  <2>1. acts' = rs /\ frame = 0 /\ frame' = 0 /\ process' = "thrown"
    BY <1>4 DEF ToRepl
  <2> QED
    BY <1>1, <1>2, <1>4, <2>1
<1>5. CASE ToCatch(rs)
  <2> DEFINE a == rs[frame]
             rest == SubSeq(rs, 1, frame - 1)
             b == [a EXCEPT !.phase = "after", !.threw = TRUE]
  <2>1. /\ frame # 0 /\ frame' = a.outer /\ process' = "running"
        /\ acts' = IF a.word = "CATCH" THEN rest ELSE Append(rest, b)
    BY <1>5 DEF ToCatch
  <2>2. frame \in 1 .. Len(rs) /\ frame - 1 \in 0 .. Len(rs) /\ frame - 1 \in 0 .. frame
    BY <1>1, <2>1
  <2>3. /\ rest \in Seq(Activation) /\ Len(rest) = frame - 1
        /\ \A i \in 1 .. frame - 1 : rest[i] = rs[i]
    BY <2>2, PrefixFacts
  <2>4. Chained(rest, frame - 1)
    BY <2>2, PrefixChain
  <2>5. a \in Activation /\ a.outer = frame - 1
    BY <1>1, <2>2 DEF Chained
  <2>6. b \in Activation /\ b.word = a.word /\ b.under = a.under /\ b.phase = "after"
    BY <2>5 DEF Activation
  <2> HIDE DEF a, rest, b
  <2>7. CASE a.word = "CATCH"
    BY <1>1, <1>2, <2>1, <2>2, <2>3, <2>4, <2>5, <2>7 DEF a
  <2>8. CASE a.word # "CATCH"
    <3>1. acts' = Append(rest, b)
      BY <2>1, <2>8
    <3>2. /\ acts' \in Seq(Activation) /\ Len(acts') = frame
          /\ \A i \in 1 .. frame - 1 : acts'[i] = rs[i]
          /\ acts'[frame] = b
      BY <2>2, <2>3, <2>6, <3>1, AppendFacts
    <3>3. Chained(acts', frame')
      BY <2>1, <2>3, <2>4, <2>5, <2>6, <2>8, <3>1, PushChain
    <3>4. \A i \in 1 .. frame :
            acts'[i].word = rs[i].word /\ acts'[i].under = rs[i].under
      BY <2>2, <2>6, <3>2 DEF a
    <3> QED
      BY <1>1, <1>2, <2>1, <2>2, <3>2, <3>3, <3>4
  <2> QED
    BY <2>7, <2>8
<1> QED
  BY <1>3, <1>4, <1>5 DEF Thrown

\* An exception respects IInv, from a return stack and input sources that do.
LEMMA ThrownStep ==
  ASSUME NEW rs \in Seq(Activation), Chained(rs, frame),
         NEW ins \in Seq(Inputs) \ {<<>>}, Thrown(rs, ins),
         process = "running", UNCHANGED session, session \in Session,
         open' \in Nat, Files(rs, open', session.mishaps),
         Live(rs, ins),
         session.mishaps = {} => Matched(rs, ins) /\ frame = Len(rs),
         (session.mishaps = {} /\ ~session.script) => ins[1] = "term",
         session.mishaps \subseteq {"block"} =>
           \A i \in 1 .. Len(rs) : i > frame => rs[i].word # "INCLUDED"
  PROVE  IInv'
<1>1. /\ acts' \in Seq(Activation) /\ Len(acts') \in 0 .. Len(rs)
      /\ \A i \in 1 .. Len(acts') :
           acts'[i].word = rs[i].word /\ acts'[i].under = rs[i].under
      /\ \A i \in 1 .. Len(rs) :
           i > Len(acts') => rs[i].word = "CATCH" \/ i > frame
      /\ Chained(acts', frame')
      /\ inputs' = ins
      /\ process' \in {"running", "thrown"}
      /\ process' = "thrown" => frame = 0 /\ CurrentOf(ins) # "term"
  BY ThrownShape
<1>2. Len(rs) \in Nat /\ Len(acts') \in Nat
  BY <1>1, EmptyFacts
<1>3. \A S : WordsIn(S, acts') \subseteq WordsIn(S, rs)
  BY <1>1, <1>2 DEF WordsIn
<1>4. \A i \in WordsIn(Texts, acts') : acts'[i].under = rs[i].under
  BY <1>1 DEF WordsIn
<1>5. Live(acts', inputs')
  BY <1>1, <1>3, <1>4, FewerLive
<1>6. ASSUME session.mishaps = {} PROVE Matched(acts', inputs')
  <2>1. \A i \in 1 .. Len(rs) : i > Len(acts') => rs[i].word = "CATCH"
    BY <1>1, <1>2, <1>6
  <2>2. WordsIn(Texts, acts') = WordsIn(Texts, rs)
    BY <1>1, <1>2, <2>1 DEF WordsIn, Texts
  <2> QED
    BY <1>1, <1>4, <1>6, <2>2, SameMatched
<1>7. Files(acts', open', session'.mishaps)
  <2>1. Cardinality(WordsIn({"INCLUDED"}, acts')) <= Cardinality(WordsIn({"INCLUDED"}, rs))
    <3>1. IsFiniteSet(WordsIn({"INCLUDED"}, rs))
      BY <1>2, WordsFinite
    <3> QED
      BY <1>3, <3>1, FS_Subset
  <2>2. /\ Cardinality(WordsIn({"INCLUDED"}, acts')) \in Nat
        /\ Cardinality(WordsIn({"INCLUDED"}, rs)) \in Nat
    BY <1>2, WordsFinite
  <2>3. ASSUME session.mishaps \subseteq {"block"}
        PROVE  WordsIn({"INCLUDED"}, acts') = WordsIn({"INCLUDED"}, rs)
    <3>1. \A i \in 1 .. Len(rs) : i > Len(acts') => rs[i].word # "INCLUDED"
      BY <1>1, <2>3
    <3> QED
      BY <1>1, <1>2, <3>1 DEF WordsIn
  <2> QED
    BY <2>1, <2>2, <2>3 DEF Files
<1>8. PromptSurvives'
  <2> SUFFICES ASSUME session.mishaps = {}, ~session.script
               PROVE  ins[1] = "term" /\ process' = "running"
    BY <1>1 DEF PromptSurvives
  <2>1. ASSUME frame = 0 PROVE CurrentOf(ins) = "term"
    <3>1. WordsIn(Texts, rs) = {}
      BY <2>1, <1>2 DEF WordsIn
    <3>2. Len(ins) = 1
      BY <3>1, FS_EmptySet DEF Matched
    <3> QED
      BY <3>2 DEF CurrentOf
  <2> QED
    BY <1>1, <2>1
<1>9. session' \in Session /\ process' \in {"running", "ended", "thrown", "wild"}
  BY <1>1
<1> QED
  BY <1>1, <1>5, <1>6, <1>7, <1>8, <1>9, Assemble

-----------------------------------------------------------------------------
(* The actions. *)

\* Where the frame is while a program's words run.
LEMMA WhenInterpreting ==
  ASSUME IInv, Interpreting
  PROVE  process = "running" /\ frame = Len(acts) /\ Chained(acts, Len(acts))
<1>1. /\ acts \in Seq(Activation) /\ Len(acts) \in Nat /\ Chained(acts, frame)
      /\ acts = <<>> <=> Len(acts) = 0
  BY Parts, EmptyFacts
<1>2. frame = Len(acts)
  BY <1>1 DEF Interpreting, Act, Chained
<1> QED
  BY <1>1, <1>2 DEF Interpreting

\* And while the last word is a text word before or after its CATCH.
LEMMA WhenOutside ==
  ASSUME IInv, NEW ph \in {"before", "after"}, InPhase(ph)
  PROVE  /\ process = "running" /\ Len(acts) \in Nat \ {0}
         /\ Act \in Activation /\ Act.phase = ph /\ Act.word \in Texts
         /\ Act = acts[Len(acts)]
         /\ frame = Len(acts) - 1
<1>1. /\ acts \in Seq(Activation) /\ Len(acts) \in Nat /\ Chained(acts, frame)
      /\ acts = <<>> <=> Len(acts) = 0
  BY Parts, EmptyFacts
<1>2. Len(acts) # 0 /\ Act.phase = ph /\ process = "running"
  BY <1>1 DEF InPhase
<1>3. Act \in Activation /\ Act = acts[Len(acts)]
  BY <1>1, <1>2 DEF Act
<1>4. Act.word # "CATCH" /\ frame = Len(acts) - 1
  BY <1>1, <1>2, <1>3 DEF Chained
<1>5. Act.word \in Texts
  BY <1>3, <1>4 DEF Activation
<1> QED
  BY <1>1, <1>2, <1>3, <1>4, <1>5

\* EVALUATE, INCLUDED and LOAD begin.
LEMMA BeginStep ==
  ASSUME IInv, NEW w \in Texts, Begin(w)
  PROVE  IInv'
<1> DEFINE a == [word |-> w, phase |-> "before", under |-> Len(inputs),
                 outer |-> 0, threw |-> FALSE]
<1>1. Chained(acts, Len(acts)) /\ process = "running"
  BY WhenInterpreting DEF Begin
<1>2. /\ inputs' = Append(inputs, Kind[w]) /\ acts' = Append(acts, a)
      /\ open' = IF w = "INCLUDED" THEN open + 1 ELSE open
      /\ UNCHANGED <<session, frame, process>>
  BY DEF Begin
<1>3. /\ a \in Activation /\ a.word = w /\ a.under = Len(inputs) /\ a.phase = "before"
      /\ a.word # "CATCH" /\ Kind[w] \in Inputs
  BY Parts DEF Activation, Texts, Kind, Inputs
<1> HIDE DEF a
<1>4. acts' \in Seq(Activation) /\ inputs' \in Seq(Inputs) \ {<<>>}
  BY <1>2, <1>3, Parts, AppendFacts
<1>5. Chained(acts', frame')
  <2>1. Chained(Append(acts, a), Len(acts))
    BY <1>1, <1>3, Parts, PushChain
  <2> QED
    BY <1>2, <2>1, WhenInterpreting DEF Begin
<1>6. Live(acts', inputs')
  BY <1>2, <1>3, Parts, PushInputs
<1>7. session'.mishaps = {} => Matched(acts', inputs')
  BY <1>2, <1>3, Parts, PushInputs
<1>8. open' \in Nat /\ Files(acts', open', session'.mishaps)
  <2>1. /\ Cardinality(WordsIn({"INCLUDED"}, acts)) \in Nat /\ open \in Nat
        /\ Files(acts, open, session.mishaps)
    BY Parts, WordsFinite
  <2>2. CASE w = "INCLUDED"
    <3>1. Cardinality(WordsIn({"INCLUDED"}, acts'))
            = Cardinality(WordsIn({"INCLUDED"}, acts)) + 1
      BY <1>2, <1>3, <2>2, Parts, WordsPush
    <3> QED
      BY <1>2, <2>1, <2>2, <3>1 DEF Files
  <2>3. CASE w # "INCLUDED"
    <3>1. /\ Len(acts') = Len(acts) + 1
          /\ \A i \in 1 .. Len(acts) : acts'[i] = acts[i]
          /\ acts'[Len(acts) + 1] = a
      BY <1>2, <1>3, Parts, AppendFacts
    <3>2. WordsIn({"INCLUDED"}, acts') = WordsIn({"INCLUDED"}, acts)
      BY <1>3, <2>3, <3>1, Parts DEF WordsIn
    <3> QED
      BY <1>2, <2>1, <2>3, <3>2 DEF Files
  <2> QED
    BY <2>2, <2>3
<1>9. PromptSurvives'
  <2>1. inputs'[1] = inputs[1]
    BY <1>2, <1>3, Parts, AppendFacts
  <2> QED
    BY <1>1, <1>2, <2>1 DEF IInv, PromptSurvives
<1> QED
  BY <1>1, <1>2, <1>4, <1>5, <1>6, <1>7, <1>8, <1>9, Parts, Assemble

\* A text word goes into its CATCH.
LEMMA EnterStep ==
  ASSUME IInv, Enter
  PROVE  IInv'
<1> DEFINE a == [Act EXCEPT !.phase = "inside", !.outer = frame]
<1>1. /\ Len(acts) \in Nat \ {0} /\ Act \in Activation /\ Act.word \in Texts
      /\ frame = Len(acts) - 1
  BY WhenOutside DEF Enter
<1>2. /\ a \in Activation /\ a.word = Act.word /\ a.under = Act.under
      /\ a.phase = "inside" /\ a.outer = Len(acts) - 1 /\ a.word # "CATCH"
  <2>1. frame \in Nat /\ Act.word # "CATCH"
    BY <1>1 DEF Texts
  <2>2. a \in Activation /\ a.word = Act.word /\ a.under = Act.under
    BY <1>1, <2>1 DEF Activation
  <2>3. a.phase = "inside" /\ a.outer = frame
    BY <1>1 DEF Activation
  <2> QED
    BY <1>1, <2>1, <2>2, <2>3
<1> HIDE DEF a
<1>3. acts' = WithAct(a) /\ frame' = Len(acts) /\ UNCHANGED <<session, inputs, open, process>>
  BY DEF Enter, a
<1> QED
  BY <1>1, <1>2, <1>3, LastStep

\* A program's CATCH adds itself to the chain.
LEMMA CATCHStep ==
  ASSUME IInv, CATCH
  PROVE  IInv'
<1> DEFINE a == [word |-> "CATCH", phase |-> "inside", under |-> Len(inputs),
                 outer |-> frame, threw |-> FALSE]
<1>1. Chained(acts, Len(acts)) /\ frame = Len(acts)
  BY WhenInterpreting DEF CATCH
<1>2. /\ a \in Activation /\ a.word = "CATCH" /\ a.phase = "inside" /\ a.outer = Len(acts)
      /\ a.word \notin Texts /\ a.word \notin {"INCLUDED"}
  BY <1>1, Parts DEF Activation, Texts
<1> HIDE DEF a
<1>3. /\ acts' = Append(acts, a) /\ frame' = Len(acts) + 1
      /\ UNCHANGED <<session, inputs, open, process>>
  BY DEF CATCH, a
<1>4. /\ acts' \in Seq(Activation) /\ Len(acts') = Len(acts) + 1
      /\ \A i \in 1 .. Len(acts) : acts'[i] = acts[i]
      /\ acts'[Len(acts) + 1] = a /\ Len(acts) \in Nat
  BY <1>2, <1>3, Parts, AppendFacts
<1>5. Chained(acts', frame')
  BY <1>1, <1>2, <1>3, Parts, PushChain
<1>6. /\ WordsIn(Texts, acts') = WordsIn(Texts, acts)
      /\ WordsIn({"INCLUDED"}, acts') = WordsIn({"INCLUDED"}, acts)
  BY <1>2, <1>4 DEF WordsIn
<1>7. \A i \in WordsIn(Texts, acts') : acts'[i].under = acts[i].under
  BY <1>4, <1>6 DEF WordsIn
<1> QED
  BY <1>3, <1>4, <1>5, <1>6, <1>7, SameTexts

\* What stays below the innermost activation.
LEMMA BelowFacts ==
  ASSUME IInv, Len(acts) # 0
  PROVE  /\ Below \in Seq(Activation) /\ Len(Below) = Len(acts) - 1
         /\ \A i \in 1 .. Len(acts) - 1 : Below[i] = acts[i]
         /\ Chained(Below, Len(acts) - 1)
         /\ Len(acts) \in Nat \ {0}
<1>1. acts \in Seq(Activation) /\ Len(acts) \in Nat \ {0} /\ Chained(acts, frame)
  BY Parts
<1>2. Len(acts) - 1 \in 0 .. Len(acts) /\ Len(acts) - 1 \in 0 .. frame
  BY <1>1 DEF Chained
<1>3. Chained(Below, Len(acts) - 1)
  BY <1>1, <1>2, PrefixChain DEF Below
<1> QED
  BY <1>1, <1>2, <1>3, PrefixFacts DEF Below

\* A program's CATCH returns.
LEMMA CatchReturnsStep ==
  ASSUME IInv, CatchReturns
  PROVE  IInv'
<1>1. /\ acts \in Seq(Activation) /\ Len(acts) \in Nat /\ Chained(acts, frame)
      /\ acts = <<>> <=> Len(acts) = 0
  BY Parts, EmptyFacts
<1>2. /\ Len(acts) # 0 /\ acts[Len(acts)].word = "CATCH"
      /\ acts[Len(acts)].phase = "inside" /\ frame' = acts[Len(acts)].outer
      /\ acts' = Below /\ UNCHANGED <<session, inputs, open, process>>
  BY <1>1 DEF CatchReturns, InPhase, Act
<1>3. frame' = Len(acts) - 1
  BY <1>1, <1>2 DEF Chained
<1>4. /\ acts' \in Seq(Activation) /\ Len(acts') = Len(acts) - 1
      /\ \A i \in 1 .. Len(acts) - 1 : acts'[i] = acts[i]
      /\ Chained(acts', frame')
  BY <1>2, <1>3, BelowFacts
<1>5. \A i \in 1 .. Len(acts) : i <= Len(acts') \/ acts[i].word = "CATCH"
  BY <1>1, <1>2, <1>4
<1>6. /\ WordsIn(Texts, acts') = WordsIn(Texts, acts)
      /\ WordsIn({"INCLUDED"}, acts') = WordsIn({"INCLUDED"}, acts)
  BY <1>1, <1>4, <1>5 DEF WordsIn, Texts
<1>7. \A i \in WordsIn(Texts, acts') : acts'[i].under = acts[i].under
  BY <1>4 DEF WordsIn
<1> QED
  BY <1>2, <1>4, <1>6, <1>7, SameTexts

\* A text comes to its end.
LEMMA TextEndsStep ==
  ASSUME IInv, TextEnds
  PROVE  IInv'
<1> DEFINE a == [Act EXCEPT !.phase = "after"]
<1>1. /\ acts \in Seq(Activation) /\ Len(acts) \in Nat /\ Chained(acts, frame)
      /\ acts = <<>> <=> Len(acts) = 0
  BY Parts, EmptyFacts
<1>2. /\ Len(acts) # 0 /\ Act = acts[Len(acts)] /\ Act.phase = "inside"
      /\ Act.word # "CATCH" /\ frame' = Act.outer
      /\ acts' = WithAct(a) /\ UNCHANGED <<session, inputs, open, process>>
  BY <1>1 DEF TextEnds, InPhase, Act
<1>3. Act \in Activation /\ Act.outer = Len(acts) - 1
  BY <1>1, <1>2 DEF Chained
<1>4. a \in Activation /\ a.word = Act.word /\ a.under = Act.under /\ a.phase = "after"
  BY <1>3 DEF Activation
<1> HIDE DEF a
<1> QED
  BY <1>2, <1>3, <1>4, LastStep

\* The outer interpreter comes to the end of its input.
LEMMA InputEndsStep ==
  ASSUME IInv, InputEnds
  PROVE  IInv'
<1>1. /\ acts = <<>> /\ process' = "ended"
      /\ UNCHANGED <<session, inputs, acts, frame, open>>
  BY DEF InputEnds
<1>2. PromptSurvives'
  <2> SUFFICES ASSUME session.mishaps = {}, ~session.script
               PROVE  inputs[1] = "term" /\ inputs = <<"term">>
    BY <1>1 DEF PromptSurvives
  <2>1. inputs[1] = "term"
    BY DEF IInv, PromptSurvives
  <2>2. WordsIn(Texts, acts) = {}
    BY <1>1 DEF WordsIn
  <2>3. Len(inputs) = 1
    BY <2>2, Parts, FS_EmptySet DEF Matched
  <2> QED
    BY <2>1, <2>3, Parts
<1> QED
  BY <1>1, <1>2, Parts, Assemble

\* Closing the file of the INCLUDED that ends counts it off the open ones.
LEMMA CloseFacts ==
  ASSUME IInv, NEW ph \in {"before", "after"}, InPhase(ph), Close
  PROVE  open' \in Nat /\ Files(Below, open', session.mishaps)
<1>1. /\ Len(acts) \in Nat \ {0}
      /\ Act \in Activation /\ Act.word \in Texts /\ Act = acts[Len(acts)]
  BY WhenOutside
<1>2. /\ Below \in Seq(Activation) /\ Len(Below) = Len(acts) - 1
      /\ \A i \in 1 .. Len(acts) - 1 : Below[i] = acts[i]
  BY <1>1, BelowFacts
<1>3. /\ open' = IF Act.word = "INCLUDED" THEN open - 1 ELSE open
      /\ open \in Nat /\ Files(acts, open, session.mishaps)
      /\ Cardinality(WordsIn({"INCLUDED"}, acts)) \in Nat
      /\ Cardinality(WordsIn({"INCLUDED"}, Below)) \in Nat
  BY <1>1, <1>2, Parts, WordsFinite DEF Close
<1>4. CASE Act.word = "INCLUDED"
  <2>1. Cardinality(WordsIn({"INCLUDED"}, Below))
          = Cardinality(WordsIn({"INCLUDED"}, acts)) - 1
    BY <1>1, <1>4, Parts, WordsPop DEF Below
  <2> QED
    BY <1>3, <1>4, <2>1 DEF Files
<1>5. CASE Act.word # "INCLUDED"
  <2>1. WordsIn({"INCLUDED"}, Below) = WordsIn({"INCLUDED"}, acts)
    <3>1. \A i \in 1 .. Len(acts) : i \in 1 .. Len(acts) - 1 \/ i = Len(acts)
      BY <1>1
    <3>2. \A i \in 1 .. Len(acts) - 1 : i \in 1 .. Len(acts)
      BY <1>1
    <3> QED
      BY <1>1, <1>2, <1>5, <3>1, <3>2 DEF WordsIn
  <2> QED
    BY <1>3, <1>5, <2>1 DEF Files
<1> QED
  BY <1>4, <1>5

\* CLOSE-FILE, _input_pop and THROW of what was caught.
LEMMA FinishStep ==
  ASSUME IInv, Finish
  PROVE  IInv'
<1>1. /\ process = "running" /\ Len(acts) \in Nat \ {0}
      /\ Act \in Activation /\ Act.word \in Texts /\ Act = acts[Len(acts)]
      /\ frame = Len(acts) - 1
  BY WhenOutside DEF Finish
<1>2. /\ Below \in Seq(Activation) /\ Len(Below) = Len(acts) - 1
      /\ \A i \in 1 .. Len(acts) - 1 : Below[i] = acts[i]
      /\ Chained(Below, frame)
  BY <1>1, BelowFacts
<1>3. /\ Popped \in Seq(Inputs) \ {<<>>} /\ Popped[1] = inputs[1]
      /\ Live(Below, Popped)
      /\ session.mishaps = {} => Matched(Below, Popped)
  BY <1>1, Parts, PopInputs DEF Below, Popped
<1>4. open' \in Nat /\ Files(Below, open', session.mishaps)
  BY CloseFacts DEF Finish
<1>5. (session.mishaps = {} /\ ~session.script) => Popped[1] = "term"
  BY <1>3 DEF IInv, PromptSurvives
<1>6. CASE Act.threw
  <2>1. Thrown(Below, Popped) /\ UNCHANGED session
    BY <1>6 DEF Finish
  <2>2. \A i \in 1 .. Len(Below) : ~(i > frame)
    BY <1>1, <1>2
  <2> QED
    BY <1>1, <1>2, <1>3, <1>4, <1>5, <2>1, <2>2, Parts, ThrownStep
<1>7. CASE ~Act.threw
  <2>1. /\ inputs' = Popped /\ acts' = Below
        /\ UNCHANGED <<session, frame, process>>
    BY <1>7 DEF Finish
  <2>2. PromptSurvives'
    BY <1>1, <1>5, <2>1 DEF PromptSurvives
  <2> QED
    BY <1>1, <1>2, <1>3, <1>4, <2>1, <2>2, Parts, Assemble
<1> QED
  BY <1>6, <1>7

\* A word raises an exception, or calls THROW.
LEMMA RaiseStep ==
  ASSUME IInv, Raise
  PROVE  IInv'
<1>1. process = "running" /\ frame = Len(acts)
  BY WhenInterpreting DEF Raise
<1>2. Thrown(acts, inputs) /\ UNCHANGED <<session, open>>
  BY DEF Raise
<1>3. \A i \in 1 .. Len(acts) : ~(i > frame)
  BY <1>1, Parts
<1>4. (session.mishaps = {} /\ ~session.script) => inputs[1] = "term"
  BY DEF IInv, PromptSurvives
<1> QED
  BY <1>1, <1>2, <1>3, <1>4, Parts, ThrownStep

\* BLOCK raises an exception in LOAD, before its CATCH.
LEMMA LoadThrowsStep ==
  ASSUME IInv, LoadThrows
  PROVE  IInv'
<1>1. /\ process = "running" /\ frame = Len(acts) - 1 /\ Len(acts) \in Nat \ {0}
      /\ acts[Len(acts)].word = "LOAD"
  BY WhenOutside DEF LoadThrows
<1>2. /\ Thrown(acts, inputs) /\ UNCHANGED <<session, open>>
      /\ session.mishaps # {}
  BY DEF LoadThrows
<1>3. \A i \in 1 .. Len(acts) : i > frame => acts[i].word # "INCLUDED"
  BY <1>1
<1> QED
  BY <1>1, <1>2, <1>3, Parts, ThrownStep

\* SIGINT, wherever it finds the program.
LEMMA SignalStep ==
  ASSUME IInv, Signal
  PROVE  IInv'
<1>1. /\ session.mishaps # {} /\ ~(session.mishaps \subseteq {"block"})
      /\ process = "running" /\ UNCHANGED <<session, open>>
  BY DEF Signal
<1>2. CASE session.script
  <2>1. process' = "thrown" /\ UNCHANGED <<inputs, acts, frame>>
    BY <1>2 DEF Signal
  <2>2. PromptSurvives'
    BY <1>1 DEF PromptSurvives
  <2> QED
    BY <1>1, <2>1, <2>2, Parts, Assemble
<1>3. CASE ~session.script
  <2>1. Thrown(acts, inputs)
    BY <1>3 DEF Signal
  <2> QED
    BY <1>1, <2>1, Parts, ThrownStep
<1> QED
  BY <1>2, <1>3

\* SIGINT between CLOSE-FILE and _input_pop.
LEMMA SignalAfterCloseStep ==
  ASSUME IInv, SignalAfterClose
  PROVE  IInv'
<1>1. /\ session.mishaps # {} /\ ~(session.mishaps \subseteq {"block"})
      /\ process = "running" /\ Thrown(Below, inputs) /\ UNCHANGED session
      /\ Len(acts) \in Nat \ {0} /\ frame = Len(acts) - 1
  BY WhenOutside DEF SignalAfterClose
<1>2. /\ Below \in Seq(Activation) /\ Len(Below) = Len(acts) - 1
      /\ \A i \in 1 .. Len(acts) - 1 : Below[i] = acts[i]
      /\ Chained(Below, frame)
  BY <1>1, BelowFacts
<1>3. open' \in Nat /\ Files(Below, open', session.mishaps)
  BY CloseFacts DEF SignalAfterClose
<1>4. Live(Below, inputs)
  <2>1. \A i \in 1 .. Len(Below) : i \in 1 .. Len(acts) /\ Below[i] = acts[i]
    BY <1>1, <1>2
  <2>2. /\ WordsIn(Texts, Below) \subseteq WordsIn(Texts, acts)
        /\ \A i \in WordsIn(Texts, Below) : Below[i].under = acts[i].under
    BY <2>1 DEF WordsIn
  <2> QED
    BY <2>2, Parts, FewerLive
<1> QED
  BY <1>1, <1>2, <1>3, <1>4, Parts, ThrownStep

\* SIGINT in _input_pop.
LEMMA SignalInPopStep ==
  ASSUME IInv, SignalInPop
  PROVE  IInv'
<1>1. /\ session.mishaps # {} /\ UNCHANGED <<session, inputs, frame>>
      /\ acts' = Below /\ process' = "wild"
      /\ Len(acts) \in Nat \ {0} /\ frame = Len(acts) - 1
  BY WhenOutside DEF SignalInPop
<1>2. /\ Below \in Seq(Activation) /\ Len(Below) = Len(acts) - 1
      /\ \A i \in 1 .. Len(acts) - 1 : Below[i] = acts[i]
      /\ Chained(Below, frame)
  BY <1>1, BelowFacts
<1>3. open' \in Nat /\ Files(Below, open', session.mishaps)
  BY CloseFacts DEF SignalInPop
<1>4. Live(Below, inputs)
  <2>1. \A i \in 1 .. Len(Below) : i \in 1 .. Len(acts) /\ Below[i] = acts[i]
    BY <1>1, <1>2
  <2>2. /\ WordsIn(Texts, Below) \subseteq WordsIn(Texts, acts)
        /\ \A i \in WordsIn(Texts, Below) : Below[i].under = acts[i].under
    BY <2>1 DEF WordsIn
  <2> QED
    BY <2>2, Parts, FewerLive
<1>5. PromptSurvives'
  BY <1>1 DEF PromptSurvives
<1> QED
  BY <1>1, <1>2, <1>3, <1>4, <1>5, Parts, Assemble

\* QUIT empties the return stack and leaves an input source at least.
LEMMA QUITStep ==
  ASSUME IInv, QUIT
  PROVE  IInv'
<1>1. /\ session.mishaps # {} /\ ~(session.mishaps \subseteq {"block"})
      /\ inputs' = [inputs EXCEPT ![Len(inputs)] = "term"]
      /\ acts' = <<>> /\ frame' = 0 /\ UNCHANGED <<session, open, process>>
  BY DEF QUIT
<1>2. "term" \in Inputs
  BY DEF Inputs
<1>3. inputs' \in Seq(Inputs) /\ Len(inputs') = Len(inputs)
  BY <1>1, <1>2, Parts, LastFacts
<1>4. inputs' # <<>>
  BY <1>3, Parts, EmptyFacts
<1>5. WordsIn({"INCLUDED"}, acts') = {} /\ WordsIn(Texts, acts') = {}
  BY <1>1 DEF WordsIn
<1>6. Chained(acts', frame') /\ Live(acts', inputs')
  BY <1>1, <1>5 DEF Chained, Live
<1>7. open' \in Nat /\ Files(acts', open', session'.mishaps)
  <2>1. Cardinality(WordsIn({"INCLUDED"}, acts')) = 0
    BY <1>5, FS_EmptySet
  <2>2. open' \in Nat /\ session'.mishaps = session.mishaps
    BY <1>1, Parts
  <2> QED
    BY <1>1, <2>1, <2>2 DEF Files
<1>8. PromptSurvives'
  BY <1>1 DEF PromptSurvives
<1>9. process' \in {"running", "ended", "thrown", "wild"} /\ acts' \in Seq(Activation)
  BY <1>1 DEF IInv, TypeOK
<1> QED
  BY <1>1, <1>3, <1>4, <1>6, <1>7, <1>8, <1>9, Parts, Assemble

\* post4 starts with its first input source and nothing in progress.
LEMMA InitIInv ==
  ASSUME Init
  PROVE  IInv
<1>1. /\ session \in Session /\ acts = <<>> /\ frame = 0 /\ open = 0
      /\ process = "running"
      /\ inputs = <<IF session.script THEN "file" ELSE "term">>
  BY DEF Init
<1>2. Sourced = {} /\ Included = {}
  BY <1>1 DEF Sourced, Included
<1>3. Cardinality(Sourced) = 0 /\ Cardinality(Included) = 0
  BY <1>2, FS_EmptySet
<1>4. Len(inputs) = 1 /\ inputs \in Seq(Inputs) \ {<<>>}
  BY <1>1 DEF Inputs
<1>5. TypeOK
  BY <1>1, <1>4 DEF TypeOK, Inputs
<1>6. FrameChain
  BY <1>1 DEF FrameChain
<1>7. LiveInputs
  BY <1>2 DEF LiveInputs
<1>8. InputsMatchTexts
  BY <1>2, <1>3, <1>4 DEF InputsMatchTexts
<1>9. FilesClosed
  BY <1>1, <1>3 DEF FilesClosed
<1>10. PromptSurvives
  BY <1>1 DEF PromptSurvives
<1> QED
  BY <1>5, <1>6, <1>7, <1>8, <1>9, <1>10 DEF IInv

\* Every step respects IInv.
LEMMA NextIInv ==
  ASSUME IInv, [Next]_vars
  PROVE  IInv'
<1>1. CASE UNCHANGED vars
  <2>1. TypeOK'
    BY <1>1 DEF vars, IInv, TypeOK
  <2>2. FrameChain'
    BY <1>1 DEF vars, IInv, FrameChain, Act
  <2>3. LiveInputs'
    BY <1>1 DEF vars, IInv, LiveInputs, Sourced
  <2>4. InputsMatchTexts'
    BY <1>1 DEF vars, IInv, InputsMatchTexts, Sourced
  <2>5. FilesClosed'
    BY <1>1 DEF vars, IInv, FilesClosed, Included
  <2>6. PromptSurvives'
    BY <1>1 DEF vars, IInv, PromptSurvives
  <2> QED
    BY <2>1, <2>2, <2>3, <2>4, <2>5, <2>6 DEF IInv
<1>2. CASE \E w \in Texts : Begin(w)
  BY <1>2, BeginStep
<1>3. CASE Enter
  BY <1>3, EnterStep
<1>4. CASE CATCH
  BY <1>4, CATCHStep
<1>5. CASE CatchReturns
  BY <1>5, CatchReturnsStep
<1>6. CASE TextEnds
  BY <1>6, TextEndsStep
<1>7. CASE InputEnds
  BY <1>7, InputEndsStep
<1>8. CASE Finish
  BY <1>8, FinishStep
<1>9. CASE Raise
  BY <1>9, RaiseStep
<1>10. CASE LoadThrows
  BY <1>10, LoadThrowsStep
<1>11. CASE Signal
  BY <1>11, SignalStep
<1>12. CASE QUIT
  BY <1>12, QUITStep
<1>13. CASE SignalAfterClose
  BY <1>13, SignalAfterCloseStep
<1>14. CASE SignalInPop
  BY <1>14, SignalInPopStep
<1> QED
  BY <1>1, <1>2, <1>3, <1>4, <1>5, <1>6, <1>7, <1>8, <1>9, <1>10, <1>11, <1>12, <1>13, <1>14
     DEF Next

-----------------------------------------------------------------------------
(* The theorems. *)

\* The inductive invariant holds in every reachable state, however many texts
\* are nested and whichever mishaps befall the program.
THEOREM Invariant == Spec => []IInv
<1>1. Init => IInv
  BY InitIInv
<1>2. IInv /\ [Next]_vars => IInv'
  BY NextIInv
<1> QED
  BY <1>1, <1>2, PTL DEF Spec

\* There always is an input source, and catch_frame is a depth of the return
\* stack (or zero).
THEOREM TypeCorrect == Spec => []TypeOK
<1>1. IInv => TypeOK
  BY DEF IInv
<1> QED
  BY <1>1, Invariant, PTL

\* CATCH, THROW, QUIT and the ends of texts keep catch_frame on the innermost
\* CATCH in progress, and the chain of saved frames on the ones around it.
THEOREM FramesStayChained == Spec => []FrameChain
<1>1. IInv => FrameChain
  BY DEF IInv
<1> QED
  BY <1>1, Invariant, PTL

\* Whatever throws and whatever the mishaps, no word in progress returns to an
\* input source that _input_pop has freed, unless a SIGINT struck between
\* _input_pop's FREE and its store.
THEOREM SourcesStayLive == Spec => []ReturnsToLiveInput
<1>1. IInv => ReturnsToLiveInput
  BY DEF IInv, ReturnsToLiveInput
<1> QED
  BY <1>1, Invariant, PTL

\* In a session without mishaps there is one input source for every text in
\* progress and each text is the one its word pushed, so that exceptions from
\* any depth leave every outer text where it was.
THEOREM InputsStayMatched == Spec => []InputsMatchTexts
<1>1. IInv => InputsMatchTexts
  BY DEF IInv
<1> QED
  BY <1>1, Invariant, PTL

\* INCLUDED closes its file on every way out but QUIT and a signal, and never a
\* file that is not open.
THEOREM FilesGetClosed == Spec => []FilesClosed
<1>1. IInv => FilesClosed
  BY DEF IInv
<1> QED
  BY <1>1, Invariant, PTL

\* An uncaught exception never ends an interactive session without mishaps.
THEOREM ThePromptSurvives == Spec => []PromptSurvives
<1>1. IInv => PromptSurvives
  BY DEF IInv
<1> QED
  BY <1>1, Invariant, PTL

=============================================================================
