------------------------------- MODULE Interp -------------------------------
(***************************************************************************)
(* Interpreting texts within texts: the input sources that EVALUATE,       *)
(* INCLUDED and LOAD push and pop, CATCH and THROW, and what the outer     *)
(* interpreter p4Repl does with what nobody catches.                       *)
(*                                                                         *)
(* Each of the three words pushes an input source, interprets it under a   *)
(* CATCH of its own, pops the source and passes a caught exception on.     *)
(* THROW cuts the return stack back to the frame of the innermost CATCH    *)
(* and touches no input source.  Exceptions differ in their number only,   *)
(* which nothing here depends on; QUIT is not an exception.                *)
(***************************************************************************)
EXTENDS Naturals, Sequences, FiniteSets

CONSTANTS
  MaxActs,    \* bound: activations in progress
  MaxInputs,  \* bound: input sources in existence, and files open
  Mishaps     \* which of "block", "quit" and "signal" may happen

ASSUME BoundsAssumption == MaxActs \in Nat \ {0} /\ MaxInputs \in Nat \ {0}
ASSUME MishapsAssumption == Mishaps \subseteq {"block", "quit", "signal"}

VARIABLES
  session, \* how post4 was started, and the mishaps that may befall it
  inputs,  \* the input sources; the last is the one ctx.input points to
  acts,    \* the return stack: the words in progress, outermost first
  frame,   \* catch_frame: which of acts is the innermost CATCH, 0 for none
  open,    \* files INCLUDED opened and nobody closed yet
  process  \* "running"; "ended" by the end of its input, "thrown" by an
           \* exception; "wild" once the current input source is a freed one

vars == <<session, inputs, acts, frame, open, process>>

Texts == {"EVALUATE", "INCLUDED", "LOAD"}
Kind == [EVALUATE |-> "string", INCLUDED |-> "file", LOAD |-> "block"]

\* A text word is before, inside or after its CATCH; `under` is the input
\* source to return to, `outer` the frame that CATCH saved, `threw` whether
\* CATCH returned an exception.  A program's own CATCH is an activation too.
Activation ==
  [word : Texts \cup {"CATCH"}, phase : {"before", "inside", "after"},
   under : Nat, outer : Nat, threw : BOOLEAN]

Session == [script : BOOLEAN, mishaps : SUBSET Mishaps]

CurrentOf(ins) == ins[Len(ins)]
Act == acts[Len(acts)]
WithAct(a) == [acts EXCEPT ![Len(acts)] = a]
Below == SubSeq(acts, 1, Len(acts) - 1)

\* A program's words run: the outer interpreter's, or those inside a CATCH.
Interpreting ==
  process = "running" /\ (acts # <<>> => Act.phase = "inside")

InPhase(p) == process = "running" /\ acts # <<>> /\ Act.phase = p

-----------------------------------------------------------------------------
(* Exceptions. *)

\* p4Repl's SETJMP, reached without a CATCH frame: a terminal gets a new
\* prompt with empty stacks, any other input source makes p4Repl return.
ToRepl(rs, ins) ==
  /\ frame = 0
  /\ IF CurrentOf(ins) = "term"
     THEN acts' = <<>> /\ UNCHANGED process
     ELSE acts' = rs /\ process' = "thrown"
  /\ UNCHANGED frame

\* THROW with a CATCH frame: what is above it goes, whatever it was doing.
ToCatch(rs) ==
  /\ frame # 0
  /\ LET a == rs[frame]
         rest == SubSeq(rs, 1, frame - 1)
     IN /\ acts' = IF a.word = "CATCH"
                   THEN rest
                   ELSE Append(rest, [a EXCEPT !.phase = "after", !.threw = TRUE])
        /\ frame' = a.outer
  /\ UNCHANGED process

\* An exception, with the return stack at rs and the input sources at ins.
Thrown(rs, ins) ==
  /\ inputs' = ins
  /\ ToRepl(rs, ins) \/ ToCatch(rs)

\* Any word may raise one, or call THROW.
Raise ==
  /\ Interpreting
  /\ Thrown(acts, inputs)
  /\ UNCHANGED <<session, open>>

\* LOAD's BLOCK raises -35 for block zero, -33 for a failed read or -9 with no
\* block file: after LOAD pushed its input source and before its CATCH.
LoadThrows ==
  /\ "block" \in session.mishaps
  /\ InPhase("before")
  /\ Act.word = "LOAD"
  /\ Thrown(acts, inputs)
  /\ UNCHANGED <<session, open>>

\* SIGINT goes to p4Repl through main's SETJMP, which for a script is the one
\* that ends the process.
Signal ==
  /\ "signal" \in session.mishaps
  /\ process = "running"
  /\ IF session.script
     THEN process' = "thrown" /\ UNCHANGED <<inputs, acts, frame>>
     ELSE Thrown(acts, inputs)
  /\ UNCHANGED <<session, open>>

\* QUIT runs in p4Repl: the return stack and the frame go, no CATCH hears of
\* it, and the current input source becomes the terminal's.
QUIT ==
  /\ "quit" \in session.mishaps
  /\ Interpreting
  /\ inputs' = [inputs EXCEPT ![Len(inputs)] = "term"]
  /\ acts' = <<>>
  /\ frame' = 0
  /\ UNCHANGED <<session, open, process>>

-----------------------------------------------------------------------------
(* The words. *)

\* Mutant: _input_push saves the input pointer after having changed it.
BeginLatePush(w) ==
  /\ Interpreting
  /\ Len(acts) < MaxActs /\ Len(inputs) < MaxInputs /\ open < MaxInputs
  /\ inputs' = Append(inputs, Kind[w])
  /\ acts' = Append(acts, [word |-> w, phase |-> "before", under |-> Len(inputs'),
                           outer |-> 0, threw |-> FALSE])
  /\ open' = IF w = "INCLUDED" THEN open + 1 ELSE open
  /\ UNCHANGED <<session, frame, process>>

\* EVALUATE, INCLUDED (its file already open) and LOAD up to their CATCH.
Begin(w) ==
  /\ Interpreting
  /\ Len(acts) < MaxActs /\ Len(inputs) < MaxInputs /\ open < MaxInputs
  /\ inputs' = Append(inputs, Kind[w])
  /\ acts' = Append(acts, [word |-> w, phase |-> "before", under |-> Len(inputs),
                           outer |-> 0, threw |-> FALSE])
  /\ open' = IF w = "INCLUDED" THEN open + 1 ELSE open
  /\ UNCHANGED <<session, frame, process>>

\* Mutant: CATCH records the return stack's depth one too deep.
EnterTooDeep ==
  /\ InPhase("before")
  /\ acts' = WithAct([Act EXCEPT !.phase = "inside", !.outer = frame])
  /\ frame' = Len(acts) + 1
  /\ UNCHANGED <<session, inputs, open, process>>

\* CATCH of _interpret or _eval_file.
Enter ==
  /\ InPhase("before")
  /\ acts' = WithAct([Act EXCEPT !.phase = "inside", !.outer = frame])
  /\ frame' = Len(acts)
  /\ UNCHANGED <<session, inputs, open, process>>

\* A program's own CATCH.
CATCH ==
  /\ Interpreting
  /\ Len(acts) < MaxActs
  /\ acts' = Append(acts, [word |-> "CATCH", phase |-> "inside", under |-> Len(inputs),
                           outer |-> frame, threw |-> FALSE])
  /\ frame' = Len(acts) + 1
  /\ UNCHANGED <<session, inputs, open, process>>

\* The word a program's CATCH executes returns.
CatchReturns ==
  /\ InPhase("inside")
  /\ Act.word = "CATCH"
  /\ acts' = Below
  /\ frame' = Act.outer
  /\ UNCHANGED <<session, inputs, open, process>>

\* Mutant: CATCH returns without storing the outer frame in catch_frame.
TextEndsKeepingFrame ==
  /\ InPhase("inside")
  /\ Act.word # "CATCH"
  /\ acts' = WithAct([Act EXCEPT !.phase = "after"])
  /\ UNCHANGED <<session, inputs, frame, open, process>>

\* _interpret finds its input exhausted and CATCH returns zero.
TextEnds ==
  /\ InPhase("inside")
  /\ Act.word # "CATCH"
  /\ acts' = WithAct([Act EXCEPT !.phase = "after"])
  /\ frame' = Act.outer
  /\ UNCHANGED <<session, inputs, open, process>>

\* The outer interpreter finds its input, whichever it is, exhausted.
InputEnds ==
  /\ process = "running"
  /\ acts = <<>>
  /\ process' = "ended"
  /\ UNCHANGED <<session, inputs, acts, frame, open>>

Close == open' = IF Act.word = "INCLUDED" THEN open - 1 ELSE open

Popped == SubSeq(inputs, 1, Act.under)

\* Mutants: a caught exception passed on before _input_pop, before CLOSE-FILE.
FinishThrowFirst ==
  /\ InPhase("after")
  /\ IF Act.threw
     THEN Thrown(Below, inputs)
     ELSE inputs' = Popped /\ acts' = Below /\ UNCHANGED <<frame, process>>
  /\ Close
  /\ UNCHANGED session
FinishLeavingOpen ==
  /\ InPhase("after")
  /\ IF Act.threw
     THEN Thrown(Below, Popped) /\ UNCHANGED open
     ELSE inputs' = Popped /\ acts' = Below /\ Close /\ UNCHANGED <<frame, process>>
  /\ UNCHANGED session

\* After CATCH: CLOSE-FILE, _input_pop, and THROW of what CATCH returned.
Finish ==
  /\ InPhase("after")
  /\ IF Act.threw
     THEN Thrown(Below, Popped)
     ELSE inputs' = Popped /\ acts' = Below /\ UNCHANGED <<frame, process>>
  /\ Close
  /\ UNCHANGED session

\* SIGINT after INCLUDED's CLOSE-FILE and before _input_pop.
SignalAfterClose ==
  /\ "signal" \in session.mishaps /\ ~session.script
  /\ InPhase("after")
  /\ Thrown(Below, inputs)
  /\ Close
  /\ UNCHANGED session

\* SIGINT in _input_pop, between the FREE and the store of the outer pointer.
\* Whoever catches it, p4Repl too, goes on with an input source that was freed;
\* what it then reads is undefined, and the model follows it no further.
SignalInPop ==
  /\ "signal" \in session.mishaps /\ ~session.script
  /\ InPhase("after")
  /\ acts' = Below
  /\ Close
  /\ process' = "wild"
  /\ UNCHANGED <<session, inputs, frame>>

Init ==
  /\ session \in Session
  /\ inputs = <<IF session.script THEN "file" ELSE "term">>
  /\ acts = <<>>
  /\ frame = 0
  /\ open = 0
  /\ process = "running"

Next ==
  \/ \E w \in Texts : Begin(w)
  \/ Enter
  \/ CATCH
  \/ CatchReturns
  \/ TextEnds
  \/ InputEnds
  \/ Finish
  \/ Raise
  \/ LoadThrows
  \/ Signal
  \/ SignalAfterClose
  \/ SignalInPop
  \/ QUIT

Spec == Init /\ [][Next]_vars

-----------------------------------------------------------------------------
Included == {i \in 1 .. Len(acts) : acts[i].word = "INCLUDED"}
Sourced == {i \in 1 .. Len(acts) : acts[i].word \in Texts}

\* The shape of the state.
TypeOK ==
  /\ session \in Session
  /\ inputs \in Seq({"term", "file", "string", "block"}) \ {<<>>}
  /\ acts \in Seq(Activation)
  /\ frame \in 0 .. Len(acts)
  /\ open \in Nat
  /\ process \in {"running", "ended", "thrown", "wild"}

\* The chain of frames through CATCH, THROW and the pointer they share: every
\* word but the last is inside its CATCH, and a program's CATCH always is; each
\* CATCH saved the frame of the one around it, and catch_frame is the innermost.
\* So THROW never restores a depth of the return stack that was given up.
FrameChain ==
  /\ \A i \in 1 .. Len(acts) :
       /\ i < Len(acts) \/ acts[i].word = "CATCH" => acts[i].phase = "inside"
       /\ acts[i].phase = "inside" => acts[i].outer = i - 1
  /\ frame = IF acts = <<>> \/ Act.phase = "inside" THEN Len(acts) ELSE Len(acts) - 1

LiveInputs ==
  \A i \in Sourced :
    /\ acts[i].under \in 1 .. Len(inputs) - 1
    /\ \A k \in Sourced : k < i => acts[k].under < acts[i].under

\* No input source that a word in progress will return to has been freed by
\* _input_pop, whatever befell the words above it.  One case is excepted: after
\* a SIGINT between _input_pop's FREE and its store (SignalInPop) the current
\* source is a freed one, and the next EVALUATE would return to it.
ReturnsToLiveInput == process # "wild" => LiveInputs

\* Without mishaps, input sources and words in progress match one to one, so
\* every text goes on where it was left when a text inside it ends or throws.
InputsMatchTexts ==
  session.mishaps = {} =>
    /\ Len(inputs) = 1 + Cardinality(Sourced)
    /\ \A i \in Sourced : acts[i].under = Cardinality({k \in Sourced : k <= i})

\* INCLUDED closes its file on every way out, a throw from an inner LOAD's
\* prologue too; only QUIT and a signal between CATCH and CLOSE-FILE do not, and
\* even then no INCLUDED closes a file that is not open.
FilesClosed ==
  /\ open >= Cardinality(Included)
  /\ session.mishaps \subseteq {"block"} => open = Cardinality(Included)

\* Without mishaps an interactive process ends by the end of terminal input.
PromptSurvives ==
  (~session.script /\ session.mishaps = {}) =>
    /\ inputs[1] = "term"
    /\ process # "thrown"
    /\ process = "ended" => inputs = <<"term">>

\* doc/standard.md:1020, THROW: "Then restore the input source specification in
\* use before the corresponding `CATCH`".  So whenever a program's CATCH is left,
\* the input source is the one in use when it was entered.  The code's THROW
\* restores none, and LOAD may throw before the CATCH that would pop its own.
CatchRestoresInput ==
  [][\A i \in 1 .. Len(acts) :
       (acts[i].word = "CATCH" /\ i > Len(acts')) => Len(inputs') = acts[i].under]_vars

=============================================================================
