----------------------------- MODULE JsControl -----------------------------
(***************************************************************************)
(* Control structures of JS-Forth (reference/jsforth.js): the immediate    *)
(* words that compile branches and loops, with what they keep on the data  *)
(* stack meanwhile, and the run-time words they compile.  A definition is  *)
(* compiled word by word and, once closed, executed.                       *)
(***************************************************************************)
EXTENDS Integers, Sequences

CONSTANTS
  MaxCode,   \* bound: cells of a definition
  MaxOpen    \* bound: cells the structures not closed keep on the stack

\* The definition's first cell; addresses are above every structure's tag.
Base == 10

VARIABLES
  code,       \* names of the words compiled, "operand" for the cells between
  cell,       \* the operands
  cs,         \* what the structures keep on the data stack, top last
  innerloop, innercase,
  mode,       \* "compiling" or "running"
  ip,         \* index in code of the next word
  rs          \* loop parameters on the return stack

controlVars == <<code, cell, cs, innerloop, innercase, mode, ip, rs>>

ControlInit ==
  /\ code = <<>> /\ cell = <<>> /\ cs = <<>>
  /\ innerloop = 0 /\ innercase = 0
  /\ mode = "compiling" /\ ip = 1 /\ rs = <<>>

here == Base + Len(code)

\* The i-th cell of the stack, counted from its top.
Top(i) == cs[Len(cs) - i + 1]
Under(n) == SubSeq(cs, 1, Len(cs) - n)

Patched(f, a, x) == [f EXCEPT ![a - Base + 1] = x]

\* structured: the structure to be closed is the one with this tag.
Structured(tags) == cs # <<>> /\ Top(1) \in tags

\* A word and its operand are compiled, and cells at the addresses in open are
\* resolved to what follows them.
Compiles(word, x, open) ==
  LET longer == code \o <<word, "operand">>
      end == here + 2
  IN /\ Len(longer) <= MaxCode
     /\ code' = longer
     /\ cell' = [i \in DOMAIN longer |->
                   IF i = Len(longer) THEN x
                   ELSE IF Base + i - 1 \in open THEN end - (Base + i - 1)
                   ELSE IF i <= Len(code) THEN cell[i] ELSE 0]

\* Mutant: resolves to the cell it is at itself.
BackToMark(a) == a - here

\* The offset back to address a, from the operand of the word compiled next.
Back(a) == a - (here + 1)

-----------------------------------------------------------------------------
(* Immediate words. *)

IfWord ==
  /\ Compiles("(0branch)", 0, {})
  /\ cs' = cs \o <<here + 1, 1>>
  /\ UNCHANGED <<innerloop, innercase>>

ElseWord ==
  /\ Structured({1})
  /\ Compiles("(branch)", 0, {Top(2)})
  /\ cs' = Under(2) \o <<here + 1, 2>>
  /\ UNCHANGED <<innerloop, innercase>>

ThenWord ==
  /\ Structured({1, 2})
  /\ cell' = Patched(cell, Top(2), here - Top(2))
  /\ cs' = Under(2)
  /\ UNCHANGED <<code, innerloop, innercase>>

BeginWord ==
  /\ cs' = cs \o <<here, 3>>
  /\ UNCHANGED <<code, cell, innerloop, innercase>>

WhileWord ==
  /\ Structured({3})
  /\ Compiles("(0branch)", 0, {})
  /\ cs' = Under(1) \o <<here + 1, 4>>
  /\ UNCHANGED <<innerloop, innercase>>

RepeatWord ==
  /\ Structured({4})
  /\ Compiles("(branch)", Back(Top(3)), {Top(2)})
  /\ cs' = Under(3)
  /\ UNCHANGED <<innerloop, innercase>>

\* AGAIN, UNTIL
AgainWord(branch) ==
  /\ Structured({3})
  /\ Compiles(branch, Back(Top(2)), {})
  /\ cs' = Under(2)
  /\ UNCHANGED <<innerloop, innercase>>

\* DO, ?DO, FOR: the loop outside is kept on the stack.
DoWord(word, tag) ==
  /\ Compiles(word, 0, {})
  /\ cs' = cs \o <<innerloop, here + 1, tag>>
  /\ innerloop' = here + 1
  /\ UNCHANGED innercase

\* LOOP, +LOOP, NEXT
LoopWord(word, tag) ==
  /\ Structured({tag})
  /\ Compiles(word, Back(Top(2) + 1), {Top(2)})
  /\ innerloop' = Top(3)
  /\ cs' = Under(3)
  /\ UNCHANGED innercase

\* LEAVE, ?LEAVE: the operand is the address of the loop's own operand.
LeaveWord(word) ==
  /\ innerloop # 0
  /\ Compiles(word, innerloop, {})
  /\ UNCHANGED <<cs, innerloop, innercase>>

CaseWord ==
  /\ cs' = cs \o <<innercase, 7>>
  /\ innercase' = 0
  /\ UNCHANGED <<code, cell, innerloop>>

\* OF is not checked to be inside CASE.
OfWord ==
  /\ Compiles("(of)", 0, {})
  /\ cs' = cs \o <<here + 1, 8>>
  /\ innercase' = innercase + 1
  /\ UNCHANGED innerloop

EndofWord ==
  /\ Structured({8})
  /\ Compiles("(branch)", 0, {Top(2)})
  /\ cs' = Under(2) \o <<here + 1>>
  /\ UNCHANGED <<innerloop, innercase>>

EndofBranches == {Top(i) : i \in 1 .. innercase}

\* ENDCASE resolves as many cells as there were OFs and only then looks for
\* its tag: with an OF still open it stores to an address below 9 first.
EndcaseWord ==
  /\ Len(cs) >= innercase + 2 /\ Top(innercase + 1) = 7
  /\ code' = Append(code, "drop")
  /\ Len(code) < MaxCode
  /\ cell' = [i \in DOMAIN code' |->
                IF Base + i - 1 \in EndofBranches THEN here + 1 - (Base + i - 1)
                ELSE IF i <= Len(code) THEN cell[i] ELSE 0]
  /\ innercase' = Top(innercase + 2)
  /\ cs' = Under(innercase + 2)
  /\ UNCHANGED innerloop

\* unstructured (-66) and LEAVE outside a loop (-26): the definition is given
\* up, and warminit clears the stack, innerloop and innercase.
Throws ==
  /\ mode = "compiling"
  /\ innerloop = 0 \/ \E tag \in 1 .. 8 : ~Structured({tag})
  /\ code' = <<>> /\ cell' = <<>> /\ cs' = <<>>
  /\ innerloop' = 0 /\ innercase' = 0
  /\ UNCHANGED <<mode, ip, rs>>

Immediate ==
  /\ mode = "compiling"
  /\ UNCHANGED <<mode, ip, rs>>
  /\ \/ IfWord \/ ElseWord \/ ThenWord
     \/ BeginWord \/ WhileWord \/ RepeatWord
     \/ AgainWord("(branch)") \/ AgainWord("(0branch)")
     \/ DoWord("(do)", 5) \/ DoWord("(?do)", 5) \/ DoWord("(for)", 6)
     \/ LoopWord("(loop)", 5) \/ LoopWord("(+loop)", 5) \/ LoopWord("(next)", 6)
     \/ LeaveWord("(leave)") \/ LeaveWord("(?leave)")
     \/ CaseWord \/ OfWord \/ EndofWord \/ EndcaseWord
  /\ Len(cs') <= MaxOpen

-----------------------------------------------------------------------------
(* Run-time words.  Flags and loop parameters are a program's, from a few. *)

\* ; checks no structure; then the word is run.  cs and innerloop stay what they
\* were, to tell which structures were left open.
Run ==
  /\ mode = "compiling" /\ Len(code) > 0
  /\ mode' = "running"
  /\ UNCHANGED <<code, cell, cs, innerloop, innercase, ip, rs>>

Executing(words) == mode = "running" /\ ip <= Len(code) /\ code[ip] \in words

Past == ip + 2
Target == ip + 1 + cell[ip + 1]

Goes(to) == ip' = to /\ UNCHANGED <<code, cell, cs, innerloop, innercase, mode>>

forthbranch == Executing({"(branch)"}) /\ Goes(Target) /\ UNCHANGED rs

\* (0branch) with either flag, (of) with a case that matches or not.
forth0branch ==
  /\ Executing({"(0branch)", "(of)"})
  /\ \E to \in {Past, Target} : Goes(to)
  /\ UNCHANGED rs

forthdrop == Executing({"drop"}) /\ Goes(ip + 1) /\ UNCHANGED rs

forthbrfor ==
  /\ Executing({"(for)"})
  /\ Goes(Past)
  /\ \E n \in {1, 2} : rs' = rs \o <<n, n>>

\* (do), and (?do) unless limit and start are equal.
forthbrdo ==
  /\ Executing({"(do)", "(?do)"})
  /\ \E limit \in {1, 2} : rs' = rs \o <<limit, 0>>
  /\ Goes(Past)

forthbrqdo ==
  /\ Executing({"(?do)"})
  /\ Goes(Target)
  /\ UNCHANGED rs

Index == rs[Len(rs)]
Limit == rs[Len(rs) - 1]
Unlooped == SubSeq(rs, 1, Len(rs) - 2)

forthbrnext ==
  /\ Executing({"(next)"})
  /\ IF Index - 1 # 0 THEN Goes(Target) /\ rs' = [rs EXCEPT ![Len(rs)] = @ - 1]
     ELSE Goes(Past) /\ rs' = Unlooped

forthbrloop ==
  /\ Executing({"(loop)"})
  /\ IF Index + 1 # Limit THEN Goes(Target) /\ rs' = [rs EXCEPT ![Len(rs)] = @ + 1]
     ELSE Goes(Past) /\ rs' = Unlooped

\* The sign of index - limit decides, and a step of zero leaves.
forthbrplusloop ==
  /\ Executing({"(+loop)"})
  /\ \E n \in {0, 1, 2} :
       LET old == Index - Limit
           new == old + n
       IN IF new # old /\ (new < 0) = (old < 0)
          THEN Goes(Target) /\ rs' = [rs EXCEPT ![Len(rs)] = @ + n]
          ELSE Goes(Past) /\ rs' = Unlooped

\* Mutant: the loop's parameters stay on the return stack.
ParametersKept == rs

ParametersDropped == Unlooped

\* Through the address it was compiled with to the loop's operand, and on.
LeaveTarget == LET o == cell[ip + 1] - Base + 1 IN o + cell[o]

forthbrleave ==
  /\ Executing({"(leave)", "(?leave)"})
  /\ Goes(LeaveTarget)
  /\ rs' = ParametersDropped

forthbrqleave ==
  /\ Executing({"(?leave)"})
  /\ Goes(Past)
  /\ UNCHANGED rs

ControlNext ==
  \/ Immediate
  \/ Throws
  \/ Run
  \/ forthbranch \/ forth0branch \/ forthdrop
  \/ forthbrfor \/ forthbrdo \/ forthbrqdo
  \/ forthbrnext \/ forthbrloop \/ forthbrplusloop
  \/ forthbrleave \/ forthbrqleave

ControlSpec == ControlInit /\ [][ControlNext]_controlVars

-----------------------------------------------------------------------------
(* Properties. *)

\* What the structures left open would still have resolved.
LeftOpen == {cs[i] : i \in DOMAIN cs}

\* The inner interpreter takes every word from a cell that holds one: no branch,
\* no loop and no LEAVE, of whichever structure, goes outside or to an operand,
\* but for the operand of a structure left open: it is 0, and the branch or
\* LEAVE that goes there takes the operand for a word, where the model stops.
LandsOnWords ==
  mode = "running" =>
    /\ ip \in 1 .. Len(code) + 1
    /\ ip <= Len(code) /\ code[ip] = "operand" => Base + ip - 1 \in LeftOpen

\* EXIT at the end finds the caller's ip: LOOP, +LOOP, NEXT, LEAVE and ?LEAVE,
\* in loops nested in any way and none left open, have taken exactly their own
\* parameters off the return stack.
LoopsUnwound ==
  (mode = "running" /\ ip = Len(code) + 1 /\ innerloop = 0) => rs = <<>>

=============================================================================
