----------------------------- MODULE JsConsole -----------------------------
(***************************************************************************)
(* The terminal of JS-Forth (reference/jsforth.js): the lines on screen,   *)
(* which break and scroll, and ACCEPT, which edits a line in memory and    *)
(* keeps its echo in step by appending to the screen's last line and by    *)
(* deleting from it.                                                       *)
(***************************************************************************)
EXTENDS Integers, Sequences

CONSTANTS
  LineLen,   \* the source's linelen
  Lines,     \* the source's lines
  Keys,      \* printable keys
  Typed,     \* strings a program types
  TibSize    \* characters ACCEPT is asked for

\* The characters there are on screen.
Chars == Keys \cup UNION {{str[i] : i \in DOMAIN str} : str \in Typed}

ASSUME ScreenAssumption == LineLen \in Nat \ {0} /\ Lines \in Nat \ {0} /\ TibSize \in Nat
ASSUME TypedAssumption == Typed \subseteq Seq(Chars)

VARIABLES
  terminal,       \* the lines on screen
  charsperline,   \* their lengths, as counted
  linesonscreen,  \* their number, as counted
  input,          \* what ACCEPT has stored
  nkeys,          \* keys ACCEPT takes, plus one; 0 outside ACCEPT
  before,         \* history: the last line when ACCEPT started
  broken          \* history: a line broke since

screen == <<terminal, charsperline, linesonscreen>>
consoleVars == <<screen, input, nkeys, before, broken>>

ConsoleInit ==
  /\ terminal = << <<>> >> /\ charsperline = <<0>> /\ linesonscreen = 1
  /\ input = <<>> /\ nkeys = 0 /\ before = <<>> /\ broken = FALSE

-----------------------------------------------------------------------------
(* Output. *)

Screen == [t |-> terminal, c |-> charsperline, n |-> linesonscreen]
Shows(z) == terminal' = z.t /\ charsperline' = z.c /\ linesonscreen' = z.n

\* Without the first k lines.
Without(z, k) ==
  [t |-> SubSeq(z.t, k + 1, Len(z.t)), c |-> SubSeq(z.c, k + 1, Len(z.c)), n |-> z.n - k]

\* Mutant: cut one character early.
CutEarly(z) == LineLen - 1

CutAt(z) == LineLen

\* One turn of the loop in type(): the last line is cut; the screen scrolls
\* only when it has one line too many already.
Broken(z) ==
  LET y == IF z.n > Lines THEN Without(z, 1) ELSE z
      cut == CutAt(z)
  IN [t |-> Append([y.t EXCEPT ![y.n] = SubSeq(@, 1, cut)],
                   SubSeq(y.t[y.n], cut + 1, Len(y.t[y.n]))),
      c |-> Append([y.c EXCEPT ![y.n] = LineLen], y.c[y.n] - LineLen),
      n |-> y.n + 1]

Breaks(z, str) ==
  LET long == z.c[z.n] + Len(str)
  IN IF long <= LineLen THEN 0 ELSE (long - 1) \div LineLen

type(z, str) ==
  LET after[k \in 0 .. Breaks(z, str)] ==
        IF k = 0
        THEN [z EXCEPT !.t[z.n] = @ \o str, !.c[z.n] = @ + Len(str)]
        ELSE Broken(after[k - 1])
  IN after[Breaks(z, str)]

cr(z) ==
  LET y == [t |-> Append(z.t, <<>>), c |-> Append(z.c, 0), n |-> z.n + 1]
  IN IF y.n > Lines THEN Without(y, y.n - Lines) ELSE y

\* All lines but one are popped, and that one is emptied.
cls(z) == [t |-> << <<>> >>, c |-> <<0>>, n |-> 1]

\* Deletes from the last line only.
backspaces(z, n) ==
  LET left == IF z.c[z.n] < n THEN 0 ELSE z.c[z.n] - n
  IN [z EXCEPT !.t[z.n] = SubSeq(@, 1, left), !.c[z.n] = left]

\* Breaks the line if the string does not fit.
querytype(z, str) == type(IF z.c[z.n] + Len(str) > LineLen THEN cr(z) ELSE z, str)

-----------------------------------------------------------------------------
(* A program's output, and the words of ACCEPT. *)

Output ==
  /\ nkeys = 0
  /\ \/ \E str \in Typed : Shows(type(Screen, str)) \/ Shows(querytype(Screen, str))
     \/ Shows(cr(Screen))
     \/ Shows(cls(Screen))
  /\ UNCHANGED <<input, nkeys, before, broken>>

Accept ==
  /\ nkeys = 0
  /\ nkeys' = TibSize + 1
  /\ input' = <<>>
  /\ before' = terminal[linesonscreen]
  /\ UNCHANGED <<screen, broken>>

\* Mutant: the last place is used too.
RoomForOneMore == nkeys > 0

RoomLeft == nkeys > 1

forthacceptprintable(key) ==
  /\ nkeys > 0
  /\ IF RoomLeft
     THEN /\ input' = Append(input, key) /\ nkeys' = nkeys - 1
          /\ Shows(type(Screen, <<key>>))
          /\ broken' = (broken \/ Breaks(Screen, <<key>>) > 0)
     ELSE UNCHANGED <<input, nkeys, screen, broken>>
  /\ UNCHANGED before

forthacceptescape ==
  /\ nkeys > 0
  /\ nkeys' = nkeys + Len(input)
  /\ Shows(backspaces(Screen, Len(input)))
  /\ input' = <<>>
  /\ UNCHANGED <<before, broken>>

forthacceptbackspace ==
  /\ nkeys > 0
  /\ IF input = <<>> THEN UNCHANGED <<nkeys, input, screen>>
     ELSE /\ nkeys' = nkeys + 1 /\ input' = SubSeq(input, 1, Len(input) - 1)
          /\ Shows(backspaces(Screen, 1))
  /\ UNCHANGED <<before, broken>>

forthacceptreturn ==
  /\ nkeys > 0
  /\ nkeys' = 0 /\ before' = <<>> /\ broken' = FALSE
  /\ UNCHANGED <<screen, input>>

ConsoleNext ==
  \/ Output
  \/ Accept
  \/ \E key \in Keys : forthacceptprintable(key)
  \/ forthacceptescape
  \/ forthacceptbackspace
  \/ forthacceptreturn

ConsoleSpec == ConsoleInit /\ [][ConsoleNext]_consoleVars

-----------------------------------------------------------------------------
(* Properties. *)

\* The counts agree with the text they count, through breaking, scrolling and
\* deleting; no line is longer than the terminal is wide, and the screen has at
\* most one line too many, which the next cr takes away.
ScreenCounted ==
  /\ linesonscreen = Len(terminal) /\ linesonscreen \in 1 .. Lines + 1
  /\ Len(charsperline) = Len(terminal)
  /\ \A i \in DOMAIN terminal :
       charsperline[i] = Len(terminal[i]) /\ charsperline[i] <= LineLen

\* ACCEPT stores no more than it was asked for, and as long as no line broke
\* what the screen shows after the prompt is what is in memory.  (Once a line
\* broke, deleting stops at the start of the last line, and the two differ.)
EchoIsInput ==
  /\ Len(input) <= TibSize
  /\ nkeys > 0 => Len(input) + nkeys = TibSize + 1
  /\ (nkeys > 0 /\ ~broken) => terminal[linesonscreen] = before \o input

=============================================================================
