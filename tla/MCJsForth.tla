------------------------------ MODULE MCJsForth ------------------------------
(***************************************************************************)
(* The word sets of JS-Forth, in one run: a behaviour is one of a part, and *)
(* the others stay as they are.                                             *)
(***************************************************************************)
EXTENDS JsStack, JsFloat, JsControl, JsHeap, JsConsole, JsMath, JsNames, JsSources

VARIABLE part

allVars ==
  <<part, stackVars, floatOnly, controlVars, heapVars, consoleVars, mathVars, namesVars, sourcesVars>>

MCTyped == {<<"t">>, <<"t", "t", "t", "t", "t", "t", "t">>}
MCNumbers == {-1, 0, 27}
MCCells == {-1, 0, 1, 3}
MCCorners == {-32, -31, -1, 0, 1, 2, 31}

Init ==
  /\ part \in {"stack", "float", "control", "heap", "console", "math", "names", "sources"}
  /\ FloatInit /\ ControlInit /\ HeapInit /\ ConsoleInit /\ MathInit /\ NamesInit
  /\ SourcesInit

StackPart ==
  /\ part = "stack" /\ StackNext
  /\ UNCHANGED <<part, floatOnly, controlVars, heapVars, consoleVars, mathVars, namesVars,
                 sourcesVars>>

FloatPart ==
  /\ part = "float" /\ FloatNext
  /\ UNCHANGED <<part, controlVars, heapVars, consoleVars, mathVars, namesVars, sourcesVars>>

ControlPart ==
  /\ part = "control" /\ ControlNext
  /\ UNCHANGED <<part, floatVars, heapVars, consoleVars, mathVars, namesVars, sourcesVars>>

HeapPart ==
  /\ part = "heap" /\ HeapNext
  /\ UNCHANGED <<part, floatVars, controlVars, consoleVars, mathVars, namesVars, sourcesVars>>

ConsolePart ==
  /\ part = "console" /\ ConsoleNext
  /\ UNCHANGED <<part, floatVars, controlVars, heapVars, mathVars, namesVars, sourcesVars>>

MathPart ==
  /\ part = "math" /\ MathNext
  /\ UNCHANGED <<part, floatVars, controlVars, heapVars, consoleVars, namesVars, sourcesVars>>

NamesPart ==
  /\ part = "names" /\ NamesNext
  /\ UNCHANGED <<part, floatVars, controlVars, heapVars, consoleVars, mathVars, sourcesVars>>

SourcesPart ==
  /\ part = "sources" /\ SourcesNext
  /\ UNCHANGED <<part, floatVars, controlVars, heapVars, consoleVars, mathVars, namesVars>>

Next ==
  \/ StackPart
  \/ FloatPart
  \/ ControlPart
  \/ HeapPart
  \/ ConsolePart
  \/ MathPart
  \/ NamesPart
  \/ SourcesPart

Spec == Init /\ [][Next]_allVars

=============================================================================
