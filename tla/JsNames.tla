------------------------------ MODULE JsNames ------------------------------
(***************************************************************************)
(* The dictionary of JS-Forth (reference/jsforth.js): headers, numbered    *)
(* from 1, each in one vocabulary; the search order, which is the context  *)
(* and the vocabularies stacked by ALSO; and markers, with which a program *)
(* forgets words.  The words of the system are one header of FORTH that    *)
(* stands for all of them, and the word FORTH itself, which ONLY has too.  *)
(***************************************************************************)
EXTENDS Integers, Sequences

CONSTANTS
  Names,      \* names a program gives its words
  MaxHeads,   \* bound: headers of the program's words
  MaxVocs,    \* vocabularies there are bits for, the system's not counted
  MaxOrder    \* bound: vocabularies stacked

\* The bits of the vocabularies, by their numbers; the program's come next.
Undefined == 0
Only == 1
Forth == 2

VARIABLES
  heads,            \* the headers up to wc
  context,          \* m[context]; Undefined if the stack had none left
  current,
  vocstack,         \* the rest of the order, searched from its end
  nextvocabulary,   \* the bit given last
  compiling         \* m[state]

namesVars == <<heads, context, current, vocstack, nextvocabulary, compiling>>

\* The order of a cold start.
NamesInit ==
  /\ heads = <<>>
  /\ context = Forth /\ current = Forth
  /\ vocstack = <<Only, Forth>>
  /\ nextvocabulary = Forth
  /\ compiling = FALSE

-----------------------------------------------------------------------------
(* Searching. *)

\* The last header of this name in this vocabulary that is revealed, or 0.
forthsearch1(name, voc) ==
  LET those == {i \in DOMAIN heads :
                  heads[i].name = name /\ heads[i].voc = voc /\ heads[i].revealed}
  IN IF those = {} THEN 0 ELSE CHOOSE i \in those : \A j \in those : j <= i

Order == <<context>> \o [k \in DOMAIN vocstack |-> vocstack[Len(vocstack) - k + 1]]

\* The first vocabulary of the order that has the name decides.
forthsearch(name) ==
  LET has == {k \in DOMAIN Order : forthsearch1(name, Order[k]) # 0}
  IN IF has = {} THEN 0
     ELSE forthsearch1(name, Order[CHOOSE k \in has : \A j \in has : k <= j])

\* The order finds the system's words, or at least the word FORTH.
Typeable == \E k \in DOMAIN Order : Order[k] = Forth
ForthTypeable == \E k \in DOMAIN Order : Order[k] \in {Forth, Only}

-----------------------------------------------------------------------------
(* Defining words.  A header is hidden until REVEAL, which most defining    *)
(* words end with.                                                         *)

newheader(name, what, shown, bit, kept) ==
  /\ Len(heads) < MaxHeads
  /\ heads' = Append(heads, [name |-> name, voc |-> current, revealed |-> shown,
                             immediate |-> FALSE, what |-> what, bit |-> bit, kept |-> kept])

\* CREATE, CONSTANT, VALUE, VARIABLE
Create(name) ==
  /\ Typeable /\ ~compiling
  /\ newheader(name, "word", TRUE, 0, <<>>)
  /\ UNCHANGED <<context, current, vocstack, nextvocabulary, compiling>>

\* A marker keeps wc, and here the headers as a history.
Marker(name) ==
  /\ Typeable /\ ~compiling
  /\ newheader(name, "marker", TRUE, 0, heads)
  /\ UNCHANGED <<context, current, vocstack, nextvocabulary, compiling>>

\* Every vocabulary gets the next bit, until they run out (-69).
forthvocabulary(name) ==
  /\ Typeable /\ ~compiling
  /\ nextvocabulary < Forth + MaxVocs
  /\ nextvocabulary' = nextvocabulary + 1
  /\ newheader(name, "vocabulary", TRUE, nextvocabulary', <<>>)
  /\ UNCHANGED <<context, current, vocstack, compiling>>

\* : and :NONAME
Colon(name) ==
  /\ Typeable /\ ~compiling
  /\ newheader(name, "word", FALSE, 0, <<>>)
  /\ compiling' = TRUE
  /\ UNCHANGED <<context, current, vocstack, nextvocabulary>>

forthcolonnoname == Colon("")

\* hide, reveal, immediate and ; set the flags of the last header; hide clears
\* the flag of immediate words as well.
Flags(revealed, immediate) ==
  /\ Typeable /\ heads # <<>>
  /\ heads' = [heads EXCEPT ![Len(heads)].revealed = revealed,
                            ![Len(heads)].immediate = immediate]
  /\ UNCHANGED <<context, current, vocstack, nextvocabulary>>

LastHead == heads[Len(heads)]

Semicolon ==
  /\ compiling
  /\ Flags(TRUE, LastHead.immediate)
  /\ compiling' = FALSE

forthhide == Flags(FALSE, FALSE) /\ UNCHANGED compiling
forthreveal == Flags(TRUE, LastHead.immediate) /\ UNCHANGED compiling
forthimmediate == Flags(LastHead.revealed, TRUE) /\ UNCHANGED compiling

\* [ and ], and a word that throws while it is compiled, which warminit leaves
\* hidden.
Brackets ==
  /\ Typeable
  /\ compiling' = ~compiling
  /\ UNCHANGED <<heads, context, current, vocstack, nextvocabulary>>

-----------------------------------------------------------------------------
(* Words of the program, executed by their name. *)

\* Mutant: the wc of the marker itself, not the one before it.
WithMarker(i) == i

WcOf(i) == i - 1

\* The headers from the marker on are forgotten; the search order is not changed.
forthbrmarker(i) ==
  /\ heads[i].what = "marker"
  /\ heads' = SubSeq(heads, 1, WcOf(i))
  /\ UNCHANGED <<context, current, vocstack, nextvocabulary, compiling>>

dovocabulary(i) ==
  /\ heads[i].what = "vocabulary"
  /\ context' = heads[i].bit
  /\ UNCHANGED <<heads, current, vocstack, nextvocabulary, compiling>>

ExecuteNamed(name) ==
  LET i == forthsearch(name)
  IN /\ i # 0
     /\ ~compiling \/ heads[i].immediate
     /\ forthbrmarker(i) \/ dovocabulary(i)

-----------------------------------------------------------------------------
(* The search order; a program's immediate word may change it, and the     *)
(* flags of the last header, while a word is compiled.                     *)

forthonly ==
  /\ Typeable
  /\ context' = Only /\ vocstack' = <<Only>>
  /\ UNCHANGED <<heads, current, nextvocabulary, compiling>>

forthforth ==
  /\ ForthTypeable
  /\ context' = Forth
  /\ UNCHANGED <<heads, current, vocstack, nextvocabulary, compiling>>

forthdefinitions ==
  /\ Typeable
  /\ current' = context
  /\ UNCHANGED <<heads, context, vocstack, nextvocabulary, compiling>>

forthalso ==
  /\ Typeable /\ Len(vocstack) < MaxOrder
  /\ vocstack' = Append(vocstack, context)
  /\ UNCHANGED <<heads, context, current, nextvocabulary, compiling>>

\* Nothing checks that the stack has one left.
forthprevious ==
  /\ Typeable
  /\ IF vocstack = <<>> THEN context' = Undefined /\ UNCHANGED vocstack
     ELSE /\ context' = vocstack[Len(vocstack)]
          /\ vocstack' = SubSeq(vocstack, 1, Len(vocstack) - 1)
  /\ UNCHANGED <<heads, current, nextvocabulary, compiling>>

\* A cold start forgets the program's words and their vocabularies' bits.
forthcoldinit ==
  /\ Typeable
  /\ heads' = <<>>
  /\ context' = Forth /\ current' = Forth /\ vocstack' = <<Only, Forth>>
  /\ nextvocabulary' = Forth
  /\ compiling' = FALSE

NamesNext ==
  \/ \E name \in Names : Create(name) \/ Marker(name) \/ forthvocabulary(name) \/ Colon(name)
  \/ forthcolonnoname
  \/ Semicolon \/ forthhide \/ forthreveal \/ forthimmediate \/ Brackets
  \/ \E name \in Names : ExecuteNamed(name)
  \/ forthonly \/ forthforth \/ forthdefinitions \/ forthalso \/ forthprevious
  \/ forthcoldinit

NamesSpec == NamesInit /\ [][NamesNext]_namesVars

-----------------------------------------------------------------------------
\* A marker forgets what it says, whatever was defined, hidden, made immediate,
\* marked or forgotten since, in whichever vocabularies: the headers before it
\* are the program's words again, as they were when it was made.
MarkersForget ==
  [][namesVars' # namesVars => \A name \in Names :
       LET i == forthsearch(name)
       IN (ExecuteNamed(name) /\ heads[i].what = "marker") => heads' = heads[i].kept]_namesVars

=============================================================================
