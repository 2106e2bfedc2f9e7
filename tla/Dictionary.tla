----------------------------- MODULE Dictionary -----------------------------
(***************************************************************************)
(* The dictionary: words in word lists, the data space they share, the     *)
(* definition being compiled and its discard after an exception,           *)
(* quotations, and MARKER.                                                 *)
(*                                                                         *)
(* A word list is a sequence, its head last; a word is known by the        *)
(* address of its P4_Word, which MARKER's stops compare.  Data space is    *)
(* counted in cells from where the system's own words end.  Inside a       *)
(* definition a program uses no defining word but a quotation, and does    *)
(* not change the compilation list: standard Forth leaves that undefined.  *)
(* STATE is no variable: `[` and `]` change it at any point of a           *)
(* definition, and nothing here looks at it.                               *)
(***************************************************************************)
EXTENDS Integers, Sequences, FiniteSets

CONSTANTS
  WORDLISTS,    \* number of word lists
  Addresses,    \* where a P4_Word may be: bounds the words in existence
  Builtin,      \* the last of the system's own words, in the first list
  NULL,         \* the null pointer
  End,          \* ctx.end: bounds the data space
  MaxEnclosing, \* bound: quotations inside quotations
  MaxRelease,   \* bound: cells given up by one ALLOT
  Sessions      \* sets of what a session may do: release data space, use
                \* quotations, break off words by ABORT, CATCH or SIGINT

ASSUME BoundsAssumption ==
  WORDLISTS \in Nat \ {0} /\ End \in Nat \ {0} /\ MaxEnclosing \in Nat /\ MaxRelease \in Nat
ASSUME AddressAssumption == Builtin # NULL /\ Addresses \cap {Builtin, NULL} = {}
ASSUME SessionsAssumption == Sessions \subseteq SUBSET {"release", "quotation", "break"}

VARIABLES
  uses,      \* what this session may do
  lists,     \* ctx.lists
  current,   \* ctx.active, as a wid
  here,      \* ctx.here
  open,      \* a definition is begun: the colon-sys of `;` is on the data stack
  enclosing, \* definitions that [: took off the list, on the data stack
  marks,     \* what the live markers saved, in their data
  process,   \* "running", "hung" in p4Repl, or "undefined" by a freed word
  before     \* history: the dictionary just before each live marker, and each
             \* word being compiled, was created

vars == <<uses, lists, current, here, open, enclosing, marks, process, before>>

Wids == 1 .. WORDLISTS
Word == [id : Addresses \cup {Builtin}, data : Nat, hidden : BOOLEAN]
Saved == [heads : [Wids -> Addresses \cup {Builtin, NULL}], here : Nat, current : Wids]

\* The cells of a marker stand for CREATE's own and those it saves with `,`.
MarkerCells == 2

Entries(list) == {list[i] : i \in 1 .. Len(list)}
IdsOf(list) == {x.id : x \in Entries(list)}
Ids == (UNION {IdsOf(lists[w]) : w \in Wids}) \cup IdsOf(enclosing)
Shape == [w \in Wids |-> [i \in 1 .. Len(lists[w]) |-> lists[w][i].id]]

HeadOf(list) == list[Len(list)]
BelowHead(list) == SubSeq(list, 1, Len(list) - 1)
HeadId(list) == IF list = <<>> THEN NULL ELSE HeadOf(list).id

-----------------------------------------------------------------------------
(* Data space. *)

\* Mutant: the last cell is taken for free.
MayAllotAll(n) ==
  /\ here + n <= End
  /\ lists[current] # <<>> => here + n >= HeadOf(lists[current]).data

\* p4Allot refuses to run into the end, or below the head of the current list.
MayAllot(n) ==
  /\ here + n < End
  /\ lists[current] # <<>> => here + n >= HeadOf(lists[current]).data

\* What is left of marks with the lists at ls and the cells from HERE to h
\* written: a marker can be run until it is freed or other cells take the place
\* of those it saved.
Surviving(ls, h) ==
  LET kept == {x \in UNION {Entries(ls[w]) : w \in Wids} :
                 h <= here \/ h <= x.data \/ x.data + MarkerCells <= here}
  IN [a \in DOMAIN marks \cap {x.id : x \in kept} |-> marks[a]]

Written(ls, h) == lists' = ls /\ here' = h /\ marks' = Surviving(ls, h)

-----------------------------------------------------------------------------
(* Exceptions. *)

\* Mutants: only HERE is set back, or only the word is unlinked.
DiscardedNever(list) == list
RewoundNever(list, h) == h

\* A hidden head is discarded, and HERE goes back to where its data began.
Incomplete(list) == list # <<>> /\ HeadOf(list).hidden
Discarded(list) == IF Incomplete(list) THEN BelowHead(list) ELSE list
Rewound(list, h) == IF Incomplete(list) THEN HeadOf(list).data ELSE h

\* p4Repl's _thrown, with the lists at ls and HERE at h.  An empty list has no
\* head to look at: the null pointer raises -9, which comes back here.
Uncaught(ls, h) ==
  /\ lists' = [ls EXCEPT ![current] = Discarded(@)]
  /\ here' = Rewound(ls[current], h)
  /\ marks' = Surviving(lists', h)
  /\ process' = IF ls[current] = <<>> THEN "hung" ELSE process
  /\ open' = FALSE
  /\ enclosing' = <<>>
  /\ UNCHANGED current

\* CATCH restores the stacks and no more; ABORT and SIGINT reach p4Repl below
\* the discard.  A definition begun before is broken off by that.
Kept(ls, h) ==
  /\ open => "break" \in uses
  /\ Written(ls, h)
  /\ open' = FALSE
  /\ enclosing' = <<>>
  /\ UNCHANGED <<current, process>>

Thrown(ls, h) == Uncaught(ls, h) \/ Kept(ls, h)

\* An undefined word, THROW, ABORT and the like, and SIGINT between two words.
Error == Thrown(lists, here)

-----------------------------------------------------------------------------
(* Data, and words that are complete when they are created. *)

\* ALLOT, `,` and, in a definition, p4WordAppend: with no room it stores
\* through the null pointer.
ALLOT(n) ==
  /\ n < 0 => "release" \in uses
  /\ here + n >= 0
  /\ IF MayAllot(n)
     THEN Written(lists, here + n) /\ UNCHANGED <<current, open, enclosing, process>>
     ELSE Thrown(lists, here)

Linked(a, hidden) ==
  [lists EXCEPT ![current] = Append(@, [id |-> a, data |-> here, hidden |-> hidden])]

\* CREATE, and whatever is made of it; with no room the word exists all the
\* same, without its cell.
CREATE(a) ==
  /\ ~open
  /\ IF here + 1 < End
     THEN /\ Written(Linked(a, FALSE), here + 1)
          /\ UNCHANGED <<current, open, enclosing, process>>
     ELSE Thrown(Linked(a, FALSE), here)

SET_CURRENT(w) ==
  /\ ~open
  /\ current' = w
  /\ UNCHANGED <<lists, here, open, enclosing, marks, process>>

-----------------------------------------------------------------------------
(* Definitions. *)

\* : and :NONAME
Colon(a) ==
  /\ ~open
  /\ lists' = Linked(a, TRUE)
  /\ open' = TRUE
  /\ UNCHANGED <<current, here, enclosing, marks, process>>

Shown(list) == [list EXCEPT ![Len(list)].hidden = FALSE]

\* ; compiles the last cell and shows the word, if there is room for the cell.
Semicolon ==
  /\ open
  /\ enclosing = <<>>
  /\ IF MayAllot(1)
     THEN /\ Written([lists EXCEPT ![current] = Shown(@)], here + 1)
          /\ open' = FALSE
          /\ UNCHANGED <<current, enclosing, process>>
     ELSE Thrown(lists, here)

\* [: compiles a branch over the quotation (if there is no room for it, see
\* ALLOT), takes the definition off the list and begins a nameless one.
OpenQuotation(a) ==
  /\ "quotation" \in uses
  /\ open
  /\ Len(enclosing) < MaxEnclosing
  /\ MayAllot(2)
  /\ enclosing' = Append(enclosing, HeadOf(lists[current]))
  /\ Written([lists EXCEPT ![current] =
                Append(BelowHead(@), [id |-> a, data |-> here + 2, hidden |-> TRUE])], here + 2)
  /\ UNCHANGED <<current, open, process>>

\* ;] ends the quotation and compiles a cell after it, puts the definition
\* back on the list and compiles the quotation's xt into it.
CloseQuotation ==
  /\ open
  /\ enclosing # <<>>
  /\ LET ended == [lists EXCEPT ![current] = Shown(@)]
         resumed == [lists EXCEPT ![current] = Append(Shown(@), HeadOf(enclosing))]
     IN \/ /\ MayAllot(4)
           /\ Written(resumed, here + 4)
           /\ enclosing' = BelowHead(enclosing)
           /\ UNCHANGED <<current, open, process>>
        \/ ~MayAllot(1) /\ Thrown(lists, here)
        \/ MayAllot(1) /\ ~MayAllot(2) /\ Thrown(ended, here + 1)
        \/ MayAllot(2) /\ ~MayAllot(4) /\ \E h \in here + 2 .. End - 1 : Thrown(resumed, h)

-----------------------------------------------------------------------------
(* MARKER. *)

\* Mutant: HERE is saved after CREATE has taken its cell.
SnapshotLate ==
  [heads |-> [w \in Wids |-> HeadId(lists[w])], here |-> here + 1, current |-> current]

Snapshot == [heads |-> [w \in Wids |-> HeadId(lists[w])], here |-> here, current |-> current]

\* MARKER saves HERE, the current list and the heads of all lists in the word
\* it creates; with no room it leaves a word that is no marker.
MARKER(a) ==
  /\ ~open
  /\ LET linked == Linked(a, FALSE)
         kept == Surviving(linked, here + MarkerCells)
     IN IF here + MarkerCells < End
        THEN /\ lists' = linked
             /\ here' = here + MarkerCells
             /\ marks' = [b \in DOMAIN kept \cup {a} |-> IF b = a THEN Snapshot ELSE kept[b]]
             /\ UNCHANGED <<current, open, enclosing, process>>
        ELSE \E h \in here .. End - 1 : Thrown(linked, h)

\* _free_words: the list down to its stop, which is not freed.
CutTo(list, stop) ==
  SubSeq(list, 1, IF stop = NULL THEN 0 ELSE CHOOSE j \in 1 .. Len(list) : list[j].id = stop)

\* Mutant: the loop over the lists ends before the first one.
CutAboveFirst(m, k) ==
  [w \in Wids |-> IF w > k /\ w # 1 THEN CutTo(lists[w], m.heads[w]) ELSE lists[w]]

\* The lists when those above wid k have been cut: the last is the first cut.
CutAbove(m, k) == [w \in Wids |-> IF w > k THEN CutTo(lists[w], m.heads[w]) ELSE lists[w]]

\* Without its stop in the list, _free_words walks on past the last word.
StopsLive(m) == \A w \in Wids : m.heads[w] = NULL \/ m.heads[w] \in IdsOf(lists[w])

\* A marker is run: HERE, the current list, and then one list after the other.
RunMarker(a) ==
  /\ ~open
  /\ StopsLive(marks[a])
  /\ lists' = CutAbove(marks[a], 0)
  /\ here' = marks[a].here
  /\ current' = marks[a].current
  /\ marks' = Surviving(lists', here)
  /\ UNCHANGED <<open, enclosing, process>>

RunStaleMarker(a) ==
  /\ ~open
  /\ ~StopsLive(marks[a])
  /\ process' = "undefined"
  /\ UNCHANGED <<lists, current, here, open, enclosing, marks>>

\* SIGINT before list k, and those below it, have been cut.
RunMarkerInterrupted(a, k) ==
  /\ "break" \in uses
  /\ ~open
  /\ StopsLive(marks[a])
  /\ lists' = CutAbove(marks[a], k)
  /\ here' = marks[a].here
  /\ current' = marks[a].current
  /\ marks' = Surviving(lists', here)
  /\ UNCHANGED <<open, enclosing, process>>

-----------------------------------------------------------------------------
Init ==
  /\ uses \in Sessions
  /\ lists = [w \in Wids |->
       IF w = 1 THEN <<[id |-> Builtin, data |-> 0, hidden |-> FALSE]>> ELSE <<>>]
  /\ current = 1
  /\ here = 0
  /\ open = FALSE
  /\ enclosing = <<>>
  /\ marks = [a \in {} |-> NULL]
  /\ process = "running"
  /\ before = [a \in {} |-> NULL]

Step ==
  \/ \E a \in Addresses \ Ids : Colon(a) \/ OpenQuotation(a) \/ CREATE(a) \/ MARKER(a)
  \/ Semicolon
  \/ CloseQuotation
  \/ \E n \in {1, 0 - MaxRelease} : ALLOT(n)
  \/ \E w \in Wids : SET_CURRENT(w)
  \/ \E a \in DOMAIN marks :
       RunMarker(a) \/ RunStaleMarker(a) \/ (\E k \in Wids : RunMarkerInterrupted(a, k))
  \/ Error

\* Markers that can be run, and words not completed.
Undoable == DOMAIN marks \cup
  {x.id : x \in {y \in (UNION {Entries(lists[w]) : w \in Wids}) \cup Entries(enclosing) : y.hidden}}

\* The history variable.
Noted ==
  before' = [a \in Undoable' |->
    IF a \in Undoable THEN before[a] ELSE [ids |-> Shape, here |-> here, current |-> current]]

Next == process = "running" /\ Step /\ Noted /\ UNCHANGED uses

Spec == Init /\ [][Next]_vars

-----------------------------------------------------------------------------
(* Properties. *)

\* Every variable keeps its type: HERE stays in the data space, what markers
\* saved are lists and addresses.
TypeOK ==
  /\ uses \in Sessions
  /\ lists \in [Wids -> Seq(Word)]
  /\ current \in Wids
  /\ here \in 0 .. End - 1
  /\ open \in BOOLEAN
  /\ enclosing \in Seq(Word)
  /\ DOMAIN marks \subseteq Ids /\ \A a \in DOMAIN marks : marks[a] \in Saved
  /\ process \in {"running", "hung", "undefined"}
  /\ DOMAIN before = Undoable

Unbroken == "break" \notin uses

\* The fact p4Repl's discard uses (post4.c:1466): the hidden word is the one
\* being compiled, the head of the current list, and there is one only then.
HiddenIsOpen ==
  \A w \in Wids : \A i \in 1 .. Len(lists[w]) :
    lists[w][i].hidden <=> (w = current /\ i = Len(lists[w]) /\ open)

\* In a session where nothing is broken off, whatever is allotted, quoted,
\* marked or thrown, that fact is one.
HiddenIsOpenUnbroken == Unbroken => HiddenIsOpen

\* Where a program only creates and forgets words, the data of every word in
\* every list begins at or below HERE: nothing new is laid over an older word.
WordsBelowHere == uses = {} => \A w \in Wids : \A x \in Entries(lists[w]) : x.data <= here

\* Every marker that can be run finds the words it stops at, in spite of the
\* markers run and the definitions discarded since it was made.
StopsStayLive == Unbroken => \A a \in DOMAIN marks : StopsLive(marks[a])

\* Running a marker brings back the words of all lists, HERE and the current
\* list as they were just before that marker was created.
MarkerRestores ==
  [][Unbroken => \A a \in DOMAIN marks : RunMarker(a) =>
       Shape' = before[a].ids /\ here' = before[a].here /\ current' = before[a].current]_vars

\* An exception that ends a definition leaves the words and HERE as they were
\* before its `:`.
DiscardRestores ==
  [][LET head == HeadId(lists[current])
     IN Unbroken /\ "quotation" \notin uses /\ open /\ head \notin Ids' =>
          Shape' = before[head].ids /\ here' = before[head].here]_vars

\* "discard it" (post4.c:1468): after an exception none of the words begun
\* since the outermost `:` are left.
DefinitionDiscarded ==
  [][LET outermost == IF enclosing = <<>> THEN HeadId(lists[current]) ELSE enclosing[1].id
     IN Unbroken /\ open /\ outermost \notin Ids' => Shape' = before[outermost].ids]_vars

\* After an uncaught exception the terminal is read again: ABORT is performed,
\* doc/standard.md:1022 ("the system shall perform the
\* function of `ABORT`").
NeverHung == process # "hung"
=============================================================================
