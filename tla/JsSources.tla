------------------------------ MODULE JsSources ------------------------------
(***************************************************************************)
(* Where JS-Forth (reference/jsforth.js) reads from: QUIT evaluates the    *)
(* line typed, a text evaluates strings and loads blocks, and CATCH keeps  *)
(* a THROW from going on to QUIT.  The text a position is in, BLK and the  *)
(* stack of saved positions are changed by different words and are to come *)
(* back together.                                                          *)
(***************************************************************************)
EXTENDS Integers, Sequences

CONSTANTS
  Strings,     \* texts in memory that a program evaluates
  BlockTexts,  \* blocks a program loads, numbers
  TextLen,     \* words in a text
  MaxNested,   \* bound: frames on the return stack
  MaxSaved     \* bound: saved positions

ASSUME SourcesAssumption == BlockTexts \subseteq Nat

VARIABLES
  source,    \* the text parsed: parsebuf
  toin,      \* words of it parsed
  sourceid,  \* positions saved, <<word, text>>
  blk,       \* the block loaded, or -1
  frames,    \* the return stack above QUIT
  caught     \* history: CATCH caught something since the line was read

sourcesVars == <<source, toin, sourceid, blk, frames, caught>>

\* Texts are <<"line", 0>>, <<"string", n>> and <<"block", n>>.
Line == <<"line", 0>>

SourcesInit ==
  /\ source = Line /\ toin = 0
  /\ sourceid = <<>> /\ blk = -1 /\ frames = <<>> /\ caught = FALSE

\* Frames of EVALUATE, with the caller's place as a history; of LOAD, with the
\* block it came from; and of CATCH.
Frame(word, saved, from) == [word |-> word, saved |-> saved, from |-> from]

\* The place after the word just parsed.
Here == [source |-> source, toin |-> toin + 1, blk |-> blk]

-----------------------------------------------------------------------------
(* Words of a text, parsed one by one. *)

Parsing == frames # <<>> /\ toin < TextLen

\* EVALUATE, called with the other frames in outer.
Evaluates(text, outer) ==
  /\ Len(frames) + Len(outer) < MaxNested /\ Len(sourceid) < MaxSaved
  /\ sourceid' = Append(sourceid, <<toin + 1, source>>)
  /\ source' = text /\ toin' = 0
  /\ frames' = frames \o outer \o <<Frame("evaluate", 0, Here)>>
  /\ UNCHANGED caught

\* ' EVALUATE CATCH and ' LOAD CATCH have a frame of CATCH below the word's.
Catching == {<<>>, <<Frame("catch", 0, Here)>>}

evaluate ==
  /\ Parsing
  /\ \E n \in Strings, outer \in Catching : Evaluates(<<"string", n>>, outer)
  /\ UNCHANGED blk

load ==
  /\ Parsing
  /\ \E n \in BlockTexts, outer \in Catching :
       /\ Evaluates(<<"block", n>>, Append(outer, Frame("load", blk, Here)))
       /\ blk' = n

OtherWord ==
  /\ Parsing
  /\ toin' = toin + 1
  /\ UNCHANGED <<source, sourceid, blk, frames, caught>>

\* Only the return stack goes back to what it was at CATCH.
forththrow ==
  /\ Parsing
  /\ LET catches == {i \in DOMAIN frames : frames[i].word = "catch"}
     IN IF catches = {}
        THEN /\ frames' = <<>> /\ blk' = -1 /\ UNCHANGED caught
        ELSE /\ frames' = SubSeq(frames, 1,
                                 (CHOOSE i \in catches : \A j \in catches : j <= i) - 1)
             /\ caught' = TRUE
             /\ UNCHANGED blk
  /\ toin' = toin + 1
  /\ UNCHANGED <<source, sourceid>>

-----------------------------------------------------------------------------
(* The end of a text: INTERPRET returns to EVALUATE, and that to its caller. *)

\* The frames below the topmost, without those of this word.
Below(fs, word) ==
  IF fs # <<>> /\ fs[Len(fs)].word = word THEN SubSeq(fs, 1, Len(fs) - 1) ELSE fs

AtEnd == frames # <<>> /\ toin >= TextLen

Evaluated == frames[Len(frames)]
Outer == Below(frames, "evaluate")
Loaded == Outer # <<>> /\ Outer[Len(Outer)].word = "load"

\* Mutant: BLK stays the block that was loaded.
BlkKept == blk

SavedBlk == Outer[Len(Outer)].saved

\* The text LOAD leaves: the block it came from, in whichever buffer that is now.
SourceOf(n) == IF n >= 0 THEN <<"block", n>> ELSE sourceid[Len(sourceid)][2]

forthpopsource ==
  /\ AtEnd
  /\ toin' = sourceid[Len(sourceid)][1]
  /\ sourceid' = SubSeq(sourceid, 1, Len(sourceid) - 1)
  /\ IF Loaded
     THEN /\ blk' = SavedBlk
          /\ source' = SourceOf(blk')
     ELSE /\ source' = sourceid[Len(sourceid)][2]
          /\ UNCHANGED blk
  /\ frames' = Below(Below(Outer, "load"), "catch")
  /\ UNCHANGED caught

\* QUIT: a line is read and evaluated.
query ==
  /\ frames = <<>> /\ Len(sourceid) < MaxSaved
  /\ sourceid' = Append(sourceid, <<0, Line>>)
  /\ source' = Line /\ toin' = 0
  /\ frames' = <<Frame("evaluate", 0, [source |-> Line, toin |-> 0, blk |-> blk])>>
  /\ caught' = FALSE
  /\ UNCHANGED blk

SourcesNext ==
  \/ query
  \/ evaluate \/ load \/ OtherWord \/ forththrow
  \/ forthpopsource

SourcesSpec == SourcesInit /\ [][SourcesNext]_sourcesVars

-----------------------------------------------------------------------------
\* EVALUATE and LOAD, however they were nested, come back to the word after
\* them, in the text and with the BLK of their caller.  Two callers are left
\* out: a string evaluated by a block, which after LOAD goes on in that block,
\* since EVALUATE leaves BLK as it is; and a line in which something was caught,
\* since CATCH leaves all of it where THROW was.
SourceReturns ==
  [][(forthpopsource /\ ~caught) =>
       LET from == Evaluated.from
           home == from.blk = -1 \/ from.source = <<"block", from.blk>>
       IN (Loaded => home) => [source |-> source', toin |-> toin', blk |-> blk'] = from]_sourcesVars

=============================================================================
