------------------------------- MODULE Editor -------------------------------
(***************************************************************************)
(* lib/post4/ed.p4, the screen editor ED, as a client of the block words.  *)
(* Its loop lists the block SCR names, then obeys one key.                 *)
(***************************************************************************)
EXTENDS BlockBuffer

CONSTANT Unedited

VARIABLES
  scr,     \* SCR, the block on the screen
  phase,   \* "off": at the prompt; "screen" and "command": in ED's loop
  edited   \* history: edited[u] is what ED last made of block u of the file

edVars == <<disk, fd, pos, bufs, loads, console, stale, scr, phase, edited>>

\* SCR @ BLOCK; an exception from it ends ED.
Visit(u) ==
  \/ AccessHit(u)
  \/ BlockMiss(u)

Start ==
  /\ phase = "off"
  /\ fd # NoVolume
  /\ scr <= Len(disk[fd])
  /\ phase' = "screen"
  /\ UNCHANGED <<vars, scr, edited>>

\* block_append, for a block u past the end: BUFFER, blanks, SAVE-BUFFERS.
AppendBlock(u) ==
  LET blank == [number |-> u, state |-> Clean, data |-> Blank] IN
  /\ u > Len(disk[fd])
  /\ \E e \in IF u = Top.number THEN {[file |-> disk[fd], at |-> pos]}
                                ELSE EvictOutcomes :
       /\ Bounded(e.at)
       /\ disk' = [disk EXCEPT ![fd] = Written(e.file, e.at, blank)]
       /\ pos' = WrittenPos(e.at, blank)
  /\ bufs' = WithTop(blank)
  /\ UNCHANGED <<fd, loads, console>>

StartAppend ==
  /\ phase = "off"
  /\ fd # NoVolume
  /\ AppendBlock(scr)
  /\ phase' = "screen"
  /\ UNCHANGED <<scr, edited>>

\* ed_screen: LIST fetches SCR's block for each of its rows.
Screen ==
  /\ phase = "screen"
  /\ Visit(scr)
  /\ phase' = "command"
  /\ UNCHANGED <<scr, edited>>

\* Any key that changes text: a BLOCK that finds SCR's block, a store, UPDATE.
Change(d) ==
  /\ phase = "command"
  /\ Top.number = scr
  /\ bufs' = WithTop([Top EXCEPT !.data = d, !.state = Dirty])
  /\ edited' = [edited EXCEPT ![scr] = d]
  /\ phase' = "screen"
  /\ UNCHANGED <<disk, fd, pos, loads, console, scr>>

\* CTRL+P, CTRL+G and, inside the file, CTRL+N: another block becomes SCR.
Goto(u) ==
  /\ phase = "command"
  /\ Visit(u)
  /\ scr' = u
  /\ phase' = "screen"
  /\ UNCHANGED edited

\* CTRL+N on the last block.
NextAppend ==
  /\ phase = "command"
  /\ scr < MaxBlock
  /\ AppendBlock(scr + 1)
  /\ scr' = scr + 1
  /\ phase' = "screen"
  /\ UNCHANGED edited

\* Cursor keys, the mode toggle and keys ED does not know.
OtherKey ==
  /\ phase = "command"
  /\ phase' = "screen"
  /\ UNCHANGED <<vars, scr, edited>>

\* Menu, q: SAVE-BUFFERS, then QUIT.
Quit ==
  /\ phase = "command"
  /\ SAVE_BUFFERS
  /\ phase' = "off"
  /\ UNCHANGED <<scr, edited>>

EdInit ==
  /\ Init
  /\ fd # NoVolume
  /\ scr = 1
  /\ phase = "off"
  /\ edited = [u \in 1 .. MaxBlock |-> Unedited]

Key ==
  \/ Start
  \/ StartAppend
  \/ Screen
  \/ \E d \in Contents : Change(d)
  \/ \E u \in 1 .. MaxBlock : Goto(u)
  \/ NextAppend
  \/ OtherKey
  \/ Quit

EdNext == Key /\ UNCHANGED stale

EdSpec == EdInit /\ [][EdNext]_edVars

-----------------------------------------------------------------------------
\* doc/block.md:40: BLOCK writes the old contents to mass storage if dirty.
\* So what ED made of a block is in the file, or in the buffer it is shown
\* from until another block takes the buffer.
EditsReachTheFile ==
  \A u \in 1 .. MaxBlock :
    edited[u] # Unedited =>
      \/ Top.number = u /\ Top.data = edited[u]
      \/ u <= Len(disk[fd]) /\ disk[fd][u] = edited[u]

=============================================================================
