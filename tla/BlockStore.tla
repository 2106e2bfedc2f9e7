----------------------------- MODULE BlockStore -----------------------------
(***************************************************************************)
(* What doc/block.md promises of a block file: a store in which a program  *)
(* reads, in block u, what was last put there.  A change first exists only *)
(* in the store's `latest` contents and reaches the `saved` ones later; a  *)
(* program may discard what is not saved yet, and nothing else discards    *)
(* it.                                                                     *)
(***************************************************************************)
EXTENDS Naturals, Sequences

CONSTANTS Volumes, Data, Blank, MaxBlock, Nothing

VARIABLES
  latest,  \* latest[v]: the blocks of file v as programs see them
  saved,   \* saved[v]: the blocks a later process would find
  shown    \* the block the program is looking at, or Nothing

vars == <<latest, saved, shown>>

Shown == [volume : Volumes, block : 1 .. MaxBlock, data : Data]

\* Block u of file f becomes d; blocks before it that were missing are blank.
Updated(f, u, d) ==
  [i \in 1 .. (IF u > Len(f) THEN u ELSE Len(f)) |->
     IF i = u THEN d ELSE IF i <= Len(f) THEN f[i] ELSE Blank]

\* Saving may happen along with any operation.
MaySave == saved' \in {saved, latest}

Read(v, u) ==
  /\ u <= Len(latest[v])
  /\ shown' = [volume |-> v, block |-> u, data |-> latest[v][u]]
  /\ MaySave
  /\ UNCHANGED latest

Put(v, u, d) ==
  /\ latest' = [latest EXCEPT ![v] = Updated(@, u, d)]
  /\ shown' = [volume |-> v, block |-> u, data |-> d]
  /\ MaySave

Save ==
  /\ saved' = latest
  /\ shown' \in {shown, Nothing}
  /\ UNCHANGED latest

Discard ==
  /\ latest' = saved
  /\ shown' = Nothing
  /\ UNCHANGED saved

Init ==
  /\ latest \in [Volumes -> Seq(Data)]
  /\ saved = latest
  /\ shown = Nothing

Next ==
  \/ \E v \in Volumes, u \in 1 .. MaxBlock :
       \/ Read(v, u)
       \/ \E d \in Data : Put(v, u, d)
  \/ Save
  \/ Discard

Spec == Init /\ [][Next]_vars

=============================================================================
