---------------------------- MODULE BlockClient ----------------------------
(***************************************************************************)
(* The block words under a program that keeps to the protocol they need,   *)
(* and the refinement: such a program sees the store of BlockStore.        *)
(*                                                                         *)
(* The protocol, clause by clause, is what test/block.p4 keeps to.  It is  *)
(* narrower than doc/block.md: BlockBuffer's words with any program break  *)
(* the document's promises when a clause is dropped.                       *)
(***************************************************************************)
EXTENDS BlockBuffer

CONSTANT Nothing

\* Blocks whose buffers wait for a LOAD to end.
Suspended == {bufs[loads[i].depth].number : i \in 1 .. Len(loads)}

\* A block already in the buffer is not fetched again while it is dirty, and
\* only blocks that BLOCKS counts are read.
Fetch(u) ==
  /\ fd # NoVolume
  /\ u <= Len(disk[fd])
  /\ (AccessHit(u) /\ Top.state # Dirty) \/ BlockMiss(u)

\* A store is followed by UPDATE, and never goes to a suspended block.
Change(d) ==
  /\ Top.number \notin Suspended \cup {0}
  /\ bufs' = WithTop([Top EXCEPT !.data = d, !.state = Dirty])
  /\ UNCHANGED <<disk, fd, pos, loads, console>>

\* BUFFER is followed by filling the block and UPDATE.
Fill(u, d) ==
  /\ fd # NoVolume
  /\ u \notin Suspended \cup {0}
  /\ \E e \in IF u = Top.number THEN {[file |-> disk[fd], at |-> pos]}
                                ELSE EvictOutcomes :
       /\ Bounded(e.at)
       /\ disk' = [disk EXCEPT ![fd] = e.file]
       /\ pos' = e.at
  /\ bufs' = WithTop([number |-> u, state |-> Dirty, data |-> d])
  /\ UNCHANGED <<fd, loads, console>>

\* Whatever writes the buffer is used only while it is assigned to a block.
Assigned == Top.number # 0

CareLoad(u) == Assigned /\ u <= Len(disk[fd]) /\ LOAD(u)

CareLoadFails(u) == Assigned /\ LoadFails(u)

\* A LOAD is left with nothing to save in its own buffer.
Leave(j) == Top.state # Dirty /\ LeaveLoads(j)

\* A LOADed text does not QUIT; a file or string it interprets may.
QuitElsewhere == console' = 0 /\ QUIT

\* A file is opened outside LOAD, with nothing in the buffer.
Open(v) == loads = <<>> /\ Top.state = Free /\ OPEN_BLOCK(v)

Close == Assigned /\ loads = <<>> /\ CLOSE_BLOCK

CareWord ==
  \/ \E u \in 1 .. MaxBlock :
       \/ Fetch(u)
       \/ CareLoad(u)
       \/ \E d \in Contents : Fill(u, d)
  \/ \E u \in 0 .. MaxBlock : CareLoadFails(u)
  \/ \E d \in Contents : Change(d)
  \/ \E v \in Volumes : Open(v)
  \/ \E j \in 0 .. MaxDepth : Leave(j)
  \/ Assigned /\ SAVE_BUFFERS
  \/ Assigned /\ FLUSH
  \/ EMPTY_BUFFERS
  \/ Close
  \/ QuitElsewhere
  \/ Restart

\* No signal strikes such a program, so no pointer leads to a freed buffer.
CareNext == CareWord /\ UNCHANGED stale

CareSpec == Init /\ [][CareNext]_vars

-----------------------------------------------------------------------------
(* The store the program sees. *)

LatestBlocks ==
  [v \in Volumes |->
     IF v = fd /\ Top.state = Dirty THEN Written(disk[v], pos, Top) ELSE disk[v]]

ShownBlock ==
  IF fd = NoVolume \/ Top.number = 0 THEN Nothing
  ELSE [volume |-> fd, block |-> Top.number, data |-> Top.data]

Store_ == INSTANCE BlockStore WITH
            latest <- LatestBlocks, saved <- disk, shown <- ShownBlock

\* The block words implement the store: BLOCK shows what was last put in the
\* block, across eviction, FLUSH, CLOSE-BLOCK, LOAD and its end, and an update
\* is discarded only by EMPTY-BUFFERS or the end of the process.
ImplementsStore == Store_!Spec

\* Every clean buffer a LOAD will return to, and the current one, hold the
\* block as the file has it.
CleanIsCurrent ==
  \A i \in {loads[k].depth : k \in 1 .. Len(loads)} \cup {Len(bufs)} :
    (bufs[i].state = Clean /\ bufs[i].number # 0) =>
      /\ fd # NoVolume
      /\ bufs[i].number <= Len(disk[fd])
      /\ bufs[i].data = disk[fd][bufs[i].number]

=============================================================================
