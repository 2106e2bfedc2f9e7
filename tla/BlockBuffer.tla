---------------------------- MODULE BlockBuffer ----------------------------
(***************************************************************************)
(* The Block word set of src/post4.p4: one buffer cell holding a 1024 byte *)
(* block of the open block file, and the LOAD word, which suspends that    *)
(* buffer and interprets a block in a buffer of its own.                   *)
(*                                                                         *)
(* A file is the sequence of its blocks.  What a block holds is a member   *)
(* of Data: what a program stored, a blank block appended by _block_grow,  *)
(* the zeros of a hole left by a write past the end of the file, the       *)
(* uninitialized memory of a fresh buffer, or the mixture a failed read    *)
(* leaves behind.                                                          *)
(***************************************************************************)
EXTENDS Naturals, Sequences

CONSTANTS
  Volumes,   \* paths of block files
  NoVolume,  \* _block_fd holds 0
  Contents,  \* what programs store in a block
  Blank,     \* 1024 spaces
  Zeros,     \* 1024 zero bytes
  Junk,      \* a buffer ALLOCATE did not initialize
  Torn,      \* a buffer partly overwritten by a failed read or a typed line
  MaxBlock,  \* bound: the highest block number used, and the file's length
  MaxDepth,  \* bound: p4_block structures in existence
  Faults     \* which of "read", "write", "open" and "signal" may happen

Data == Contents \cup {Blank, Zeros, Junk, Torn}

ASSUME BoundsAssumption == MaxBlock \in Nat \ {0} /\ MaxDepth \in Nat \ {0}
ASSUME VolumesAssumption == NoVolume \notin Volumes
ASSUME FaultsAssumption == Faults \subseteq {"read", "write", "open", "signal"}

VARIABLES
  disk,   \* disk[v]: the blocks of file v
  fd,     \* the open block file
  pos,    \* its file position, in blocks
  bufs,   \* the p4_block structures; the last is the one ctx.block points to
  loads,  \* the LOADs in progress, outermost first
  console, \* the buffer terminal lines are read into, 0 for the terminal's own
  stale   \* which of ctx's pointers lead to what was freed or closed

vars == <<disk, fd, pos, bufs, loads, console, stale>>

Free  == 0
Clean == 1
Dirty == 2

Buffer == [number : Nat, state : {Free, Clean, Dirty}, data : Data]
LoadFrame == [depth : Nat, blk : Nat]

NewBuffer(d) == [number |-> 0, state |-> Free, data |-> d]
Top == bufs[Len(bufs)]
WithTop(b) == [bufs EXCEPT ![Len(bufs)] = b]

-----------------------------------------------------------------------------
(* The file.  Positions count whole blocks from zero. *)

Longer(a, b) == IF a > b THEN a ELSE b

\* Mutant: the comparison in _block_grow swapped, so that it never appends.
NeverGrown(f, u) == f

\* _block_grow: append blank blocks until the file reaches block u.
Grown(f, u) ==
  [i \in 1 .. Longer(Len(f), u) |-> IF i <= Len(f) THEN f[i] ELSE Blank]

\* WRITE-FILE of one block at position p; a gap before p reads as zeros.
PutAt(f, p, d) ==
  [i \in 1 .. Longer(Len(f), p + 1) |->
     IF i = p + 1 THEN d ELSE IF i <= Len(f) THEN f[i] ELSE Zeros]

\* Mutants: _block_seek without its IF, and without its 1-.
SoughtAlways(u, p) == u - 1
SoughtOneBeyond(u, p) == IF u = 0 THEN p ELSE u

\* _block_seek: block zero does not move the file position.
Sought(u, p) == IF u = 0 THEN p ELSE u - 1

\* _block_write: grow, seek, write; the number of a free buffer is zero.
Written(f, p, b) == PutAt(Grown(f, b.number), Sought(b.number, p), b.data)
WrittenPos(p, b) == Sought(b.number, p) + 1

\* WRITE-FILE only fills the stdio buffer, and every FLUSH-FILE drops its
\* ior, so when the last write fails the file has its blank blocks, the buffer
\* is not in it, and there is no exception.
WriteOutcomes(f, p, b) ==
  {Written(f, p, b)} \cup (IF "write" \in Faults THEN {Grown(f, b.number)} ELSE {})

\* How far a _block_write may have come that a signal or an exception ends:
\* nowhere, some blank blocks appended, the seek done, the buffer written.
BrokenOutcomes(f, p, b) ==
  {[file |-> f, at |-> p],
   [file |-> Grown(f, b.number), at |-> Sought(b.number, p)],
   [file |-> Written(f, p, b), at |-> WrittenPos(p, b)]}
  \cup {[file |-> Grown(f, k), at |-> k] : k \in Len(f) .. b.number}

\* _block_read: READ-FILE at block u.  At or past the end of the file it
\* reads nothing and sets no errno, which _block_read takes for success.
ReadData(f, u, old) == IF u <= Len(f) THEN f[u] ELSE old
ReadPos(f, u) == IF u <= Len(f) THEN u ELSE u - 1

-----------------------------------------------------------------------------
(* Leaving LOADs.  LOAD number j+1 remembers on the return stack which     *)
(* buffer was current when it started and makes it current again when its  *)
(* text ends or throws; LOADs above it are unwound with it.                *)

BuffersAt(j, bs) ==
  IF j = Len(loads) THEN bs ELSE SubSeq(bs, 1, loads[j + 1].depth)

\* An exception is caught inside the j-th LOAD's text, or, for j = 0, by the
\* program or the outer interpreter, with bs the buffers when it is raised.
Caught(j, bs) ==
  /\ bufs' = BuffersAt(j, bs)
  /\ loads' = SubSeq(loads, 1, j)

\* LOAD's text is exhausted, or an exception ends one LOAD or several.
LeaveLoads(j) ==
  /\ j < Len(loads)
  /\ Caught(j, bufs)
  /\ UNCHANGED <<disk, fd, pos, console>>

\* SIGINT after LOAD's CATCH has returned and before _block_pop's FREE.
SignalBeforePop ==
  /\ "signal" \in Faults
  /\ loads # <<>>
  /\ loads' = SubSeq(loads, 1, Len(loads) - 1)
  /\ UNCHANGED <<disk, fd, pos, bufs, console>>

\* SIGINT in _block_pop, between the FREE and the store of the outer pointer:
\* the block pointer that a program's CATCH goes on with leads to a freed buffer.
SignalInPop ==
  /\ "signal" \in Faults
  /\ loads # <<>>
  /\ loads' = SubSeq(loads, 1, Len(loads) - 1)
  /\ stale' = {"block"}
  /\ UNCHANGED <<disk, fd, pos, bufs, console>>

\* QUIT empties the return stack without a return to any CATCH, so the block
\* pointer stays where it is.  It turns the current input source into the
\* terminal's and keeps that source's buffer, which for a LOADed text is the
\* block buffer; the text of an EVALUATE or of a file has another.
QUIT ==
  /\ loads' = <<>>
  /\ console' \in IF loads = <<>> THEN {0, console} ELSE {0, Len(bufs)}
  /\ UNCHANGED <<disk, fd, pos, bufs>>

\* A line typed after such a QUIT lands in that block buffer.
ConsoleLine ==
  /\ loads = <<>>
  /\ console # 0
  /\ bufs' = [bufs EXCEPT ![console].data = Torn]
  /\ UNCHANGED <<disk, fd, pos, loads, console>>

-----------------------------------------------------------------------------
(* The words.  A device access with no open file raises SIGSEGV, which     *)
(* post4 turns into exception -9; block zero raises -35: both leave every  *)
(* variable to LeaveLoads.                                                 *)

\* Mutant: the old contents are not written back.
EvictNothing == {[file |-> disk[fd], at |-> pos]}

\* The old contents, "if dirty", are written before the buffer is reassigned.
EvictOutcomes ==
  IF Top.state = Dirty
  THEN {[file |-> f, at |-> WrittenPos(pos, Top)] :
          f \in WriteOutcomes(disk[fd], pos, Top)}
  ELSE {[file |-> disk[fd], at |-> pos]}

Bounded(p) == p <= MaxBlock

\* BLOCK or BUFFER of the block the buffer is already assigned to.
AccessHit(u) ==
  /\ u # 0
  /\ u = Top.number
  /\ bufs' = WithTop([Top EXCEPT !.state = Clean])
  /\ UNCHANGED <<disk, fd, pos, loads, console>>

BlockMiss(u) ==
  /\ fd # NoVolume
  /\ u \notin {0, Top.number}
  /\ \E e \in EvictOutcomes :
       /\ Bounded(e.at)
       /\ disk' = [disk EXCEPT ![fd] = e.file]
       /\ pos' = ReadPos(e.file, u)
       /\ bufs' = WithTop([number |-> u, state |-> Clean,
                          data |-> ReadData(e.file, u, Top.data)])
  /\ UNCHANGED <<fd, loads, console>>

\* Only a dirty buffer makes BUFFER touch the file.
BufferMiss(u) ==
  /\ u \notin {0, Top.number}
  /\ IF Top.state = Dirty
     THEN /\ fd # NoVolume
          /\ \E e \in EvictOutcomes :
               /\ Bounded(e.at)
               /\ disk' = [disk EXCEPT ![fd] = e.file]
               /\ pos' = e.at
     ELSE UNCHANGED <<disk, pos>>
  /\ bufs' = WithTop([Top EXCEPT !.number = u, !.state = Clean])
  /\ UNCHANGED <<fd, loads, console>>

\* BLOCK ends in -33 from a failed read: the old block was written back, the
\* buffer keeps its number and state over what the read left in it.
BlockReadFails(u) ==
  /\ "read" \in Faults
  /\ fd # NoVolume
  /\ u \notin {0, Top.number}
  /\ \E e \in EvictOutcomes, d \in {Top.data, Torn}, j \in 0 .. Len(loads) :
       /\ Bounded(e.at)
       /\ disk' = [disk EXCEPT ![fd] = e.file]
       /\ pos' = u - 1
       /\ Caught(j, WithTop([Top EXCEPT !.data = d]))
  /\ UNCHANGED <<fd, console>>

\* SIGINT inside BLOCK or BUFFER: after the write, after the read, or after the
\* number is stored and before the buffer is marked clean.  WriteBroken has the
\* one inside the write.
SignalInAccess(u) ==
  /\ "signal" \in Faults
  /\ fd # NoVolume
  /\ u \notin {0, Top.number}
  /\ \E e \in EvictOutcomes, j \in 0 .. Len(loads) :
       LET read == [Top EXCEPT !.data = ReadData(e.file, u, @)] IN
       /\ Bounded(e.at)
       /\ disk' = [disk EXCEPT ![fd] = e.file]
       /\ \/ /\ pos' = e.at
             /\ \E b \in {Top, [Top EXCEPT !.number = u]} : Caught(j, WithTop(b))
          \/ /\ pos' = ReadPos(e.file, u)
             /\ \E b \in {read, [read EXCEPT !.number = u]} : Caught(j, WithTop(b))
  /\ UNCHANGED <<fd, console>>

\* The program stores into the buffer whose address BLOCK or BUFFER returned.
Store(d) ==
  /\ Top.number # 0
  /\ bufs' = WithTop([Top EXCEPT !.data = d])
  /\ UNCHANGED <<disk, fd, pos, loads, console>>

UPDATE ==
  /\ bufs' = WithTop([Top EXCEPT !.state = Dirty])
  /\ UNCHANGED <<disk, fd, pos, loads, console>>

\* Mutant: the buffer is freed and keeps its number.
EmptyKeepingNumber ==
  /\ bufs' = WithTop([Top EXCEPT !.state = Free])
  /\ UNCHANGED <<disk, fd, pos, loads, console>>

EMPTY_BUFFERS ==
  /\ bufs' = WithTop([Top EXCEPT !.number = 0, !.state = Free])
  /\ UNCHANGED <<disk, fd, pos, loads, console>>

\* _block_write of the current buffer, whatever its state.
WriteTop ==
  /\ fd # NoVolume
  /\ Bounded(WrittenPos(pos, Top))
  /\ \E f \in WriteOutcomes(disk[fd], pos, Top) : disk' = [disk EXCEPT ![fd] = f]

\* SIGINT inside the _block_write of any word, or -66 or an ior that it THROWs
\* from FILE-SIZE, a seek or a blank block; the buffer keeps its state.
WriteBroken ==
  /\ {"signal", "write"} \cap Faults # {}
  /\ fd # NoVolume
  /\ \E e \in BrokenOutcomes(disk[fd], pos, Top), j \in 0 .. Len(loads) :
       /\ Bounded(e.at)
       /\ disk' = [disk EXCEPT ![fd] = e.file]
       /\ pos' = e.at
       /\ Caught(j, bufs)
  /\ UNCHANGED <<fd, console>>

SAVE_BUFFERS ==
  /\ WriteTop
  /\ pos' = WrittenPos(pos, Top)
  /\ bufs' = WithTop([Top EXCEPT !.state = Clean])
  /\ UNCHANGED <<fd, loads, console>>

FLUSH ==
  /\ WriteTop
  /\ pos' = WrittenPos(pos, Top)
  /\ bufs' = WithTop([Top EXCEPT !.number = 0, !.state = Free])
  /\ UNCHANGED <<fd, loads, console>>

CLOSE_BLOCK ==
  /\ WriteTop
  /\ fd' = NoVolume
  /\ pos' = 0
  /\ bufs' = WithTop([Top EXCEPT !.number = 0, !.state = Free])
  /\ UNCHANGED <<loads, console>>

\* SIGINT in CLOSE-BLOCK, after CLOSE-FILE and before _block_fd is zero.
SignalInClose ==
  /\ "signal" \in Faults
  /\ WriteTop
  /\ pos' = WrittenPos(pos, Top)
  /\ \E j \in 0 .. Len(loads) : Caught(j, bufs)
  /\ stale' = {"fd"}
  /\ UNCHANGED <<fd, console>>

\* OPEN-BLOCK neither closes the file that was open nor looks at the buffer's
\* state; a missing file is created, which is here an empty one.
OPEN_BLOCK(v) ==
  /\ bufs' = WithTop([Top EXCEPT !.number = 0])
  /\ \/ fd' = v /\ pos' = 0
     \/ {"open", "signal"} \cap Faults # {} /\ UNCHANGED <<fd, pos>>
  /\ UNCHANGED <<disk, loads, console>>

\* A new buffer holds block u, which LOAD number Len(loads)+1 interprets; the
\* buffers under it are bs and the LOAD will return to bs[depth].
Interpret(u, bs, depth) ==
  /\ bufs' = Append(bs, [number |-> u, state |-> Clean,
                         data |-> ReadData(disk'[fd], u, Junk)])
  /\ pos' = ReadPos(disk'[fd], u)
  /\ loads' = Append(loads, [depth |-> depth, blk |-> u])

SavedBuffers == WithTop([Top EXCEPT !.state = Clean])

MayLoad(u) == u # 0 /\ Len(bufs) < MaxDepth /\ WriteTop

\* Mutants: _block_push without SAVE-BUFFERS, and _block_push saving the
\* block pointer on the return stack after having changed it.
LOADUnsaved(u) == MayLoad(u) /\ Interpret(u, bufs, Len(bufs)) /\ UNCHANGED <<fd, console>>
LOADLatePush(u) == MayLoad(u) /\ Interpret(u, SavedBuffers, Len(bufs) + 1) /\ UNCHANGED <<fd, console>>

\* LOAD: SAVE-BUFFERS, a buffer of its own, then BLOCK into it.
LOAD(u) == MayLoad(u) /\ Interpret(u, SavedBuffers, Len(bufs)) /\ UNCHANGED <<fd, console>>

\* LOAD's BLOCK raises -35 or -33 before LOAD's CATCH: nothing makes the
\* suspended buffer current again but an outer LOAD.
LoadFails(u) ==
  /\ u = 0 \/ "read" \in Faults
  /\ Len(bufs) < MaxDepth
  /\ WriteTop
  /\ \E j \in 0 .. Len(loads) :
       Caught(j, Append(SavedBuffers, NewBuffer(Junk)))
  /\ pos' = Sought(u, WrittenPos(pos, Top))
  /\ UNCHANGED <<fd, console>>

\* The buffer of a LOAD that a signal ends before its CATCH: ALLOCATE clears
\* nothing, so before the stores any number and state are in it; then it is free,
\* block u is read into it, has its number there, and is clean.
PushedBuffers(u) ==
  [number : 0 .. MaxBlock, state : {Free, Clean, Dirty}, data : {Junk}]
  \cup [number : {0, u}, state : {Free, Clean}, data : {ReadData(disk'[fd], u, Junk)}]

\* SIGINT in LOAD, after _block_push has made its buffer current and before CATCH.
SignalInLoad(u) ==
  /\ "signal" \in Faults
  /\ Len(bufs) < MaxDepth
  /\ WriteTop
  /\ \E b \in PushedBuffers(u), j \in 0 .. Len(loads) :
       Caught(j, Append(SavedBuffers, b))
  /\ pos' \in {WrittenPos(pos, Top), u - 1, ReadPos(disk'[fd], u)}
  /\ UNCHANGED <<fd, console>>

\* The process ends, by BYE or a signal, and another starts; -b opens a file.
Restart ==
  /\ bufs' = <<NewBuffer(Zeros)>>
  /\ loads' = <<>>
  /\ fd' \in Volumes \cup {NoVolume}
  /\ pos' = 0
  /\ console' = 0
  /\ stale' = {}
  /\ UNCHANGED disk

Init ==
  /\ disk \in [Volumes -> {<<>>} \cup {<<d>> : d \in Contents}]
  /\ fd \in Volumes \cup {NoVolume}
  /\ pos = 0
  /\ bufs = <<NewBuffer(Zeros)>>
  /\ loads = <<>>
  /\ console = 0
  /\ stale = {}

\* A word, or the end of one.
Word ==
  \/ \E u \in 1 .. MaxBlock :
       \/ AccessHit(u)
       \/ BlockMiss(u)
       \/ BufferMiss(u)
       \/ BlockReadFails(u)
       \/ SignalInAccess(u)
       \/ LOAD(u)
       \/ SignalInLoad(u)
  \/ \E d \in Contents : Store(d)
  \/ \E v \in Volumes : OPEN_BLOCK(v)
  \/ \E j \in 0 .. MaxDepth : LeaveLoads(j)
  \/ UPDATE
  \/ EMPTY_BUFFERS
  \/ SAVE_BUFFERS
  \/ FLUSH
  \/ CLOSE_BLOCK
  \/ \E u \in 0 .. MaxBlock : LoadFails(u)
  \/ WriteBroken
  \/ SignalBeforePop
  \/ QUIT
  \/ ConsoleLine

\* What a word does with a freed buffer or a closed file is undefined, so the
\* model then follows the process no further than to its end.
Next ==
  \/ stale = {} /\ Word /\ UNCHANGED stale
  \/ stale = {} /\ SignalInPop
  \/ stale = {} /\ SignalInClose
  \/ Restart

Spec == Init /\ [][Next]_vars

-----------------------------------------------------------------------------
\* The shape of the state: one p4_block at least exists.
TypeOK ==
  /\ disk \in [Volumes -> Seq(Data)]
  /\ fd \in Volumes \cup {NoVolume}
  /\ pos \in Nat
  /\ bufs \in Seq(Buffer) \ {<<>>}
  /\ loads \in Seq(LoadFrame)
  /\ console \in 0 .. Len(bufs)
  /\ stale \in {{}, {"block"}, {"fd"}}

Nested ==
  \A i \in 1 .. Len(loads) :
    /\ loads[i].depth \in Longer(1, console) .. Len(bufs) - 1
    /\ \A k \in 1 .. i - 1 : loads[k].depth < loads[i].depth

\* Nested LOADs: each suspended its own buffer, so the buffer a LOAD makes
\* current when it ends is neither its own nor one of a LOAD inside it, and
\* no LOAD gives up the buffer that terminal lines are read into.  One case is
\* excepted: once a SIGINT has struck between _block_pop's FREE and its store
\* (SignalInPop), the current buffer is a freed one, and a LOAD that a program's
\* CATCH goes on to would suspend, and return to, that.
LoadsNested == "block" \notin stale => Nested

\* GH-16: a buffer that the running program cannot reach holds no update that
\* has not been given to the file.
SuspendedAreSaved == \A i \in 1 .. Len(bufs) - 1 : bufs[i].state = Clean

\* A stored block changes only when the file it belongs to is open and the
\* buffer assigned to it is written; a buffer assigned to no block is written
\* where the file position happens to be.
OnlyAssignedChanges ==
  \A v \in Volumes : \A i \in 1 .. Len(disk[v]) :
    disk'[v][i] # disk[v][i] =>
      v = fd /\ (i = Top.number \/ (Top.number = 0 /\ i = pos + 1))

OnlyAssignedBlockChanges == [][OnlyAssignedChanges]_vars

\* A file never shrinks; writing an assigned buffer past the end adds blocks up
\* to its own at most, the ones before it blank and its own either the buffer's
\* or, when a signal or a failed write came before the last of _block_write's
\* writes, blank too.
BlanksThenBuffer ==
  \A v \in Volumes :
    /\ Len(disk'[v]) >= Len(disk[v])
    /\ Top.number # 0 =>
         \A i \in Len(disk[v]) + 1 .. Len(disk'[v]) :
           /\ i <= Top.number
           /\ disk'[v][i] \in IF i < Top.number THEN {Blank} ELSE {Blank, Top.data}

GrowsByBlanks == [][BlanksThenBuffer]_vars

=============================================================================
