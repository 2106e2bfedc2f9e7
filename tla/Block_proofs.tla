---------------------------- MODULE Block_proofs ----------------------------
(***************************************************************************)
(* Theorems about the block words, for all constants that satisfy the      *)
(* assumptions of BlockBuffer: the inductive invariant, and the two        *)
(* promises about what a step may do to a block file.  Then, that under a  *)
(* careful program they implement the store of BlockStore, for any number  *)
(* of files, blocks, contents and nested LOADs, when no file operation     *)
(* fails: the clean buffers agree with the file, and every word is a step  *)
(* of the store or none.                                                   *)
(***************************************************************************)
EXTENDS BlockClient, TLAPS

IInv == TypeOK /\ Nested /\ SuspendedAreSaved

\* What an action leaves behind when it respects IInv in bufs and loads.
BuffersOK == bufs \in Seq(Buffer) \ {<<>>} /\ loads \in Seq(LoadFrame)
             /\ console \in 0 .. Len(bufs)
             /\ Nested /\ SuspendedAreSaved

-----------------------------------------------------------------------------
(* Sequences, element by element. *)

\* Append.
LEMMA AppendFacts ==
  ASSUME NEW S, NEW s \in Seq(S), NEW a \in S
  PROVE  /\ Append(s, a) \in Seq(S)
         /\ Len(Append(s, a)) = Len(s) + 1
         /\ \A i \in 1 .. Len(s) : Append(s, a)[i] = s[i]
         /\ Append(s, a)[Len(s) + 1] = a
         /\ Len(s) \in Nat
OBVIOUS

\* A prefix.
LEMMA PrefixFacts ==
  ASSUME NEW S, NEW s \in Seq(S), NEW n \in 0 .. Len(s)
  PROVE  /\ SubSeq(s, 1, n) \in Seq(S)
         /\ Len(SubSeq(s, 1, n)) = n
         /\ \A i \in 1 .. n : SubSeq(s, 1, n)[i] = s[i]
         /\ Len(s) \in Nat
OBVIOUS

-----------------------------------------------------------------------------
(* The file operators. *)

\* Appending blanks keeps a file a sequence of blocks.
LEMMA GrownType ==
  ASSUME NEW f \in Seq(Data), NEW u \in Nat
  PROVE  /\ Grown(f, u) \in Seq(Data)
         /\ Len(Grown(f, u)) = Longer(Len(f), u)
         /\ \A i \in 1 .. Longer(Len(f), u) :
              Grown(f, u)[i] = IF i <= Len(f) THEN f[i] ELSE Blank
<1> DEFINE n == Longer(Len(f), u)
<1>1. n \in Nat /\ n >= Len(f)
  BY DEF Longer
<1>2. \A i \in 1 .. n : (IF i <= Len(f) THEN f[i] ELSE Blank) \in Data
  BY <1>1 DEF Data
<1> QED
  BY <1>1, <1>2 DEF Grown

\* Writing one block, at any position, keeps a file a sequence of blocks.
LEMMA PutAtType ==
  ASSUME NEW f \in Seq(Data), NEW p \in Nat, NEW d \in Data
  PROVE  /\ PutAt(f, p, d) \in Seq(Data)
         /\ Len(PutAt(f, p, d)) = Longer(Len(f), p + 1)
         /\ \A i \in 1 .. Longer(Len(f), p + 1) :
              PutAt(f, p, d)[i] =
                IF i = p + 1 THEN d ELSE IF i <= Len(f) THEN f[i] ELSE Zeros
<1> DEFINE n == Longer(Len(f), p + 1)
<1>1. n \in Nat /\ n >= Len(f)
  BY DEF Longer
<1>2. \A i \in 1 .. n :
        (IF i = p + 1 THEN d ELSE IF i <= Len(f) THEN f[i] ELSE Zeros) \in Data
  BY <1>1 DEF Data
<1> QED
  BY <1>1, <1>2 DEF PutAt

\* The file position after a seek is a natural number.
LEMMA SoughtType ==
  ASSUME NEW u \in Nat, NEW p \in Nat
  PROVE  Sought(u, p) \in Nat
BY DEF Sought

\* A write leaves a file of blocks, and the position inside or at its end.
LEMMA WriteType ==
  ASSUME NEW f \in Seq(Data), NEW p \in Nat, NEW b \in Buffer
  PROVE  /\ WriteOutcomes(f, p, b) \subseteq Seq(Data)
         /\ WrittenPos(p, b) \in Nat
<1>1. b.number \in Nat /\ b.data \in Data
  BY DEF Buffer
<1>2. Sought(b.number, p) \in Nat
  BY <1>1, SoughtType
<1>3. Grown(f, b.number) \in Seq(Data) /\ Written(f, p, b) \in Seq(Data)
  BY <1>1, <1>2, GrownType, PutAtType DEF Written
<1> QED
  BY <1>2, <1>3 DEF WriteOutcomes, WrittenPos

\* A write that a signal or an exception ends leaves no less.
LEMMA BrokenType ==
  ASSUME NEW f \in Seq(Data), NEW p \in Nat, NEW b \in Buffer,
         NEW e \in BrokenOutcomes(f, p, b)
  PROVE  e.file \in Seq(Data) /\ e.at \in Nat
<1>1. b.number \in Nat /\ b.data \in Data /\ Len(f) \in Nat
  BY DEF Buffer
<1>2. Sought(b.number, p) \in Nat
  BY <1>1, SoughtType
<1>3. \A k \in Nat : Grown(f, k) \in Seq(Data)
  BY GrownType
<1>4. Written(f, p, b) \in Seq(Data) /\ WrittenPos(p, b) \in Nat
  <2>1. Grown(f, b.number) \in Seq(Data)
    BY <1>1, <1>3
  <2>2. Written(f, p, b) \in Seq(Data)
    BY <1>1, <1>2, <2>1, PutAtType DEF Written
  <2> QED
    BY <1>2, <2>2 DEF WrittenPos
<1>5. CASE e \in {[file |-> Grown(f, k), at |-> k] : k \in Len(f) .. b.number}
  <2>1. PICK k \in Len(f) .. b.number : e = [file |-> Grown(f, k), at |-> k]
    BY <1>5
  <2>2. k \in Nat
    BY <1>1
  <2> QED
    BY <1>3, <2>1, <2>2
<1>6. CASE e = [file |-> f, at |-> p]
  BY <1>6
<1>7. CASE e = [file |-> Grown(f, b.number), at |-> Sought(b.number, p)]
  BY <1>1, <1>2, <1>3, <1>7
<1>8. CASE e = [file |-> Written(f, p, b), at |-> WrittenPos(p, b)]
  BY <1>4, <1>8
<1> QED
  BY <1>5, <1>6, <1>7, <1>8 DEF BrokenOutcomes

\* A read delivers a block of the file or leaves the buffer as it was.
LEMMA ReadType ==
  ASSUME NEW f \in Seq(Data), NEW u \in Nat \ {0}, NEW d \in Data
  PROVE  ReadData(f, u, d) \in Data /\ ReadPos(f, u) \in Nat
BY DEF ReadData, ReadPos

-----------------------------------------------------------------------------
(* The buffers. *)

\* Changing the current buffer keeps the number of buffers and the others.
LEMMA WithTopType ==
  ASSUME TypeOK, SuspendedAreSaved, NEW b \in Buffer
  PROVE  /\ Top \in Buffer
         /\ WithTop(b) \in Seq(Buffer)
         /\ Len(WithTop(b)) = Len(bufs)
         /\ WithTop(b)[Len(bufs)] = b
         /\ \A i \in 1 .. Len(bufs) - 1 : WithTop(b)[i].state = Clean
<1>1. bufs \in Seq(Buffer) /\ Len(bufs) \in Nat \ {0}
  BY DEF TypeOK
<1>2. WithTop(b) \in Seq(Buffer) /\ Len(WithTop(b)) = Len(bufs)
  BY <1>1 DEF WithTop
<1>3. \A i \in 1 .. Len(bufs) : WithTop(b)[i] = IF i = Len(bufs) THEN b ELSE bufs[i]
  BY <1>1 DEF WithTop
<1> QED
  BY <1>1, <1>2, <1>3 DEF Top, SuspendedAreSaved

\* A step that only changes the current buffer respects the invariant.
LEMMA TopStep ==
  ASSUME TypeOK, Nested, SuspendedAreSaved, NEW b \in Buffer,
         bufs' = WithTop(b), UNCHANGED <<loads, console>>
  PROVE  BuffersOK'
<1>1. bufs' \in Seq(Buffer) \ {<<>>} /\ Len(bufs') = Len(bufs)
  BY WithTopType DEF TypeOK
<1>2. Nested'
  BY <1>1 DEF Nested
<1>3. SuspendedAreSaved'
  BY <1>1, WithTopType DEF SuspendedAreSaved
<1> QED
  BY <1>1, <1>2, <1>3 DEF BuffersOK, TypeOK

\* Leaving LOADs, from buffers bs, respects the invariant when bs does.
LEMMA CaughtStep ==
  ASSUME TypeOK, Nested, NEW bs \in Seq(Buffer), Len(bs) >= Len(bufs),
         \A i \in 1 .. Len(bs) - 1 : bs[i].state = Clean,
         NEW j \in 0 .. Len(loads), Caught(j, bs), UNCHANGED console
  PROVE  BuffersOK'
<1>1. /\ loads \in Seq(LoadFrame) /\ Len(loads) \in Nat
      /\ bufs \in Seq(Buffer) /\ Len(bufs) \in Nat \ {0}
      /\ Len(bs) \in Nat \ {0}
      /\ console \in 0 .. Len(bufs) /\ console' = console
  BY DEF TypeOK
<1>2. /\ loads' \in Seq(LoadFrame)
      /\ Len(loads') = j
      /\ \A i \in 1 .. j : loads'[i] = loads[i]
  BY <1>1 DEF Caught
<1>3. \A i \in 1 .. j : \A k \in 1 .. i - 1 : loads'[k].depth < loads'[i].depth
  <2>1. \A i \in 1 .. j : i \in 1 .. Len(loads) /\ \A k \in 1 .. i - 1 : k \in 1 .. j
    BY <1>1
  <2> QED
    BY <1>2, <2>1 DEF Nested
<1>4. CASE j = Len(loads)
  <2>1. bufs' = bs
    BY <1>4 DEF Caught, BuffersAt
  <2>2. \A i \in 1 .. j : loads'[i].depth \in Longer(1, console) .. Len(bs) - 1
    BY <1>1, <1>2, <1>4 DEF Nested, Longer
  <2>3. Nested'
    BY <1>1, <1>2, <1>3, <2>1, <2>2 DEF Nested
  <2> QED
    BY <1>1, <1>2, <2>1, <2>3 DEF BuffersOK, SuspendedAreSaved
<1>5. CASE j # Len(loads)
  <2> DEFINE m == loads[j + 1].depth
  <2>1. j + 1 \in 1 .. Len(loads) /\ m \in 1 .. Len(bufs) - 1 /\ m >= console
    BY <1>1, <1>5 DEF Nested, Longer
  <2>2. bufs' = SubSeq(bs, 1, m)
    BY <1>5 DEF Caught, BuffersAt
  <2>3. /\ bufs' \in Seq(Buffer) /\ Len(bufs') = m
        /\ \A i \in 1 .. m : bufs'[i] = bs[i]
    <3>1. m \in 0 .. Len(bs)
      BY <1>1, <2>1
    <3> QED
      BY <1>1, <2>2, <3>1, PrefixFacts
  <2>4. \A i \in 1 .. j : loads[i].depth \in Longer(1, console) .. m - 1
    BY <1>1, <2>1 DEF Nested, Longer
  <2>5. Nested'
    BY <1>1, <1>2, <1>3, <2>3, <2>4 DEF Nested
  <2>6. SuspendedAreSaved'
    <3>1. \A i \in 1 .. m - 1 : i \in 1 .. m /\ i \in 1 .. Len(bs) - 1
      BY <1>1, <2>1
    <3> QED
      BY <2>3, <3>1 DEF SuspendedAreSaved
  <2> QED
    BY <1>1, <1>2, <2>1, <2>3, <2>5, <2>6 DEF BuffersOK
<1> QED
  BY <1>4, <1>5

\* Writing a file of blocks into the open volume keeps the disk well formed.
LEMMA DiskStep ==
  ASSUME TypeOK, fd # NoVolume, NEW f \in Seq(Data),
         disk' = [disk EXCEPT ![fd] = f]
  PROVE  disk' \in [Volumes -> Seq(Data)]
BY DEF TypeOK

\* Whatever eviction does, it leaves a file of blocks and a file position.
LEMMA EvictType ==
  ASSUME TypeOK, SuspendedAreSaved, fd # NoVolume, NEW e \in EvictOutcomes
  PROVE  e.file \in Seq(Data) /\ e.at \in Nat
<1>1. disk[fd] \in Seq(Data) /\ pos \in Nat /\ Top \in Buffer
  BY DEF TypeOK, Top
<1> QED
  BY <1>1, WriteType DEF EvictOutcomes

-----------------------------------------------------------------------------
(* The invariant. *)

\* One file, one buffer or more and no LOAD: the initial states.
LEMMA InitIInv == Init => IInv
<1> SUFFICES ASSUME Init PROVE IInv
  OBVIOUS
<1>1. disk \in [Volumes -> Seq(Data)]
  <2> DEFINE Initially == {<<>>} \cup {<<d>> : d \in Contents}
  <2>1. Initially \subseteq Seq(Data)
    <3>1. \A d \in Contents : d \in Data
      BY DEF Data
    <3>2. \A d \in Data : <<d>> \in Seq(Data)
      OBVIOUS
    <3>3. <<>> \in Seq(Data)
      OBVIOUS
    <3> QED
      BY <3>1, <3>2, <3>3
  <2>2. disk \in [Volumes -> Initially]
    BY DEF Init
  <2> HIDE DEF Initially
  <2> QED
    BY <2>1, <2>2
<1>2. NewBuffer(Zeros) \in Buffer
  BY DEF NewBuffer, Buffer, Data, Free
<1>3. bufs \in Seq(Buffer) /\ Len(bufs) = 1 /\ loads = <<>>
  BY <1>2 DEF Init
<1>4. TypeOK
  BY <1>1, <1>3 DEF Init, TypeOK
<1> QED
  BY <1>3, <1>4 DEF IInv, Nested, SuspendedAreSaved

\* A block access of any kind respects the invariant.
LEMMA AccessStep ==
  ASSUME IInv, UNCHANGED stale, NEW u \in 1 .. MaxBlock,
         \/ AccessHit(u) \/ BlockMiss(u) \/ BufferMiss(u)
         \/ BlockReadFails(u) \/ SignalInAccess(u)
  PROVE  IInv'
<1> USE DEF IInv
<1>1. /\ Top \in Buffer /\ bufs \in Seq(Buffer) /\ Len(bufs) \in Nat
      /\ u \in Nat \ {0}
      /\ disk \in [Volumes -> Seq(Data)] /\ pos \in Nat
      /\ fd \in Volumes \cup {NoVolume}
  BY BoundsAssumption DEF TypeOK, Top
<1>2. \A d \in Data, n \in Nat, t \in {Free, Clean, Dirty} :
        [number |-> n, state |-> t, data |-> d] \in Buffer
  BY DEF Buffer
<1>3. /\ Top.number \in Nat /\ Top.state \in {Free, Clean, Dirty} /\ Top.data \in Data
      /\ Torn \in Data
  BY <1>1 DEF Buffer, Data
<1>4. CASE AccessHit(u)
  <2>1. [Top EXCEPT !.state = Clean] \in Buffer
    BY <1>1 DEF Buffer
  <2>2. BuffersOK'
    BY <1>4, <2>1, TopStep DEF AccessHit
  <2> QED
    BY <1>1, <1>4, <2>2 DEF AccessHit, BuffersOK, TypeOK
<1>5. CASE BlockMiss(u)
  <2>1. PICK e \in EvictOutcomes :
          /\ disk' = [disk EXCEPT ![fd] = e.file]
          /\ pos' = ReadPos(e.file, u)
          /\ bufs' = WithTop([number |-> u, state |-> Clean,
                              data |-> ReadData(e.file, u, Top.data)])
    BY <1>5 DEF BlockMiss
  <2>2. e.file \in Seq(Data) /\ fd # NoVolume
    BY <1>5, EvictType DEF BlockMiss
  <2>3. disk' \in [Volumes -> Seq(Data)] /\ pos' \in Nat
    BY <1>1, <1>3, <2>1, <2>2, DiskStep, ReadType
  <2>4. [number |-> u, state |-> Clean, data |-> ReadData(e.file, u, Top.data)] \in Buffer
    BY <1>1, <1>2, <1>3, <2>2, ReadType
  <2>5. BuffersOK'
    BY <1>5, <2>1, <2>4, TopStep DEF BlockMiss
  <2> QED
    BY <1>1, <1>5, <2>3, <2>5 DEF BlockMiss, BuffersOK, TypeOK
<1>6. CASE BufferMiss(u)
  <2>1. disk' \in [Volumes -> Seq(Data)] /\ pos' \in Nat
    BY <1>1, <1>6, EvictType, DiskStep DEF BufferMiss
  <2>2. [Top EXCEPT !.number = u, !.state = Clean] \in Buffer
    BY <1>1 DEF Buffer
  <2>3. BuffersOK'
    BY <1>6, <2>2, TopStep DEF BufferMiss
  <2> QED
    BY <1>1, <1>6, <2>1, <2>3 DEF BufferMiss, BuffersOK, TypeOK
<1>7. CASE BlockReadFails(u)
  <2>1. PICK e \in EvictOutcomes, d \in {Top.data, Torn}, j \in 0 .. Len(loads) :
          /\ disk' = [disk EXCEPT ![fd] = e.file]
          /\ pos' = u - 1
          /\ Caught(j, WithTop([Top EXCEPT !.data = d]))
    BY <1>7 DEF BlockReadFails
  <2>2. disk' \in [Volumes -> Seq(Data)] /\ pos' \in Nat
    BY <1>1, <1>7, <2>1, EvictType, DiskStep DEF BlockReadFails
  <2>3. [Top EXCEPT !.data = d] \in Buffer
    BY <1>1, <1>3 DEF Buffer
  <2>4. UNCHANGED console
    BY <1>7 DEF BlockReadFails
  <2>5. BuffersOK'
    BY <1>1, <2>1, <2>3, <2>4, WithTopType, CaughtStep
  <2> QED
    BY <1>1, <1>7, <2>2, <2>5 DEF BlockReadFails, BuffersOK, TypeOK
<1>8. CASE SignalInAccess(u)
  <2> DEFINE read(e) == [Top EXCEPT !.data = ReadData(e.file, u, Top.data)]
             left(e) == {Top, [Top EXCEPT !.number = u],
                         read(e), [read(e) EXCEPT !.number = u]}
  <2>1. PICK e \in EvictOutcomes, j \in 0 .. Len(loads) :
          /\ disk' = [disk EXCEPT ![fd] = e.file]
          /\ pos' \in {e.at, ReadPos(e.file, u)}
          /\ \E b \in left(e) : Caught(j, WithTop(b))
    BY <1>8 DEF SignalInAccess
  <2>2. e.file \in Seq(Data) /\ e.at \in Nat /\ fd # NoVolume
    BY <1>8, EvictType DEF SignalInAccess
  <2>3. disk' \in [Volumes -> Seq(Data)] /\ pos' \in Nat
    BY <1>1, <1>3, <2>1, <2>2, DiskStep, ReadType
  <2>4. ReadData(e.file, u, Top.data) \in Data
    BY <1>1, <1>3, <2>2, ReadType
  <2>5. read(e) \in Buffer
    BY <1>1, <2>4 DEF Buffer
  <2>6. left(e) \subseteq Buffer
    BY <1>1, <2>5 DEF Buffer
  <2> HIDE DEF left
  <2>7. PICK b \in Buffer : Caught(j, WithTop(b))
    BY <2>1, <2>6
  <2>8. /\ WithTop(b) \in Seq(Buffer) /\ Len(WithTop(b)) = Len(bufs)
        /\ \A i \in 1 .. Len(WithTop(b)) - 1 : WithTop(b)[i].state = Clean
    BY <2>7, WithTopType
  <2>9. UNCHANGED console
    BY <1>8 DEF SignalInAccess
  <2>10. BuffersOK'
    BY <1>1, <2>7, <2>8, <2>9, CaughtStep
  <2> QED
    BY <1>1, <1>8, <2>3, <2>10 DEF SignalInAccess, BuffersOK, TypeOK
<1> QED
  BY <1>4, <1>5, <1>6, <1>7, <1>8

\* A word that writes the current buffer leaves a well-formed file system.
LEMMA WriteStep ==
  ASSUME TypeOK, WriteTop
  PROVE  /\ fd \in Volumes
         /\ disk' \in [Volumes -> Seq(Data)]
         /\ disk'[fd] \in Seq(Data)
         /\ WrittenPos(pos, Top) \in Nat
<1>1. /\ fd \in Volumes /\ fd # NoVolume
      /\ disk[fd] \in Seq(Data) /\ pos \in Nat /\ Top \in Buffer
  BY DEF TypeOK, WriteTop, Top
<1>2. PICK f \in WriteOutcomes(disk[fd], pos, Top) : disk' = [disk EXCEPT ![fd] = f]
  BY DEF WriteTop
<1>3. f \in Seq(Data) /\ WrittenPos(pos, Top) \in Nat
  BY <1>1, WriteType
<1> QED
  BY <1>1, <1>2, <1>3, DiskStep

\* The buffers LOAD leaves suspended: as many, and all of them clean.
LEMMA SavedBuffersType ==
  ASSUME TypeOK, SuspendedAreSaved
  PROVE  /\ SavedBuffers \in Seq(Buffer)
         /\ Len(SavedBuffers) = Len(bufs)
         /\ \A i \in 1 .. Len(bufs) : SavedBuffers[i].state = Clean
<1> DEFINE b == [Top EXCEPT !.state = Clean]
<1>1. Len(bufs) \in Nat \ {0} /\ Top \in Buffer
  BY DEF TypeOK, Top
<1>2. b \in Buffer /\ b.state = Clean
  BY <1>1 DEF Buffer
<1>3. \A i \in 1 .. Len(bufs) : i \in 1 .. Len(bufs) - 1 \/ i = Len(bufs)
  BY <1>1
<1>4. /\ WithTop(b) \in Seq(Buffer) /\ Len(WithTop(b)) = Len(bufs)
      /\ WithTop(b)[Len(bufs)] = b
      /\ \A i \in 1 .. Len(bufs) - 1 : WithTop(b)[i].state = Clean
  BY <1>2, WithTopType
<1> QED
  BY <1>2, <1>3, <1>4 DEF SavedBuffers

\* LOAD suspends a saved buffer and remembers where it is.
LEMMA LoadStep ==
  ASSUME IInv, UNCHANGED stale, NEW u \in 1 .. MaxBlock, LOAD(u)
  PROVE  IInv'
<1> USE DEF IInv
<1>1. /\ Len(bufs) \in Nat \ {0} /\ u \in Nat \ {0}
      /\ loads \in Seq(LoadFrame) /\ Len(loads) \in Nat
      /\ console \in 0 .. Len(bufs)
  BY BoundsAssumption DEF TypeOK
<1>2. WriteTop /\ Interpret(u, SavedBuffers, Len(bufs)) /\ UNCHANGED <<fd, console>>
  BY DEF LOAD, MayLoad
<1>3. /\ fd \in Volumes
      /\ disk' \in [Volumes -> Seq(Data)] /\ disk'[fd] \in Seq(Data)
  BY <1>2, WriteStep
<1>4. /\ ReadData(disk'[fd], u, Junk) \in Data
      /\ ReadPos(disk'[fd], u) \in Nat
  BY <1>1, <1>3, ReadType DEF Data
<1> DEFINE text == [number |-> u, state |-> Clean, data |-> ReadData(disk'[fd], u, Junk)]
           frame == [depth |-> Len(bufs), blk |-> u]
<1>5. text \in Buffer
  BY <1>1, <1>4 DEF Buffer
<1>6. bufs' = Append(SavedBuffers, text) /\ loads' = Append(loads, frame)
  BY <1>2 DEF Interpret
<1> HIDE DEF text
<1>7. /\ SavedBuffers \in Seq(Buffer) /\ Len(SavedBuffers) = Len(bufs)
      /\ \A i \in 1 .. Len(bufs) : SavedBuffers[i].state = Clean
  BY SavedBuffersType
<1>8. /\ bufs' \in Seq(Buffer) /\ Len(bufs') = Len(bufs) + 1
      /\ \A i \in 1 .. Len(bufs) : bufs'[i] = SavedBuffers[i]
  BY <1>5, <1>6, <1>7, AppendFacts
<1>9. SuspendedAreSaved'
  BY <1>1, <1>7, <1>8 DEF SuspendedAreSaved
<1>10. /\ loads' \in Seq(LoadFrame) /\ Len(loads') = Len(loads) + 1
       /\ \A i \in 1 .. Len(loads) : loads'[i] = loads[i]
       /\ loads'[Len(loads) + 1].depth = Len(bufs)
  <2>1. frame \in LoadFrame /\ frame.depth = Len(bufs)
    BY <1>1 DEF LoadFrame
  <2> HIDE DEF frame
  <2> QED
    BY <1>1, <1>6, <2>1, AppendFacts
<1>11. \A i \in 1 .. Len(loads') : i \in 1 .. Len(loads) \/ i = Len(loads) + 1
  BY <1>1, <1>10
<1>12. \A i \in 1 .. Len(loads') : loads'[i].depth \in Longer(1, console) .. Len(bufs)
  BY <1>1, <1>10, <1>11 DEF Nested, Longer
<1>13. \A i \in 1 .. Len(loads) : loads[i].depth \in 1 .. Len(bufs) - 1
  BY <1>1 DEF Nested, Longer
<1>14. \A i \in 1 .. Len(loads) : loads'[i].depth < Len(bufs)
  BY <1>1, <1>10, <1>13
<1>15. \A i \in 1 .. Len(loads') : \A k \in 1 .. i - 1 : loads'[k].depth < loads'[i].depth
  <2> SUFFICES ASSUME NEW i \in 1 .. Len(loads'), NEW k \in 1 .. i - 1
               PROVE  loads'[k].depth < loads'[i].depth
    OBVIOUS
  <2>1. k \in 1 .. Len(loads)
    BY <1>1, <1>10
  <2>2. CASE i \in 1 .. Len(loads)
    BY <1>10, <2>1, <2>2 DEF Nested
  <2>3. CASE i = Len(loads) + 1
    BY <1>10, <1>14, <2>1, <2>3
  <2> QED
    BY <1>11, <2>2, <2>3
<1>16. Nested'
  BY <1>1, <1>2, <1>8, <1>12, <1>15 DEF Nested
<1>17. TypeOK'
  BY <1>1, <1>2, <1>3, <1>4, <1>8, <1>10 DEF TypeOK, Interpret
<1> QED
  BY <1>9, <1>16, <1>17

\* A LOAD that fails, or that a signal ends, before its CATCH leaves its own
\* buffer current, or returns to an outer LOAD.
LEMMA LoadFailsStep ==
  ASSUME IInv, UNCHANGED stale, NEW u \in 0 .. MaxBlock,
         LoadFails(u) \/ (u # 0 /\ SignalInLoad(u))
  PROVE  IInv'
<1> USE DEF IInv
<1>1. Len(bufs) \in Nat \ {0} /\ u \in Nat
  BY BoundsAssumption DEF TypeOK
<1>3. WriteTop /\ UNCHANGED <<fd, console>>
  BY DEF LoadFails, SignalInLoad
<1>11. disk' \in [Volumes -> Seq(Data)] /\ disk'[fd] \in Seq(Data)
  BY <1>3, WriteStep
<1>2. PICK new \in Buffer, j \in 0 .. Len(loads) :
        Caught(j, Append(SavedBuffers, new))
  <2>1. CASE LoadFails(u)
    <3>1. NewBuffer(Junk) \in Buffer
      BY DEF NewBuffer, Buffer, Data, Free
    <3> QED
      BY <2>1, <3>1 DEF LoadFails
  <2>2. CASE u # 0 /\ SignalInLoad(u)
    <3>1. ReadData(disk'[fd], u, Junk) \in Data
      BY <1>1, <1>11, <2>2, ReadType DEF Data
    <3>2. PushedBuffers(u) \subseteq Buffer
      BY <1>1, <3>1, BoundsAssumption DEF PushedBuffers, Buffer, Data
    <3> QED
      BY <2>2, <3>2 DEF SignalInLoad
  <2> QED
    BY <2>1, <2>2
<1> DEFINE bs == Append(SavedBuffers, new)
<1>4. disk' \in [Volumes -> Seq(Data)] /\ pos' \in Nat
  <2>1. CASE LoadFails(u)
    BY <1>1, <2>1, WriteStep, SoughtType DEF LoadFails
  <2>2. CASE u # 0 /\ SignalInLoad(u)
    <3>1. WrittenPos(pos, Top) \in Nat
      BY <1>3, WriteStep
    <3>2. u \in Nat \ {0} /\ Junk \in Data
      BY <1>1, <2>2 DEF Data
    <3>3. u \in Nat /\ u - 1 \in Nat
      BY <3>2
    <3>4. ReadPos(disk'[fd], u) \in Nat
      BY <3>3 DEF ReadPos
    <3> QED
      BY <1>11, <2>2, <3>1, <3>3, <3>4 DEF SignalInLoad
  <2> QED
    BY <2>1, <2>2
<1>5. Caught(j, bs)
  BY <1>2
<1>6. /\ SavedBuffers \in Seq(Buffer) /\ Len(SavedBuffers) = Len(bufs)
      /\ \A i \in 1 .. Len(bufs) : SavedBuffers[i].state = Clean
  BY SavedBuffersType
<1>7. /\ bs \in Seq(Buffer) /\ Len(bs) = Len(bufs) + 1
      /\ \A i \in 1 .. Len(bs) - 1 : bs[i].state = Clean
  <2>1. /\ bs \in Seq(Buffer) /\ Len(bs) = Len(bufs) + 1
        /\ \A i \in 1 .. Len(bufs) : bs[i] = SavedBuffers[i]
    BY <1>2, <1>6, AppendFacts
  <2> QED
    BY <1>1, <1>6, <2>1
<1> HIDE DEF bs
<1>8. Len(bs) >= Len(bufs)
  BY <1>1, <1>7
<1>9. BuffersOK'
  BY <1>3, <1>5, <1>7, <1>8, CaughtStep
<1> QED
  BY <1>3, <1>4, <1>9 DEF BuffersOK, TypeOK

\* The words that write, free or reassign the current buffer.
LEMMA WordStep ==
  ASSUME IInv, UNCHANGED stale,
         \/ \E d \in Contents : Store(d)
         \/ \E v \in Volumes : OPEN_BLOCK(v)
         \/ UPDATE \/ EMPTY_BUFFERS \/ SAVE_BUFFERS \/ FLUSH \/ CLOSE_BLOCK
  PROVE  IInv'
<1> USE DEF IInv
<1>1. Top \in Buffer /\ fd \in Volumes \cup {NoVolume}
      /\ disk \in [Volumes -> Seq(Data)] /\ pos \in Nat
  BY DEF TypeOK, Top
<1>2. ASSUME NEW d \in Contents, Store(d) PROVE IInv'
  <2>1. [Top EXCEPT !.data = d] \in Buffer
    BY <1>1 DEF Buffer, Data
  <2> QED
    BY <1>1, <1>2, <2>1, TopStep DEF Store, BuffersOK, TypeOK
<1>3. ASSUME NEW v \in Volumes, OPEN_BLOCK(v) PROVE IInv'
  <2>1. [Top EXCEPT !.number = 0] \in Buffer
    BY <1>1 DEF Buffer
  <2>2. BuffersOK'
    BY <1>3, <2>1, TopStep DEF OPEN_BLOCK
  <2> QED
    BY <1>1, <1>3, <2>2 DEF OPEN_BLOCK, BuffersOK, TypeOK
<1>4. CASE UPDATE
  <2>1. [Top EXCEPT !.state = Dirty] \in Buffer
    BY <1>1 DEF Buffer
  <2> QED
    BY <1>1, <1>4, <2>1, TopStep DEF UPDATE, BuffersOK, TypeOK
<1>5. [Top EXCEPT !.number = 0, !.state = Free] \in Buffer
  BY <1>1 DEF Buffer
<1>6. CASE EMPTY_BUFFERS
  BY <1>1, <1>5, <1>6, TopStep DEF EMPTY_BUFFERS, BuffersOK, TypeOK
<1>7. CASE SAVE_BUFFERS
  <2>1. [Top EXCEPT !.state = Clean] \in Buffer
    BY <1>1 DEF Buffer
  <2>2. BuffersOK'
    BY <1>7, <2>1, TopStep DEF SAVE_BUFFERS
  <2> QED
    BY <1>1, <1>7, <2>2, WriteStep DEF SAVE_BUFFERS, BuffersOK, TypeOK
<1>8. CASE FLUSH
  <2>1. BuffersOK'
    BY <1>5, <1>8, TopStep DEF FLUSH
  <2> QED
    BY <1>1, <1>8, <2>1, WriteStep DEF FLUSH, BuffersOK, TypeOK
<1>9. CASE CLOSE_BLOCK
  <2>1. BuffersOK'
    BY <1>5, <1>9, TopStep DEF CLOSE_BLOCK
  <2> QED
    BY <1>1, <1>9, <2>1, WriteStep DEF CLOSE_BLOCK, BuffersOK, TypeOK
<1> QED
  BY <1>2, <1>3, <1>4, <1>6, <1>7, <1>8, <1>9

\* The ends of LOADs and of the process.
LEMMA EndStep ==
  ASSUME IInv,
         \/ /\ UNCHANGED stale
            /\ \/ \E j \in 0 .. MaxDepth : LeaveLoads(j)
               \/ SignalBeforePop \/ QUIT \/ ConsoleLine
         \/ SignalInPop
         \/ Restart
  PROVE  IInv'
<1> USE DEF IInv
<1>1. /\ bufs \in Seq(Buffer) /\ Len(bufs) \in Nat \ {0}
      /\ loads \in Seq(LoadFrame) /\ Len(loads) \in Nat
      /\ console \in 0 .. Len(bufs)
  BY DEF TypeOK
<1>2. ASSUME NEW j \in 0 .. MaxDepth, LeaveLoads(j), UNCHANGED stale PROVE IInv'
  <2>1. j \in 0 .. Len(loads) /\ Caught(j, bufs)
    BY <1>1, <1>2, BoundsAssumption DEF LeaveLoads
  <2>2. \A i \in 1 .. Len(bufs) - 1 : bufs[i].state = Clean
    BY DEF SuspendedAreSaved
  <2>3. BuffersOK'
    BY <1>1, <1>2, <2>1, <2>2, CaughtStep DEF LeaveLoads
  <2> QED
    BY <1>2, <2>3 DEF LeaveLoads, BuffersOK, TypeOK
<1>3. ASSUME (SignalBeforePop /\ UNCHANGED stale) \/ SignalInPop PROVE IInv'
  <2>1. /\ UNCHANGED <<disk, fd, pos, bufs, console>>
        /\ stale' \in {stale, {"block"}}
        /\ loads # <<>> /\ loads' = SubSeq(loads, 1, Len(loads) - 1)
    BY <1>3 DEF SignalBeforePop, SignalInPop
  <2> DEFINE n == Len(loads) - 1
  <2>6. n \in 0 .. Len(loads)
    BY <1>1, <2>1
  <2>2. /\ loads' \in Seq(LoadFrame) /\ Len(loads') = n
        /\ \A i \in 1 .. n : loads'[i] = loads[i]
    BY <1>1, <2>1, <2>6, PrefixFacts
  <2>3. \A i \in 1 .. n : i \in 1 .. Len(loads) /\ \A k \in 1 .. i - 1 : k \in 1 .. n
    BY <1>1
  <2>4. Nested'
    BY <2>1, <2>2, <2>3 DEF Nested
  <2>5. SuspendedAreSaved'
    BY <2>1 DEF SuspendedAreSaved
  <2> QED
    BY <2>1, <2>2, <2>4, <2>5 DEF TypeOK
<1>4. CASE Restart
  <2>1. NewBuffer(Zeros) \in Buffer
    BY DEF NewBuffer, Buffer, Data, Free
  <2>2. bufs' \in Seq(Buffer) /\ Len(bufs') = 1 /\ loads' = <<>>
    BY <1>4, <2>1 DEF Restart
  <2> QED
    BY <1>4, <2>2 DEF Restart, TypeOK, Nested, SuspendedAreSaved
<1>5. ASSUME QUIT, UNCHANGED stale PROVE IInv'
  <2>1. loads' = <<>> /\ console' \in 0 .. Len(bufs) /\ UNCHANGED <<disk, fd, pos, bufs>>
    BY <1>1, <1>5 DEF QUIT
  <2> QED
    BY <1>1, <1>5, <2>1 DEF TypeOK, Nested, SuspendedAreSaved
<1>6. ASSUME ConsoleLine, UNCHANGED stale PROVE IInv'
  <2> DEFINE b == [bufs[console] EXCEPT !.data = Torn]
  <2>1. console \in 1 .. Len(bufs) /\ bufs[console] \in Buffer
    BY <1>1, <1>6 DEF ConsoleLine
  <2>2. b \in Buffer /\ b.state = bufs[console].state
    BY <2>1 DEF Buffer, Data
  <2>3. bufs' = [bufs EXCEPT ![console] = b]
    BY <1>6 DEF ConsoleLine
  <2> HIDE DEF b
  <2>4. /\ bufs' \in Seq(Buffer) /\ Len(bufs') = Len(bufs)
        /\ \A i \in 1 .. Len(bufs) : bufs'[i] = IF i = console THEN b ELSE bufs[i]
    BY <1>1, <2>1, <2>2, <2>3
  <2>5. SuspendedAreSaved'
    BY <1>1, <2>2, <2>4 DEF SuspendedAreSaved
  <2>6. loads' = <<>>
    BY <1>6 DEF ConsoleLine
  <2> QED
    BY <1>1, <1>6, <2>4, <2>5, <2>6 DEF ConsoleLine, TypeOK, Nested
<1> QED
  BY <1>2, <1>3, <1>4, <1>5, <1>6

\* A write that a signal or an exception ends, and a CLOSE-BLOCK that a signal
\* ends, leave the buffers to whoever catches it.
LEMMA BrokenStep ==
  ASSUME IInv, (WriteBroken /\ UNCHANGED stale) \/ SignalInClose
  PROVE  IInv'
<1> USE DEF IInv
<1>1. /\ bufs \in Seq(Buffer) /\ Len(bufs) \in Nat \ {0} /\ Top \in Buffer
      /\ disk \in [Volumes -> Seq(Data)] /\ pos \in Nat
      /\ fd \in Volumes \cup {NoVolume}
  BY DEF TypeOK, Top
<1>2. \A i \in 1 .. Len(bufs) - 1 : bufs[i].state = Clean
  BY DEF SuspendedAreSaved
<1>3. UNCHANGED <<fd, console>> /\ stale' \in {stale, {"fd"}}
  BY DEF WriteBroken, SignalInClose
<1>4. PICK j \in 0 .. Len(loads) : Caught(j, bufs)
  BY DEF WriteBroken, SignalInClose
<1>5. BuffersOK'
  BY <1>1, <1>2, <1>3, <1>4, CaughtStep
<1>6. disk' \in [Volumes -> Seq(Data)] /\ pos' \in Nat
  <2>1. CASE WriteBroken
    <3>1. fd # NoVolume /\ disk[fd] \in Seq(Data)
      BY <1>1, <2>1 DEF WriteBroken
    <3>2. PICK e \in BrokenOutcomes(disk[fd], pos, Top) :
            disk' = [disk EXCEPT ![fd] = e.file] /\ pos' = e.at
      BY <2>1 DEF WriteBroken
    <3>3. e.file \in Seq(Data) /\ e.at \in Nat
      BY <1>1, <3>1, <3>2, BrokenType
    <3> QED
      BY <3>1, <3>2, <3>3, DiskStep
  <2>2. CASE SignalInClose
    BY <2>2, WriteStep DEF SignalInClose
  <2> QED
    BY <2>1, <2>2
<1> QED
  BY <1>3, <1>5, <1>6 DEF BuffersOK, TypeOK

\* The invariant of the block words: the state is well formed, LOADs are
\* nested, and suspended buffers hold nothing unsaved.
THEOREM Invariant == Spec => []IInv
<1>1. IInv /\ [Next]_vars => IInv'
  <2> SUFFICES ASSUME IInv, [Next]_vars PROVE IInv'
    OBVIOUS
  <2>1. CASE Next
    <3>0. \A u \in 1 .. MaxBlock : u \in 0 .. MaxBlock /\ u # 0
      BY BoundsAssumption
    <3>1. CASE Word /\ UNCHANGED stale
      BY <3>0, <3>1, AccessStep, LoadStep, LoadFailsStep, WordStep, EndStep, BrokenStep DEF Word
    <3>2. CASE SignalInPop \/ SignalInClose \/ Restart
      BY <3>2, EndStep, BrokenStep
    <3> QED
      BY <2>1, <3>1, <3>2 DEF Next
  <2>2. CASE UNCHANGED vars
    BY <2>2 DEF vars, IInv, TypeOK, Nested, SuspendedAreSaved, Top
  <2> QED
    BY <2>1, <2>2
<1> QED
  BY <1>1, InitIInv, PTL DEF Spec

\* Every state of the block words is well formed.
THEOREM TypeCorrect == Spec => []TypeOK
<1>1. IInv => TypeOK
  BY DEF IInv
<1> QED
  BY <1>1, Invariant, PTL

\* A LOAD returns to a buffer below its own, in the order they were suspended,
\* as long as no signal has struck between _block_pop's FREE and its store.
THEOREM LoadsStayNested == Spec => []LoadsNested
<1>1. IInv => LoadsNested
  BY DEF IInv, LoadsNested
<1> QED
  BY <1>1, Invariant, PTL

\* GH-16: whatever faults occur, a buffer out of reach holds no update that
\* was not given to the file.
THEOREM NoUpdateSuspended == Spec => []SuspendedAreSaved
<1>1. IInv => SuspendedAreSaved
  BY DEF IInv
<1> QED
  BY <1>1, Invariant, PTL

-----------------------------------------------------------------------------
(* What a step may do to a file. *)

\* What a _block_write of the buffer may leave in the open file, finished or not.
Outcomes ==
  {disk[fd], Written(disk[fd], pos, Top)} \cup {Grown(disk[fd], k) : k \in 0 .. Top.number}

\* Every step leaves the disk alone or does one _block_write of the buffer, or
\* a part of one.
LEMMA DiskChange ==
  ASSUME TypeOK, Next
  PROVE  \/ UNCHANGED disk
         \/ fd # NoVolume /\ \E f \in Outcomes : disk' = [disk EXCEPT ![fd] = f]
<1> DEFINE Good == \/ UNCHANGED disk
                   \/ fd # NoVolume /\ \E f \in Outcomes : disk' = [disk EXCEPT ![fd] = f]
<1>0. Top.number \in Nat
  <2>1. Top \in Buffer
    BY DEF TypeOK, Top
  <2> QED
    BY <2>1 DEF Buffer
<1>1. \A f \in WriteOutcomes(disk[fd], pos, Top) : f \in Outcomes
  BY <1>0 DEF WriteOutcomes, Outcomes
<1>6. \A e \in EvictOutcomes : e.file \in Outcomes
  BY <1>1 DEF EvictOutcomes, Outcomes
<1>2. WriteTop => Good
  BY <1>1 DEF WriteTop
<1>3. ASSUME NEW u \in 1 .. MaxBlock,
             \/ AccessHit(u) \/ BlockMiss(u) \/ BufferMiss(u)
             \/ BlockReadFails(u) \/ SignalInAccess(u) \/ LOAD(u)
      PROVE  Good
  <2>1. CASE AccessHit(u)
    BY <2>1 DEF AccessHit
  <2>2. CASE BlockMiss(u)
    BY <1>6, <2>2 DEF BlockMiss
  <2>3. CASE BufferMiss(u)
    BY <1>6, <2>3 DEF BufferMiss
  <2>4. CASE BlockReadFails(u)
    BY <1>6, <2>4 DEF BlockReadFails
  <2>5. CASE SignalInAccess(u)
    BY <1>6, <2>5 DEF SignalInAccess
  <2>6. CASE LOAD(u)
    BY <1>2, <2>6 DEF LOAD, MayLoad
  <2> QED
    BY <1>3, <2>1, <2>2, <2>3, <2>4, <2>5, <2>6
<1>4. ASSUME \/ \E d \in Contents : Store(d)
             \/ \E v \in Volumes : OPEN_BLOCK(v)
             \/ \E j \in 0 .. MaxDepth : LeaveLoads(j)
             \/ UPDATE \/ EMPTY_BUFFERS \/ SignalBeforePop \/ SignalInPop
             \/ QUIT \/ ConsoleLine \/ Restart
      PROVE  UNCHANGED disk
  BY <1>4 DEF Store, OPEN_BLOCK, LeaveLoads, UPDATE, EMPTY_BUFFERS,
            SignalBeforePop, SignalInPop, QUIT, ConsoleLine, Restart
<1>5. ASSUME \/ SAVE_BUFFERS \/ FLUSH \/ CLOSE_BLOCK \/ SignalInClose
             \/ \E u \in 0 .. MaxBlock : LoadFails(u)
             \/ \E u \in 1 .. MaxBlock : SignalInLoad(u)
      PROVE  WriteTop
  BY <1>5 DEF SAVE_BUFFERS, FLUSH, CLOSE_BLOCK, SignalInClose, LoadFails, SignalInLoad
<1>7. CASE WriteBroken
  <2>1. PICK e \in BrokenOutcomes(disk[fd], pos, Top) :
          fd # NoVolume /\ disk' = [disk EXCEPT ![fd] = e.file]
    BY <1>7 DEF WriteBroken
  <2>2. Len(disk[fd]) \in Nat
    BY <2>1 DEF TypeOK
  <2>3. e.file \in Outcomes
    <3>1. CASE e \in {[file |-> Grown(disk[fd], k), at |-> k] : k \in Len(disk[fd]) .. Top.number}
      BY <1>0, <2>2, <3>1 DEF Outcomes
    <3>2. CASE e = [file |-> Grown(disk[fd], Top.number), at |-> Sought(Top.number, pos)]
      BY <1>0, <3>2 DEF Outcomes
    <3>3. CASE e \in {[file |-> disk[fd], at |-> pos],
                      [file |-> Written(disk[fd], pos, Top), at |-> WrittenPos(pos, Top)]}
      BY <3>3 DEF Outcomes
    <3> QED
      BY <2>1, <3>1, <3>2, <3>3 DEF BrokenOutcomes
  <2> QED
    BY <2>1, <2>3
<1>8. CASE Word
  BY <1>2, <1>3, <1>4, <1>5, <1>7, <1>8 DEF Word
<1> QED
  BY <1>2, <1>4, <1>5, <1>8 DEF Next

\* Blank blocks alone, up to the buffer's own, change no block that was there.
LEMMA GrownOK ==
  ASSUME NEW f \in Seq(Data), NEW n \in Nat, NEW k \in 0 .. n
  PROVE  /\ Len(Grown(f, k)) >= Len(f)
         /\ \A i \in 1 .. Len(f) : Grown(f, k)[i] = f[i]
         /\ \A i \in Len(f) + 1 .. Len(Grown(f, k)) : i <= n /\ Grown(f, k)[i] = Blank
<1>1. k \in Nat /\ Len(f) \in Nat
  OBVIOUS
<1>2. /\ Len(Grown(f, k)) = Longer(Len(f), k)
      /\ \A i \in 1 .. Longer(Len(f), k) :
           Grown(f, k)[i] = IF i <= Len(f) THEN f[i] ELSE Blank
  BY <1>1, GrownType
<1> QED
  BY <1>1, <1>2 DEF Longer

\* One _block_write changes the buffer's block only and grows the file by blanks.
LEMMA WrittenOK ==
  ASSUME NEW f \in Seq(Data), NEW p \in Nat, NEW b \in Buffer
  PROVE  /\ Len(Written(f, p, b)) >= Len(f)
         /\ \A i \in 1 .. Len(f) :
              Written(f, p, b)[i] # f[i] => i = b.number \/ (b.number = 0 /\ i = p + 1)
         /\ b.number # 0 =>
              \A i \in Len(f) + 1 .. Len(Written(f, p, b)) :
                /\ i <= b.number
                /\ Written(f, p, b)[i] = IF i < b.number THEN Blank ELSE b.data
<1> DEFINE g == Grown(f, b.number)
           q == Sought(b.number, p)
           w == PutAt(g, q, b.data)
<1>1. b.number \in Nat /\ b.data \in Data /\ Len(f) \in Nat
  BY DEF Buffer
<1>2. q \in Nat /\ (b.number # 0 => q + 1 = b.number) /\ (b.number = 0 => q = p)
  BY <1>1 DEF Sought
<1>3. /\ g \in Seq(Data) /\ Len(g) \in Nat
      /\ Len(g) >= Len(f) /\ Len(g) >= b.number /\ Len(g) \in {Len(f), b.number}
      /\ \A i \in 1 .. Len(g) : g[i] = IF i <= Len(f) THEN f[i] ELSE Blank
  BY <1>1, GrownType DEF Longer
<1> HIDE DEF g, q
<1>4. /\ w \in Seq(Data) /\ Len(w) \in Nat
      /\ Len(w) >= Len(g) /\ Len(w) >= q + 1 /\ Len(w) \in {Len(g), q + 1}
      /\ \A i \in 1 .. Len(w) :
           w[i] = IF i = q + 1 THEN b.data ELSE IF i <= Len(g) THEN g[i] ELSE Zeros
  <2>1. /\ w \in Seq(Data)
        /\ Len(w) = Longer(Len(g), q + 1)
        /\ \A i \in 1 .. Longer(Len(g), q + 1) :
             w[i] = IF i = q + 1 THEN b.data ELSE IF i <= Len(g) THEN g[i] ELSE Zeros
    BY <1>1, <1>2, <1>3, PutAtType
  <2> HIDE DEF w
  <2> QED
    BY <1>2, <1>3, <2>1 DEF Longer
<1> HIDE DEF w
<1>5. \A i \in 1 .. Len(f) : w[i] # f[i] => i = b.number \/ (b.number = 0 /\ i = p + 1)
  BY <1>1, <1>2, <1>3, <1>4
<1>6. ASSUME b.number # 0, NEW i \in Len(f) + 1 .. Len(w)
      PROVE  i <= b.number /\ w[i] = IF i < b.number THEN Blank ELSE b.data
  <2>1. Len(w) = b.number /\ Len(g) = b.number /\ i \in 1 .. Len(w)
    BY <1>1, <1>2, <1>3, <1>4, <1>6
  <2> QED
    BY <1>1, <1>2, <1>3, <1>4, <1>6, <2>1
<1>7. Written(f, p, b) = w
  BY DEF Written, g, q, w
<1>8. Len(w) >= Len(f)
  BY <1>1, <1>3, <1>4
<1> QED
  BY <1>5, <1>6, <1>7, <1>8

\* A block of a file changes only when its own buffer is written, or when a
\* buffer assigned to no block is written at the file position.
THEOREM OnlyAssigned == Spec => OnlyAssignedBlockChanges
<1>1. IInv /\ [Next]_vars => [OnlyAssignedChanges]_vars
  <2> SUFFICES ASSUME IInv, Next PROVE OnlyAssignedChanges
    OBVIOUS
  <2>1. TypeOK /\ Top \in Buffer
    BY DEF IInv, TypeOK, Top
  <2>2. CASE UNCHANGED disk
    BY <2>2 DEF OnlyAssignedChanges
  <2>3. ASSUME fd # NoVolume, NEW f \in Outcomes, disk' = [disk EXCEPT ![fd] = f]
        PROVE  OnlyAssignedChanges
    <3>1. fd \in Volumes /\ disk[fd] \in Seq(Data) /\ pos \in Nat
      BY <2>1, <2>3 DEF TypeOK
    <3>2. \A i \in 1 .. Len(disk[fd]) :
            f[i] # disk[fd][i] => i = Top.number \/ (Top.number = 0 /\ i = pos + 1)
      <4>1. CASE f = Written(disk[fd], pos, Top)
        BY <2>1, <3>1, <4>1, WrittenOK
      <4>2. CASE f = disk[fd]
        BY <4>2
      <4>3. CASE f \in {Grown(disk[fd], k) : k \in 0 .. Top.number}
        <5>1. Top.number \in Nat
          BY <2>1 DEF Buffer
        <5> QED
          BY <3>1, <4>3, <5>1, GrownOK
      <4> QED
        BY <2>3, <4>1, <4>2, <4>3 DEF Outcomes
    <3>3. \A v \in Volumes : disk'[v] = IF v = fd THEN f ELSE disk[v]
      BY <2>1, <2>3 DEF TypeOK
    <3> QED
      BY <3>2, <3>3 DEF OnlyAssignedChanges
  <2> QED
    BY <2>1, <2>2, <2>3, DiskChange
<1> QED
  BY <1>1, Invariant, PTL DEF Spec, OnlyAssignedBlockChanges

\* A file never shrinks, and an assigned buffer makes it grow by blank blocks
\* and itself, or by blank blocks alone when its write is cut short or lost.
THEOREM GrowsOnlyByBlanks == Spec => GrowsByBlanks
<1>1. IInv /\ [Next]_vars => [BlanksThenBuffer]_vars
  <2> SUFFICES ASSUME IInv, Next PROVE BlanksThenBuffer
    OBVIOUS
  <2>1. TypeOK /\ Top \in Buffer
    BY DEF IInv, TypeOK, Top
  <2>2. CASE UNCHANGED disk
    BY <2>1, <2>2 DEF BlanksThenBuffer, TypeOK
  <2>3. ASSUME fd # NoVolume, NEW f \in Outcomes, disk' = [disk EXCEPT ![fd] = f]
        PROVE  BlanksThenBuffer
    <3>1. fd \in Volumes /\ disk \in [Volumes -> Seq(Data)] /\ pos \in Nat
      BY <2>1, <2>3 DEF TypeOK
    <3>2. /\ Len(f) >= Len(disk[fd])
          /\ Top.number # 0 =>
               \A i \in Len(disk[fd]) + 1 .. Len(f) :
                 /\ i <= Top.number
                 /\ f[i] \in IF i < Top.number THEN {Blank} ELSE {Blank, Top.data}
      <4>0. disk[fd] \in Seq(Data) /\ Len(disk[fd]) \in Nat /\ Top.number \in Nat
        BY <2>1, <3>1 DEF Buffer
      <4>1. CASE f = disk[fd]
        BY <4>0, <4>1
      <4>2. CASE f = Written(disk[fd], pos, Top)
        BY <2>1, <3>1, <4>0, <4>2, WrittenOK
      <4>3. CASE f \in {Grown(disk[fd], k) : k \in 0 .. Top.number}
        BY <4>0, <4>3, GrownOK
      <4> QED
        BY <2>3, <4>1, <4>2, <4>3 DEF Outcomes
    <3>3. \A v \in Volumes : disk'[v] = IF v = fd THEN f ELSE disk[v]
      BY <2>3, <3>1
    <3>4. \A v \in Volumes : v # fd => disk'[v] = disk[v] /\ Len(disk[v]) \in Nat
      BY <3>1, <3>3
    <3>5. disk'[fd] = f
      BY <3>1, <3>3
    <3> SUFFICES ASSUME NEW v \in Volumes
                 PROVE  /\ Len(disk'[v]) >= Len(disk[v])
                        /\ Top.number # 0 =>
                             \A i \in Len(disk[v]) + 1 .. Len(disk'[v]) :
                               /\ i <= Top.number
                               /\ disk'[v][i] \in IF i < Top.number
                                                  THEN {Blank} ELSE {Blank, Top.data}
      BY DEF BlanksThenBuffer
    <3>6. CASE v = fd
      BY <3>2, <3>5, <3>6
    <3>7. CASE v # fd
      BY <3>4, <3>7
    <3> QED
      BY <3>6, <3>7
  <2> QED
    BY <2>1, <2>2, <2>3, DiskChange
<1> QED
  BY <1>1, Invariant, PTL DEF Spec, GrowsByBlanks

-----------------------------------------------------------------------------
(* A careful program. *)

\* Free buffers are those of no block.
FreeIsUnassigned == \A i \in 1 .. Len(bufs) : bufs[i].state = Free <=> bufs[i].number = 0

NumbersBounded == \A i \in 1 .. Len(bufs) : bufs[i].number <= MaxBlock

\* A block that is not saved is in no buffer but the current one.
DirtyIsReachable == Top.state = Dirty => fd # NoVolume /\ Top.number \notin Suspended

ClientOK == FreeIsUnassigned /\ NumbersBounded /\ DirtyIsReachable /\ CleanIsCurrent

CInv == IInv /\ ClientOK

-----------------------------------------------------------------------------
(* Files. *)

\* With a block number, _block_write puts the block where the store puts it.
LEMMA WrittenIsUpdated ==
  ASSUME NEW f \in Seq(Data), NEW p \in Nat, NEW b \in Buffer, b.number # 0
  PROVE  Written(f, p, b) = Store_!Updated(f, b.number, b.data)
<1> DEFINE u == b.number
           n == Longer(Len(f), u)
<1>1. u \in Nat /\ u >= 1 /\ Len(f) \in Nat /\ n \in Nat
  BY DEF Buffer, Longer
<1>2. Grown(f, u) \in Seq(Data) /\ Len(Grown(f, u)) = n
      /\ \A i \in 1 .. n : Grown(f, u)[i] = IF i <= Len(f) THEN f[i] ELSE Blank
  BY <1>1, GrownType
<1>3. Longer(n, (u - 1) + 1) = n /\ n = (IF u > Len(f) THEN u ELSE Len(f))
  BY <1>1 DEF Longer
<1>4. Written(f, p, b) =
        [i \in 1 .. n |-> IF i = u THEN b.data
                          ELSE IF i <= n THEN Grown(f, u)[i] ELSE Zeros]
  <2>1. Written(f, p, b) = PutAt(Grown(f, u), u - 1, b.data)
    BY <1>1 DEF Written, Sought
  <2>2. (u - 1) + 1 = u
    BY <1>1
  <2> HIDE DEF n, u
  <2> QED
    BY <1>2, <1>3, <2>1, <2>2 DEF PutAt
<1>5. \A i \in 1 .. n : (IF i = u THEN b.data
                         ELSE IF i <= n THEN Grown(f, u)[i] ELSE Zeros)
                        = (IF i = u THEN b.data ELSE IF i <= Len(f) THEN f[i] ELSE Blank)
  BY <1>1, <1>2
<1>6. Store_!Updated(f, u, b.data) =
        [i \in 1 .. n |-> IF i = u THEN b.data ELSE IF i <= Len(f) THEN f[i] ELSE Blank]
  BY <1>3 DEF Store_!Updated
<1> HIDE DEF n, u
<1> QED
  BY <1>4, <1>5, <1>6 DEF u

\* What the store's update returns.
LEMMA UpdatedFacts ==
  ASSUME NEW f \in Seq(Data), NEW u \in Nat \ {0}, NEW d \in Data
  PROVE  /\ Store_!Updated(f, u, d) \in Seq(Data)
         /\ Len(Store_!Updated(f, u, d)) = (IF u > Len(f) THEN u ELSE Len(f))
         /\ Store_!Updated(f, u, d)[u] = d
         /\ \A i \in 1 .. Len(f) : i # u => Store_!Updated(f, u, d)[i] = f[i]
<1> DEFINE n == IF u > Len(f) THEN u ELSE Len(f)
<1>1. n \in Nat /\ n >= u /\ n >= Len(f) /\ Len(f) \in Nat
  OBVIOUS
<1>2. \A i \in 1 .. n : (IF i = u THEN d ELSE IF i <= Len(f) THEN f[i] ELSE Blank) \in Data
  BY <1>1 DEF Data
<1> HIDE DEF n
<1>3. Store_!Updated(f, u, d) =
        [i \in 1 .. n |-> IF i = u THEN d ELSE IF i <= Len(f) THEN f[i] ELSE Blank]
  BY DEF Store_!Updated, n
<1>4. Store_!Updated(f, u, d) \in Seq(Data) /\ Len(Store_!Updated(f, u, d)) = n
  BY <1>1, <1>2, <1>3
<1>5. Len(Store_!Updated(f, u, d)) = (IF u > Len(f) THEN u ELSE Len(f))
  BY <1>4 DEF n
<1> QED
  BY <1>1, <1>3, <1>4, <1>5

\* Two updates of a block are the last one, and one of what is there already none.
LEMMA UpdatedTwice ==
  ASSUME NEW f \in Seq(Data), NEW u \in Nat \ {0}, NEW c \in Data, NEW d \in Data
  PROVE  /\ Store_!Updated(Store_!Updated(f, u, c), u, d) = Store_!Updated(f, u, d)
         /\ (u <= Len(f) /\ f[u] = d) => Store_!Updated(f, u, d) = f
<1> DEFINE g == Store_!Updated(f, u, c)
           n == IF u > Len(f) THEN u ELSE Len(f)
<1>1. /\ g \in Seq(Data) /\ Len(g) = n /\ n \in Nat /\ n >= u /\ Len(f) \in Nat /\ n >= Len(f)
      /\ \A i \in 1 .. n : g[i] = IF i = u THEN c ELSE IF i <= Len(f) THEN f[i] ELSE Blank
  <2>1. n \in Nat /\ n >= u /\ Len(f) \in Nat /\ n >= Len(f)
    OBVIOUS
  <2>2. g \in Seq(Data) /\ Len(g) = n
    BY UpdatedFacts
  <2>3. g = [i \in 1 .. n |-> IF i = u THEN c ELSE IF i <= Len(f) THEN f[i] ELSE Blank]
    BY DEF Store_!Updated
  <2> HIDE DEF n, g
  <2> QED
    BY <2>1, <2>2, <2>3
<1> HIDE DEF g
<1>2. Store_!Updated(g, u, d) =
        [i \in 1 .. n |-> IF i = u THEN d ELSE IF i <= n THEN g[i] ELSE Blank]
  <2>1. (IF u > Len(g) THEN u ELSE Len(g)) = n
    BY <1>1
  <2> QED
    BY <1>1, <2>1 DEF Store_!Updated
<1>3. Store_!Updated(f, u, d) =
        [i \in 1 .. n |-> IF i = u THEN d ELSE IF i <= Len(f) THEN f[i] ELSE Blank]
  BY DEF Store_!Updated
<1>4. \A i \in 1 .. n : (IF i = u THEN d ELSE IF i <= n THEN g[i] ELSE Blank)
                        = (IF i = u THEN d ELSE IF i <= Len(f) THEN f[i] ELSE Blank)
  BY <1>1
<1>5. Store_!Updated(g, u, d) = Store_!Updated(f, u, d)
  <2> HIDE DEF n
  <2> QED
    BY <1>2, <1>3, <1>4
<1>6. ASSUME u <= Len(f), f[u] = d
      PROVE  Store_!Updated(f, u, d) = f
  <2>1. n = Len(f)
    BY <1>6
  <2>2. f = [i \in 1 .. Len(f) |-> f[i]]
    OBVIOUS
  <2>3. \A i \in 1 .. Len(f) : (IF i = u THEN d ELSE IF i <= Len(f) THEN f[i] ELSE Blank) = f[i]
    BY <1>6
  <2> HIDE DEF n
  <2> QED
    BY <1>3, <2>1, <2>2, <2>3
<1> QED
  BY <1>5, <1>6 DEF g

-----------------------------------------------------------------------------
(* The state. *)

\* What is used everywhere.
LEMMA ClientTypes ==
  ASSUME CInv
  PROVE  /\ bufs \in Seq(Buffer) /\ Len(bufs) \in Nat \ {0} /\ Top \in Buffer
         /\ loads \in Seq(LoadFrame) /\ Len(loads) \in Nat
         /\ disk \in [Volumes -> Seq(Data)] /\ pos \in Nat
         /\ fd \in Volumes \cup {NoVolume}
         /\ \A i \in 1 .. Len(bufs) : bufs[i] \in Buffer
         /\ \A k \in 1 .. Len(loads) : loads[k].depth \in 1 .. Len(bufs) - 1
BY DEF CInv, IInv, TypeOK, Nested, Longer, Top

\* The current buffer.
LEMMA TopFacts ==
  ASSUME CInv
  PROVE  /\ Top.state = Free <=> Top.number = 0
         /\ Top.state \in {Free, Clean, Dirty}
         /\ Top.number \in 0 .. MaxBlock /\ Top.data \in Data
         /\ Top.number # 0 => fd \in Volumes
         /\ Top.state = Clean => Top.number <= Len(disk[fd]) /\ Top.data = disk[fd][Top.number]
<1>1. Len(bufs) \in 1 .. Len(bufs) /\ Top \in Buffer /\ fd \in Volumes \cup {NoVolume}
  BY ClientTypes
<1>2. /\ Top.state = Free <=> Top.number = 0
      /\ Top.number <= MaxBlock
  BY <1>1 DEF CInv, ClientOK, FreeIsUnassigned, NumbersBounded, Top
<1>3. Top.state \in {Free, Clean, Dirty} /\ Top.number \in Nat /\ Top.data \in Data
  BY <1>1 DEF Buffer
<1>4. (Top.state = Clean /\ Top.number # 0) =>
        /\ fd # NoVolume
        /\ Top.number <= Len(disk[fd])
        /\ Top.data = disk[fd][Top.number]
  BY DEF CInv, ClientOK, CleanIsCurrent, Top
<1>5. Top.state = Dirty => fd # NoVolume
  BY DEF CInv, ClientOK, DirtyIsReachable
<1> QED
  BY <1>1, <1>2, <1>3, <1>4, <1>5, BoundsAssumption DEF Free, Clean

\* The buffers LOADs will return to.
LEMMA SuspendedFacts ==
  ASSUME CInv, NEW k \in 1 .. Len(loads)
  PROVE  LET b == bufs[loads[k].depth]
         IN /\ b \in Buffer /\ b.state = Clean
            /\ b.number \in 1 .. MaxBlock /\ b.number \in Suspended
            /\ fd \in Volumes
            /\ b.number <= Len(disk[fd]) /\ b.data = disk[fd][b.number]
<1> DEFINE i == loads[k].depth
           b == bufs[i]
<1>1. i \in 1 .. Len(bufs) - 1 /\ i \in 1 .. Len(bufs) /\ fd \in Volumes \cup {NoVolume}
  BY ClientTypes
<1>2. b \in Buffer
  BY <1>1, ClientTypes
<1>3. b.state = Clean
  BY <1>1 DEF CInv, IInv, SuspendedAreSaved
<1>4. b.number # 0 /\ b.number <= MaxBlock /\ b.number \in Nat
  BY <1>1, <1>2, <1>3 DEF CInv, ClientOK, FreeIsUnassigned, NumbersBounded, Free, Clean, Buffer
<1>5. fd # NoVolume /\ b.number <= Len(disk[fd]) /\ b.data = disk[fd][b.number]
  BY <1>3, <1>4 DEF CInv, ClientOK, CleanIsCurrent
<1>6. b.number \in Suspended
  BY DEF Suspended
<1> QED
  BY <1>1, <1>2, <1>3, <1>4, <1>5, <1>6, BoundsAssumption


-----------------------------------------------------------------------------
(* The file with the current buffer's update in it. *)

\* What the program sees as the latest contents.
LEMMA LatestFacts ==
  ASSUME CInv
  PROVE  /\ LatestBlocks \in [Volumes -> Seq(Data)]
         /\ Top.state # Dirty => LatestBlocks = disk
         /\ \A v \in Volumes : v # fd => LatestBlocks[v] = disk[v]
         /\ Top.state = Dirty =>
              LatestBlocks[fd] = Store_!Updated(disk[fd], Top.number, Top.data)
<1>1. disk \in [Volumes -> Seq(Data)] /\ pos \in Nat /\ Top \in Buffer
  BY ClientTypes
<1>2. ASSUME Top.state = Dirty
      PROVE  /\ fd \in Volumes /\ Top.number \in Nat \ {0} /\ Top.data \in Data
             /\ Written(disk[fd], pos, Top) = Store_!Updated(disk[fd], Top.number, Top.data)
  <2>1. Top.number # 0 /\ fd \in Volumes /\ Top.number \in 0 .. MaxBlock /\ Top.data \in Data
    BY <1>2, TopFacts DEF Free, Dirty
  <2> QED
    BY <1>1, <2>1, WrittenIsUpdated, BoundsAssumption
<1>3. \A v \in Volumes : v # fd => LatestBlocks[v] = disk[v]
  BY DEF LatestBlocks
<1>4. CASE Top.state # Dirty
  BY <1>1, <1>3, <1>4 DEF LatestBlocks
<1>5. CASE Top.state = Dirty
  <2>1. LatestBlocks[fd] = Store_!Updated(disk[fd], Top.number, Top.data)
    BY <1>2, <1>5 DEF LatestBlocks
  <2>2. LatestBlocks[fd] \in Seq(Data)
    <3>1. disk[fd] \in Seq(Data) /\ Top.number \in Nat \ {0} /\ Top.data \in Data
      BY <1>1, <1>2, <1>5
    <3>2. Store_!Updated(disk[fd], Top.number, Top.data) \in Seq(Data)
      BY <3>1, UpdatedFacts, Zenon
    <3> QED
      BY <2>1, <3>2
  <2>3. \A v \in Volumes : LatestBlocks[v] \in Seq(Data)
    BY <1>1, <1>3, <2>2
  <2>4. LatestBlocks = [v \in Volumes |-> LatestBlocks[v]]
    BY DEF LatestBlocks
  <2> QED
    BY <1>3, <1>5, <2>1, <2>3, <2>4
<1> QED
  BY <1>4, <1>5

\* It holds what the buffers of LOADs in progress hold, and the current one.
LEMMA LatestHolds ==
  ASSUME CInv
  PROVE  /\ \A k \in 1 .. Len(loads) :
              LET b == bufs[loads[k].depth]
              IN b.number <= Len(LatestBlocks[fd]) /\ b.data = LatestBlocks[fd][b.number]
         /\ Top.number # 0 =>
              Top.number <= Len(LatestBlocks[fd]) /\ Top.data = LatestBlocks[fd][Top.number]
         /\ fd \in Volumes => Len(LatestBlocks[fd]) >= Len(disk[fd])
<1>1. disk \in [Volumes -> Seq(Data)]
  BY ClientTypes
<1>2. CASE Top.state # Dirty
  <2>1. LatestBlocks = disk
    BY <1>2, LatestFacts
  <2>2. Top.number # 0 => Top.state = Clean
    BY <1>2, TopFacts
  <2>3. fd \in Volumes => Len(LatestBlocks[fd]) >= Len(disk[fd])
    BY <1>1, <2>1
  <2> QED
    BY <2>1, <2>2, <2>3, SuspendedFacts, TopFacts
<1>3. CASE Top.state = Dirty
  <2> DEFINE g == LatestBlocks[fd]
  <2>1. /\ fd \in Volumes /\ Top.number \in Nat \ {0} /\ Top.data \in Data
        /\ Top.number \notin Suspended
    BY <1>3, TopFacts, BoundsAssumption DEF Free, Dirty, CInv, ClientOK, DirtyIsReachable
  <2>2. disk[fd] \in Seq(Data) /\ Len(disk[fd]) \in Nat
    BY <1>1, <2>1
  <2>3. g = Store_!Updated(disk[fd], Top.number, Top.data)
    BY <1>3, LatestFacts
  <2>4. /\ Len(g) = (IF Top.number > Len(disk[fd]) THEN Top.number ELSE Len(disk[fd]))
        /\ g[Top.number] = Top.data
        /\ \A i \in 1 .. Len(disk[fd]) : i # Top.number => g[i] = disk[fd][i]
    <3> DEFINE f == disk[fd]
               u == Top.number
               d == Top.data
               new == Store_!Updated(f, u, d)
    <3>0. f \in Seq(Data) /\ u \in Nat \ {0} /\ d \in Data
      BY <2>1, <2>2
    <3> HIDE DEF f, u, d
    <3>1. /\ Len(new) = (IF u > Len(f) THEN u ELSE Len(f))
          /\ new[u] = d
          /\ \A i \in 1 .. Len(f) : i # u => new[i] = f[i]
      BY <3>0, UpdatedFacts
    <3> HIDE DEF new, g
    <3>2. g = new
      BY <2>3 DEF new, f, u, d
    <3> QED
      BY <3>1, <3>2 DEF f, u, d
  <2>5. Len(g) >= Len(disk[fd]) /\ Len(g) >= Top.number /\ Len(g) \in Nat
    BY <2>1, <2>2, <2>4
  <2> HIDE DEF g
  <2>6. ASSUME NEW k \in 1 .. Len(loads)
        PROVE  LET b == bufs[loads[k].depth]
               IN b.number <= Len(g) /\ b.data = g[b.number]
    <3> DEFINE b == bufs[loads[k].depth]
    <3>1. /\ b.number \in 1 .. MaxBlock /\ b.number \in Suspended
          /\ b.number <= Len(disk[fd]) /\ b.data = disk[fd][b.number]
      BY SuspendedFacts
    <3>2. b.number # Top.number /\ b.number \in 1 .. Len(disk[fd])
      BY <2>1, <2>2, <3>1, BoundsAssumption
    <3> HIDE DEF b
    <3>3. b.number <= Len(g)
      BY <2>2, <2>5, <3>2
    <3>4. b.data = g[b.number]
      BY <2>4, <3>1, <3>2
    <3> QED
      BY <3>3, <3>4 DEF b
  <2>7. Top.number <= Len(g) /\ Top.data = g[Top.number] /\ Len(g) >= Len(disk[fd])
    BY <2>1, <2>4, <2>5
  <2> QED
    BY <2>6, <2>7 DEF g
<1> QED
  BY <1>2, <1>3

\* Evicting the buffer makes the file the latest contents, when writes succeed.
LEMMA EvictedIsLatest ==
  ASSUME CInv, Faults = {}, fd # NoVolume, NEW e \in EvictOutcomes
  PROVE  [disk EXCEPT ![fd] = e.file] = LatestBlocks
<1>1. disk \in [Volumes -> Seq(Data)] /\ fd \in Volumes
  BY ClientTypes
<1>2. e.file = IF Top.state = Dirty THEN Written(disk[fd], pos, Top) ELSE disk[fd]
  BY DEF EvictOutcomes, WriteOutcomes
<1> QED
  BY <1>1, <1>2 DEF LatestBlocks

\* And so does writing it, dirty or clean.
LEMMA SavedIsLatest ==
  ASSUME CInv, Faults = {}, WriteTop, Assigned
  PROVE  disk' = LatestBlocks /\ fd \in Volumes
<1>1. disk \in [Volumes -> Seq(Data)] /\ pos \in Nat /\ Top \in Buffer
  BY ClientTypes
<1>2. fd \in Volumes /\ Top.number \in Nat \ {0} /\ Top.data \in Data
      /\ disk[fd] \in Seq(Data)
  BY <1>1, TopFacts, BoundsAssumption DEF Assigned
<1>3. disk' = [disk EXCEPT ![fd] = Written(disk[fd], pos, Top)]
  BY DEF WriteTop, WriteOutcomes
<1>4. CASE Top.state = Dirty
  BY <1>1, <1>2, <1>3, <1>4 DEF LatestBlocks
<1>5. CASE Top.state # Dirty
  <2>1. Top.state = Clean
    BY <1>5, TopFacts DEF Assigned
  <2>2. Top.number <= Len(disk[fd]) /\ Top.data = disk[fd][Top.number]
    BY <2>1, TopFacts
  <2>3. Written(disk[fd], pos, Top) = disk[fd]
    BY <1>1, <1>2, <2>2, WrittenIsUpdated, UpdatedTwice
  <2>4. disk' = disk
    BY <1>1, <1>2, <1>3, <2>3
  <2> QED
    BY <1>2, <1>5, <2>4, LatestFacts
<1> QED
  BY <1>2, <1>4, <1>5

-----------------------------------------------------------------------------
(* The steps of a careful program. *)

\* They are steps of the block words, or a store with its UPDATE.
LEMMA CareStep ==
  ASSUME IInv, CareNext
  PROVE  IInv'
<1> USE DEF IInv
<1>0. CareWord /\ UNCHANGED stale
  BY DEF CareNext
<1>1. /\ Top \in Buffer /\ fd \in Volumes \cup {NoVolume}
      /\ disk \in [Volumes -> Seq(Data)] /\ pos \in Nat
      /\ \A d \in Contents : d \in Data
  BY DEF TypeOK, Top, Data
<1>2. ASSUME NEW u \in 1 .. MaxBlock, Fetch(u) PROVE IInv'
  BY <1>0, <1>2, AccessStep DEF Fetch
<1>3. ASSUME NEW d \in Contents, Change(d) PROVE IInv'
  <2>1. [Top EXCEPT !.data = d, !.state = Dirty] \in Buffer
    BY <1>1 DEF Buffer
  <2> QED
    BY <1>0, <1>1, <1>3, <2>1, TopStep DEF Change, BuffersOK, TypeOK
<1>4. ASSUME NEW u \in 1 .. MaxBlock, NEW d \in Contents, Fill(u, d) PROVE IInv'
  <2>1. [number |-> u, state |-> Dirty, data |-> d] \in Buffer
    BY <1>1, BoundsAssumption DEF Buffer
  <2>2. BuffersOK'
    BY <1>4, <2>1, TopStep DEF Fill
  <2>3. fd # NoVolume /\ \A e \in EvictOutcomes : e.file \in Seq(Data) /\ e.at \in Nat
    BY <1>4, EvictType DEF Fill
  <2>4. PICK e \in IF u = Top.number THEN {[file |-> disk[fd], at |-> pos]}
                                     ELSE EvictOutcomes :
          disk' = [disk EXCEPT ![fd] = e.file] /\ pos' = e.at
    BY <1>4 DEF Fill
  <2>5. e.file \in Seq(Data) /\ e.at \in Nat
    BY <1>1, <2>3, <2>4
  <2>6. disk' \in [Volumes -> Seq(Data)] /\ pos' \in Nat
    BY <2>3, <2>4, <2>5, DiskStep
  <2> QED
    BY <1>0, <1>1, <1>4, <2>2, <2>6 DEF Fill, BuffersOK, TypeOK
<1>5. ASSUME NEW u \in 1 .. MaxBlock, CareLoad(u) PROVE IInv'
  BY <1>0, <1>5, LoadStep DEF CareLoad
<1>6. ASSUME NEW u \in 0 .. MaxBlock, CareLoadFails(u) PROVE IInv'
  BY <1>0, <1>6, LoadFailsStep DEF CareLoadFails
<1>7. ASSUME NEW v \in Volumes, Open(v) PROVE IInv'
  BY <1>0, <1>7, WordStep DEF Open
<1>8. ASSUME NEW j \in 0 .. MaxDepth, Leave(j) PROVE IInv'
  BY <1>0, <1>8, EndStep DEF Leave
<1>9. ASSUME SAVE_BUFFERS \/ FLUSH \/ EMPTY_BUFFERS \/ Close PROVE IInv'
  BY <1>0, <1>9, WordStep DEF Close
<1>10. ASSUME QuitElsewhere \/ Restart PROVE IInv'
  BY <1>0, <1>10, EndStep DEF QuitElsewhere
<1> QED
  BY <1>0, <1>2, <1>3, <1>4, <1>5, <1>6, <1>7, <1>8, <1>9, <1>10 DEF CareWord

\* What a LOAD will return to stays in the file, saved or updated.
LEMMA HeldStays ==
  ASSUME CInv, disk' \in {disk, LatestBlocks}, NEW k \in 1 .. Len(loads)
  PROVE  LET b == bufs[loads[k].depth]
         IN fd # NoVolume /\ b.number <= Len(disk'[fd]) /\ b.data = disk'[fd][b.number]
<1>1. fd # NoVolume
  BY SuspendedFacts, VolumesAssumption
<1>2. CASE disk' = disk
  BY <1>1, <1>2, SuspendedFacts
<1>3. CASE disk' = LatestBlocks
  BY <1>1, <1>3, LatestHolds
<1> QED
  BY <1>2, <1>3

\* A step in which the current buffer alone changes.
LEMMA TopClient ==
  ASSUME CInv, IInv', NEW b \in Buffer, bufs' = WithTop(b), UNCHANGED <<loads, fd>>,
         disk' \in {disk, LatestBlocks},
         b.state = Free <=> b.number = 0,
         b.number <= MaxBlock,
         b.state = Dirty => fd # NoVolume /\ b.number \notin Suspended,
         b.state = Clean => /\ fd # NoVolume
                            /\ b.number <= Len(disk'[fd])
                            /\ b.data = disk'[fd][b.number]
  PROVE  CInv' /\ Top' = b
<1>1. /\ Len(bufs) \in Nat \ {0} /\ bufs \in Seq(Buffer)
      /\ \A k \in 1 .. Len(loads) : loads[k].depth \in 1 .. Len(bufs) - 1
  BY ClientTypes
<1>2. /\ Len(bufs') = Len(bufs)
      /\ \A i \in 1 .. Len(bufs) : bufs'[i] = IF i = Len(bufs) THEN b ELSE bufs[i]
  BY <1>1 DEF WithTop
<1>3. Top' = b
  BY <1>1, <1>2 DEF Top
<1>4. FreeIsUnassigned'
  BY <1>1, <1>2 DEF CInv, ClientOK, FreeIsUnassigned
<1>5. NumbersBounded'
  BY <1>1, <1>2 DEF CInv, ClientOK, NumbersBounded
<1>6. \A k \in 1 .. Len(loads) : bufs'[loads[k].depth] = bufs[loads[k].depth]
  BY <1>1, <1>2
<1>7. Suspended' = Suspended
  BY <1>6 DEF Suspended
<1>8. DirtyIsReachable'
  BY <1>3, <1>7 DEF DirtyIsReachable
<1>9. CleanIsCurrent'
  <2> SUFFICES ASSUME NEW i \in {loads[k].depth : k \in 1 .. Len(loads)} \cup {Len(bufs)},
                      bufs'[i].state = Clean, bufs'[i].number # 0
               PROVE  /\ fd # NoVolume
                      /\ bufs'[i].number <= Len(disk'[fd])
                      /\ bufs'[i].data = disk'[fd][bufs'[i].number]
    BY <1>2 DEF CleanIsCurrent
  <2>1. CASE i = Len(bufs)
    BY <1>1, <1>2, <2>1
  <2>2. CASE i # Len(bufs)
    <3>1. PICK k \in 1 .. Len(loads) : i = loads[k].depth
      BY <2>2
    <3> QED
      BY <1>6, <3>1, HeldStays
  <2> QED
    BY <2>1, <2>2
<1> QED
  BY <1>3, <1>4, <1>5, <1>8, <1>9 DEF CInv, ClientOK

-----------------------------------------------------------------------------
(* What a step is to the program, by the state of the buffer it leaves. *)

Looks == Top'.state = Clean /\ fd' = fd /\ disk' = LatestBlocks

LetsGo == Top'.state = Free /\ disk' = LatestBlocks

Changes ==
  /\ Top'.state = Dirty /\ fd' = fd
  /\ \/ disk' = LatestBlocks
     \/ disk' = disk /\ Top.state = Dirty /\ Top'.number = Top.number

Forgets == Top'.state = Free /\ disk' = disk

StoreStep == Looks \/ LetsGo \/ Changes \/ Forgets \/ UNCHANGED <<disk, fd, pos, bufs>>

\* A block is fetched.
LEMMA FetchClient ==
  ASSUME CInv, Faults = {}, IInv', NEW u \in 1 .. MaxBlock, Fetch(u)
  PROVE  CInv' /\ StoreStep
<1>1. fd \in Volumes /\ disk \in [Volumes -> Seq(Data)] /\ Top \in Buffer
      /\ u \in Nat \ {0} /\ u <= MaxBlock /\ Len(disk[fd]) \in Nat /\ u <= Len(disk[fd])
      /\ fd # NoVolume
  BY ClientTypes, BoundsAssumption DEF Fetch
<1>2. CASE AccessHit(u) /\ Top.state # Dirty
  <2> DEFINE b == [Top EXCEPT !.state = Clean]
  <2>1. Top.state = Clean /\ u = Top.number /\ LatestBlocks = disk
    BY <1>1, <1>2, TopFacts, LatestFacts DEF AccessHit
  <2>2. b = Top /\ b \in Buffer /\ b.number = u /\ b.state = Clean
    BY <1>1, <2>1 DEF Buffer
  <2>3. disk' = disk /\ bufs' = WithTop(b) /\ UNCHANGED <<loads, fd>>
    BY <1>2 DEF AccessHit
  <2>4. b.number <= Len(disk[fd]) /\ b.data = disk[fd][b.number]
    BY <2>1, <2>2, TopFacts
  <2> HIDE DEF b
  <2>5. CInv' /\ Top' = b
    BY <1>1, <2>2, <2>3, <2>4, TopClient DEF Free, Clean, Dirty
  <2> QED
    BY <2>1, <2>2, <2>3, <2>5 DEF StoreStep, Looks
<1>3. CASE BlockMiss(u)
  <2>1. PICK e \in EvictOutcomes :
          /\ disk' = [disk EXCEPT ![fd] = e.file]
          /\ bufs' = WithTop([number |-> u, state |-> Clean,
                              data |-> ReadData(e.file, u, Top.data)])
    BY <1>3 DEF BlockMiss
  <2> DEFINE b == [number |-> u, state |-> Clean, data |-> ReadData(e.file, u, Top.data)]
  <2>2. disk' = LatestBlocks
    BY <1>1, <2>1, EvictedIsLatest
  <2>3. disk'[fd] = e.file /\ e.file \in Seq(Data)
    <3>1. e.file \in Seq(Data)
      BY <1>1, EvictType DEF CInv, IInv
    <3> QED
      BY <1>1, <2>1, <3>1
  <2>4. u <= Len(disk'[fd])
    BY <1>1, <2>2, <2>3, LatestHolds
  <2>5. b.data = disk'[fd][u] /\ b.number = u /\ b.state = Clean
    BY <2>3, <2>4 DEF ReadData
  <2>6. b \in Buffer
    <3>1. disk'[fd][u] \in Data
      BY <1>1, <2>3, <2>4
    <3> QED
      BY <1>1, <2>5, <3>1 DEF Buffer
  <2>7. UNCHANGED <<loads, fd>> /\ bufs' = WithTop(b)
    BY <1>3, <2>1 DEF BlockMiss
  <2> HIDE DEF b
  <2>8. CInv' /\ Top' = b
    BY <1>1, <2>2, <2>4, <2>5, <2>6, <2>7, TopClient DEF Free, Clean, Dirty
  <2> QED
    BY <2>2, <2>5, <2>7, <2>8 DEF StoreStep, Looks
<1> QED
  BY <1>2, <1>3 DEF Fetch

\* The program puts something in a block.
LEMMA PutClient ==
  ASSUME CInv, Faults = {}, IInv', NEW d \in Contents,
         Change(d) \/ \E u \in 1 .. MaxBlock : Fill(u, d)
  PROVE  CInv' /\ StoreStep
<1>1. /\ disk \in [Volumes -> Seq(Data)] /\ Top \in Buffer /\ d \in Data
      /\ fd \in Volumes \cup {NoVolume}
  BY ClientTypes DEF Data
<1>2. CASE Change(d)
  <2> DEFINE b == [Top EXCEPT !.data = d, !.state = Dirty]
  <2>1. b \in Buffer /\ b.state = Dirty /\ b.number = Top.number
    BY <1>1 DEF Buffer
  <2>2. /\ disk' = disk /\ bufs' = WithTop(b) /\ UNCHANGED <<loads, fd>>
        /\ Top.number \notin Suspended /\ Top.number # 0
    BY <1>2 DEF Change
  <2>3. b.number <= MaxBlock /\ fd # NoVolume
    BY <2>1, <2>2, TopFacts, BoundsAssumption, VolumesAssumption
  <2> HIDE DEF b
  <2>4. CInv' /\ Top' = b
    BY <2>1, <2>2, <2>3, TopClient DEF Free, Clean, Dirty
  <2>5. Top.state = Dirty \/ LatestBlocks = disk
    BY LatestFacts
  <2> QED
    BY <2>1, <2>2, <2>4, <2>5 DEF StoreStep, Changes
<1>3. ASSUME NEW u \in 1 .. MaxBlock, Fill(u, d)
      PROVE  CInv' /\ StoreStep
  <2> DEFINE b == [number |-> u, state |-> Dirty, data |-> d]
  <2>1. b \in Buffer /\ b.state = Dirty /\ b.number = u /\ u \in Nat \ {0} /\ u <= MaxBlock
    BY <1>1, BoundsAssumption DEF Buffer
  <2>2. /\ bufs' = WithTop(b) /\ UNCHANGED <<loads, fd>>
        /\ u \notin Suspended /\ fd # NoVolume
    BY <1>3 DEF Fill
  <2>3. disk' = LatestBlocks \/ (disk' = disk /\ Top.state = Dirty /\ u = Top.number)
    <3>1. PICK e \in IF u = Top.number THEN {[file |-> disk[fd], at |-> pos]}
                                       ELSE EvictOutcomes :
            disk' = [disk EXCEPT ![fd] = e.file]
      BY <1>3 DEF Fill
    <3>2. CASE u = Top.number
      <4>1. e.file = disk[fd]
        BY <3>1, <3>2
      <4>2. disk' = disk
        BY <1>1, <3>1, <4>1
      <4> QED
        BY <3>2, <4>2, LatestFacts
    <3>3. CASE u # Top.number
      BY <2>2, <3>1, <3>3, EvictedIsLatest
    <3> QED
      BY <3>2, <3>3
  <2> HIDE DEF b
  <2>4. CInv' /\ Top' = b
    BY <2>1, <2>2, <2>3, TopClient DEF Free, Clean, Dirty
  <2> QED
    BY <2>1, <2>2, <2>3, <2>4 DEF StoreStep, Changes
<1> QED
  BY <1>2, <1>3

\* The buffer is written or emptied, and the file stays open.
LEMMA SaveClient ==
  ASSUME CInv, Faults = {}, IInv',
         (Assigned /\ (SAVE_BUFFERS \/ FLUSH)) \/ EMPTY_BUFFERS
  PROVE  CInv' /\ StoreStep
<1>1. /\ disk \in [Volumes -> Seq(Data)] /\ Top \in Buffer
      /\ fd \in Volumes \cup {NoVolume}
  BY ClientTypes
<1>2. CASE Assigned /\ SAVE_BUFFERS
  <2> DEFINE b == [Top EXCEPT !.state = Clean]
  <2>1. b \in Buffer /\ b.state = Clean /\ b.number = Top.number /\ b.data = Top.data
    BY <1>1 DEF Buffer
  <2>2. bufs' = WithTop(b) /\ UNCHANGED <<loads, fd>>
    BY <1>2 DEF SAVE_BUFFERS
  <2>3. disk' = LatestBlocks /\ fd # NoVolume /\ b.number # 0
    BY <1>2, <2>1, SavedIsLatest, VolumesAssumption DEF SAVE_BUFFERS, Assigned
  <2>4. b.number <= Len(disk'[fd]) /\ b.data = disk'[fd][b.number]
    BY <2>1, <2>3, LatestHolds
  <2>5. b.number <= MaxBlock
    BY <2>1, TopFacts, BoundsAssumption
  <2> HIDE DEF b
  <2>6. CInv' /\ Top' = b
    BY <2>1, <2>2, <2>3, <2>4, <2>5, TopClient DEF Free, Clean, Dirty
  <2> QED
    BY <2>1, <2>2, <2>3, <2>6 DEF StoreStep, Looks
<1>3. CASE (Assigned /\ FLUSH) \/ EMPTY_BUFFERS
  <2> DEFINE b == [Top EXCEPT !.number = 0, !.state = Free]
  <2>1. b \in Buffer /\ b.state = Free /\ b.number = 0
    BY <1>1 DEF Buffer
  <2>2. bufs' = WithTop(b) /\ UNCHANGED <<loads, fd>>
    BY <1>3 DEF FLUSH, EMPTY_BUFFERS
  <2>3. disk' = LatestBlocks \/ disk' = disk
    BY <1>3, SavedIsLatest DEF FLUSH, EMPTY_BUFFERS
  <2> HIDE DEF b
  <2>4. CInv' /\ Top' = b
    BY <2>1, <2>2, <2>3, TopClient, BoundsAssumption DEF Free, Clean, Dirty
  <2> QED
    BY <2>1, <2>3, <2>4 DEF StoreStep, LetsGo, Forgets
<1> QED
  BY <1>2, <1>3

\* A block file is opened or closed, outside LOAD.
LEMMA FileClient ==
  ASSUME CInv, Faults = {}, IInv', Close \/ \E v \in Volumes : Open(v)
  PROVE  CInv' /\ StoreStep
<1>1. /\ Top \in Buffer /\ bufs \in Seq(Buffer) /\ Len(bufs) \in Nat \ {0}
  BY ClientTypes
<1>2. PICK b \in Buffer : b.state = Free /\ b.number = 0 /\ bufs' = WithTop(b)
  <2>1. CASE Close
    <3>1. bufs' = WithTop([Top EXCEPT !.number = 0, !.state = Free])
      BY <2>1 DEF Close, CLOSE_BLOCK
    <3>2. /\ [Top EXCEPT !.number = 0, !.state = Free] \in Buffer
          /\ [Top EXCEPT !.number = 0, !.state = Free].state = Free
          /\ [Top EXCEPT !.number = 0, !.state = Free].number = 0
      BY <1>1 DEF Buffer
    <3> QED
      BY <3>1, <3>2
  <2>2. ASSUME NEW v \in Volumes, Open(v)
        PROVE  \E b \in Buffer : b.state = Free /\ b.number = 0 /\ bufs' = WithTop(b)
    <3>1. bufs' = WithTop([Top EXCEPT !.number = 0]) /\ Top.state = Free
      BY <2>2 DEF Open, OPEN_BLOCK
    <3>2. /\ [Top EXCEPT !.number = 0] \in Buffer
          /\ [Top EXCEPT !.number = 0].state = Free
          /\ [Top EXCEPT !.number = 0].number = 0
      BY <1>1, <3>1 DEF Buffer
    <3> QED
      BY <3>1, <3>2
  <2> QED
    BY <2>1, <2>2
<1>3. loads' = <<>>
  BY DEF Close, CLOSE_BLOCK, Open, OPEN_BLOCK
<1>4. /\ Len(bufs') = Len(bufs)
      /\ \A i \in 1 .. Len(bufs) : bufs'[i] = IF i = Len(bufs) THEN b ELSE bufs[i]
  BY <1>1, <1>2 DEF WithTop
<1>5. Top' = b
  BY <1>1, <1>4 DEF Top
<1>6. FreeIsUnassigned'
  BY <1>1, <1>2, <1>4 DEF CInv, ClientOK, FreeIsUnassigned
<1>7. NumbersBounded'
  BY <1>1, <1>2, <1>4, BoundsAssumption DEF CInv, ClientOK, NumbersBounded
<1>8. DirtyIsReachable' /\ CleanIsCurrent'
  <2>1. Top'.state # Dirty
    BY <1>2, <1>5 DEF Free, Dirty
  <2>2. \A k \in 1 .. Len(loads') : FALSE
    BY <1>3
  <2>3. bufs'[Len(bufs')].number = 0
    BY <1>1, <1>2, <1>4
  <2> QED
    BY <2>1, <2>2, <2>3 DEF DirtyIsReachable, CleanIsCurrent
<1>9. disk' = LatestBlocks
  <2>1. CASE Close
    BY <2>1, SavedIsLatest DEF Close, CLOSE_BLOCK
  <2>2. ASSUME NEW v \in Volumes, Open(v) PROVE disk' = LatestBlocks
    BY <2>2, LatestFacts DEF Open, OPEN_BLOCK, Free, Dirty
  <2> QED
    BY <2>1, <2>2
<1> QED
  BY <1>2, <1>5, <1>6, <1>7, <1>8, <1>9 DEF CInv, ClientOK, StoreStep, LetsGo

\* The buffers under a LOAD that starts: the current one is saved.
LEMMA SavedBuffersFacts ==
  ASSUME CInv
  PROVE  /\ SavedBuffers \in Seq(Buffer)
         /\ Len(SavedBuffers) = Len(bufs)
         /\ \A i \in 1 .. Len(bufs) :
              /\ SavedBuffers[i].number = bufs[i].number
              /\ SavedBuffers[i].data = bufs[i].data
              /\ SavedBuffers[i].state = Clean
         /\ \A i \in 1 .. Len(bufs) - 1 : SavedBuffers[i] = bufs[i]
<1> DEFINE b == [Top EXCEPT !.state = Clean]
<1>1. bufs \in Seq(Buffer) /\ Len(bufs) \in Nat \ {0} /\ Top \in Buffer
  BY ClientTypes
<1>2. b \in Buffer /\ b.number = Top.number /\ b.data = Top.data /\ b.state = Clean
  BY <1>1 DEF Buffer
<1> HIDE DEF b
<1>3. SavedBuffers = [bufs EXCEPT ![Len(bufs)] = b]
  BY DEF SavedBuffers, WithTop, b
<1>4. SavedBuffers \in Seq(Buffer) /\ Len(SavedBuffers) = Len(bufs)
  BY <1>1, <1>2, <1>3
<1>5. /\ SavedBuffers[Len(bufs)] = b
      /\ \A i \in 1 .. Len(bufs) - 1 : SavedBuffers[i] = bufs[i] /\ bufs[i].state = Clean
  BY <1>1, <1>3 DEF CInv, IInv, SuspendedAreSaved
<1>6. \A i \in 1 .. Len(bufs) : i = Len(bufs) \/ i \in 1 .. Len(bufs) - 1
  BY <1>1
<1> QED
  BY <1>2, <1>4, <1>5, <1>6 DEF Top

\* A LOAD starts: the program looks at the block to be interpreted.
LEMMA LoadClient ==
  ASSUME CInv, Faults = {}, IInv', NEW u \in 1 .. MaxBlock, CareLoad(u)
  PROVE  CInv' /\ StoreStep
<1> DEFINE n == Len(bufs)
           m == Len(loads)
           b == [number |-> u, state |-> Clean, data |-> ReadData(disk'[fd], u, Junk)]
           frame == [depth |-> Len(bufs), blk |-> u]
<1>1. /\ bufs \in Seq(Buffer) /\ n \in Nat \ {0} /\ loads \in Seq(LoadFrame) /\ m \in Nat
      /\ u \in Nat \ {0} /\ u <= MaxBlock /\ disk \in [Volumes -> Seq(Data)]
      /\ \A k \in 1 .. m : loads[k].depth \in 1 .. n - 1
  BY ClientTypes, BoundsAssumption
<1>2. /\ Assigned /\ WriteTop /\ u <= Len(disk[fd]) /\ UNCHANGED fd
      /\ bufs' = Append(SavedBuffers, b) /\ loads' = Append(loads, frame)
  BY DEF CareLoad, LOAD, MayLoad, Interpret
<1>3. disk' = LatestBlocks /\ fd \in Volumes /\ fd # NoVolume
  BY <1>2, SavedIsLatest DEF WriteTop
<1>4. disk'[fd] \in Seq(Data) /\ Len(disk'[fd]) \in Nat /\ u <= Len(disk'[fd])
  <2>1. LatestBlocks[fd] \in Seq(Data)
    BY <1>3, LatestFacts
  <2>2. Len(LatestBlocks[fd]) >= Len(disk[fd]) /\ Len(disk[fd]) \in Nat
    BY <1>1, <1>3, LatestHolds
  <2> QED
    BY <1>1, <1>2, <1>3, <2>1, <2>2
<1>5. b.number = u /\ b.state = Clean /\ b.data = disk'[fd][u] /\ disk'[fd][u] \in Data
  BY <1>1, <1>4 DEF ReadData
<1>6. b \in Buffer /\ frame \in LoadFrame /\ frame.depth = n
  BY <1>1, <1>5 DEF Buffer, LoadFrame
<1> HIDE DEF b, frame
<1>7. /\ Len(bufs') = n + 1 /\ bufs'[n + 1] = b
      /\ \A i \in 1 .. n : bufs'[i] = SavedBuffers[i]
  BY <1>1, <1>2, <1>6, SavedBuffersFacts
<1>8. /\ Len(loads') = m + 1 /\ loads'[m + 1] = frame
      /\ \A k \in 1 .. m : loads'[k] = loads[k]
  BY <1>1, <1>2, <1>6
<1>9. Top' = b
  BY <1>1, <1>7 DEF Top
<1>10. \A i \in 1 .. n : bufs[i].number <= MaxBlock /\ bufs[i].number \in Nat
                         /\ bufs[i].number # 0
  <2>1. \A i \in 1 .. n : bufs[i].number <= MaxBlock /\ bufs[i] \in Buffer
    BY ClientTypes DEF CInv, ClientOK, NumbersBounded
  <2>2. bufs[n].number # 0
    BY <1>2 DEF Assigned, Top
  <2>3. \A i \in 1 .. n - 1 : bufs[i].number # 0
    BY <1>1 DEF CInv, IInv, SuspendedAreSaved, ClientOK, FreeIsUnassigned, Free, Clean
  <2>4. \A i \in 1 .. n : i = n \/ i \in 1 .. n - 1
    BY <1>1
  <2> QED
    BY <2>1, <2>2, <2>3, <2>4 DEF Buffer
<1>11. \A i \in 1 .. Len(bufs') : i = n + 1 \/ i \in 1 .. n
  BY <1>1, <1>7
<1>12. FreeIsUnassigned' /\ NumbersBounded'
  <2>1. ASSUME NEW i \in 1 .. Len(bufs')
        PROVE  bufs'[i].state # Free /\ bufs'[i].number # 0 /\ bufs'[i].number <= MaxBlock
    <3>1. CASE i = n + 1
      BY <1>1, <1>5, <1>7, <3>1 DEF Free, Clean
    <3>2. CASE i \in 1 .. n
      BY <1>7, <1>10, <3>2, SavedBuffersFacts DEF Free, Clean
    <3> QED
      BY <1>11, <3>1, <3>2
  <2> QED
    BY <2>1 DEF FreeIsUnassigned, NumbersBounded
<1>13. DirtyIsReachable'
  BY <1>5, <1>9 DEF DirtyIsReachable, Clean, Dirty
<1>14. CleanIsCurrent'
  <2> SUFFICES ASSUME NEW i \in {loads'[k].depth : k \in 1 .. m + 1} \cup {n + 1},
                      bufs'[i].number # 0
               PROVE  /\ fd # NoVolume
                      /\ bufs'[i].number <= Len(disk'[fd])
                      /\ bufs'[i].data = disk'[fd][bufs'[i].number]
    BY <1>2, <1>7, <1>8 DEF CleanIsCurrent
  <2>1. CASE i = n + 1
    BY <1>3, <1>4, <1>5, <1>7, <2>1
  <2>2. CASE i = n
    <3>1. bufs'[n].number = Top.number /\ bufs'[n].data = Top.data
      BY <1>1, <1>7, SavedBuffersFacts DEF Top
    <3>2. Top.number <= Len(LatestBlocks[fd]) /\ Top.data = LatestBlocks[fd][Top.number]
      BY <1>2, LatestHolds DEF Assigned
    <3> QED
      BY <1>3, <2>2, <3>1, <3>2
  <2>3. ASSUME NEW k \in 1 .. m, i = loads[k].depth
        PROVE  /\ fd # NoVolume
               /\ bufs'[i].number <= Len(disk'[fd])
               /\ bufs'[i].data = disk'[fd][bufs'[i].number]
    <3>1. i \in 1 .. n - 1 /\ i \in 1 .. n
      BY <1>1, <2>3
    <3>2. bufs'[i] = bufs[i]
      BY <1>7, <3>1, SavedBuffersFacts
    <3> QED
      BY <1>3, <2>3, <3>2, HeldStays
  <2>4. i = n + 1 \/ i = n \/ \E k \in 1 .. m : i = loads[k].depth
    <3>1. \A k \in 1 .. m + 1 : k = m + 1 \/ k \in 1 .. m
      BY <1>1
    <3> QED
      BY <1>6, <1>8, <3>1
  <2> QED
    BY <2>1, <2>2, <2>3, <2>4
<1> QED
  BY <1>2, <1>3, <1>5, <1>9, <1>12, <1>13, <1>14 DEF CInv, ClientOK, StoreStep, Looks

\* LOADs end: the program looks at the block of the one they return to.
LEMMA ReturnClient ==
  ASSUME CInv, IInv', disk' = LatestBlocks, UNCHANGED fd,
         NEW j \in 0 .. Len(loads) - 1, loads' = SubSeq(loads, 1, j),
         NEW bs \in Seq(Buffer), Len(bs) >= Len(bufs),
         \A i \in 1 .. Len(bufs) - 1 : bs[i] = bufs[i],
         bufs' = SubSeq(bs, 1, loads[j + 1].depth)
  PROVE  CInv' /\ StoreStep
<1> DEFINE n == loads[j + 1].depth
<1>1. /\ Len(bufs) \in Nat \ {0} /\ Len(bs) \in Nat /\ loads \in Seq(LoadFrame)
      /\ Len(loads) \in Nat /\ j + 1 \in 1 .. Len(loads) /\ n \in 1 .. Len(bufs) - 1
      /\ j \in 0 .. Len(loads) /\ j \in Nat
  BY ClientTypes
<1>2. n \in 0 .. Len(bs) /\ n \in Nat
  BY <1>1
<1>3. Len(bufs') = n /\ \A i \in 1 .. n : bufs'[i] = bufs[i] /\ i \in 1 .. Len(bufs)
  <2> HIDE DEF n
  <2>1. Len(bufs') = n /\ \A i \in 1 .. n : bufs'[i] = bs[i]
    BY <1>2, PrefixFacts DEF n
  <2>2. \A i \in 1 .. n : i \in 1 .. Len(bufs) - 1 /\ i \in 1 .. Len(bufs)
    BY <1>1, <1>2
  <2>3. \A i \in 1 .. n : bs[i] = bufs[i]
    BY <2>2
  <2> QED
    BY <2>1, <2>2, <2>3
<1>4. Len(loads') = j /\ \A k \in 1 .. j : loads'[k] = loads[k] /\ k \in 1 .. Len(loads)
  BY <1>1, PrefixFacts
<1>5. Top' = bufs[n]
  BY <1>1, <1>3 DEF Top
<1>6. bufs[n].state = Clean
  BY <1>1 DEF CInv, IInv, SuspendedAreSaved
<1>7. FreeIsUnassigned' /\ NumbersBounded'
  BY <1>3 DEF CInv, ClientOK, FreeIsUnassigned, NumbersBounded
<1>8. DirtyIsReachable'
  BY <1>5, <1>6 DEF DirtyIsReachable, Clean, Dirty
<1>9. CleanIsCurrent'
  <2> SUFFICES ASSUME NEW i \in {loads'[k].depth : k \in 1 .. j} \cup {n}
               PROVE  /\ fd # NoVolume
                      /\ bufs'[i].number <= Len(disk'[fd])
                      /\ bufs'[i].data = disk'[fd][bufs'[i].number]
    BY <1>3, <1>4 DEF CleanIsCurrent
  <2>1. PICK k \in 1 .. j + 1 : i = loads[k].depth
    <3>1. \A k \in 1 .. j : k \in 1 .. j + 1
      BY <1>1
    <3>2. j + 1 \in 1 .. j + 1
      BY <1>1
    <3> QED
      BY <1>4, <3>1, <3>2
  <2>2. k \in 1 .. Len(loads)
    BY <1>1
  <2>3. i \in 1 .. n
    <3>1. CASE k = j + 1
      BY <1>1, <2>1, <3>1
    <3>2. CASE k # j + 1
      <4>1. k \in 1 .. (j + 1) - 1
        BY <1>1, <3>2
      <4>2. loads[k].depth < n
        BY <1>1, <4>1 DEF CInv, IInv, Nested
      <4>3. loads[k].depth \in 1 .. Len(bufs) - 1
        BY <2>2, ClientTypes
      <4> QED
        BY <1>1, <2>1, <4>2, <4>3
    <3> QED
      BY <3>1, <3>2
  <2> QED
    BY <1>3, <2>1, <2>2, <2>3, HeldStays
<1> QED
  BY <1>5, <1>6, <1>7, <1>8, <1>9 DEF CInv, ClientOK, StoreStep, Looks

\* A LOAD that fails leaves its own free buffer, or returns to an outer LOAD.
LEMMA LoadFailsClient ==
  ASSUME CInv, Faults = {}, IInv', NEW u \in 0 .. MaxBlock, CareLoadFails(u)
  PROVE  CInv' /\ StoreStep
<1> DEFINE n == Len(bufs)
           b == NewBuffer(Junk)
           bs == Append(SavedBuffers, b)
<1>1. /\ bufs \in Seq(Buffer) /\ n \in Nat \ {0} /\ loads \in Seq(LoadFrame)
      /\ Len(loads) \in Nat
      /\ \A k \in 1 .. Len(loads) : loads[k].depth \in 1 .. n - 1
  BY ClientTypes
<1>2. Assigned /\ WriteTop /\ UNCHANGED fd
  BY DEF CareLoadFails, LoadFails
<1>3. PICK j \in 0 .. Len(loads) : Caught(j, bs)
  BY DEF CareLoadFails, LoadFails
<1>4. disk' = LatestBlocks /\ fd # NoVolume
  BY <1>2, SavedIsLatest DEF WriteTop
<1>5. b \in Buffer /\ b.number = 0 /\ b.state = Free
  BY DEF NewBuffer, Buffer, Data, Free
<1> HIDE DEF b
<1>6. /\ bs \in Seq(Buffer) /\ Len(bs) = n + 1 /\ bs[n + 1] = b
      /\ \A i \in 1 .. n : bs[i] = SavedBuffers[i]
  BY <1>1, <1>5, SavedBuffersFacts, AppendFacts
<1> HIDE DEF bs
<1>7. /\ \A i \in 1 .. n : bs[i].number = bufs[i].number /\ bs[i].data = bufs[i].data
                           /\ bs[i].state = Clean
      /\ \A i \in 1 .. n - 1 : i \in 1 .. n /\ bs[i] = bufs[i]
  <2>1. \A i \in 1 .. n - 1 : i \in 1 .. n
    BY <1>1
  <2> QED
    BY <1>6, <2>1, SavedBuffersFacts
<1>8. loads' = SubSeq(loads, 1, j)
  BY <1>3 DEF Caught
<1>9. CASE j # Len(loads)
  <2>1. j \in 0 .. Len(loads) - 1 /\ Len(bs) >= n
    BY <1>1, <1>6, <1>9
  <2>2. bufs' = SubSeq(bs, 1, loads[j + 1].depth)
    BY <1>3, <1>9 DEF Caught, BuffersAt
  <2> QED
    BY <1>2, <1>4, <1>6, <1>7, <1>8, <2>1, <2>2, ReturnClient
<1>10. CASE j = Len(loads)
  <2>1. bufs' = bs /\ loads' = loads
    BY <1>1, <1>3, <1>8, <1>10 DEF Caught, BuffersAt
  <2>2. Top' = b
    BY <1>1, <1>6, <2>1 DEF Top
  <2>3. \A i \in 1 .. Len(bufs') : i = n + 1 \/ i \in 1 .. n
    BY <1>1, <1>6, <2>1
  <2>4. \A i \in 1 .. n : bufs[i].number # 0 /\ bufs[i].number <= MaxBlock
    <3>1. bufs[n].number # 0
      BY <1>2 DEF Assigned, Top
    <3>2. \A i \in 1 .. n - 1 : bufs[i].number # 0
      BY <1>1 DEF CInv, IInv, SuspendedAreSaved, ClientOK, FreeIsUnassigned, Free, Clean
    <3>3. \A i \in 1 .. n : i = n \/ i \in 1 .. n - 1
      BY <1>1
    <3> QED
      BY <3>1, <3>2, <3>3 DEF CInv, ClientOK, NumbersBounded
  <2>5. FreeIsUnassigned'
    <3>1. ASSUME NEW i \in 1 .. n PROVE bs[i].state # Free /\ bs[i].number # 0
      <4>1. bs[i].state = Clean /\ bs[i].number = bufs[i].number
        BY <1>7
      <4>2. bufs[i].number # 0
        BY <2>4
      <4> QED
        BY <4>1, <4>2 DEF Free, Clean
    <3> QED
      BY <1>5, <1>6, <2>1, <2>3, <3>1 DEF FreeIsUnassigned
  <2>6. NumbersBounded'
    <3>1. bs[n + 1].number <= MaxBlock
      BY <1>5, <1>6, BoundsAssumption
    <3>2. \A i \in 1 .. n : bs[i].number <= MaxBlock
      BY <1>7, <2>4
    <3> QED
      BY <2>1, <2>3, <3>1, <3>2 DEF NumbersBounded
  <2>7. DirtyIsReachable'
    BY <1>5, <2>2 DEF DirtyIsReachable, Free, Dirty
  <2>8. CleanIsCurrent'
    <3> SUFFICES ASSUME NEW i \in {loads[k].depth : k \in 1 .. Len(loads)} \cup {n + 1},
                        bs[i].number # 0
                 PROVE  /\ fd # NoVolume
                        /\ bs[i].number <= Len(disk'[fd])
                        /\ bs[i].data = disk'[fd][bs[i].number]
      BY <1>2, <1>6, <2>1 DEF CleanIsCurrent
    <3>1. PICK k \in 1 .. Len(loads) : i = loads[k].depth
      BY <1>5, <1>6
    <3>2. bs[i] = bufs[i]
      BY <1>1, <1>7, <3>1
    <3> QED
      BY <1>4, <3>1, <3>2, HeldStays
  <2> QED
    BY <1>4, <1>5, <2>2, <2>5, <2>6, <2>7, <2>8 DEF CInv, ClientOK, StoreStep, LetsGo
<1> QED
  BY <1>9, <1>10

\* The end of LOADs, by their text or a QUIT, and of the process.
LEMMA EndClient ==
  ASSUME CInv, IInv', QuitElsewhere \/ Restart \/ \E j \in 0 .. MaxDepth : Leave(j)
  PROVE  CInv' /\ StoreStep
<1>1. /\ bufs \in Seq(Buffer) /\ Len(bufs) \in Nat \ {0} /\ Len(loads) \in Nat
  BY ClientTypes
<1>2. ASSUME NEW j \in 0 .. MaxDepth, Leave(j)
      PROVE  CInv' /\ StoreStep
  <2>1. /\ j \in 0 .. Len(loads) - 1 /\ loads' = SubSeq(loads, 1, j)
        /\ UNCHANGED <<disk, fd>> /\ Top.state # Dirty
        /\ bufs' = SubSeq(bufs, 1, loads[j + 1].depth)
    <3>1. j < Len(loads) /\ Caught(j, bufs) /\ UNCHANGED <<disk, fd>> /\ Top.state # Dirty
      BY <1>2 DEF Leave, LeaveLoads
    <3>2. j \in 0 .. Len(loads) - 1 /\ j # Len(loads)
      BY <1>1, <3>1, BoundsAssumption
    <3> QED
      BY <3>1, <3>2 DEF Caught, BuffersAt
  <2>2. disk' = LatestBlocks
    BY <2>1, LatestFacts
  <2>3. Len(bufs) >= Len(bufs)
    BY <1>1
  <2> QED
    BY <1>1, <2>1, <2>2, <2>3, ReturnClient
<1>3. CASE QuitElsewhere
  <2>1. loads' = <<>> /\ UNCHANGED <<disk, fd, pos, bufs>>
    BY <1>3 DEF QuitElsewhere, QUIT
  <2>2. Top' = Top
    BY <2>1 DEF Top
  <2>3. FreeIsUnassigned' /\ NumbersBounded'
    BY <2>1 DEF CInv, ClientOK, FreeIsUnassigned, NumbersBounded
  <2>4. DirtyIsReachable'
    <3>1. Suspended' = {}
      BY <2>1 DEF Suspended
    <3> QED
      BY <2>1, <2>2, <3>1 DEF CInv, ClientOK, DirtyIsReachable
  <2>5. CleanIsCurrent'
    BY <2>1 DEF CInv, ClientOK, CleanIsCurrent
  <2> QED
    BY <2>1, <2>3, <2>4, <2>5 DEF CInv, ClientOK, StoreStep
<1>4. CASE Restart
  <2> DEFINE b == NewBuffer(Zeros)
  <2>1. b.number = 0 /\ b.state = Free
    BY DEF NewBuffer
  <2> HIDE DEF b
  <2>2. bufs' = <<b>> /\ loads' = <<>> /\ disk' = disk
    BY <1>4 DEF Restart, b
  <2>3. Len(bufs') = 1 /\ bufs'[1] = b /\ Top' = b
    BY <2>2 DEF Top
  <2>4. FreeIsUnassigned' /\ NumbersBounded'
    BY <2>1, <2>3, BoundsAssumption DEF FreeIsUnassigned, NumbersBounded
  <2>5. DirtyIsReachable' /\ CleanIsCurrent'
    BY <2>1, <2>2, <2>3 DEF DirtyIsReachable, CleanIsCurrent, Free, Dirty
  <2> QED
    BY <2>1, <2>2, <2>3, <2>4, <2>5 DEF CInv, ClientOK, StoreStep, Forgets
<1> QED
  BY <1>2, <1>3, <1>4

\* Every step keeps the invariant and is one of the five kinds.
LEMMA ClientStep ==
  ASSUME CInv, Faults = {}, CareNext
  PROVE  CInv' /\ StoreStep
<1>1. IInv'
  BY CareStep DEF CInv
<1>2. ASSUME NEW u \in 1 .. MaxBlock, Fetch(u) PROVE CInv' /\ StoreStep
  BY <1>1, <1>2, FetchClient
<1>3. ASSUME NEW d \in Contents, Change(d) \/ \E u \in 1 .. MaxBlock : Fill(u, d)
      PROVE  CInv' /\ StoreStep
  BY <1>1, <1>3, PutClient
<1>4. ASSUME NEW u \in 1 .. MaxBlock, CareLoad(u) PROVE CInv' /\ StoreStep
  BY <1>1, <1>4, LoadClient
<1>5. ASSUME NEW u \in 0 .. MaxBlock, CareLoadFails(u) PROVE CInv' /\ StoreStep
  BY <1>1, <1>5, LoadFailsClient
<1>6. ASSUME Close \/ \E v \in Volumes : Open(v) PROVE CInv' /\ StoreStep
  BY <1>1, <1>6, FileClient
<1>7. ASSUME (Assigned /\ SAVE_BUFFERS) \/ (Assigned /\ FLUSH) \/ EMPTY_BUFFERS
      PROVE  CInv' /\ StoreStep
  BY <1>1, <1>7, SaveClient
<1>8. ASSUME QuitElsewhere \/ Restart \/ \E j \in 0 .. MaxDepth : Leave(j)
      PROVE  CInv' /\ StoreStep
  BY <1>1, <1>8, EndClient
<1> QED
  BY <1>2, <1>3, <1>4, <1>5, <1>6, <1>7, <1>8 DEF CareNext, CareWord

-----------------------------------------------------------------------------
(* The refinement. *)

\* Between updates the latest contents are those of the file.
LEMMA NothingPending ==
  ASSUME disk' \in [Volumes -> Seq(Data)], Top'.state # Dirty
  PROVE  LatestBlocks' = disk'
BY DEF LatestBlocks

\* Looking at a block reads it, and perhaps saves what was changed before.
LEMMA LooksRefines ==
  ASSUME CInv, CInv', Looks
  PROVE  Store_!Next
<1> DEFINE u == Top'.number
<1>1. /\ disk' \in [Volumes -> Seq(Data)] /\ bufs' \in Seq(Buffer) \ {<<>>}
      /\ fd' \in Volumes \cup {NoVolume}
  BY DEF CInv, IInv, TypeOK
<1>2. Top' \in Buffer /\ Len(bufs') \in 1 .. Len(bufs')
  BY <1>1 DEF Top
<1>3. Top'.state = Clean /\ fd' = fd /\ disk' = LatestBlocks
  BY DEF Looks
<1>4. u # 0 /\ u <= MaxBlock /\ u \in Nat
  BY <1>2, <1>3 DEF CInv, ClientOK, FreeIsUnassigned, NumbersBounded, Top, Free, Clean, Buffer
<1>5. fd # NoVolume /\ u <= Len(disk'[fd]) /\ Top'.data = disk'[fd][u]
  BY <1>3, <1>4 DEF CInv, ClientOK, CleanIsCurrent, Top
<1>6. u \in 1 .. MaxBlock /\ fd \in Volumes
  BY <1>1, <1>3, <1>4, <1>5, BoundsAssumption
<1>7. LatestBlocks' = disk'
  BY <1>1, <1>3, NothingPending DEF Clean, Dirty
<1>8. ShownBlock' = [volume |-> fd, block |-> u, data |-> disk'[fd][u]]
  BY <1>3, <1>4, <1>5 DEF ShownBlock
<1> HIDE DEF u
<1>9. Store_!Read(fd, u)
  BY <1>3, <1>5, <1>7, <1>8 DEF Store_!Read, Store_!MaySave
<1> QED
  BY <1>6, <1>9 DEF Store_!Next

\* Giving the buffer up saves what it held.
LEMMA LetsGoRefines ==
  ASSUME CInv, CInv', LetsGo
  PROVE  Store_!Next
<1>1. disk' \in [Volumes -> Seq(Data)] /\ bufs' \in Seq(Buffer) \ {<<>>}
  BY DEF CInv, IInv, TypeOK
<1>2. Top'.state = Free /\ disk' = LatestBlocks
  BY DEF LetsGo
<1>3. Top'.number = 0
  BY <1>1, <1>2 DEF CInv, ClientOK, FreeIsUnassigned, Top
<1>4. LatestBlocks' = disk' /\ ShownBlock' = Nothing
  BY <1>1, <1>2, <1>3, NothingPending DEF ShownBlock, Free, Dirty
<1>5. Store_!Save
  BY <1>2, <1>4 DEF Store_!Save
<1> QED
  BY <1>5 DEF Store_!Next

\* Emptying the buffer, or the end of the process, discards it.
LEMMA ForgetsRefines ==
  ASSUME CInv, CInv', Forgets
  PROVE  Store_!Next
<1>1. disk' \in [Volumes -> Seq(Data)] /\ bufs' \in Seq(Buffer) \ {<<>>}
  BY DEF CInv, IInv, TypeOK
<1>2. Top'.state = Free /\ disk' = disk
  BY DEF Forgets
<1>3. Top'.number = 0
  BY <1>1, <1>2 DEF CInv, ClientOK, FreeIsUnassigned, Top
<1>4. LatestBlocks' = disk' /\ ShownBlock' = Nothing
  BY <1>1, <1>2, <1>3, NothingPending DEF ShownBlock, Free, Dirty
<1>5. Store_!Discard
  BY <1>2, <1>4 DEF Store_!Discard
<1> QED
  BY <1>5 DEF Store_!Next

\* Putting something in a block updates it, and may save the one before.
LEMMA ChangesRefines ==
  ASSUME CInv, CInv', Changes
  PROVE  Store_!Next
<1> DEFINE u == Top'.number
           d == Top'.data
           f == disk'[fd]
           p == pos'
           b == Top'
<1>1. /\ disk' \in [Volumes -> Seq(Data)] /\ bufs' \in Seq(Buffer) \ {<<>>}
      /\ fd' \in Volumes \cup {NoVolume} /\ p \in Nat
      /\ disk \in [Volumes -> Seq(Data)]
  BY DEF CInv, IInv, TypeOK
<1>2. b \in Buffer /\ Len(bufs') \in 1 .. Len(bufs')
  BY <1>1 DEF Top
<1>3. /\ b.state = Dirty /\ fd' = fd
      /\ disk' = LatestBlocks \/ (disk' = disk /\ Top.state = Dirty /\ u = Top.number)
  BY DEF Changes
<1>4. u # 0 /\ u <= MaxBlock /\ u \in Nat /\ d \in Data
  BY <1>2, <1>3 DEF CInv, ClientOK, FreeIsUnassigned, NumbersBounded, Top, Free, Dirty, Buffer
<1>5. u \in 1 .. MaxBlock /\ u \in Nat \ {0} /\ fd \in Volumes /\ fd # NoVolume
  BY <1>1, <1>3, <1>4, BoundsAssumption DEF CInv, ClientOK, DirtyIsReachable
<1>6. f \in Seq(Data)
  BY <1>1, <1>5
<1>7. LatestBlocks' = [v \in Volumes |-> IF v = fd THEN Written(f, p, b) ELSE disk'[v]]
  BY <1>3 DEF LatestBlocks
<1>8. ShownBlock' = [volume |-> fd, block |-> u, data |-> d]
  BY <1>3, <1>4, <1>5 DEF ShownBlock
<1> HIDE DEF f, p
<1>9. Written(f, p, b) = Store_!Updated(f, u, d)
  <2> HIDE DEF b
  <2>1. b.number = u /\ b.data = d
    BY DEF b
  <2>2. Written(f, p, b) = Store_!Updated(f, b.number, b.data)
    BY <1>1, <1>2, <1>4, <1>6, <2>1, WrittenIsUpdated
  <2> QED
    BY <2>1, <2>2
<1> HIDE DEF b, u, d
<1>10. LatestBlocks \in [Volumes -> Seq(Data)]
       /\ \A v \in Volumes : v # fd => LatestBlocks[v] = disk[v]
  BY LatestFacts
<1>11. Store_!Updated(f, u, d) = Store_!Updated(LatestBlocks[fd], u, d)
       /\ \A v \in Volumes : v # fd => disk'[v] = LatestBlocks[v]
  <2>1. CASE disk' = LatestBlocks
    BY <2>1 DEF f
  <2>2. CASE disk' = disk /\ Top.state = Dirty /\ u = Top.number
    <3> DEFINE c == Top.data
    <3>1. LatestBlocks[fd] = Store_!Updated(f, u, c)
      BY <2>2, LatestFacts DEF f
    <3>2. c \in Data
      BY TopFacts
    <3> HIDE DEF c
    <3>3. Store_!Updated(Store_!Updated(f, u, c), u, d) = Store_!Updated(f, u, d)
      BY <1>4, <1>5, <1>6, <3>2, UpdatedTwice, Zenon
    <3> QED
      BY <1>10, <2>2, <3>1, <3>3
  <2> QED
    BY <1>3, <2>1, <2>2
<1>12. LatestBlocks' = [LatestBlocks EXCEPT ![fd] = Store_!Updated(LatestBlocks[fd], u, d)]
  <2> DEFINE new == Store_!Updated(f, u, d)
  <2>1. LatestBlocks' = [v \in Volumes |-> IF v = fd THEN new ELSE disk'[v]]
    BY <1>7, <1>9
  <2>2. new = Store_!Updated(LatestBlocks[fd], u, d)
    BY <1>11
  <2> HIDE DEF new
  <2>3. LatestBlocks' = [LatestBlocks EXCEPT ![fd] = new]
    BY <1>5, <1>10, <1>11, <2>1
  <2> QED
    BY <2>2, <2>3
<1>13. disk' \in {disk, LatestBlocks}
  BY <1>3
<1>14. Store_!Put(fd, u, d)
  BY <1>8, <1>12, <1>13 DEF Store_!Put, Store_!MaySave
<1> QED
  BY <1>4, <1>5, <1>14 DEF Store_!Next

\* A step that leaves file and buffers alone leaves the store alone.
LEMMA StutterRefines ==
  ASSUME UNCHANGED <<disk, fd, pos, bufs>>
  PROVE  UNCHANGED <<LatestBlocks, disk, ShownBlock>>
BY DEF LatestBlocks, ShownBlock, Top

\* The first state is one of the store's.
LEMMA InitClient == Init => CInv /\ Store_!Init
<1> SUFFICES ASSUME Init PROVE CInv /\ Store_!Init
  OBVIOUS
<1> DEFINE b == NewBuffer(Zeros)
<1>1. b.number = 0 /\ b.state = Free
  BY DEF NewBuffer
<1> HIDE DEF b
<1>2. IInv
  BY InitIInv
<1>3. bufs = <<b>> /\ loads = <<>>
  BY DEF Init, b
<1>4. Len(bufs) = 1 /\ bufs[1] = b /\ Top = b
  BY <1>3 DEF Top
<1>5. FreeIsUnassigned /\ NumbersBounded
  BY <1>1, <1>4, BoundsAssumption DEF FreeIsUnassigned, NumbersBounded
<1>6. DirtyIsReachable /\ CleanIsCurrent
  BY <1>1, <1>3, <1>4 DEF DirtyIsReachable, CleanIsCurrent, Free, Dirty
<1>7. CInv
  BY <1>2, <1>5, <1>6 DEF CInv, ClientOK
<1>8. LatestBlocks = disk /\ ShownBlock = Nothing /\ disk \in [Volumes -> Seq(Data)]
  BY <1>1, <1>4, <1>7, LatestFacts, ClientTypes DEF ShownBlock, Free, Dirty
<1> QED
  BY <1>7, <1>8 DEF Store_!Init

\* Nothing happens, as part of the invariant.
LEMMA StillClient ==
  ASSUME CInv, UNCHANGED vars
  PROVE  CInv' /\ UNCHANGED <<LatestBlocks, disk, ShownBlock>>
<1>1. UNCHANGED <<disk, fd, pos, bufs, loads, console, stale>>
  BY DEF vars
<1>2. Top' = Top
  BY <1>1 DEF Top
<1>3. IInv'
  BY <1>1 DEF CInv, IInv, TypeOK, Nested, SuspendedAreSaved
<1>4. FreeIsUnassigned' /\ NumbersBounded' /\ CleanIsCurrent'
  BY <1>1 DEF CInv, ClientOK, FreeIsUnassigned, NumbersBounded, CleanIsCurrent
<1>5. DirtyIsReachable'
  <2>1. Suspended' = Suspended
    BY <1>1 DEF Suspended
  <2> QED
    BY <1>1, <1>2, <2>1 DEF CInv, ClientOK, DirtyIsReachable
<1> QED
  BY <1>1, <1>3, <1>4, <1>5, StutterRefines DEF CInv, ClientOK

\* When no file operation fails, a clean buffer that a careful program looks at,
\* or that a LOAD will return to, holds its block as the file has it.
THEOREM CleanStaysCurrent == ASSUME Faults = {} PROVE CareSpec => []CleanIsCurrent
<1>1. CInv /\ [CareNext]_vars => CInv'
  BY ClientStep, StillClient
<1>2. Init => CInv
  BY InitClient
<1>3. CInv => CleanIsCurrent
  BY DEF CInv, ClientOK
<1> QED
  BY <1>1, <1>2, <1>3, PTL DEF CareSpec

\* When no file operation fails, the block words under a careful program are
\* the store of BlockStore.
THEOREM BlocksImplementStore == ASSUME Faults = {} PROVE CareSpec => ImplementsStore
<1>1. CInv /\ [CareNext]_vars => CInv'
  BY ClientStep, StillClient
<1>2. Init => CInv /\ Store_!Init
  BY InitClient
<1>3. CInv /\ CInv' /\ [CareNext]_vars => [Store_!Next]_(Store_!vars)
  <2> SUFFICES ASSUME CInv, CInv', [CareNext]_vars
               PROVE  Store_!Next \/ UNCHANGED Store_!vars
    OBVIOUS
  <2>1. CASE CareNext
    <3>1. StoreStep
      BY <2>1, ClientStep
    <3> QED
      BY <3>1, LooksRefines, LetsGoRefines, ChangesRefines, ForgetsRefines, StutterRefines
         DEF StoreStep, Store_!vars
  <2>2. CASE UNCHANGED vars
    BY <2>2, StillClient DEF Store_!vars
  <2> QED
    BY <2>1, <2>2
<1> QED
  BY <1>1, <1>2, <1>3, PTL DEF CareSpec, ImplementsStore, Store_!Spec

=============================================================================
