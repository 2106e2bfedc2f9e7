-------------------------- MODULE JsStorage_proofs --------------------------
(***************************************************************************)
(* Theorems about JS-Forth's mass storage, for any number of blocks and    *)
(* buffers and any bounds: types and ranges, the buffer table, and the     *)
(* timer that every suspended machine has; then what a program reads.  An  *)
(* action of the words and one of the events differ in what they do to the *)
(* table and in what they do to the machine, and the proofs keep the two   *)
(* apart.                                                                  *)
(***************************************************************************)
EXTENDS JsStorage, FiniteSetTheorems, WellFoundedInduction, TLAPS

\* A session without CATCH has no frame of one.
NoFrames == ~catching => frames = 0

IInv == TypeOK /\ MappedBack /\ NoFrames /\ SomethingWakes

\* The two halves of TypeOK: blocks and buffers, and requests and the machine.
DataOK ==
  /\ drive \in [Local -> Contents] /\ mem \in [Bufs -> Contents]
  /\ bufblk \in [Bufs -> Numbers \cup {-1}]
  /\ bufdirty \in [Bufs -> BOOLEAN]
  /\ blockstat \in [Numbers -> Bufs \cup {-1}]
  /\ nextbuf \in Bufs /\ hotbuffer \in Bufs \cup {-1}
  /\ latest \in [Local -> Contents \cup {Detached}] \cup {<<>>}

MachineOK ==
  /\ requesting_load \in 0 .. 1 /\ frame \in 0 .. Capacity \cup {-1}
  /\ bufferforrequest \in Seq(Bufs)
  /\ suspended \in {"no", "key", "pause", "block", "warm"}
  /\ watchdogs \in 0 .. MaxTimers /\ warms \in 0 .. MaxTimers
  /\ frames \in 0 .. MaxFrames
  /\ {resumes, catching, unreadable} \subseteq BOOLEAN

\* What has to hold after a step, of the table and of the machine.
TableOK == DataOK /\ MappedBack
AwakeOK == MachineOK /\ NoFrames /\ SomethingWakes

LEMMA Halves == IInv <=> TableOK /\ AwakeOK
BY DEF IInv, TypeOK, TableOK, AwakeOK, DataOK, MachineOK

-----------------------------------------------------------------------------
(* Sets of numbers. *)

\* A set of naturals has a least element.
LEMMA LeastExists ==
  ASSUME NEW T, T \subseteq Nat, T # {}
  PROVE  \E i \in T : \A j \in T : i <= j
<1> DEFINE R == {ss \in Nat \X Nat : ss[1] < ss[2]}
<1>1. R = OpToRel(<, Nat)
  BY DEF OpToRel
<1>2. IsWellFoundedOn(R, Nat)
  BY <1>1, NatLessThanWellFounded
<1>3. PICK i \in T : \A j \in T : ~(<<j, i>> \in R)
  BY <1>2, WFMin
<1>4. \A j \in T : i \in Nat /\ j \in Nat /\ <<j, i>> \in Nat \X Nat
  OBVIOUS
<1>5. \A j \in T : ~(j < i)
  BY <1>3, <1>4
<1> QED
  BY <1>4, <1>5

\* A set of naturals with a bound has a last element.
LEMMA LastExists ==
  ASSUME NEW n \in Nat, NEW T, T \subseteq 0 .. n, T # {}
  PROVE  \E i \in T : \A j \in T : j <= i
<1> DEFINE U == {n - i : i \in T}
<1>1. \A i \in T : i \in Nat /\ n - i \in Nat
  OBVIOUS
<1>2. U \subseteq Nat /\ U # {}
  BY <1>1
<1>3. PICK k \in U : \A j \in U : k <= j
  BY <1>2, LeastExists
<1>4. PICK i \in T : k = n - i
  BY <1>3
<1>5. \A j \in T : n - i <= n - j
  BY <1>3, <1>4
<1> QED
  BY <1>1, <1>5

\* Block numbers are among the numbers a word may be left with.
LEMMA NumberSets ==
  /\ Local \subseteq Blocks /\ Blocks \subseteq Numbers /\ Blocks \subseteq Nat
  /\ 0 .. Capacity \subseteq Numbers /\ -35 \in Numbers /\ -71 \in Numbers
  /\ Numbers \subseteq Int /\ Bufs \subseteq Nat /\ Bufs # {} /\ Local # {}
<1>1. /\ LocalCapacity \in Nat /\ LocalCapacity >= 1
      /\ Capacity \in Nat /\ LocalCapacity <= Capacity
      /\ MaxBufs \in Nat /\ MaxBufs >= 1
  BY CapacityAssumption, BufsAssumption
<1>2. Local \subseteq Blocks /\ Blocks \subseteq Nat
  BY <1>1 DEF Local, Blocks
<1>3. Blocks \subseteq Numbers /\ 0 .. Capacity \subseteq Numbers
  BY <1>1 DEF Blocks, Numbers
<1>4. -35 \in Numbers /\ -71 \in Numbers
  BY DEF Numbers
<1>5. Numbers \subseteq Int
  BY <1>1 DEF Numbers
<1>6. Bufs \subseteq Nat /\ 0 \in Bufs /\ 0 \in Local
  BY <1>1 DEF Bufs, Local
<1> QED
  BY <1>2, <1>3, <1>4, <1>5, <1>6

\* How many buffers there are of some kind is a natural number.
LEMMA CountOfBuffers ==
  ASSUME NEW T, T \subseteq Bufs
  PROVE  Cardinality(T) \in Nat
<1>1. IsFiniteSet(Bufs)
  BY FS_Interval, BufsAssumption DEF Bufs
<1> QED
  BY <1>1, FS_Subset, FS_CardinalityType

-----------------------------------------------------------------------------
(* Throwing. *)

\* Without CATCH a throw sets a timer, and in any case no bound is passed.
LEMMA ThrowerrorFacts ==
  ASSUME AwakeOK, NEW k \in Nat, throwerror(k)
  PROVE  /\ frames' \in 0 .. MaxFrames /\ warms' \in 0 .. MaxTimers
         /\ Uncaught(k) => warms' > 0
         /\ frames = 0 => frames' = 0
<1>1. /\ frames \in 0 .. MaxFrames /\ warms \in 0 .. MaxTimers
      /\ MaxFrames \in Nat /\ MaxTimers \in Nat
  BY BoundsAssumption DEF AwakeOK, MachineOK
<1>2. CASE Uncaught(k)
  BY <1>1, <1>2 DEF throwerror, Uncaught
<1>3. CASE ~Uncaught(k)
  BY <1>1, <1>3 DEF throwerror, Uncaught
<1> QED
  BY <1>2, <1>3

\* A word that throws and starts no request leaves a machine that goes on or
\* awaits its warm start.
LEMMA ThrownStep ==
  ASSUME AwakeOK, NEW k \in Nat, Thrown(k), UNCHANGED <<catching, resumes>>,
         unreadable' \in BOOLEAN,
         MachineOK => /\ requesting_load' \in 0 .. 1 /\ frame' \in 0 .. Capacity \cup {-1}
                      /\ bufferforrequest' \in Seq(Bufs) /\ watchdogs' \in 0 .. MaxTimers
  PROVE  AwakeOK'
<1>1. /\ frames' \in 0 .. MaxFrames /\ warms' \in 0 .. MaxTimers
      /\ Uncaught(k) => warms' > 0
      /\ frames = 0 => frames' = 0
  BY ThrowerrorFacts DEF Thrown
<1>2. suspended' = IF Uncaught(k) THEN "warm" ELSE "no"
  BY DEF Thrown
<1>3. MachineOK'
  BY <1>1, <1>2 DEF AwakeOK, MachineOK
<1>4. NoFrames'
  BY <1>1 DEF AwakeOK, NoFrames
<1>5. SomethingWakes'
  BY <1>1, <1>2 DEF SomethingWakes
<1> QED
  BY <1>3, <1>4, <1>5 DEF AwakeOK

\* What tos is after a throw is a number.
LEMMA TosAfterType ==
  ASSUME NEW code \in {-35, -71}, NEW k \in Nat
  PROVE  TosAfter(code, k) \subseteq Numbers
BY BelowAssumption, NumberSets DEF TosAfter

-----------------------------------------------------------------------------
(* The tables. *)

\* Buffer n changes from one block to another.
LEMMA RemappedStep ==
  ASSUME TableOK, NEW t \in Numbers, NEW n \in Bufs,
         bufblk' = [bufblk EXCEPT ![n] = t], blockstat' = Remapped(t, n)
  PROVE  /\ bufblk' \in [Bufs -> Numbers \cup {-1}]
         /\ blockstat' \in [Numbers -> Bufs \cup {-1}]
         /\ MappedBack'
<1>1. bufblk \in [Bufs -> Numbers \cup {-1}] /\ blockstat \in [Numbers -> Bufs \cup {-1}]
  BY DEF TableOK, DataOK
<1>2. bufblk' \in [Bufs -> Numbers \cup {-1}]
  BY <1>1
<1>3. blockstat' \in [Numbers -> Bufs \cup {-1}]
  BY <1>1 DEF Remapped
<1>4. ASSUME NEW b \in Blocks, blockstat'[b] >= 0
      PROVE  bufblk'[blockstat'[b]] = b
  <2>1. b \in Numbers /\ b >= 0
    BY NumberSets, <1>4
  <2>2. blockstat'[b] = IF b = t THEN n ELSE IF b = bufblk[n] /\ b >= 0 THEN -1
                        ELSE blockstat[b]
    BY <2>1 DEF Remapped
  <2>3. CASE b = t
    BY <1>1, <2>2, <2>3
  <2>4. CASE b # t
    <3>1. b # bufblk[n] /\ blockstat'[b] = blockstat[b]
      BY <2>1, <2>2, <2>4, <1>4
    <3>2. blockstat[b] \in Bufs /\ bufblk[blockstat[b]] = b
      BY <1>1, <1>4, <2>1, <3>1 DEF TableOK, MappedBack
    <3> QED
      BY <1>1, <3>1, <3>2
  <2> QED
    BY <2>3, <2>4
<1> QED
  BY <1>2, <1>3, <1>4 DEF MappedBack

\* The blocks that some of the buffers have are unmapped; these keep their
\* numbers or lose them, the others keep theirs.
LEMMA UnmappedStep ==
  ASSUME TableOK, NEW T, T \subseteq Bufs,
         \A i \in Bufs : bufblk[i] >= 0 => i \in T,
         blockstat' = [u \in Numbers |->
                         IF \E i \in T : bufblk[i] = u THEN -1 ELSE blockstat[u]]
  PROVE  blockstat' \in [Numbers -> Bufs \cup {-1}] /\ MappedBack'
<1>1. bufblk \in [Bufs -> Numbers \cup {-1}] /\ blockstat \in [Numbers -> Bufs \cup {-1}]
  BY DEF TableOK, DataOK
<1>2. blockstat' \in [Numbers -> Bufs \cup {-1}]
  BY <1>1
<1>3. ASSUME NEW b \in Blocks, blockstat'[b] >= 0
      PROVE  FALSE
  <2>1. b \in Numbers /\ b >= 0
    BY NumberSets, <1>3
  <2>2. ~(\E i \in T : bufblk[i] = b) /\ blockstat'[b] = blockstat[b]
    BY <1>3, <2>1
  <2>3. blockstat[b] \in Bufs /\ bufblk[blockstat[b]] = b
    BY <1>1, <1>3, <2>1, <2>2 DEF TableOK, MappedBack
  <2> QED
    BY <2>1, <2>2, <2>3
<1> QED
  BY <1>2, <1>3 DEF MappedBack

\* Buffer contents of every kind.
LEMMA ContentsType ==
  /\ Indefinite \in Contents /\ Awaited \in Contents
  /\ \A b \in Blocks : <<b, 0>> \in Contents /\ <<b, 1>> \in Contents
BY DEF Contents

\* Saving a buffer keeps the drives' blocks contents.
LEMMA SavedType ==
  ASSUME TableOK, NEW n \in Bufs
  PROVE  Saved(n) \in [Local -> Contents]
BY DEF Saved, TableOK, DataOK

-----------------------------------------------------------------------------
(* The words BLOCK and BUFFER. *)

\* A block that is mapped.
LEMMA HitStep ==
  ASSUME IInv, NEW u \in Numbers, NEW k \in Nat, Hit(u, k), UNCHANGED session
  PROVE  IInv'
<1>1. TableOK /\ AwakeOK
  BY Halves
<1>2. AwakeOK'
  <2>1. Thrown(k) /\ UNCHANGED <<session, resumes, requests, watchdogs>>
    BY DEF Hit
  <2>2. UNCHANGED catching /\ unreadable' \in BOOLEAN
    BY <1>1, <2>1 DEF session, AwakeOK, MachineOK
  <2> QED
    BY <1>1, <2>1, <2>2, ThrownStep DEF requests, MachineOK
<1>3. TableOK'
  <2>1. blockstat[u] \in Bufs
    BY <1>1, NumberSets DEF Hit, TableOK, DataOK
  <2>2. latest' \in [Local -> Contents \cup {Detached}] \cup {<<>>}
    BY <1>1 DEF Hit, FailingIf, TableOK, DataOK
  <2>3. DataOK'
    BY <1>1, <2>1, <2>2 DEF Hit, TableOK, DataOK
  <2>4. MappedBack'
    BY <1>1 DEF Hit, TableOK, MappedBack
  <2> QED
    BY <2>3, <2>4 DEF TableOK
<1> QED
  BY <1>2, <1>3 DEF IInv, TypeOK, TableOK, AwakeOK, DataOK, MachineOK

\* A block that is not: what happens to the machine, with throws before and in
\* the request.
LEMMA AskingStep ==
  ASSUME AwakeOK, NEW t \in Numbers, NEW n \in Bufs, NEW throws \in Nat,
         NEW asking \in BOOLEAN, throwerror(throws), UNCHANGED <<session, resumes>>,
         asking => t >= LocalCapacity /\ requesting_load = 0,
         IF asking
         THEN /\ requesting_load' = requesting_load + 1
              /\ bufferforrequest' = Append(bufferforrequest, n)
              /\ frame' = t
              /\ watchdogs' = watchdogs + 1
              /\ watchdogs < MaxTimers
              /\ suspended' = "block"
         ELSE /\ suspended' = IF Uncaught(throws) THEN "warm" ELSE "no"
              /\ UNCHANGED <<requests, watchdogs>>
  PROVE  AwakeOK'
<1>1. /\ frames' \in 0 .. MaxFrames /\ warms' \in 0 .. MaxTimers
      /\ Uncaught(throws) => warms' > 0
      /\ frames = 0 => frames' = 0
  BY ThrowerrorFacts
<1>2. NoFrames'
  BY <1>1 DEF AwakeOK, NoFrames, session
<1>3. CASE asking
  <2>1. frame' \in 0 .. Capacity
    BY <1>3, CapacityAssumption DEF Numbers
  <2>2. bufferforrequest' \in Seq(Bufs)
    BY <1>3 DEF AwakeOK, MachineOK
  <2>3. watchdogs' \in 1 .. MaxTimers /\ requesting_load' \in 0 .. 1
    BY <1>3, BoundsAssumption DEF AwakeOK, MachineOK
  <2>4. MachineOK'
    BY <1>1, <1>3, <2>1, <2>2, <2>3 DEF AwakeOK, MachineOK, session
  <2>5. SomethingWakes'
    BY <1>3, <2>3 DEF SomethingWakes, session
  <2> QED
    BY <1>2, <2>4, <2>5 DEF AwakeOK
<1>4. CASE ~asking
  <2>1. MachineOK'
    BY <1>1, <1>4 DEF AwakeOK, MachineOK, requests, session
  <2>2. SomethingWakes'
    BY <1>1, <1>4 DEF SomethingWakes, session
  <2> QED
    BY <1>2, <2>1, <2>2 DEF AwakeOK
<1> QED
  BY <1>3, <1>4

\* The whole of it.
LEMMA MissStep ==
  ASSUME IInv, NEW u \in Numbers, NEW k \in Nat, NEW reading \in BOOLEAN,
         Miss(u, k, reading), UNCHANGED session
  PROVE  IInv'
<1> DEFINE n == (nextbuf + 1) % MaxBufs
           old == bufblk[n]
           saving == old >= 0 /\ bufdirty[n]
           refused == saving /\ old >= LocalCapacity
           k2 == k + One(refused)
           remote(t) == reading /\ t >= LocalCapacity
           asking(t) == remote(t) /\ requesting_load = 0
           throws(t) == k2 + One(remote(t) /\ ~asking(t))
           filled(t) == CASE remote(t) -> Awaited
                          [] reading /\ ~remote(t) -> Loaded(t, Saved(n))
                          [] OTHER -> Indefinite
<1>1. TableOK /\ AwakeOK
  BY Halves
<1>2. n \in Bufs
  BY <1>1, BufsAssumption DEF Bufs, TableOK, DataOK
<1>3. k2 \in Nat
  BY DEF One
<1>4. PICK t \in (IF refused THEN TosAfter(-71, k2) ELSE {u}) :
        /\ drive' = Saved(n)
        /\ bufdirty' = [bufdirty EXCEPT ![n] = @ /\ ~saving]
        /\ mem' = [mem EXCEPT ![n] = filled(t)]
        /\ nextbuf' = n /\ hotbuffer' = n
        /\ bufblk' = [bufblk EXCEPT ![n] = t]
        /\ blockstat' = Remapped(t, n)
        /\ throwerror(throws(t))
        /\ IF asking(t)
           THEN /\ requesting_load' = requesting_load + 1
                /\ bufferforrequest' = Append(bufferforrequest, n)
                /\ frame' = t
                /\ watchdogs' = watchdogs + 1
                /\ watchdogs < MaxTimers
                /\ suspended' = "block"
           ELSE /\ suspended' = IF Uncaught(throws(t)) THEN "warm" ELSE "no"
                /\ UNCHANGED <<requests, watchdogs>>
        /\ FailingIf(throws(t) > 0)
        /\ UNCHANGED resumes
  BY DEF Miss
<1>5. t \in Numbers
  BY <1>3, <1>4, TosAfterType
<1>6. Saved(n) \in [Local -> Contents]
  BY <1>1, <1>2, SavedType
<1>7. AwakeOK'
  <2>1. throws(t) \in Nat /\ asking(t) \in BOOLEAN
    BY <1>3 DEF One
  <2>2. asking(t) => t >= LocalCapacity /\ requesting_load = 0
    OBVIOUS
  <2> HIDE DEF throws, asking, n
  <2> QED
    BY <1>1, <1>2, <1>4, <1>5, <2>1, <2>2, AskingStep
<1>8. filled(t) \in Contents
  BY <1>6, ContentsType DEF Loaded
<1>9. latest' \in [Local -> Contents \cup {Detached}] \cup {<<>>}
  BY <1>1, <1>4 DEF FailingIf, TableOK, DataOK
<1>10. /\ bufblk' \in [Bufs -> Numbers \cup {-1}]
       /\ blockstat' \in [Numbers -> Bufs \cup {-1}]
       /\ MappedBack'
  BY <1>1, <1>2, <1>4, <1>5, RemappedStep
<1>11. mem' \in [Bufs -> Contents] /\ bufdirty' \in [Bufs -> BOOLEAN]
  <2> HIDE DEF filled, n
  <2>1. mem' \in [Bufs -> Contents]
    BY <1>1, <1>4, <1>8 DEF TableOK, DataOK
  <2>2. bufdirty' \in [Bufs -> BOOLEAN]
    BY <1>1, <1>4 DEF TableOK, DataOK
  <2> QED
    BY <2>1, <2>2
<1>12. TableOK'
  BY <1>2, <1>4, <1>6, <1>9, <1>10, <1>11 DEF TableOK, DataOK
<1> QED
  BY <1>7, <1>12 DEF IInv, TypeOK, TableOK, AwakeOK, DataOK, MachineOK

\* BLOCK or BUFFER, of a number in range or not.
LEMMA BlockOrBufferStep ==
  ASSUME IInv, NEW u \in Asked, NEW reading \in BOOLEAN,
         forthblockorbuffer(u, reading), UNCHANGED session
  PROVE  IInv'
<1>1. u \in Numbers
  BY CapacityAssumption DEF Asked, Blocks, Numbers
<1>2. CASE u \in Blocks
  BY <1>1, <1>2, HitStep, MissStep DEF forthblockorbuffer
<1>3. CASE u \notin Blocks
  <2>1. PICK t \in TosAfter(-35, 1) : Hit(t, 1) \/ Miss(t, 1, reading)
    BY <1>3 DEF forthblockorbuffer
  <2>2. t \in Numbers
    BY <2>1, TosAfterType
  <2> QED
    BY <2>1, <2>2, HitStep, MissStep
<1> QED
  BY <1>2, <1>3

-----------------------------------------------------------------------------
(* The other words about buffers. *)

\* A word that leaves the machine running, and the table of blocks as it is.
LEMMA TableStep ==
  ASSUME IInv, UNCHANGED <<machine, session, requests>>, DataOK', MappedBack'
  PROVE  IInv'
<1>1. AwakeOK'
  BY DEF IInv, TypeOK, AwakeOK, MachineOK, NoFrames, SomethingWakes, machine, requests,
         session
<1> QED
  BY <1>1 DEF IInv, TypeOK, AwakeOK, DataOK, MachineOK

\* A step of the machine alone.
LEMMA MachineStep ==
  ASSUME IInv, UNCHANGED <<drive, buffers>>, AwakeOK',
         latest' \in [Local -> Contents \cup {Detached}] \cup {<<>>}
  PROVE  IInv'
<1>1. DataOK'
  BY DEF IInv, TypeOK, DataOK, buffers
<1>2. MappedBack'
  BY DEF IInv, MappedBack, buffers
<1> QED
  BY <1>1, <1>2 DEF IInv, TypeOK, AwakeOK, DataOK, MachineOK

\* A store marks the buffer dirty and changes its contents.
LEMMA StoreStep ==
  ASSUME IInv, StoreAndUpdate
  PROVE  IInv'
<1> DEFINE b == bufblk[hotbuffer]
<1>1. DataOK /\ MappedBack
  BY DEF IInv, TypeOK, DataOK
<1>2. hotbuffer \in Bufs
  BY <1>1 DEF StoreAndUpdate, DataOK
<1>3. mem' \in [Bufs -> Contents]
  BY <1>1, ContentsType DEF StoreAndUpdate, DataOK
<1>4. latest' \in [Local -> Contents \cup {Detached}] \cup {<<>>}
  <2>1. CASE sound /\ b \in Local
    <3> DEFINE new == IF IsMapped(hotbuffer) /\ b \notin detached THEN <<b, 1>> ELSE Detached
    <3>1. latest \in [Local -> Contents \cup {Detached}] /\ <<b, 1>> \in Contents
      BY <1>1, <2>1, ContentsType, NumberSets DEF sound, DataOK
    <3>2. latest' = [latest EXCEPT ![b] = new]
      BY <2>1 DEF StoreAndUpdate
    <3>3. new \in Contents \cup {Detached}
      BY <3>1
    <3> HIDE DEF new, b
    <3> QED
      BY <3>1, <3>2, <3>3
  <2>2. CASE ~(sound /\ b \in Local)
    BY <2>2 DEF StoreAndUpdate
  <2> QED
    BY <2>1, <2>2
<1>5. DataOK'
  BY <1>1, <1>3, <1>4 DEF StoreAndUpdate, DataOK
<1>6. MappedBack'
  BY <1>1 DEF StoreAndUpdate, MappedBack
<1> QED
  BY <1>5, <1>6, TableStep DEF StoreAndUpdate

\* SAVE-BUFFERS: what goes to a drive is the last dirty buffer of the block.
LEMMA SaveBuffersStep ==
  ASSUME IInv, forthsavebuffers
  PROVE  IInv'
<1> DEFINE Dirty(b) == {i \in Bufs : bufdirty[i] /\ bufblk[i] = b}
           refused == Cardinality({i \in Bufs : bufdirty[i] /\ bufblk[i] >= LocalCapacity})
<1>1. TableOK /\ AwakeOK
  BY Halves
<1>2. AwakeOK'
  <2>1. refused \in Nat
    BY CountOfBuffers
  <2>2. Thrown(refused) /\ UNCHANGED <<session, resumes, requests, watchdogs>>
    BY DEF forthsavebuffers
  <2>3. UNCHANGED catching /\ unreadable' \in BOOLEAN
    BY <1>1, <2>2 DEF session, AwakeOK, MachineOK
  <2> HIDE DEF refused
  <2> QED
    BY <1>1, <2>1, <2>2, <2>3, ThrownStep DEF requests, MachineOK
<1>3. ASSUME NEW b \in Local
      PROVE  (IF Dirty(b) = {} THEN drive[b]
              ELSE mem[CHOOSE i \in Dirty(b) : \A j \in Dirty(b) : j <= i]) \in Contents
  <2>1. CASE Dirty(b) = {}
    BY <1>1, <2>1 DEF TableOK, DataOK
  <2>2. CASE Dirty(b) # {}
    <3>1. MaxBufs - 1 \in Nat /\ Dirty(b) \subseteq 0 .. MaxBufs - 1
      BY BufsAssumption DEF Bufs
    <3>2. \E i \in Dirty(b) : \A j \in Dirty(b) : j <= i
      BY <2>2, <3>1, LastExists
    <3>3. (CHOOSE i \in Dirty(b) : \A j \in Dirty(b) : j <= i) \in Bufs
      BY <3>2
    <3> HIDE DEF Dirty
    <3> QED
      BY <1>1, <2>2, <3>3 DEF TableOK, DataOK
  <2> QED
    BY <2>1, <2>2
<1>4. drive' \in [Local -> Contents]
  BY <1>3 DEF forthsavebuffers
<1>5. blockstat' \in [Numbers -> Bufs \cup {-1}] /\ MappedBack'
  BY <1>1, UnmappedStep DEF forthsavebuffers
<1>6. latest' \in [Local -> Contents \cup {Detached}] \cup {<<>>}
  BY <1>1 DEF forthsavebuffers, FailingIf, TableOK, DataOK
<1>7. DataOK'
  BY <1>1, <1>4, <1>5, <1>6 DEF forthsavebuffers, TableOK, DataOK
<1> QED
  BY <1>2, <1>5, <1>7 DEF IInv, TypeOK, AwakeOK, DataOK, MachineOK

\* EMPTY-BUFFERS.
LEMMA EmptyBuffersStep ==
  ASSUME IInv, forthemptybuffers
  PROVE  IInv'
<1> DEFINE held == {i \in Bufs : bufblk[i] >= 0}
<1>1. TableOK
  BY Halves
<1>2. blockstat' \in [Numbers -> Bufs \cup {-1}] /\ MappedBack'
  BY <1>1, UnmappedStep DEF forthemptybuffers
<1>3. bufblk' \in [Bufs -> Numbers \cup {-1}] /\ bufdirty' \in [Bufs -> BOOLEAN]
  BY <1>1 DEF forthemptybuffers, TableOK, DataOK
<1>4. latest' \in [Local -> Contents \cup {Detached}] \cup {<<>>}
  BY <1>1 DEF forthemptybuffers, TableOK, DataOK
<1>5. DataOK'
  BY <1>1, <1>2, <1>3, <1>4 DEF forthemptybuffers, TableOK, DataOK
<1> QED
  BY <1>2, <1>5, TableStep DEF forthemptybuffers

\* COLD.
LEMMA ColdStep ==
  ASSUME IInv, forthcoldinit
  PROVE  IInv'
<1>1. TableOK /\ AwakeOK
  BY Halves
<1>2. DataOK'
  <2>1. /\ mem' \in [Bufs -> Contents] /\ bufblk' \in [Bufs -> Numbers \cup {-1}]
        /\ bufdirty' \in [Bufs -> BOOLEAN]
    BY ContentsType DEF forthcoldinit
  <2>2. blockstat' \in [Numbers -> Bufs \cup {-1}]
    BY <1>1 DEF forthcoldinit, TableOK, DataOK
  <2>3. latest' \in [Local -> Contents \cup {Detached}] \cup {<<>>}
    BY <1>1 DEF forthcoldinit, TableOK, DataOK
  <2> QED
    BY <1>1, <2>1, <2>2, <2>3 DEF forthcoldinit, TableOK, DataOK
<1>3. MappedBack'
  BY NumberSets DEF forthcoldinit, MappedBack
<1>4. AwakeOK'
  BY <1>1, BoundsAssumption
  DEF forthcoldinit, AwakeOK, MachineOK, NoFrames, SomethingWakes, requests, session
<1> QED
  BY <1>2, <1>3, <1>4 DEF IInv, TypeOK, AwakeOK, DataOK, MachineOK

-----------------------------------------------------------------------------
(* Other words, and events. *)

\* KEY, MS and CATCH, and a step out of a CATCH.
LEMMA WordStep ==
  ASSUME IInv, forthkey \/ forthms \/ forthcatch \/ forththrow0
  PROVE  IInv'
<1>1. DataOK /\ AwakeOK
  BY DEF IInv, TypeOK, AwakeOK, DataOK, MachineOK
<1>2. UNCHANGED <<drive, buffers, latest>>
  BY DEF forthkey, forthms, forthcatch, forththrow0
<1>3. AwakeOK'
  <2>1. CASE forthkey
    BY <1>1, <2>1 DEF forthkey, AwakeOK, MachineOK, NoFrames, SomethingWakes, requests, session
  <2>2. CASE forthms
    BY <1>1, <2>2 DEF forthms, AwakeOK, MachineOK, NoFrames, SomethingWakes, requests, session
  <2>3. CASE forthcatch
    BY <1>1, <2>3, BoundsAssumption
    DEF forthcatch, AwakeOK, MachineOK, NoFrames, SomethingWakes, requests, session
  <2>4. CASE forththrow0
    BY <1>1, <2>4, BoundsAssumption
    DEF forththrow0, AwakeOK, MachineOK, NoFrames, SomethingWakes, requests, session
  <2> QED
    BY <2>1, <2>2, <2>3, <2>4
<1> QED
  BY <1>1, <1>2, <1>3, MachineStep DEF DataOK

\* THROW by a program.
LEMMA ThrowStep ==
  ASSUME IInv, forththrow
  PROVE  IInv'
<1>1. DataOK /\ AwakeOK
  BY DEF IInv, TypeOK, AwakeOK, DataOK, MachineOK
<1>2. AwakeOK'
  <2>1. Thrown(1) /\ UNCHANGED <<session, resumes, requests, watchdogs>>
    BY DEF forththrow
  <2>2. UNCHANGED catching /\ unreadable' \in BOOLEAN
    BY <1>1, <2>1 DEF session, AwakeOK, MachineOK
  <2> QED
    BY <1>1, <2>1, <2>2, ThrownStep DEF requests, MachineOK
<1> QED
  BY <1>1, <1>2, MachineStep DEF forththrow, DataOK

\* A key, the timer of MS and the timer of a warm start.
LEMMA RestartStep ==
  ASSUME IInv, KeyEvent \/ Resume \/ forthwarminit
  PROVE  IInv'
<1>1. DataOK /\ AwakeOK
  BY DEF IInv, TypeOK, AwakeOK, DataOK, MachineOK
<1>2. UNCHANGED <<drive, buffers, latest>> /\ suspended' = "no"
  BY DEF KeyEvent, Resume, forthwarminit
<1>3. AwakeOK'
  <2>1. CASE KeyEvent
    BY <1>1, <2>1 DEF KeyEvent, AwakeOK, MachineOK, NoFrames, SomethingWakes, requests, session
  <2>2. CASE Resume
    BY <1>1, <2>2 DEF Resume, AwakeOK, MachineOK, NoFrames, SomethingWakes, requests, session
  <2>3. CASE forthwarminit
    BY <1>1, <2>3, BoundsAssumption
    DEF forthwarminit, AwakeOK, MachineOK, NoFrames, SomethingWakes, requests, session
  <2> QED
    BY <2>1, <2>2, <2>3
<1> QED
  BY <1>1, <1>2, <1>3, MachineStep DEF DataOK

\* The watchdog bites: without CATCH, a warm start is due.
LEMMA TimeoutStep ==
  ASSUME IInv, blockreadtimeout
  PROVE  IInv'
<1>1. AwakeOK
  BY DEF IInv, TypeOK, AwakeOK, MachineOK
<1>2. /\ frames' \in 0 .. MaxFrames /\ warms' \in 0 .. MaxTimers
      /\ Uncaught(1) => warms' > 0
      /\ frames = 0 => frames' = 0
  BY <1>1, ThrowerrorFacts DEF blockreadtimeout
<1>3. watchdogs' \in 0 .. MaxTimers
  BY <1>1, BoundsAssumption DEF blockreadtimeout, AwakeOK, MachineOK, session
<1>4. MachineOK'
  BY <1>1, <1>2, <1>3 DEF blockreadtimeout, AwakeOK, MachineOK, session
<1>5. NoFrames'
  BY <1>1, <1>2 DEF blockreadtimeout, AwakeOK, NoFrames, session
<1>6. SomethingWakes'
  <2>1. ~catching => Uncaught(1)
    BY <1>1 DEF AwakeOK, NoFrames, Uncaught
  <2> QED
    BY <1>2, <2>1 DEF blockreadtimeout, SomethingWakes, session
<1> QED
  BY <1>4, <1>5, <1>6, MachineStep DEF blockreadtimeout, Failing, AwakeOK

\* Without a machine that waits for a block, a watchdog that goes or stays is no
\* loss.
LEMMA WatchdogType ==
  ASSUME AwakeOK, WatchdogCleared
  PROVE  watchdogs' \in 0 .. MaxTimers
BY BoundsAssumption DEF WatchdogCleared, AwakeOK, MachineOK

\* An answer in the frame: wanted or not, or not to be read.
LEMMA AnswerStep ==
  ASSUME IInv,
         UnwantedAnswer \/ (\E absent \in BOOLEAN : LoadingCompleteEvent(absent)) \/ ErrorEvent
  PROVE  IInv'
<1>1. DataOK /\ AwakeOK /\ MappedBack
  BY DEF IInv, TypeOK, AwakeOK, DataOK, MachineOK
<1>2. CASE UnwantedAnswer
  <2>1. AwakeOK'
    BY <1>1, <1>2
    DEF UnwantedAnswer, AwakeOK, MachineOK, NoFrames, SomethingWakes, machine, session
  <2> QED
    BY <1>1, <1>2, <2>1, MachineStep DEF UnwantedAnswer, DataOK
<1>3. ASSUME NEW absent \in BOOLEAN, LoadingCompleteEvent(absent)
      PROVE  IInv'
  <2>1. watchdogs' \in 0 .. MaxTimers
    BY <1>1, <1>3, WatchdogType DEF LoadingCompleteEvent
  <2>2. bufferforrequest' \in Seq(Bufs)
    BY <1>1, <1>3 DEF LoadingCompleteEvent, AwakeOK, MachineOK, session
  <2>3. requesting_load' \in 0 .. 1
    BY <1>1, <1>3 DEF LoadingCompleteEvent, StillRequested, AwakeOK, MachineOK
  <2>4. MachineOK'
    BY <1>1, <1>3, <2>1, <2>2, <2>3 DEF LoadingCompleteEvent, AwakeOK, MachineOK, session
  <2>5. NoFrames' /\ SomethingWakes'
    BY <1>1, <1>3 DEF LoadingCompleteEvent, AwakeOK, NoFrames, SomethingWakes, session
  <2>6. mem' \in [Bufs -> Contents]
    <3>1. CASE absent \/ bufferforrequest = <<>>
      BY <1>1, <1>3, <3>1 DEF LoadingCompleteEvent, DataOK
    <3>2. CASE ~absent /\ bufferforrequest # <<>>
      <4>1. <<frame, 0>> \in Contents
        BY <1>3, <3>2, ContentsType DEF LoadingCompleteEvent
      <4>2. Head(bufferforrequest) \in Bufs
        BY <1>1, <3>2 DEF AwakeOK, MachineOK
      <4> QED
        BY <1>1, <1>3, <3>2, <4>1, <4>2 DEF LoadingCompleteEvent, DataOK
    <3> QED
      BY <3>1, <3>2
  <2>7. DataOK' /\ MappedBack'
    BY <1>1, <1>3, <2>6 DEF LoadingCompleteEvent, FailingIf, DataOK, MappedBack
  <2> QED
    BY <2>4, <2>5, <2>7 DEF IInv, TypeOK, DataOK, MachineOK
<1>4. CASE ErrorEvent
  <2>1. watchdogs' \in 0 .. MaxTimers /\ bufferforrequest' \in Seq(Bufs)
    BY <1>1, <1>4, WatchdogType DEF ErrorEvent, AwakeOK, MachineOK
  <2>2. AwakeOK'
    <3>1. Thrown(1) /\ UNCHANGED <<catching, resumes, requesting_load>> /\ frame' = -1
          /\ unreadable' \in BOOLEAN
      BY <1>4 DEF ErrorEvent
    <3> QED
      BY <1>1, <2>1, <3>1, ThrownStep DEF MachineOK
  <2> QED
    BY <1>4, <2>2, MachineStep DEF ErrorEvent, Failing
<1> QED
  BY <1>2, <1>3, <1>4

-----------------------------------------------------------------------------
(* The theorems. *)

LEMMA InitIInv == Init => IInv
<1> SUFFICES ASSUME Init PROVE IInv
  OBVIOUS
<1>1. DataOK
  <2>1. \A b \in Local : <<b, 0>> \in Contents
    BY ContentsType, NumberSets
  <2>2. 0 \in Bufs
    BY BufsAssumption DEF Bufs
  <2> QED
    BY <2>1, <2>2, ContentsType DEF Init, DataOK
<1>2. AwakeOK
  <2>1. {resumes, catching, unreadable} \subseteq BOOLEAN
    BY DEF Init
  <2>2. bufferforrequest \in Seq(Bufs)
    BY DEF Init
  <2>3. MachineOK
    BY <2>1, <2>2, BoundsAssumption DEF Init, MachineOK
  <2>4. NoFrames /\ SomethingWakes
    BY DEF Init, NoFrames, SomethingWakes
  <2> QED
    BY <2>3, <2>4 DEF AwakeOK
<1>3. MappedBack
  BY NumberSets DEF Init, MappedBack
<1> QED
  BY <1>1, <1>2, <1>3 DEF IInv, TypeOK, AwakeOK, DataOK, MachineOK

LEMMA NextIInv == IInv /\ [Next]_vars => IInv'
<1> SUFFICES ASSUME IInv, [Next]_vars PROVE IInv'
  OBVIOUS
<1>1. ASSUME NEW u \in Asked, forthblock(u) \/ forthbuffer(u)
      PROVE  IInv'
  BY <1>1, BlockOrBufferStep DEF forthblock, forthbuffer
<1>2. CASE StoreAndUpdate
  BY <1>2, StoreStep
<1>3. CASE forthsavebuffers \/ forthemptybuffers \/ forthcoldinit
  BY <1>3, SaveBuffersStep, EmptyBuffersStep, ColdStep
<1>4. CASE forthkey \/ forthms \/ forthcatch \/ forththrow0 \/ forththrow
  BY <1>4, WordStep, ThrowStep
<1>5. CASE KeyEvent \/ Resume \/ forthwarminit \/ blockreadtimeout
  BY <1>5, RestartStep, TimeoutStep
<1>6. CASE \/ UnwantedAnswer \/ LoadingCompleteEvent(FALSE)
           \/ LoadingCompleteEvent(TRUE) \/ ErrorEvent
  BY <1>6, AnswerStep
<1>7. CASE UNCHANGED vars
  BY <1>7 DEF vars, buffers, requests, machine, session, IInv, TypeOK, MappedBack, NoFrames,
              SomethingWakes
<1> QED
  BY <1>1, <1>2, <1>3, <1>4, <1>5, <1>6, <1>7 DEF Next

LEMMA IInvHolds == SafetySpec => []IInv
<1>1. Init => IInv
  BY InitIInv
<1>2. IInv /\ [Next]_vars => IInv'
  BY NextIInv
<1> QED
  BY <1>1, <1>2, PTL DEF SafetySpec

\* Types and ranges, whatever the drives' sizes, the number of buffers and what
\* goes wrong.
THEOREM StorageTypes == SafetySpec => []TypeOK
<1>1. IInv => TypeOK
  BY DEF IInv
<1> QED
  BY <1>1, IInvHolds, PTL

\* With any number of buffers the table never takes one block's buffer for
\* another's.
THEOREM StorageMapped == SafetySpec => []MappedBack
<1>1. IInv => MappedBack
  BY DEF IInv
<1> QED
  BY <1>1, IInvHolds, PTL

\* Without CATCH, a machine that waits for a block, a timer or a warm start has
\* the timer that restarts it, after any number of mishaps.
THEOREM StorageAwake == SafetySpec => []SomethingWakes
<1>1. IInv => SomethingWakes
  BY DEF IInv
<1> QED
  BY <1>1, IInvHolds, PTL

-----------------------------------------------------------------------------
(* What a program reads while nothing has gone wrong: first that requests,  *)
(* timers and the machine keep step, for any number of buffers; then, for   *)
(* the source's two buffers, or one, that no update is lost and no old text *)
(* is read.  With three both are wrong (the run js_storage_bufs), and       *)
(* StrayIsNext says where the number comes in.  A block that was UPDATEd    *)
(* in a buffer SAVE-BUFFERS had taken off the table is promised nothing     *)
(* (the run js_storage_save), and the others nothing less.                  *)

\* The timers of MS and of a warm start run for a machine that waits for them.
OwnTimers ==
  sound => /\ resumes => suspended = "pause"
           /\ warms = One(suspended = "warm")

\* Request, queue, watchdog and a machine that waits for its block come together.
Together ==
  sound => /\ watchdogs = requesting_load
           /\ (requesting_load = 1) = (suspended = "block")
           /\ requesting_load = Len(bufferforrequest)

\* A pending request has a watchdog and a queued buffer, after failures too.
Watched ==
  ~unreadable => /\ requesting_load <= watchdogs
                 /\ requesting_load <= Len(bufferforrequest)

InStep == Together /\ OwnTimers

\* The buffer the next block will take.
NextVictim == (nextbuf + 1) % MaxBufs

\* Only buffers of local blocks are updated.
DirtyIsLocal == sound => \A i \in Bufs : bufdirty[i] => bufblk[i] \in Local

\* A dirty buffer that its block is not mapped to is the next to be saved and
\* used, and until then its block is in no buffer.
StrayIsNext ==
  sound =>
    \A i \in Bufs :
      (bufdirty[i] /\ bufblk[i] \notin detached /\ blockstat[bufblk[i]] # i) =>
        blockstat[bufblk[i]] = -1 /\ i = NextVictim

\* A request is for the web block of the first buffer queued, and no other
\* buffer of a web block waits for an answer.
AnswerIsAwaited ==
  (sound /\ requesting_load = 1) =>
    /\ frame \notin Local
    /\ frame = bufblk[Head(bufferforrequest)]
    /\ \A b \in Blocks \ Local :
         (blockstat[b] >= 0 /\ mem[blockstat[b]] = Awaited) =>
           blockstat[b] = Head(bufferforrequest)

Current == DirtyIsLocal /\ StrayIsNext /\ LatestIsHeld /\ ReadsAreCurrent /\ AnswerIsAwaited

-----------------------------------------------------------------------------
(* Requests, timers and the machine, for any number of buffers. *)

\* While the machine runs, nothing is pending.
LEMMA NothingPending ==
  ASSUME IInv, InStep, sound, Running
  PROVE  /\ requesting_load = 0 /\ watchdogs = 0 /\ Len(bufferforrequest) = 0
         /\ bufferforrequest = <<>>
         /\ ~resumes /\ warms = 0
<1>1. requesting_load \in 0 .. 1 /\ bufferforrequest \in Seq(Bufs) /\ resumes \in BOOLEAN
  BY DEF IInv, TypeOK
<1> QED
  BY <1>1 DEF InStep, Together, OwnTimers, Running, One

\* A session in which something has gone wrong does not become sound again.
LEMMA SoundBefore ==
  ASSUME [Next]_vars, sound'
  PROVE  sound
<1>1. ASSUME NEW u, NEW k, NEW reading, Hit(u, k) \/ Miss(u, k, reading)
      PROVE  sound
  BY <1>1 DEF Hit, Miss, FailingIf, sound
<1>2. ASSUME NEW u \in Asked, forthblock(u) \/ forthbuffer(u)
      PROVE  sound
  BY <1>1, <1>2 DEF forthblock, forthbuffer, forthblockorbuffer
<1>3. CASE \/ StoreAndUpdate \/ forthsavebuffers \/ forthemptybuffers \/ forthcoldinit
           \/ forthkey \/ forthms \/ forthcatch \/ forththrow0 \/ forththrow
  BY <1>3 DEF StoreAndUpdate, forthsavebuffers, forthemptybuffers, forthcoldinit, forthkey,
              forthms, forthcatch, forththrow0, forththrow, FailingIf, sound
<1>4. CASE \/ KeyEvent \/ Resume \/ forthwarminit \/ blockreadtimeout \/ UnwantedAnswer
           \/ LoadingCompleteEvent(FALSE) \/ LoadingCompleteEvent(TRUE) \/ ErrorEvent
  BY <1>4 DEF KeyEvent, Resume, forthwarminit, blockreadtimeout, UnwantedAnswer,
              LoadingCompleteEvent, ErrorEvent, Failing, FailingIf, sound
<1>5. CASE UNCHANGED vars
  BY <1>5 DEF vars, sound
<1> QED
  BY <1>2, <1>3, <1>4, <1>5 DEF Next

\* A throw by a running machine: it goes on, or a warm start is due.
LEMMA ThrownInStep ==
  ASSUME IInv, InStep, sound, Running, NEW k \in 0 .. 1, Thrown(k),
         UNCHANGED <<requesting_load, bufferforrequest, watchdogs, resumes>>
  PROVE  InStep'
<1>1. /\ requesting_load = 0 /\ watchdogs = 0 /\ Len(bufferforrequest) = 0
      /\ bufferforrequest = <<>>
      /\ ~resumes /\ warms = 0
  BY NothingPending
<1>2. frames \in Nat
  BY BoundsAssumption DEF IInv, TypeOK
<1>3. suspended' = (IF Uncaught(k) THEN "warm" ELSE "no")
  BY DEF Thrown
<1>4. warms' = One(suspended' = "warm")
  BY <1>1, <1>2, <1>3 DEF Thrown, throwerror, Uncaught, One
<1>5. suspended' # "block" /\ suspended' # "pause"
  BY <1>3
<1> QED
  BY <1>1, <1>4, <1>5 DEF InStep, Together, OwnTimers

\* BLOCK and BUFFER of a block that is mapped already.
LEMMA HitInStep ==
  ASSUME IInv, InStep, sound, sound', Running, NEW u, NEW k \in 0 .. 1, Hit(u, k)
  PROVE  InStep'
BY ThrownInStep DEF Hit, requests

\* And of one that is not: nothing was thrown, and a request has its watchdog.
LEMMA MissInStep ==
  ASSUME IInv, InStep, sound, sound', Running,
         NEW u, NEW k \in 0 .. 1, NEW reading \in BOOLEAN, Miss(u, k, reading)
  PROVE  InStep'
<1> DEFINE n == (nextbuf + 1) % MaxBufs
           refused == bufblk[n] >= 0 /\ bufdirty[n] /\ bufblk[n] >= LocalCapacity
           k2 == k + One(refused)
           asking(t) == (reading /\ t >= LocalCapacity) /\ requesting_load = 0
           throws(t) == k2 + One((reading /\ t >= LocalCapacity) /\ ~asking(t))
<1>1. /\ requesting_load = 0 /\ watchdogs = 0 /\ Len(bufferforrequest) = 0
      /\ bufferforrequest = <<>>
      /\ ~resumes /\ warms = 0
  BY NothingPending
<1>2. frames \in Nat
  BY BoundsAssumption DEF IInv, TypeOK
<1>3. PICK t \in (IF refused THEN TosAfter(-71, k2) ELSE {u}) :
        /\ throwerror(throws(t))
        /\ IF asking(t)
           THEN /\ requesting_load' = requesting_load + 1
                /\ bufferforrequest' = Append(bufferforrequest, n)
                /\ watchdogs' = watchdogs + 1
                /\ suspended' = "block"
           ELSE /\ suspended' = IF Uncaught(throws(t)) THEN "warm" ELSE "no"
                /\ UNCHANGED <<requests, watchdogs>>
        /\ FailingIf(throws(t) > 0)
        /\ UNCHANGED resumes
  BY DEF Miss
<1>4. throws(t) \in Nat /\ ~(throws(t) > 0)
  BY <1>3 DEF FailingIf, sound, One
<1>5. throws(t) = 0
  BY <1>4
<1>6. warms' = 0 /\ ~Uncaught(0)
  BY <1>1, <1>2, <1>3, <1>5 DEF throwerror, Uncaught
<1> HIDE DEF asking, throws
<1>7. CASE asking(t)
  <2>1. Len(bufferforrequest') = 1 /\ requesting_load' = 1 /\ watchdogs' = 1
        /\ suspended' = "block" /\ ~resumes'
    BY <1>1, <1>3, <1>7
  <2> QED
    BY <1>6, <2>1 DEF InStep, Together, OwnTimers, One
<1>8. CASE ~asking(t)
  <2>1. /\ suspended' = "no" /\ ~resumes'
        /\ UNCHANGED <<requesting_load, bufferforrequest, watchdogs>>
    BY <1>1, <1>3, <1>5, <1>6, <1>8 DEF requests
  <2> QED
    BY <1>1, <1>6, <2>1 DEF InStep, Together, OwnTimers, One
<1> QED
  BY <1>7, <1>8

LEMMA BlockOrBufferInStep ==
  ASSUME IInv, InStep, sound, sound', Running, NEW u, NEW reading \in BOOLEAN,
         forthblockorbuffer(u, reading)
  PROVE  InStep'
BY HitInStep, MissInStep DEF forthblockorbuffer

\* The other words.
LEMMA WordInStep ==
  ASSUME IInv, InStep, sound, sound',
         \/ StoreAndUpdate \/ forthsavebuffers \/ forthemptybuffers \/ forthcoldinit
         \/ forthkey \/ forthms \/ forthcatch \/ forththrow0 \/ forththrow
  PROVE  InStep'
<1>1. Running
  BY DEF StoreAndUpdate, forthsavebuffers, forthemptybuffers, forthcoldinit, forthkey, forthms,
         forthcatch, forththrow0, forththrow
<1>2. /\ requesting_load = 0 /\ watchdogs = 0 /\ Len(bufferforrequest) = 0
      /\ bufferforrequest = <<>>
      /\ ~resumes /\ warms = 0
  BY <1>1, NothingPending
<1>3. CASE StoreAndUpdate \/ forthemptybuffers \/ forthcoldinit \/ forthcatch \/ forththrow0
  <2>1. /\ UNCHANGED <<requesting_load, bufferforrequest, suspended, watchdogs, warms, resumes>>
    BY <1>3 DEF StoreAndUpdate, forthemptybuffers, forthcoldinit, forthcatch, forththrow0,
                requests, machine
  <2> QED
    BY <2>1 DEF InStep, Together, OwnTimers
<1>4. CASE forthkey \/ forthms
  <2>1. /\ UNCHANGED <<requesting_load, bufferforrequest, watchdogs, warms>>
        /\ (suspended' = "key" /\ ~resumes') \/ suspended' = "pause"
    BY <1>2, <1>4 DEF forthkey, forthms, requests
  <2> QED
    BY <1>2, <2>1 DEF InStep, Together, OwnTimers, One
<1>5. CASE forthsavebuffers
  <2> DEFINE refused == Cardinality({i \in Bufs : bufdirty[i] /\ bufblk[i] >= LocalCapacity})
  <2>1. refused \in Nat
    BY CountOfBuffers
  <2>2. Thrown(refused) /\ FailingIf(refused > 0) /\ UNCHANGED <<requests, watchdogs, resumes>>
    BY <1>5 DEF forthsavebuffers
  <2>3. refused = 0
    BY <2>1, <2>2 DEF FailingIf, sound
  <2> HIDE DEF refused
  <2> QED
    BY <1>1, <2>2, <2>3, ThrownInStep DEF requests
<1>6. CASE forththrow
  <2>1. Thrown(1) /\ UNCHANGED <<requests, watchdogs, resumes>>
    BY <1>6 DEF forththrow
  <2> QED
    BY <1>1, <2>1, ThrownInStep DEF requests
<1> QED
  BY <1>3, <1>4, <1>5, <1>6

\* Events: a timer that does not belong to the machine's state never fires, and an
\* answer finds the request, its watchdog and its buffer.
LEMMA EventInStep ==
  ASSUME IInv, InStep, sound, sound',
         \/ KeyEvent \/ Resume \/ forthwarminit \/ blockreadtimeout \/ UnwantedAnswer
         \/ LoadingCompleteEvent(FALSE) \/ LoadingCompleteEvent(TRUE) \/ ErrorEvent
  PROVE  InStep'
<1>1. /\ requesting_load \in 0 .. 1 /\ bufferforrequest \in Seq(Bufs)
      /\ watchdogs = requesting_load
      /\ (requesting_load = 1) = (suspended = "block")
      /\ requesting_load = Len(bufferforrequest)
      /\ resumes => suspended = "pause"
      /\ warms = One(suspended = "warm")
  BY DEF InStep, Together, OwnTimers, IInv, TypeOK
<1>2. ~(blockreadtimeout \/ LoadingCompleteEvent(TRUE) \/ ErrorEvent)
  BY DEF blockreadtimeout, LoadingCompleteEvent, ErrorEvent, Failing, FailingIf, sound
<1>3. CASE KeyEvent
  BY <1>1, <1>3 DEF KeyEvent, requests, InStep, Together, OwnTimers, One
<1>4. CASE Resume
  BY <1>1, <1>4 DEF Resume, requests, InStep, Together, OwnTimers, One
<1>5. CASE forthwarminit
  <2>1. suspended = "warm" /\ warms = 1
    BY <1>1, <1>5 DEF forthwarminit, One
  <2>2. /\ warms' = 0 /\ suspended' = "no"
        /\ UNCHANGED <<requesting_load, bufferforrequest, watchdogs, resumes>>
    BY <1>5, <2>1 DEF forthwarminit, requests
  <2> QED
    BY <1>1, <2>1, <2>2 DEF InStep, Together, OwnTimers, One
<1>6. CASE UnwantedAnswer
  BY <1>1, <1>6 DEF UnwantedAnswer, machine, InStep, Together, OwnTimers
<1>7. CASE LoadingCompleteEvent(FALSE)
  <2>1. requesting_load = 1 /\ watchdogs = 1 /\ suspended = "block"
    BY <1>1, <1>7 DEF LoadingCompleteEvent, StillRequested
  <2>2. Len(bufferforrequest') = 0
    BY <1>1, <1>7, <2>1 DEF LoadingCompleteEvent
  <2>3. /\ requesting_load' = 0 /\ watchdogs' = 0 /\ suspended' = "no"
        /\ UNCHANGED <<resumes, warms>>
    BY <1>7, <2>1 DEF LoadingCompleteEvent, WatchdogCleared
  <2> QED
    BY <1>1, <2>1, <2>2, <2>3 DEF InStep, Together, OwnTimers, One
<1> QED
  BY <1>2, <1>3, <1>4, <1>5, <1>6, <1>7

LEMMA NextInStep == IInv /\ InStep /\ [Next]_vars => InStep'
<1> SUFFICES ASSUME IInv, InStep, [Next]_vars, sound' PROVE InStep'
  BY DEF InStep, Together, OwnTimers
<1>1. sound
  BY SoundBefore
<1>2. ASSUME NEW u \in Asked, forthblock(u) \/ forthbuffer(u)
      PROVE  InStep'
  BY <1>1, <1>2, BlockOrBufferInStep DEF forthblock, forthbuffer
<1>3. CASE \/ StoreAndUpdate \/ forthsavebuffers \/ forthemptybuffers \/ forthcoldinit
           \/ forthkey \/ forthms \/ forthcatch \/ forththrow0 \/ forththrow
  BY <1>1, <1>3, WordInStep
<1>4. CASE \/ KeyEvent \/ Resume \/ forthwarminit \/ blockreadtimeout \/ UnwantedAnswer
           \/ LoadingCompleteEvent(FALSE) \/ LoadingCompleteEvent(TRUE) \/ ErrorEvent
  BY <1>1, <1>4, EventInStep
<1>5. CASE UNCHANGED vars
  BY <1>1, <1>5 DEF vars, requests, machine, InStep, Together, OwnTimers
<1> QED
  BY <1>2, <1>3, <1>4, <1>5 DEF Next

LEMMA InStepHolds == SafetySpec => []InStep
<1>1. Init => InStep
  BY DEF Init, InStep, Together, OwnTimers, One
<1> QED
  BY <1>1, NextInStep, IInvHolds, PTL DEF SafetySpec

\* A request that is asked for gets its watchdog and its place in the queue.
LEMMA MissWatched ==
  ASSUME IInv, Watched, NEW u, NEW k, NEW reading, Miss(u, k, reading), UNCHANGED session
  PROVE  Watched'
<1>1. /\ requesting_load \in 0 .. 1 /\ watchdogs \in Nat
      /\ bufferforrequest \in Seq(Bufs)
  BY BoundsAssumption DEF IInv, TypeOK
<1>2. \/ /\ requesting_load = 0 /\ requesting_load' = requesting_load + 1
         /\ watchdogs' = watchdogs + 1
         /\ bufferforrequest' = Append(bufferforrequest, (nextbuf + 1) % MaxBufs)
      \/ UNCHANGED <<requests, watchdogs>>
  BY DEF Miss
<1>3. CASE UNCHANGED <<requests, watchdogs>>
  BY <1>3 DEF Watched, requests, session
<1>4. CASE ~UNCHANGED <<requests, watchdogs>>
  <2>1. Len(bufferforrequest') = Len(bufferforrequest) + 1 /\ Len(bufferforrequest) \in Nat
    BY <1>1, <1>2, <1>4
  <2> QED
    BY <1>1, <1>2, <1>4, <2>1 DEF Watched
<1> QED
  BY <1>3, <1>4

\* Timeouts, answers and everything else leave no pending request unwatched.
LEMMA NextWatched == IInv /\ Watched /\ [Next]_vars => Watched'
<1> SUFFICES ASSUME IInv, Watched, [Next]_vars PROVE Watched'
  OBVIOUS
<1>1. /\ requesting_load \in 0 .. 1 /\ watchdogs \in Nat
      /\ bufferforrequest \in Seq(Bufs)
  BY BoundsAssumption DEF IInv, TypeOK
<1>2. ASSUME NEW u, NEW k, Hit(u, k), UNCHANGED session
      PROVE  Watched'
  BY <1>2 DEF Hit, Watched, requests, session
<1>3. ASSUME NEW u \in Asked, forthblock(u) \/ forthbuffer(u)
      PROVE  Watched'
  BY <1>2, <1>3, MissWatched DEF forthblock, forthbuffer, forthblockorbuffer
<1>4. CASE \/ StoreAndUpdate \/ forthsavebuffers \/ forthemptybuffers \/ forthcoldinit
           \/ forthkey \/ forthms \/ forthcatch \/ forththrow0 \/ forththrow
           \/ KeyEvent \/ Resume \/ forthwarminit \/ UnwantedAnswer \/ UNCHANGED vars
  <2>1. UNCHANGED <<requesting_load, bufferforrequest, watchdogs, unreadable>>
    BY <1>4 DEF StoreAndUpdate, forthsavebuffers, forthemptybuffers, forthcoldinit, forthkey,
                forthms, forthcatch, forththrow0, forththrow, KeyEvent, Resume, forthwarminit,
                UnwantedAnswer, vars, requests, machine, session
  <2> QED
    BY <2>1 DEF Watched
<1>5. CASE blockreadtimeout
  <2>1. requesting_load' = 0 /\ watchdogs' = watchdogs - 1 /\ watchdogs > 0
        /\ UNCHANGED bufferforrequest
    BY <1>5 DEF blockreadtimeout
  <2> QED
    BY <1>1, <2>1 DEF Watched
<1>6. ASSUME NEW absent \in BOOLEAN, LoadingCompleteEvent(absent)
      PROVE  Watched'
  <2>1. requesting_load = 1 /\ requesting_load' = 0
    BY <1>1, <1>6 DEF LoadingCompleteEvent, StillRequested
  <2>2. watchdogs' \in Nat
    BY <1>1, <1>6 DEF LoadingCompleteEvent, WatchdogCleared
  <2>3. bufferforrequest' \in Seq(Bufs)
    BY <1>1, <1>6 DEF LoadingCompleteEvent
  <2> QED
    BY <2>1, <2>2, <2>3 DEF Watched
<1>7. CASE ErrorEvent
  BY <1>7 DEF ErrorEvent, Watched
<1> QED
  BY <1>3, <1>4, <1>5, <1>6, <1>7 DEF Next

\* While nothing has gone wrong, request, queue, watchdog and the suspended machine
\* come together, for any number of buffers; and after any timeouts, late answers
\* and other failures a request that is pending has a watchdog that will end it
\* and a buffer queued for its answer, until an answer cannot be read.
THEOREM RequestsInStep == SafetySpec => []WatchdogPerRequest
<1>1. Init => Watched
  BY DEF Init, Watched
<1>2. Together /\ Watched => WatchdogPerRequest
  BY DEF Together, Watched, WatchdogPerRequest
<1>3. InStep => Together
  BY DEF InStep
<1>4. IInv /\ Watched /\ [Next]_vars => Watched'
  BY NextWatched
<1> QED
  BY <1>1, <1>2, <1>3, <1>4, IInvHolds, InStepHolds, PTL DEF SafetySpec

-----------------------------------------------------------------------------
(* Contents, with one buffer or two. *)

\* The buffer after the next victim is the other one, if there is another.
LEMMA OtherIsNext ==
  ASSUME MaxBufs <= 2, NEW n \in Bufs, NEW m \in Bufs, m # n
  PROVE  (n + 1) % MaxBufs = m
<1>1. MaxBufs = 2 /\ n \in {0, 1} /\ m \in {0, 1}
  BY BufsAssumption DEF Bufs
<1> QED
  BY <1>1

\* What a buffer that awaits an answer is told from.
LEMMA AwaitedIsNoText ==
  /\ Indefinite # Awaited
  /\ \A b \in Blocks : <<b, 0>> # Awaited
BY DEF Indefinite, Awaited

\* Which blocks are detached follows from the history alone.
LEMMA SameDetached ==
  ASSUME UNCHANGED latest
  PROVE  detached' = detached /\ sound' = sound
BY DEF detached, sound

\* The sentence of LatestIsHeld, without sets.
HeldFor(b) ==
  /\ \A i \in Bufs : (bufblk[i] = b /\ bufdirty[i]) => mem[i] = latest[b]
  /\ (\A i \in Bufs : ~(bufblk[i] = b /\ bufdirty[i])) => drive[b] = latest[b]

LEMMA HeldSentence ==
  ASSUME NEW b \in Local
  PROVE  (IF DirtyOf(b) = {} THEN drive[b] = latest[b]
          ELSE \A i \in DirtyOf(b) : mem[i] = latest[b])
         <=> HeldFor(b)
<1>1. DirtyOf(b) = {} <=> \A i \in Bufs : ~(bufblk[i] = b /\ bufdirty[i])
  BY DEF DirtyOf
<1>2. \A i : i \in DirtyOf(b) <=> (i \in Bufs /\ bufblk[i] = b /\ bufdirty[i])
  BY DEF DirtyOf
<1> QED
  BY <1>1, <1>2 DEF HeldFor

LEMMA LatestSentence == LatestIsHeld <=> (sound => \A b \in Local \ detached : HeldFor(b))
BY HeldSentence DEF LatestIsHeld

\* The same of the next state.
LEMMA LatestSentencePrimed ==
  LatestIsHeld' <=> (sound' => \A b \in Local \ detached' : HeldFor(b)')
<1>1. ASSUME NEW b \in Local
      PROVE  (IF DirtyOf(b)' = {} THEN drive'[b] = latest'[b]
              ELSE \A i \in DirtyOf(b)' : mem'[i] = latest'[b])
             <=> HeldFor(b)'
  <2>1. DirtyOf(b)' = {} <=> \A i \in Bufs : ~(bufblk'[i] = b /\ bufdirty'[i])
    BY DEF DirtyOf
  <2>2. \A i : i \in DirtyOf(b)' <=> (i \in Bufs /\ bufblk'[i] = b /\ bufdirty'[i])
    BY DEF DirtyOf
  <2> QED
    BY <2>1, <2>2 DEF HeldFor
<1> QED
  BY <1>1 DEF LatestIsHeld

\* A step that leaves drives and buffers alone.
LEMMA SameCurrent ==
  ASSUME Current, UNCHANGED <<drive, buffers, latest, requesting_load, bufferforrequest>>,
         UNCHANGED frame \/ requesting_load = 0
  PROVE  Current'
<1>0. detached' = detached /\ sound' = sound
  BY SameDetached
<1>1. DirtyIsLocal' /\ StrayIsNext'
  BY <1>0 DEF Current, DirtyIsLocal, StrayIsNext, NextVictim, buffers
<1>2. LatestIsHeld'
  BY <1>0 DEF Current, LatestIsHeld, DirtyOf, buffers
<1>3. ReadsAreCurrent'
  BY <1>0 DEF Current, ReadsAreCurrent, buffers
<1>4. AnswerIsAwaited'
  BY <1>0 DEF Current, AnswerIsAwaited, buffers
<1> QED
  BY <1>1, <1>2, <1>3, <1>4 DEF Current

\* What BLOCK and BUFFER of an unmapped block do when nothing is thrown.
LEMMA MissSoundly ==
  ASSUME IInv, InStep, Current, sound, sound', Running, NEW u \in Blocks,
         NEW reading \in BOOLEAN, Miss(u, 0, reading)
  PROVE  LET n == NextVictim
             remote == reading /\ u \notin Local
         IN /\ n \in Bufs
            /\ blockstat[u] < 0
            /\ drive' = Saved(n)
            /\ bufdirty' = [bufdirty EXCEPT ![n] = FALSE]
            /\ mem' = [mem EXCEPT ![n] = IF remote THEN Awaited
                                         ELSE IF reading THEN Saved(n)[u] ELSE Indefinite]
            /\ nextbuf' = n /\ hotbuffer' = n
            /\ bufblk' = [bufblk EXCEPT ![n] = u]
            /\ blockstat' = Remapped(u, n)
            /\ latest' = latest
            /\ IF remote THEN requesting_load' = 1 /\ bufferforrequest' = <<n>> /\ frame' = u
               ELSE requesting_load' = 0
<1> DEFINE n == (nextbuf + 1) % MaxBufs
           saving == bufblk[n] >= 0 /\ bufdirty[n]
           refused == saving /\ bufblk[n] >= LocalCapacity
           k2 == 0 + One(refused)
           remote(t) == reading /\ t >= LocalCapacity
           asking(t) == remote(t) /\ requesting_load = 0
           throws(t) == k2 + One(remote(t) /\ ~asking(t))
<1>1. requesting_load = 0 /\ bufferforrequest = <<>>
  BY NothingPending
<1>2. n \in Bufs
  BY BufsAssumption DEF Bufs, IInv, TypeOK
<1>3. PICK t \in (IF refused THEN TosAfter(-71, k2) ELSE {u}) :
        /\ blockstat[u] < 0
        /\ drive' = Saved(n)
        /\ bufdirty' = [bufdirty EXCEPT ![n] = @ /\ ~saving]
        /\ mem' = [mem EXCEPT ![n] = CASE remote(t) -> Awaited
                                       [] reading /\ ~remote(t) -> Loaded(t, Saved(n))
                                       [] OTHER -> Indefinite]
        /\ nextbuf' = n /\ hotbuffer' = n
        /\ bufblk' = [bufblk EXCEPT ![n] = t]
        /\ blockstat' = Remapped(t, n)
        /\ IF asking(t)
           THEN /\ requesting_load' = requesting_load + 1
                /\ bufferforrequest' = Append(bufferforrequest, n)
                /\ frame' = t
           ELSE UNCHANGED requests
        /\ FailingIf(throws(t) > 0)
  BY DEF Miss
<1>4. throws(t) = 0 /\ latest' = latest
  BY <1>3 DEF FailingIf, sound, One
<1>5. ~refused /\ t = u
  BY <1>3, <1>4 DEF One
<1>6. bufdirty[n] => saving
  <2>1. bufdirty[n] => bufblk[n] \in Local
    BY <1>2 DEF Current, DirtyIsLocal
  <2> QED
    BY <2>1 DEF Local
<1>7. remote(u) <=> reading /\ u \notin Local
  BY CapacityAssumption DEF Blocks, Local
<1>8. bufdirty' = [bufdirty EXCEPT ![n] = FALSE]
  <2>1. bufdirty[n] /\ ~saving <=> FALSE
    BY <1>6
  <2>2. (bufdirty[n] /\ ~saving) = FALSE
    BY <2>1
  <2> QED
    BY <1>3, <2>2, Zenon
<1>9. mem' = [mem EXCEPT ![n] = IF remote(u) THEN Awaited
                                ELSE IF reading THEN Saved(n)[u] ELSE Indefinite]
  <2>1. ~remote(u) /\ reading => Loaded(u, Saved(n)) = Saved(n)[u]
    BY <1>7 DEF Loaded
  <2> HIDE DEF n, remote
  <2>2. CASE remote(u)
    BY <1>3, <1>5, <2>2
  <2>3. CASE ~remote(u) /\ reading
    BY <1>3, <1>5, <2>1, <2>3
  <2>4. CASE ~remote(u) /\ ~reading
    BY <1>3, <1>5, <2>4
  <2> QED
    BY <2>2, <2>3, <2>4
<1>10. IF remote(u) THEN requesting_load' = 1 /\ bufferforrequest' = <<n>> /\ frame' = u
       ELSE requesting_load' = 0
  <2> HIDE DEF n
  <2> QED
    BY <1>1, <1>3, <1>5 DEF requests
<1> HIDE DEF remote
<1> QED
  BY <1>2, <1>3, <1>4, <1>5, <1>7, <1>8, <1>9, <1>10 DEF NextVictim


\* BLOCK or BUFFER of an unmapped block.  The buffer that is not taken is the next
\* victim afterwards, so it may be the one that is left dirty and unmapped; the
\* one that was is saved now, before its block can be read again.
LEMMA MissCurrent ==
  ASSUME MaxBufs <= 2, IInv, InStep, Current, sound, sound', Running, NEW u \in Blocks,
         NEW reading \in BOOLEAN, Miss(u, 0, reading)
  PROVE  Current'
<1> DEFINE n == NextVictim
           remote == reading /\ u \notin Local
           filled == IF remote THEN Awaited
                     ELSE IF reading THEN Saved(n)[u] ELSE Indefinite
<1>1. /\ n \in Bufs
      /\ blockstat[u] < 0
      /\ drive' = Saved(n)
      /\ bufdirty' = [bufdirty EXCEPT ![n] = FALSE]
      /\ mem' = [mem EXCEPT ![n] = filled]
      /\ nextbuf' = n /\ hotbuffer' = n
      /\ bufblk' = [bufblk EXCEPT ![n] = u]
      /\ blockstat' = Remapped(u, n)
      /\ latest' = latest
      /\ IF remote THEN requesting_load' = 1 /\ bufferforrequest' = <<n>> /\ frame' = u
         ELSE requesting_load' = 0
  BY MissSoundly
<1>2. /\ DataOK /\ MappedBack /\ u \in Numbers /\ Blocks \subseteq Numbers
      /\ Local \subseteq Blocks /\ \A b \in Blocks : b \in Nat
  BY NumberSets DEF IInv, TypeOK, DataOK
<1>3. requesting_load = 0
  BY NothingPending
<1>17. detached' = detached /\ detached \subseteq Local
  BY <1>1, SameDetached DEF detached
<1> HIDE DEF n, filled, remote
\* The buffers that are not taken.
<1>4. \A i \in Bufs : i # n => /\ bufdirty'[i] = bufdirty[i] /\ bufblk'[i] = bufblk[i]
                               /\ mem'[i] = mem[i]
  BY <1>1, <1>2 DEF DataOK
<1>5. /\ ~bufdirty'[n] /\ bufblk'[n] = u /\ mem'[n] = filled
  BY <1>1, <1>2 DEF DataOK
<1>6. \A i \in Bufs : bufdirty'[i] => i # n /\ bufdirty[i] /\ bufblk[i] \in Local
  BY <1>4, <1>5 DEF Current, DirtyIsLocal
<1>7. \A i \in Bufs : bufdirty'[i] /\ bufblk[i] \notin detached => blockstat[bufblk[i]] = i
  <2>1. \A i \in Bufs : bufdirty[i] /\ bufblk[i] \notin detached /\ i # n =>
                           blockstat[bufblk[i]] = i
    BY DEF Current, StrayIsNext, n
  <2> QED
    BY <1>6, <2>1
<1>8. \A c \in Numbers :
        blockstat'[c] = IF c = u THEN n
                        ELSE IF c = bufblk[n] /\ c >= 0 THEN -1 ELSE blockstat[c]
  BY <1>1 DEF Remapped
<1>9. DirtyIsLocal'
  BY <1>4, <1>6 DEF DirtyIsLocal
<1>10. StrayIsNext'
  <2> SUFFICES ASSUME NEW i \in Bufs, bufdirty'[i], bufblk'[i] \notin detached',
                      blockstat'[bufblk'[i]] # i
               PROVE  blockstat'[bufblk'[i]] = -1 /\ i = NextVictim'
    BY DEF StrayIsNext
  <2>1. i # n /\ bufblk'[i] = bufblk[i] /\ blockstat[bufblk[i]] = i /\ bufblk[i] \in Numbers
    BY <1>2, <1>4, <1>6, <1>7, <1>17
  <2>2. bufblk[i] # u
    BY <1>1, <2>1 DEF Bufs
  <2>3. blockstat'[bufblk[i]] = -1
    BY <1>8, <2>1, <2>2
  <2>4. NextVictim' = i
    BY <1>1, <2>1, OtherIsNext DEF NextVictim
  <2> QED
    BY <2>1, <2>3, <2>4
<1>11. ASSUME NEW c \in Local \ detached
       PROVE  HeldFor(c)'
  <2>1. HeldFor(c)
    BY LatestSentence DEF Current
  <2>2. drive'[c] = IF bufdirty[n] /\ bufblk[n] = c THEN mem[n] ELSE drive[c]
    BY <1>1, <1>2 DEF Saved, DataOK
  <2>3. \A i \in Bufs : (bufblk'[i] = c /\ bufdirty'[i]) => mem'[i] = latest'[c]
    BY <1>1, <1>4, <1>6, <2>1 DEF HeldFor
  <2>4. ASSUME \A i \in Bufs : ~(bufblk'[i] = c /\ bufdirty'[i])
        PROVE  drive'[c] = latest'[c]
    <3>1. CASE bufdirty[n] /\ bufblk[n] = c
      BY <1>1, <2>1, <2>2, <3>1 DEF HeldFor
    <3>2. CASE ~(bufdirty[n] /\ bufblk[n] = c)
      <4>1. \A i \in Bufs : ~(bufblk[i] = c /\ bufdirty[i])
        BY <1>4, <2>4, <3>2
      <4> QED
        BY <1>1, <2>1, <2>2, <3>2, <4>1 DEF HeldFor
    <3> QED
      BY <3>1, <3>2
  <2> QED
    BY <2>3, <2>4 DEF HeldFor
<1>12. LatestIsHeld'
  BY <1>11, <1>17, LatestSentencePrimed
\* The blocks that stay mapped, in the other buffer.
<1>13. ASSUME NEW c \in Blocks, c # u, blockstat'[c] >= 0
       PROVE  /\ blockstat'[c] = blockstat[c] /\ blockstat[c] \in Bufs /\ blockstat[c] # n
              /\ mem'[blockstat[c]] = mem[blockstat[c]]
  <2>1. blockstat'[c] = blockstat[c] /\ c # bufblk[n]
    BY <1>2, <1>8, <1>13
  <2>2. blockstat[c] \in Bufs
    BY <1>2, <1>13, <2>1 DEF DataOK
  <2>3. blockstat[c] # n
    BY <1>13, <2>1 DEF IInv, MappedBack
  <2> QED
    BY <1>4, <2>1, <2>2, <2>3
<1>14. ASSUME NEW c \in Blocks \ detached, c # u, blockstat'[c] >= 0
       PROVE  mem[blockstat[c]] \in
                IF c \in Local THEN {latest[c], Indefinite} ELSE {<<c, 0>>, Indefinite}
  <2>1. blockstat[c] >= 0
    BY <1>13, <1>14
  <2> QED
    BY <1>3, <2>1 DEF Current, ReadsAreCurrent
<1>15. ReadsAreCurrent'
  <2> SUFFICES ASSUME NEW c \in Blocks \ detached, blockstat'[c] >= 0
               PROVE  mem'[blockstat'[c]] \in
                        IF c \in Local THEN {latest'[c], Indefinite}
                        ELSE {<<c, 0>>, Indefinite}
                             \cup (IF requesting_load' > 0 THEN {Awaited} ELSE {})
    BY <1>17 DEF ReadsAreCurrent
  <2>1. CASE c # u
    <3>1. mem'[blockstat'[c]] = mem[blockstat[c]]
      BY <1>13, <2>1
    <3>2. mem[blockstat[c]] \in
            IF c \in Local THEN {latest[c], Indefinite} ELSE {<<c, 0>>, Indefinite}
      BY <1>14, <2>1
    <3>3. CASE c \in Local
      BY <1>1, <3>1, <3>2, <3>3
    <3>4. CASE c \notin Local
      BY <3>1, <3>2, <3>4
    <3> QED
      BY <3>3, <3>4
  <2>2. CASE c = u
    <3>1. mem'[blockstat'[c]] = filled
      BY <1>2, <1>5, <1>8, <2>2
    <3>2. CASE remote
      BY <1>1, <2>2, <3>1, <3>2 DEF filled, remote
    <3>3. CASE ~remote /\ reading
      <4>1. u \in Local
        BY <3>3 DEF remote
      <4>2. \A i \in Bufs : ~(bufblk'[i] = u /\ bufdirty'[i])
        BY <1>1, <1>4, <1>6, <1>7, <2>2 DEF Bufs
      <4>3. drive'[u] = latest'[u]
        BY <1>11, <2>2, <4>1, <4>2 DEF HeldFor
      <4> QED
        BY <1>1, <2>2, <3>1, <3>3, <4>1, <4>3 DEF filled
    <3>4. CASE ~remote /\ ~reading
      BY <3>1, <3>4 DEF filled
    <3> QED
      BY <3>2, <3>3, <3>4
  <2> QED
    BY <2>1, <2>2
<1>16. AnswerIsAwaited'
  <2> SUFFICES ASSUME requesting_load' = 1
               PROVE  /\ frame' \notin Local
                      /\ frame' = bufblk'[Head(bufferforrequest')]
                      /\ \A b \in Blocks \ Local :
                           (blockstat'[b] >= 0 /\ mem'[blockstat'[b]] = Awaited) =>
                             blockstat'[b] = Head(bufferforrequest')
    BY DEF AnswerIsAwaited
  <2>1. remote /\ bufferforrequest' = <<n>> /\ frame' = u
    BY <1>1
  <2>2. Head(bufferforrequest') = n
    BY <2>1
  <2>3. frame' \notin Local /\ frame' = bufblk'[n]
    BY <1>5, <2>1 DEF remote
  <2>4. ASSUME NEW b \in Blocks \ Local, blockstat'[b] >= 0, mem'[blockstat'[b]] = Awaited
        PROVE  blockstat'[b] = n
    <3>1. CASE b = u
      BY <1>2, <1>8, <3>1
    <3>2. CASE b # u
      <4>1. mem[blockstat[b]] = Awaited
        BY <1>13, <2>4, <3>2
      <4>2. mem[blockstat[b]] \in {<<b, 0>>, Indefinite}
        BY <1>14, <1>17, <2>4, <3>2
      <4> QED
        BY <4>1, <4>2, AwaitedIsNoText
    <3> QED
      BY <3>1, <3>2
  <2> QED
    BY <2>2, <2>3, <2>4
<1> QED
  BY <1>9, <1>10, <1>12, <1>15, <1>16 DEF Current


\* A store: if the program's own buffer is mapped, no other one has an update of
\* the same block that would be saved after it; if it is not, the block is one of
\* the detached afterwards.
LEMMA StoreCurrent ==
  ASSUME IInv, InStep, Current, sound, sound', StoreAndUpdate
  PROVE  Current'
<1> DEFINE h == hotbuffer
           b == bufblk[h]
           attached == IsMapped(h) /\ b \notin detached
<1>1. requesting_load = 0
  BY NothingPending DEF StoreAndUpdate
<1>2. /\ DataOK /\ MappedBack /\ Blocks \subseteq Numbers /\ Local \subseteq Blocks
      /\ Blocks \subseteq Nat
  BY NumberSets DEF IInv, TypeOK, DataOK
<1>3. /\ b \in Local /\ b \in Blocks /\ h >= 0
      /\ latest' = [latest EXCEPT ![b] = IF attached THEN <<b, 1>> ELSE Detached]
  BY <1>2 DEF StoreAndUpdate, sound
<1>4. h \in Bufs /\ b >= 0 /\ (attached => blockstat[b] = h)
  BY <1>2, <1>3 DEF DataOK, IsMapped, Bufs
<1>5. latest \in [Local -> Contents \cup {Detached}]
  BY <1>2 DEF sound, DataOK
<1>6. /\ mem' = [mem EXCEPT ![h] = <<b, 1>>]
      /\ bufdirty' = [bufdirty EXCEPT ![h] = TRUE]
      /\ UNCHANGED <<drive, bufblk, blockstat, nextbuf, requests>>
  BY <1>3 DEF StoreAndUpdate
<1> HIDE DEF attached, h
<1>7. /\ mem'[h] = <<b, 1>> /\ bufdirty'[h]
      /\ latest'[b] = IF attached THEN <<b, 1>> ELSE Detached
      /\ \A i \in Bufs : i # h => mem'[i] = mem[i] /\ bufdirty'[i] = bufdirty[i]
      /\ \A c \in Local : c # b => latest'[c] = latest[c]
  BY <1>2, <1>3, <1>4, <1>5, <1>6 DEF DataOK
<1> HIDE DEF b
<1>15. <<b, 1>> # Detached
  BY DEF Detached
<1>16. /\ \A c \in detached' : c \in Local
       /\ \A c \in Local \ detached' : c \notin detached /\ (c = b => attached)
  <2>1. \A c : c \in detached' <=> c \in Local /\ latest'[c] = Detached
    BY DEF detached
  <2>2. \A c : c \in detached <=> c \in Local /\ latest[c] = Detached
    BY DEF detached
  <2>3. attached => b \notin detached
    BY DEF attached, b, h
  <2>4. ASSUME NEW c \in Local, c \notin detached'
        PROVE  c \notin detached /\ (c = b => attached)
    <3>1. latest'[c] # Detached
      BY <2>1, <2>4
    <3>2. CASE c = b
      BY <1>7, <2>3, <3>1, <3>2
    <3>3. CASE c # b
      BY <1>7, <2>2, <3>1, <3>3
    <3> QED
      BY <3>2, <3>3
  <2> QED
    BY <2>1, <2>4
<1>8. ASSUME attached
      PROVE  \A i \in Bufs : (i # h /\ bufdirty[i]) => bufblk[i] # b
  <2> SUFFICES ASSUME NEW i \in Bufs, i # h, bufdirty[i], bufblk[i] = b
               PROVE  FALSE
    OBVIOUS
  <2>1. bufblk[i] \notin detached
    BY <1>8 DEF attached, b, h
  <2>2. blockstat[b] = -1
    BY <1>4, <1>8, <2>1 DEF Current, StrayIsNext
  <2> QED
    BY <1>4, <1>8, <2>2 DEF Bufs
<1>9. DirtyIsLocal'
  <2>1. \A i \in Bufs : bufdirty'[i] => bufblk[i] \in Local
    BY <1>3, <1>7 DEF Current, DirtyIsLocal, b
  <2> QED
    BY <1>6, <2>1 DEF DirtyIsLocal
<1>10. StrayIsNext'
  <2>1. ASSUME NEW i \in Bufs, bufdirty'[i], bufblk[i] \notin detached', blockstat[bufblk[i]] # i
        PROVE  blockstat[bufblk[i]] = -1 /\ i = NextVictim
    <3>1. bufblk[i] \in Local
      BY <1>9, <1>6, <2>1 DEF DirtyIsLocal
    <3>2. bufblk[i] \notin detached /\ (bufblk[i] = b => attached)
      BY <1>16, <2>1, <3>1
    <3>3. i # h
      BY <1>4, <2>1, <3>2 DEF b
    <3>4. bufdirty[i]
      BY <1>7, <2>1, <3>3
    <3> QED
      BY <2>1, <3>2, <3>4 DEF Current, StrayIsNext
  <2> QED
    BY <1>6, <2>1 DEF StrayIsNext, NextVictim
<1>11. ASSUME NEW c \in Local \ detached'
       PROVE  HeldFor(c)'
  <2>1. HeldFor(c)
    BY <1>16, LatestSentence DEF Current
  <2>2. CASE c = b
    <3>0. attached
      BY <1>16, <2>2
    <3>1. \A i \in Bufs : (bufblk'[i] = c /\ bufdirty'[i]) => i = h
      BY <1>6, <1>7, <1>8, <2>2, <3>0
    <3>2. bufblk'[h] = c /\ bufdirty'[h]
      BY <1>6, <1>7, <2>2 DEF b
    <3> QED
      BY <1>4, <1>7, <2>2, <3>0, <3>1, <3>2 DEF HeldFor
  <2>3. CASE c # b
    <3>1. \A i \in Bufs : bufblk'[i] = c => i # h /\ bufblk[i] = c
      BY <1>6, <2>3 DEF b
    <3>2. \A i \in Bufs : (bufblk[i] = c /\ bufdirty[i]) => bufblk'[i] = c /\ bufdirty'[i]
      BY <1>6, <1>7
    <3>3. drive'[c] = drive[c] /\ latest'[c] = latest[c]
      BY <1>6, <1>7, <2>3
    <3> QED
      BY <1>7, <2>1, <3>1, <3>2, <3>3 DEF HeldFor
  <2> QED
    BY <2>2, <2>3
<1>12. LatestIsHeld'
  BY <1>11, LatestSentencePrimed
<1>13. ReadsAreCurrent'
  <2> SUFFICES ASSUME NEW c \in Blocks \ detached', blockstat'[c] >= 0
               PROVE  mem'[blockstat'[c]] \in
                        IF c \in Local THEN {latest'[c], Indefinite}
                        ELSE {<<c, 0>>, Indefinite}
                             \cup (IF requesting_load' > 0 THEN {Awaited} ELSE {})
    BY DEF ReadsAreCurrent
  <2>1. blockstat'[c] = blockstat[c] /\ blockstat[c] \in Bufs /\ bufblk[blockstat[c]] = c
    BY <1>2, <1>6 DEF DataOK, MappedBack
  <2>2. CASE blockstat[c] = h
    <3>1. c = b
      BY <2>1, <2>2 DEF b
    <3> QED
      BY <1>3, <1>7, <1>16, <2>1, <2>2, <3>1
  <2>3. CASE blockstat[c] # h
    <3>1. mem'[blockstat'[c]] = mem[blockstat[c]] /\ c # b /\ c \notin detached
      <4>1. c # b
        BY <1>3, <1>4, <1>16, <2>1, <2>3
      <4>2. c \in Local => c \notin detached
        BY <1>16
      <4>3. c \notin detached
        BY <4>2 DEF detached
      <4> QED
        BY <1>7, <2>1, <2>3, <4>1, <4>3
    <3>2. mem[blockstat[c]] \in
            IF c \in Local THEN {latest[c], Indefinite} ELSE {<<c, 0>>, Indefinite}
      BY <1>1, <2>1, <3>1 DEF Current, ReadsAreCurrent
    <3>3. CASE c \in Local
      BY <1>7, <3>1, <3>2, <3>3
    <3>4. CASE c \notin Local
      BY <3>1, <3>2, <3>4
    <3> QED
      BY <3>3, <3>4
  <2> QED
    BY <2>2, <2>3
<1>14. AnswerIsAwaited'
  BY <1>1, <1>6 DEF AnswerIsAwaited, requests
<1> QED
  BY <1>9, <1>10, <1>12, <1>13, <1>14 DEF Current

\* A step after which no block is mapped and no buffer is dirty.
LEMMA EmptiedCurrent ==
  ASSUME requesting_load' = 0, \A b \in Blocks : ~(blockstat'[b] >= 0),
         \A i \in Bufs : ~bufdirty'[i],
         \A b \in Local \ detached' : drive'[b] = latest'[b]
  PROVE  Current'
<1>1. LatestIsHeld'
  <2>1. \A b \in Local \ detached' : HeldFor(b)'
    BY DEF HeldFor
  <2> QED
    BY <2>1, LatestSentencePrimed
<1>2. DirtyIsLocal' /\ StrayIsNext'
  BY DEF DirtyIsLocal, StrayIsNext
<1>3. ReadsAreCurrent' /\ AnswerIsAwaited'
  BY DEF ReadsAreCurrent, AnswerIsAwaited
<1> QED
  BY <1>1, <1>2, <1>3 DEF Current

\* SAVE-BUFFERS leaves on the drive what the last dirty buffer of a block holds.
LEMMA SaveCurrent ==
  ASSUME IInv, InStep, Current, sound, sound', forthsavebuffers
  PROVE  Current'
<1> DEFINE Dirty(b) == {i \in Bufs : bufdirty[i] /\ bufblk[i] = b}
           refused == Cardinality({i \in Bufs : bufdirty[i] /\ bufblk[i] >= LocalCapacity})
<1>1. /\ DataOK /\ MappedBack /\ Blocks \subseteq Numbers /\ Bufs \subseteq Nat
  BY NumberSets DEF IInv, TypeOK, DataOK
<1>2. requesting_load' = 0
  BY NothingPending DEF forthsavebuffers, requests
<1>3. latest' = latest
  BY DEF forthsavebuffers, FailingIf, sound
<1>7. detached' = detached
  BY <1>3, SameDetached
<1>4. \A b \in Blocks : ~(blockstat'[b] >= 0)
  <2> SUFFICES ASSUME NEW b \in Blocks, blockstat'[b] >= 0
               PROVE  FALSE
    OBVIOUS
  <2>1. ~(\E i \in Bufs : bufblk[i] = b) /\ blockstat[b] >= 0
    BY <1>1 DEF forthsavebuffers
  <2>2. blockstat[b] \in Bufs /\ bufblk[blockstat[b]] = b
    BY <1>1, <2>1 DEF DataOK, MappedBack
  <2> QED
    BY <2>1, <2>2
<1>5. \A i \in Bufs : ~bufdirty'[i]
  BY DEF forthsavebuffers
<1>6. ASSUME NEW b \in Local \ detached
      PROVE  drive'[b] = latest'[b]
  <2>1. HeldFor(b)
    BY LatestSentence DEF Current
  <2>2. CASE Dirty(b) = {}
    <3>1. drive'[b] = drive[b]
      BY <2>2 DEF forthsavebuffers
    <3> QED
      BY <1>3, <2>1, <2>2, <3>1 DEF HeldFor
  <2>3. CASE Dirty(b) # {}
    <3> DEFINE last == CHOOSE i \in Dirty(b) : \A j \in Dirty(b) : j <= i
    <3>1. \E i \in Dirty(b) : \A j \in Dirty(b) : j <= i
      <4>1. Dirty(b) \subseteq 0 .. MaxBufs /\ MaxBufs \in Nat
        BY BufsAssumption DEF Bufs
      <4> HIDE DEF Dirty
      <4> QED
        BY <2>3, <4>1, LastExists
    <3>2. last \in Dirty(b)
      BY <3>1
    <3>3. drive'[b] = mem[last]
      BY <2>3 DEF forthsavebuffers
    <3> HIDE DEF last
    <3> QED
      BY <1>3, <2>1, <3>2, <3>3 DEF HeldFor
  <2> QED
    BY <2>2, <2>3
<1> QED
  BY <1>2, <1>4, <1>5, <1>6, <1>7, EmptiedCurrent

\* EMPTY-BUFFERS and COLD forget what is not saved, as they should.
LEMMA EmptyCurrent ==
  ASSUME IInv, InStep, Current, sound, sound', forthemptybuffers \/ forthcoldinit
  PROVE  Current'
<1>1. /\ DataOK /\ MappedBack /\ Blocks \subseteq Numbers /\ Local \subseteq Blocks
      /\ Blocks \subseteq Nat
  BY NumberSets DEF IInv, TypeOK, DataOK
<1>2. requesting_load' = 0
  BY NothingPending DEF forthemptybuffers, forthcoldinit, requests
<1>3. drive' = drive /\ latest' = drive
  BY DEF forthemptybuffers, forthcoldinit
<1>4. CASE forthcoldinit
  <2>1. (\A b \in Blocks : ~(blockstat'[b] >= 0)) /\ (\A i \in Bufs : ~bufdirty'[i])
    BY <1>1, <1>4 DEF forthcoldinit
  <2> QED
    BY <1>2, <1>3, <2>1, EmptiedCurrent
<1>5. CASE forthemptybuffers
  <2>1. \A b \in Blocks : ~(blockstat'[b] >= 0)
    <3> SUFFICES ASSUME NEW b \in Blocks, blockstat'[b] >= 0
                 PROVE  FALSE
      OBVIOUS
    <3>1. ~(\E i \in Bufs : bufblk[i] >= 0 /\ bufblk[i] = b) /\ blockstat[b] >= 0
      BY <1>1, <1>5 DEF forthemptybuffers
    <3>2. blockstat[b] \in Bufs /\ bufblk[blockstat[b]] = b /\ b >= 0
      BY <1>1, <3>1 DEF DataOK, MappedBack
    <3> QED
      BY <3>1, <3>2
  <2>2. \A i \in Bufs : ~bufdirty'[i]
    <3>1. \A i \in Bufs : bufdirty[i] => bufblk[i] >= 0
      <4>1. \A i \in Bufs : bufdirty[i] => bufblk[i] \in Local
        BY DEF Current, DirtyIsLocal
      <4>2. \A b \in Local : b >= 0
        BY <1>1
      <4> QED
        BY <4>1, <4>2
    <3> QED
      BY <1>5, <3>1 DEF forthemptybuffers
  <2> QED
    BY <1>2, <1>3, <2>1, <2>2, EmptiedCurrent
<1> QED
  BY <1>4, <1>5


\* The answer reaches the buffer of its own block, which waited for it.
LEMMA AnswerCurrent ==
  ASSUME IInv, InStep, Current, sound, sound', LoadingCompleteEvent(FALSE)
  PROVE  Current'
<1> DEFINE h == Head(bufferforrequest)
<1>1. /\ DataOK /\ MappedBack /\ Blocks \subseteq Numbers
      /\ requesting_load \in 0 .. 1 /\ bufferforrequest \in Seq(Bufs)
  BY NumberSets DEF IInv, TypeOK, DataOK
<1>2. requesting_load = 1 /\ Len(bufferforrequest) = 1
  BY <1>1 DEF LoadingCompleteEvent, StillRequested, InStep, Together
<1>3. bufferforrequest # <<>> /\ h \in Bufs
  BY <1>1, <1>2
<1>4. frame \notin Local /\ frame = bufblk[h] /\ frame \in Blocks
  BY <1>2 DEF Current, AnswerIsAwaited, LoadingCompleteEvent
<1>5. /\ mem' = [mem EXCEPT ![h] = <<frame, 0>>] /\ requesting_load' = 0
      /\ latest' = latest
      /\ UNCHANGED <<drive, bufblk, bufdirty, blockstat, nextbuf>>
  BY <1>2, <1>3 DEF LoadingCompleteEvent, FailingIf
<1>6. \A b \in Blocks \ Local :
        (blockstat[b] >= 0 /\ mem[blockstat[b]] = Awaited) => blockstat[b] = h
  BY <1>2 DEF Current, AnswerIsAwaited
<1>13. detached' = detached /\ detached \subseteq Local /\ sound' = sound
  BY <1>5, SameDetached DEF detached
<1> HIDE DEF h
<1>7. mem'[h] = <<frame, 0>> /\ \A i \in Bufs : i # h => mem'[i] = mem[i]
  BY <1>1, <1>3, <1>5 DEF DataOK
<1>8. DirtyIsLocal' /\ StrayIsNext'
  BY <1>5, <1>13 DEF Current, DirtyIsLocal, StrayIsNext, NextVictim
<1>9. ASSUME NEW c \in Local \ detached
      PROVE  HeldFor(c)'
  <2>1. HeldFor(c)
    BY LatestSentence DEF Current
  <2>2. \A i \in Bufs : bufblk[i] = c => i # h
    BY <1>4
  <2> QED
    BY <1>5, <1>7, <2>1, <2>2 DEF HeldFor
<1>10. LatestIsHeld'
  BY <1>9, <1>13, LatestSentencePrimed
<1>11. ReadsAreCurrent'
  <2> SUFFICES ASSUME NEW c \in Blocks \ detached, blockstat[c] >= 0
               PROVE  mem'[blockstat[c]] \in
                        IF c \in Local THEN {latest[c], Indefinite} ELSE {<<c, 0>>, Indefinite}
    BY <1>5, <1>13 DEF ReadsAreCurrent
  <2>1. blockstat[c] \in Bufs /\ bufblk[blockstat[c]] = c
    BY <1>1 DEF DataOK, MappedBack
  <2>2. CASE blockstat[c] = h
    BY <1>4, <1>7, <2>1, <2>2
  <2>3. CASE blockstat[c] # h
    <3>1. mem'[blockstat[c]] = mem[blockstat[c]]
      BY <1>7, <2>1, <2>3
    <3>2. CASE c \in Local
      BY <3>1, <3>2 DEF Current, ReadsAreCurrent
    <3>3. CASE c \notin Local
      <4>1. mem[blockstat[c]] \in {<<c, 0>>, Indefinite, Awaited}
        BY <1>2, <3>3 DEF Current, ReadsAreCurrent
      <4>2. mem[blockstat[c]] # Awaited
        BY <1>6, <2>3, <3>3
      <4> QED
        BY <3>1, <3>3, <4>1, <4>2
    <3> QED
      BY <3>2, <3>3
  <2> QED
    BY <2>2, <2>3
<1>12. AnswerIsAwaited'
  BY <1>5 DEF AnswerIsAwaited
<1> QED
  BY <1>8, <1>10, <1>11, <1>12 DEF Current

\* BLOCK or BUFFER of any block; of a number out of range, something goes wrong.
LEMMA BlockOrBufferCurrent ==
  ASSUME MaxBufs <= 2, IInv, InStep, Current, sound, sound', Running, NEW u,
         NEW reading \in BOOLEAN, forthblockorbuffer(u, reading)
  PROVE  Current'
<1>1. ASSUME NEW t, Hit(t, 1) \/ Miss(t, 1, reading)
      PROVE  FALSE
  <2>1. CASE Hit(t, 1)
    BY <2>1 DEF Hit, FailingIf, sound
  <2>2. CASE Miss(t, 1, reading)
    <3> DEFINE n == (nextbuf + 1) % MaxBufs
               saving == bufblk[n] >= 0 /\ bufdirty[n]
               k2 == 1 + One(saving /\ bufblk[n] >= LocalCapacity)
               remote(v) == reading /\ v >= LocalCapacity
               throws(v) == k2 + One(remote(v) /\ ~(remote(v) /\ requesting_load = 0))
    <3>1. PICK v : FailingIf(throws(v) > 0)
      BY <2>2 DEF Miss
    <3>2. throws(v) > 0
      BY DEF One
    <3> HIDE DEF throws
    <3> QED
      BY <3>1, <3>2 DEF FailingIf, sound
  <2> QED
    BY <1>1, <2>1, <2>2
<1>2. u \in Blocks /\ (Hit(u, 0) \/ Miss(u, 0, reading))
  BY <1>1 DEF forthblockorbuffer
<1>3. CASE Hit(u, 0)
  <2>1. /\ UNCHANGED <<drive, mem, bufblk, bufdirty, blockstat, nextbuf>>
        /\ UNCHANGED <<latest, requesting_load, bufferforrequest, frame>>
    BY <1>3 DEF Hit, FailingIf, requests
  <2>5. detached' = detached /\ sound' = sound
    BY <2>1, SameDetached
  <2>2. DirtyIsLocal' /\ StrayIsNext'
    BY <2>1, <2>5 DEF Current, DirtyIsLocal, StrayIsNext, NextVictim
  <2>3. LatestIsHeld'
    BY <2>1, <2>5 DEF Current, LatestIsHeld, DirtyOf
  <2>4. ReadsAreCurrent' /\ AnswerIsAwaited'
    BY <2>1, <2>5 DEF Current, ReadsAreCurrent, AnswerIsAwaited
  <2> QED
    BY <2>2, <2>3, <2>4 DEF Current
<1>4. CASE Miss(u, 0, reading)
  BY <1>2, <1>4, MissCurrent
<1> QED
  BY <1>2, <1>3, <1>4

LEMMA NextCurrent ==
  ASSUME MaxBufs <= 2, IInv, InStep, Current, [Next]_vars
  PROVE  Current'
<1> SUFFICES ASSUME sound' PROVE Current'
  BY DEF Current, DirtyIsLocal, StrayIsNext, LatestIsHeld, ReadsAreCurrent, AnswerIsAwaited
<1>1. sound
  BY SoundBefore
<1>2. ASSUME NEW u \in Asked, forthblock(u) \/ forthbuffer(u)
      PROVE  Current'
  BY <1>1, <1>2, BlockOrBufferCurrent DEF forthblock, forthbuffer
<1>3. CASE StoreAndUpdate \/ forthsavebuffers \/ forthemptybuffers \/ forthcoldinit
  BY <1>1, <1>3, StoreCurrent, SaveCurrent, EmptyCurrent
<1>4. CASE \/ forthkey \/ forthms \/ forthcatch \/ forththrow0 \/ forththrow
           \/ KeyEvent \/ Resume \/ forthwarminit \/ UNCHANGED vars
  <2>1. UNCHANGED <<drive, buffers, latest, requests>>
    BY <1>4 DEF forthkey, forthms, forthcatch, forththrow0, forththrow, KeyEvent, Resume,
                forthwarminit, vars
  <2> QED
    BY <2>1, SameCurrent DEF requests
<1>5. CASE UnwantedAnswer
  BY <1>5, SameCurrent DEF UnwantedAnswer
<1>6. CASE LoadingCompleteEvent(FALSE)
  BY <1>1, <1>6, AnswerCurrent
<1>7. CASE blockreadtimeout \/ LoadingCompleteEvent(TRUE) \/ ErrorEvent
  BY <1>7 DEF blockreadtimeout, LoadingCompleteEvent, ErrorEvent, Failing, FailingIf, sound
<1> QED
  BY <1>2, <1>3, <1>4, <1>5, <1>6, <1>7 DEF Next

LEMMA InitCurrent == Init => Current
<1> SUFFICES ASSUME Init PROVE Current
  OBVIOUS
<1>1. \A b \in Local : HeldFor(b)
  BY DEF Init, HeldFor
<1>2. LatestIsHeld
  BY <1>1, LatestSentence
<1>3. \A b \in Blocks : ~(blockstat[b] >= 0)
  BY NumberSets DEF Init
<1>4. ReadsAreCurrent /\ AnswerIsAwaited
  BY <1>3 DEF Init, ReadsAreCurrent, AnswerIsAwaited
<1>5. DirtyIsLocal /\ StrayIsNext
  BY DEF Init, DirtyIsLocal, StrayIsNext
<1> QED
  BY <1>2, <1>4, <1>5 DEF Current

LEMMA CurrentHolds ==
  ASSUME MaxBufs <= 2
  PROVE  SafetySpec => []Current
<1>1. Init => Current
  BY InitCurrent
<1>2. IInv /\ InStep /\ Current /\ [Next]_vars => Current'
  BY NextCurrent
<1> QED
  BY <1>1, <1>2, IInvHolds, InStepHolds, PTL DEF SafetySpec

\* With the source's two buffers, or one, and while nothing has gone wrong, no
\* update is lost, of any block but one that was UPDATEd in its old buffer after
\* SAVE-BUFFERS: it is in every dirty buffer that would be written to its block,
\* else on the drive.
THEOREM UpdatesAreHeld ==
  ASSUME MaxBufs <= 2
  PROVE  SafetySpec => []LatestIsHeld
<1>1. Current => LatestIsHeld
  BY DEF Current
<1> QED
  BY <1>1, CurrentHolds, PTL

\* With the source's two buffers, or one, and while nothing has gone wrong, timeouts
\* included, a mapped buffer shows its block as the program last left it, or the
\* server's text, for drives of any size; again but for a block that was UPDATEd in
\* its old buffer after SAVE-BUFFERS.
THEOREM ReadsStayCurrent ==
  ASSUME MaxBufs <= 2
  PROVE  SafetySpec => []ReadsAreCurrent
<1>1. Current => ReadsAreCurrent
  BY DEF Current
<1> QED
  BY <1>1, CurrentHolds, PTL

=============================================================================
