------------------------------- MODULE JsHeap -------------------------------
(***************************************************************************)
(* ALLOCATE and FREE of JS-Forth (reference/jsforth.js).  A chunk is two   *)
(* header cells, its index in usedchunk and its size, and its data; its    *)
(* address is that of the data.  The heap ends at heapend and grows there. *)
(*                                                                         *)
(* FREE sorts the addresses of free chunks as text, which is their order   *)
(* as long as all have the same number of digits.  A new chunk is searched *)
(* for with the best fit, whatever fittype says: the test is of fittype's  *)
(* address.                                                                *)
(***************************************************************************)
EXTENDS Integers, Sequences, FiniteSets

CONSTANTS
  ChunkSizes,   \* sizes a program asks for
  HeapCells     \* bound: cells of the heap

\* ALLOCATE takes an unsigned number, 0 included.
ASSUME ChunkSizesAssumption == ChunkSizes \subseteq Nat

VARIABLES
  heapend,
  usedchunk,   \* addresses of chunks in use
  freechunk,   \* addresses of free chunks
  indexOf,     \* m[a-2] of the chunks in use, their index from 0
  sizeOf,      \* m[a-1] of all chunks
  held         \* history: the chunks the program holds, <<address, size>>

heapVars == <<heapend, usedchunk, freechunk, indexOf, sizeOf, held>>

NoCells == [a \in {} |-> 0]

HeapInit ==
  /\ heapend = 0
  /\ usedchunk = <<>> /\ freechunk = <<>>
  /\ indexOf = NoCells /\ sizeOf = NoCells
  /\ held = {}

Elements(q) == {q[i] : i \in DOMAIN q}

\* The cells f with x stored for chunk a.
Stored(f, a, x) == [b \in DOMAIN f \cup {a} |-> IF b = a THEN x ELSE f[b]]

-----------------------------------------------------------------------------
(* ALLOCATE *)

\* The program gets chunk a, the last in usedchunk.
Given(a, size) ==
  /\ indexOf' = Stored(indexOf, a, Len(usedchunk))
  /\ usedchunk' = Append(usedchunk, a)
  /\ held' = held \cup {<<a, size>>}

newchunk(size) ==
  LET a == heapend + 2
  IN /\ a + size <= HeapCells
     /\ Given(a, size)
     /\ sizeOf' = Stored(sizeOf, a, size)
     /\ heapend' = a + size
     /\ UNCHANGED freechunk

Slack(i, size) == sizeOf[freechunk[i]] - size

Exact(size) == {i \in DOMAIN freechunk : Slack(i, size) = 0}

\* Free chunks with room for the data and another header.
Roomy(size) == {i \in DOMAIN freechunk : Slack(i, size) > 2}

\* The first exact fit, else the first of the best fits.
searchfit(size) ==
  IF Exact(size) # {} THEN CHOOSE i \in Exact(size) : \A j \in Exact(size) : i <= j
  ELSE CHOOSE i \in Roomy(size) :
         \A j \in Roomy(size) :
           \/ Slack(i, size) < Slack(j, size)
           \/ Slack(i, size) = Slack(j, size) /\ i <= j

\* The last chunk takes the place of the i-th.
Moved(q, i) == [j \in 1 .. Len(q) - 1 |-> IF j = i THEN q[Len(q)] ELSE q[j]]

\* Mutant: without the cells of the new chunk's header.
RestWhole(old, size) == sizeOf[old] - size

Rest(old, size) == sizeOf[old] - (size + 2)

\* The end of a free chunk is split off, or the chunk is used completely.
splitchunk(fit, size) ==
  LET old == freechunk[fit]
      left == Rest(old, size)
  IN /\ IF left > 0
        THEN /\ Given(old + left + 2, size)
             /\ sizeOf' = Stored(Stored(sizeOf, old, left), old + left + 2, size)
             /\ UNCHANGED freechunk
        ELSE /\ Given(old, size)
             /\ freechunk' = Moved(freechunk, fit)
             /\ UNCHANGED sizeOf
     /\ UNCHANGED heapend

forthallocate(size) ==
  IF Exact(size) \cup Roomy(size) = {} THEN newchunk(size)
  ELSE splitchunk(searchfit(size), size)

-----------------------------------------------------------------------------
(* FREE *)

\* Mutant: the chunk that takes the place of the freed one keeps its number.
NumberKept(k) == indexOf

\* The last chunk in use takes the place of the k-th, and is told so.
Renumbered(k) ==
  IF k < Len(usedchunk) - 1 THEN [indexOf EXCEPT ![usedchunk[Len(usedchunk)]] = k] ELSE indexOf

\* The free chunks q as FREE leaves them: where the run of neighbours that
\* starts with a ends, at the first chunk no other follows, and which chunks
\* start one.
Stops(q) == {b \in q : b + sizeOf[b] + 2 \notin q}

RunEnd(q) ==
  [a \in q |-> LET last == CHOOSE b \in Stops(q) :
                             b >= a /\ \A c \in Stops(q) : c >= a => b <= c
               IN last + sizeOf[last]]

\* Mutant: neighbours stay apart.
HeadsAll(q) == q

Heads(q) == {a \in q : \A b \in q : b + sizeOf[b] + 2 # a}

Ascending(q) ==
  [i \in 1 .. Cardinality(q) |-> CHOOSE a \in q : Cardinality({b \in q : b < a}) = i - 1]

\* Neighbours are merged; the last free chunk, if at the heap's end, goes back.
forthfree(a) ==
  /\ a \in Elements(usedchunk)
  /\ LET k == indexOf[a]
         q == Elements(freechunk) \cup {a}
         sorted == Ascending(Heads(q))
         last == sorted[Len(sorted)]
         atEnd == RunEnd(q)[last] = heapend
         kept == IF atEnd THEN SubSeq(sorted, 1, Len(sorted) - 1) ELSE sorted
         used == Elements(usedchunk) \ {a}
     IN /\ usedchunk' = Moved(usedchunk, k + 1)
        /\ indexOf' = [b \in used |-> Renumbered(k)[b]]
        /\ freechunk' = kept
        /\ sizeOf' = [b \in used \cup Elements(kept) |->
                        IF b \in used THEN sizeOf[b] ELSE RunEnd(q)[b] - b]
        /\ heapend' = IF atEnd THEN last - 2 ELSE heapend
  /\ held' = {c \in held : c[1] # a}

\* A program frees a chunk it holds; of any other address FREE says it is none
\* (-72), and goes on to merge what is merged.
HeapNext ==
  \/ \E size \in ChunkSizes : forthallocate(size)
  \/ \E c \in held : forthfree(c[1])

HeapSpec == HeapInit /\ [][HeapNext]_heapVars

-----------------------------------------------------------------------------
(* Properties. *)

Extent(a) == a - 2 .. a + sizeOf[a] - 1

\* The heap is its chunks, used or free, header to header: nothing overlaps and
\* nothing leaks, after any order of ALLOCATEs and FREEs of any sizes.
HeapTiled ==
  LET chunks == Elements(usedchunk) \cup Elements(freechunk)
  IN /\ UNION {Extent(a) : a \in chunks} = 0 .. heapend - 1
     /\ \A a, b \in chunks : a # b => Extent(a) \cap Extent(b) = {}
     /\ Cardinality(chunks) = Len(usedchunk) + Len(freechunk)

\* The chunks in use are those the program holds, of the size it asked for, and
\* each header has its index in usedchunk, which FREE relies on, also after
\* chunks have moved in that table.
ChunksNumbered ==
  /\ {<<a, sizeOf[a]>> : a \in Elements(usedchunk)} = held
  /\ \A i \in DOMAIN usedchunk : indexOf[usedchunk[i]] = i - 1

\* After FREE no two free chunks are neighbours and none is at the heap's end;
\* ALLOCATE, which splits and uses up chunks, does not change that.
FreeMerged ==
  \A a \in Elements(freechunk) :
    LET end == a + sizeOf[a] IN end # heapend /\ end + 2 \notin Elements(freechunk)

=============================================================================
