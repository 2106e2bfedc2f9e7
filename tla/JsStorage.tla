----------------------------- MODULE JsStorage -----------------------------
(***************************************************************************)
(* Mass storage of JS-Forth (reference/jsforth.js): blocks on local drives *)
(* (cookies and RAM) and on a web server, behind a few buffers, in a       *)
(* virtual machine that browser events drive.  BLOCK of a web block starts *)
(* a request and suspends the machine; the answer, a watchdog, a key or    *)
(* another timer restarts it.                                              *)
(*                                                                         *)
(* throwerror returns to its caller: a handler that has thrown goes on     *)
(* with whatever tos is then.  A handler is one action, however often it   *)
(* throws.                                                                 *)
(***************************************************************************)
EXTENDS Integers, Sequences, FiniteSets

CONSTANTS
  LocalCapacity,  \* blocks on the cookie drive and the RAM drive
  Capacity,       \* blocks of all drives
  MaxBufs,        \* the source's maxbufs
  Below,          \* numbers a program has below a block number on its stack
  Mishaps,        \* what may go wrong besides a timeout: "absent", "broken",
                  \* "number" (a block number out of range), "unmapped" (UPDATE
                  \* of a buffer that has no block), "readonly" (of a web block's)
  MaxFrames,      \* bound: CATCHes in progress
  MaxTimers       \* bound: timers of one kind pending

ASSUME CapacityAssumption ==
  LocalCapacity \in Nat \ {0} /\ Capacity \in Nat /\ LocalCapacity <= Capacity
ASSUME BufsAssumption == MaxBufs \in Nat \ {0}
ASSUME BelowAssumption == Below # {} /\ Below \subseteq 0 .. Capacity
ASSUME BoundsAssumption == MaxFrames \in Nat /\ MaxTimers \in Nat \ {0}

Local == 0 .. LocalCapacity - 1
Blocks == 0 .. Capacity - 1
Bufs == 0 .. MaxBufs - 1

\* What tos may be where a block number is expected: the code of a throw too.
Numbers == 0 .. Capacity \cup {-35, -71}

\* Contents of a buffer BUFFER has returned, and of one that awaits an answer.
Indefinite == <<"indefinite">>
Awaited == <<"awaited">>
Contents == (Blocks \X {0, 1}) \cup {Indefinite, Awaited}

VARIABLES
  drive,      \* the local blocks, as saved
  mem,        \* contents of the buffers
  bufblk,     \* bufblk[i]: the block in buffer i, or -1
  bufdirty,   \* bufdirty[i]: buffer i was UPDATEd
  blockstat,  \* blockstat[u]: the buffer of block u, or -1
  nextbuf,    \* the buffer used last for a new block
  hotbuffer,  \* the buffer UPDATE marks, or -1
  requesting_load, bufferforrequest,  \* requests pending, and their buffers
  frame,      \* the block the data frame is loading, or -1
  suspended,  \* why the machine has stopped, or "no"
  watchdogs, warms, resumes,  \* pending timers: blockreadtimeout, warm, ip
  frames,     \* CATCHes in progress
  catching,   \* the session uses CATCH
  latest,     \* history: the local blocks as the program sees them, or <<>>
              \* once something has gone wrong
  unreadable  \* history: an answer could not be read

buffers == <<mem, bufblk, bufdirty, blockstat, nextbuf, hotbuffer>>
requests == <<requesting_load, bufferforrequest, frame>>
machine == <<suspended, watchdogs, warms, resumes, frames>>
session == <<catching, unreadable>>
vars == <<drive, buffers, requests, machine, latest, session>>

Running == suspended = "no"

sound == latest # <<>>

\* The local blocks that were UPDATEd in a buffer that was theirs, but that the
\* table did not give for them any more.
Detached == <<"detached">>
detached == {b \in Local : sound /\ latest[b] = Detached}

Failing == latest' = <<>>
FailingIf(P) == latest' = IF P THEN <<>> ELSE latest

Init ==
  /\ drive = [b \in Local |-> <<b, 0>>]
  /\ mem = [i \in Bufs |-> Indefinite]
  /\ bufblk = [i \in Bufs |-> -1]
  /\ bufdirty = [i \in Bufs |-> FALSE]
  /\ blockstat = [u \in Numbers |-> -1]
  /\ nextbuf = 0 /\ hotbuffer = -1
  /\ requesting_load = 0 /\ bufferforrequest = <<>> /\ frame = -1
  /\ suspended = "key"
  /\ watchdogs = 0 /\ warms = 0 /\ resumes = FALSE
  /\ frames = 0
  /\ catching \in BOOLEAN
  /\ latest = drive /\ unreadable = FALSE

-----------------------------------------------------------------------------
(* throwerror, called k times in a handler: to a CATCH while there is one, *)
(* else exception(), which suspends the machine until a warm start.        *)

Uncaught(k) == k > frames

\* Mutant: exception() without its setTimeout.
throwerrorForGood(k) ==
  /\ frames' = IF Uncaught(k) THEN 0 ELSE frames - k
  /\ UNCHANGED warms

throwerror(k) ==
  /\ frames' = IF Uncaught(k) THEN 0 ELSE frames - k
  /\ warms' = IF Uncaught(k) THEN warms + (k - frames) ELSE warms
  /\ warms' <= MaxTimers

\* tos after the k-th throw: the code, or what was below on the data stack.
TosAfter(code, k) == IF Uncaught(k) THEN Below ELSE {code}

\* The machine after k throws by a word that asks for no block itself.
Thrown(k) ==
  /\ throwerror(k)
  /\ suspended' = IF Uncaught(k) THEN "warm" ELSE "no"

-----------------------------------------------------------------------------
(* The words of mass storage. *)

One(P) == IF P THEN 1 ELSE 0

\* Mutant: the buffer is given away unsaved.
SavedNever(n) == drive

\* The drives once buffer n is saved, if it is dirty.
Saved(n) ==
  IF bufdirty[n] /\ bufblk[n] \in Local THEN [drive EXCEPT ![bufblk[n]] = mem[n]] ELSE drive

\* Mutant: the block is read before the buffer is saved.
LoadedFirst(t, saved) == IF t \in Local THEN drive[t] ELSE Indefinite

\* What a local drive holds of block t; a cookie that is not there is blanks.
Loaded(t, saved) == IF t \in Local THEN saved[t] ELSE Indefinite

\* Mutant: the block that was in the buffer stays mapped.
RemappedOnly(t, n) == [blockstat EXCEPT ![t] = n]

\* Block t is mapped to buffer n, and what was there is not any more.
Remapped(t, n) ==
  [b \in Numbers |-> IF b = t THEN n
                     ELSE IF b = bufblk[n] /\ b >= 0 THEN -1 ELSE blockstat[b]]

\* The block is mapped already, after k throws.
Hit(u, k) ==
  /\ blockstat[u] >= 0
  /\ hotbuffer' = blockstat[u]
  /\ Thrown(k)
  /\ FailingIf(k > 0)
  /\ UNCHANGED <<drive, mem, bufblk, bufdirty, blockstat, nextbuf, requests,
                 watchdogs, resumes>>

\* The next buffer in turn is saved if dirty and given to the block; saving a
\* web block throws, and the block number is then what tos has become.
Miss(u, k, reading) ==
  LET n == (nextbuf + 1) % MaxBufs
      old == bufblk[n]
      saving == old >= 0 /\ bufdirty[n]
      refused == saving /\ old >= LocalCapacity
      k2 == k + One(refused)
  IN \E t \in IF refused THEN TosAfter(-71, k2) ELSE {u} :
       LET remote == reading /\ t >= LocalCapacity
           asking == remote /\ requesting_load = 0
           throws == k2 + One(remote /\ ~asking)
       IN /\ blockstat[u] < 0
          /\ drive' = Saved(n)
          /\ bufdirty' = [bufdirty EXCEPT ![n] = @ /\ ~saving]
          /\ mem' = [mem EXCEPT ![n] = CASE remote -> Awaited
                                         [] reading /\ ~remote -> Loaded(t, Saved(n))
                                         [] OTHER -> Indefinite]
          /\ nextbuf' = n /\ hotbuffer' = n
          /\ bufblk' = [bufblk EXCEPT ![n] = t]
          /\ blockstat' = Remapped(t, n)
          /\ throwerror(throws)
          /\ IF asking
             THEN /\ requesting_load' = requesting_load + 1
                  /\ bufferforrequest' = Append(bufferforrequest, n)
                  /\ frame' = t
                  /\ watchdogs' = watchdogs + 1
                  /\ watchdogs < MaxTimers /\ Len(bufferforrequest) < MaxTimers
                  /\ suspended' = "block"
             ELSE /\ suspended' = IF Uncaught(throws) THEN "warm" ELSE "no"
                  /\ UNCHANGED <<requests, watchdogs>>
          /\ FailingIf(throws > 0)
          /\ UNCHANGED resumes

forthblockorbuffer(u, reading) ==
  IF u \in Blocks
  THEN Hit(u, 0) \/ Miss(u, 0, reading)
  ELSE \E t \in TosAfter(-35, 1) : Hit(t, 1) \/ Miss(t, 1, reading)

\* The numbers a program asks for.
Asked == Blocks \cup (IF "number" \in Mishaps THEN {Capacity} ELSE {})

forthblock(u) ==
  /\ Running
  /\ forthblockorbuffer(u, TRUE)
  /\ UNCHANGED session

forthbuffer(u) ==
  /\ Running
  /\ forthblockorbuffer(u, FALSE)
  /\ UNCHANGED session

\* The table still gives this buffer for the block it has.
IsMapped(i) == blockstat[bufblk[i]] = i

\* The program changes the buffer it was given last, then UPDATE.  UPDATE marks
\* hotbuffer whatever has become of it: after SAVE-BUFFERS it still has its block,
\* but the table gives no buffer for that block.
StoreAndUpdate ==
  /\ Running /\ hotbuffer >= 0
  /\ LET b == bufblk[hotbuffer]
     IN /\ \/ b \in Local
           \/ b >= LocalCapacity /\ "readonly" \in Mishaps
           \/ b < 0 /\ "unmapped" \in Mishaps
        /\ mem' = [mem EXCEPT ![hotbuffer] = IF b \in Blocks THEN <<b, 1>> ELSE Indefinite]
        /\ latest' = IF sound /\ b \in Local
                     THEN [latest EXCEPT ![b] = IF IsMapped(hotbuffer) /\ b \notin detached
                                                THEN <<b, 1>> ELSE Detached]
                     ELSE <<>>
  /\ bufdirty' = [bufdirty EXCEPT ![hotbuffer] = TRUE]
  /\ UNCHANGED <<drive, bufblk, blockstat, nextbuf, hotbuffer, requests, machine, session>>

\* SAVE-BUFFERS writes the dirty buffers in order, and unmaps every block but
\* leaves bufblk; each dirty web block throws.
forthsavebuffers ==
  LET refused == Cardinality({i \in Bufs : bufdirty[i] /\ bufblk[i] >= LocalCapacity})
      Dirty(b) == {i \in Bufs : bufdirty[i] /\ bufblk[i] = b}
  IN /\ Running
     /\ drive' = [b \in Local |->
                    IF Dirty(b) = {} THEN drive[b]
                    ELSE mem[CHOOSE i \in Dirty(b) : \A j \in Dirty(b) : j <= i]]
     /\ bufdirty' = [i \in Bufs |-> FALSE]
     /\ blockstat' = [u \in Numbers |->
                        IF \E i \in Bufs : bufblk[i] = u THEN -1 ELSE blockstat[u]]
     /\ Thrown(refused)
     /\ FailingIf(refused > 0)
     /\ UNCHANGED <<mem, bufblk, nextbuf, hotbuffer, requests, watchdogs, resumes, session>>

forthemptybuffers ==
  /\ Running
  /\ LET held == {i \in Bufs : bufblk[i] >= 0}
     IN /\ blockstat' = [u \in Numbers |->
                           IF \E i \in held : bufblk[i] = u THEN -1 ELSE blockstat[u]]
        /\ bufblk' = [i \in Bufs |-> IF i \in held THEN -1 ELSE bufblk[i]]
        /\ bufdirty' = [i \in Bufs |-> bufdirty[i] /\ i \notin held]
  /\ latest' = IF sound THEN drive ELSE <<>>
  /\ UNCHANGED <<drive, mem, nextbuf, hotbuffer, requests, machine, session>>

\* COLD, which clears the stacks too: new buffers are allocated where the old ones
\* were, and what waits in them is gone.  Timers and requests are left alone.
forthcoldinit ==
  /\ Running
  /\ mem' = [i \in Bufs |-> Indefinite]
  /\ bufblk' = [i \in Bufs |-> -1]
  /\ bufdirty' = [i \in Bufs |-> FALSE]
  /\ blockstat' = [u \in Numbers |-> IF u \in Blocks THEN -1 ELSE blockstat[u]]
  /\ frames' = 0
  /\ latest' = IF sound THEN drive ELSE <<>>
  /\ UNCHANGED <<drive, nextbuf, hotbuffer, requests, suspended, watchdogs, warms, resumes,
                 session>>

-----------------------------------------------------------------------------
(* What else a program does. *)

\* KEY: takes a buffered key, or waits for one.
forthkey ==
  /\ Running
  /\ suspended' = "key"
  /\ UNCHANGED <<drive, buffers, requests, watchdogs, warms, resumes, frames, latest, session>>

\* MS, or KEY? without a key: stops until a timer restarts it at ip.
forthms ==
  /\ Running /\ ~resumes
  /\ suspended' = "pause" /\ resumes' = TRUE
  /\ UNCHANGED <<drive, buffers, requests, watchdogs, warms, frames, latest, session>>

forthcatch ==
  /\ Running /\ catching /\ frames < MaxFrames
  /\ frames' = frames + 1
  /\ UNCHANGED <<drive, buffers, requests, suspended, watchdogs, warms, resumes, latest, session>>

\* The word CATCH executes returns: throw0.
forththrow0 ==
  /\ Running /\ frames > 0
  /\ frames' = frames - 1
  /\ UNCHANGED <<drive, buffers, requests, suspended, watchdogs, warms, resumes, latest, session>>

\* THROW, or a JavaScript error in a word, which ErrorEvent makes a throw of.
forththrow ==
  /\ Running
  /\ Thrown(1)
  /\ UNCHANGED <<drive, buffers, requests, watchdogs, resumes, latest, session>>

-----------------------------------------------------------------------------
(* Events, which the browser delivers only while the machine has stopped.  *)

\* A key restarts a machine that waits in KEY; otherwise it is buffered.
KeyEvent ==
  /\ suspended = "key"
  /\ suspended' = "no"
  /\ UNCHANGED <<drive, buffers, requests, watchdogs, warms, resumes, frames, latest, session>>

\* The timer MS or KEY? has set.
Resume ==
  /\ ~Running /\ resumes
  /\ resumes' = FALSE /\ suspended' = "no"
  /\ UNCHANGED <<drive, buffers, requests, watchdogs, warms, frames, latest, session>>

\* The timer exception() has set: warm, which clears the stacks.
forthwarminit ==
  /\ ~Running /\ warms > 0
  /\ warms' = warms - 1
  /\ suspended' = "no"
  /\ frames' = 0
  /\ UNCHANGED <<drive, buffers, requests, watchdogs, resumes, latest, session>>

\* Nothing restarts the machine when a CATCH takes the exception.
blockreadtimeout ==
  /\ ~Running /\ watchdogs > 0
  /\ watchdogs' = watchdogs - 1
  /\ requesting_load' = 0
  /\ throwerror(1)
  /\ suspended' = IF Uncaught(1) THEN "warm" ELSE suspended
  /\ Failing
  /\ UNCHANGED <<drive, buffers, bufferforrequest, frame, resumes, session>>

\* The frame has loaded; without a request pending, nothing happens.
UnwantedAnswer ==
  /\ ~Running /\ frame >= 0 /\ requesting_load = 0
  /\ frame' = -1
  /\ UNCHANGED <<drive, buffers, requesting_load, bufferforrequest, machine, latest, session>>

\* Mutant: without the test of requesting_load.
AlwaysRequested == TRUE

\* The answer is to a request that has not timed out.
StillRequested == requesting_load > 0

\* Mutant: the watchdog goes on.
WatchdogKept == watchdogs' = watchdogs

\* The watchdog is cleared if the machine waits for the block.
WatchdogCleared ==
  watchdogs' = IF suspended = "block" /\ watchdogs > 0 THEN watchdogs - 1 ELSE watchdogs

\* The answer goes to the first buffer in the queue.  A file that is absent
\* leaves the buffer as it was.
LoadingCompleteEvent(absent) ==
  /\ ~Running /\ frame >= 0 /\ StillRequested
  /\ absent \/ frame \in Blocks
  /\ mem' = IF absent \/ bufferforrequest = <<>> THEN mem
            ELSE [mem EXCEPT ![Head(bufferforrequest)] = <<frame, 0>>]
  /\ bufferforrequest' = SubSeq(bufferforrequest, 2, Len(bufferforrequest))
  /\ requesting_load' = requesting_load - 1
  /\ frame' = -1
  /\ WatchdogCleared
  /\ suspended' = IF suspended = "block" THEN "no" ELSE suspended
  /\ FailingIf(absent)
  /\ UNCHANGED <<drive, bufblk, bufdirty, blockstat, nextbuf, hotbuffer, warms, resumes,
                 frames, session>>

\* The frame's document cannot be read: a JavaScript error after the queue was
\* shifted and before the request was counted off, thrown by ErrorEvent.
ErrorEvent ==
  /\ ~Running /\ frame >= 0 /\ StillRequested
  /\ bufferforrequest' = SubSeq(bufferforrequest, 2, Len(bufferforrequest))
  /\ frame' = -1
  /\ WatchdogCleared
  /\ Thrown(1)
  /\ Failing
  /\ unreadable' = TRUE
  /\ UNCHANGED <<drive, buffers, requesting_load, resumes, catching>>

-----------------------------------------------------------------------------
Next ==
  \/ \E u \in Asked : forthblock(u) \/ forthbuffer(u)
  \/ StoreAndUpdate
  \/ forthsavebuffers
  \/ forthemptybuffers
  \/ forthcoldinit
  \/ forthkey
  \/ forthms
  \/ forthcatch
  \/ forththrow0
  \/ forththrow
  \/ KeyEvent
  \/ Resume
  \/ forthwarminit
  \/ blockreadtimeout
  \/ UnwantedAnswer
  \/ LoadingCompleteEvent(FALSE)
  \/ "absent" \in Mishaps /\ LoadingCompleteEvent(TRUE)
  \/ "broken" \in Mishaps /\ ErrorEvent

\* Timers fire; a user need not type, a server need not answer, and a program
\* need not do anything.
TimerFairness ==
  WF_vars(Resume) /\ WF_vars(forthwarminit) /\ WF_vars(blockreadtimeout)

SafetySpec == Init /\ [][Next]_vars

Spec == SafetySpec /\ TimerFairness

-----------------------------------------------------------------------------
(* Properties. *)

\* Types and ranges; in particular requesting_load never goes below zero, so
\* that a late answer after a timeout is not taken for a request pending.
TypeOK ==
  /\ drive \in [Local -> Contents] /\ mem \in [Bufs -> Contents]
  /\ bufblk \in [Bufs -> Numbers \cup {-1}]
  /\ bufdirty \in [Bufs -> BOOLEAN]
  /\ blockstat \in [Numbers -> Bufs \cup {-1}]
  /\ nextbuf \in Bufs /\ hotbuffer \in Bufs \cup {-1}
  /\ requesting_load \in 0 .. 1 /\ frame \in 0 .. Capacity \cup {-1}
  /\ bufferforrequest \in Seq(Bufs)
  /\ suspended \in {"no", "key", "pause", "block", "warm"}
  /\ watchdogs \in 0 .. MaxTimers /\ warms \in 0 .. MaxTimers
  /\ frames \in 0 .. MaxFrames
  /\ {resumes, catching, unreadable} \subseteq BOOLEAN
  /\ latest \in [Local -> Contents \cup {Detached}] \cup {<<>>}

\* A block the table calls buffered is in that very buffer: forthblockorbuffer
\* returns the buffer without looking at bufblk, so an entry left behind by an
\* eviction, SAVE-BUFFERS or EMPTY-BUFFERS would hand out another block's text.
MappedBack ==
  \A b \in Blocks : blockstat[b] >= 0 => bufblk[blockstat[b]] = b

\* While nothing has gone wrong, a mapped buffer shows its block as the program
\* last left it, or the server's text, also when several words and answers
\* came in between; only BUFFER leaves contents indefinite, and only a request
\* pending leaves them to come.  Of a local block that was UPDATEd in its old
\* buffer after SAVE-BUFFERS nothing is promised until EMPTY-BUFFERS or COLD.
\* "maxbufs: works with any between 1 ... maxmem".
ReadsAreCurrent ==
  sound =>
    \A b \in Blocks \ detached :
      LET i == blockstat[b]
      IN i >= 0 =>
           mem[i] \in IF b \in Local THEN {latest[b], Indefinite}
                      ELSE {<<b, 0>>, Indefinite}
                           \cup (IF requesting_load > 0 THEN {Awaited} ELSE {})

\* The buffers that would be written to block b.
DirtyOf(b) == {i \in Bufs : bufblk[i] = b /\ bufdirty[i]}

\* No update is lost: what the program last made of a block is in every dirty
\* buffer that would be written to it, mapped or not, else on the drive.  Again
\* without the blocks UPDATEd after SAVE-BUFFERS and not read anew.
LatestIsHeld ==
  sound =>
    \A b \in Local \ detached :
      IF DirtyOf(b) = {} THEN drive[b] = latest[b]
      ELSE \A i \in DirtyOf(b) : mem[i] = latest[b]

\* A buffer that is UPDATEd is the one BLOCK gives for its block: "If block u is
\* already in a block buffer, a-addr is the address of that block buffer"
\* (dpans-1994).  It fails with two buffers and nothing gone wrong: SAVE-BUFFERS
\* has forgotten the buffer that UPDATE then marks.
UpdatedIsFound ==
  sound => \A i \in Bufs : (bufdirty[i] /\ bufblk[i] \in Local) => IsMapped(i)

\* While nothing has gone wrong, a request pending, a machine waiting for its
\* block, a queued buffer and a running watchdog come together: no watchdog is
\* left to fail a later word, no answer finds the queue empty.  After timeouts,
\* late answers and other failures too, a pending request, which refuses every
\* other one, has a watchdog that ends it and a buffer queued for its answer,
\* until an answer could not be read.
WatchdogPerRequest ==
  /\ sound => /\ watchdogs = requesting_load
              /\ (requesting_load = 1) = (suspended = "block")
              /\ requesting_load = Len(bufferforrequest)
  /\ ~unreadable => /\ requesting_load <= watchdogs
                    /\ requesting_load <= Len(bufferforrequest)

\* A machine that waits for anything but a key has a timer that restarts it,
\* in sessions without CATCH, after every mishap too.  (With a CATCH the
\* timeout of a block leaves the machine stopped for good.)
SomethingWakes ==
  ~catching =>
    /\ suspended = "block" => watchdogs > 0
    /\ suspended = "pause" => resumes
    /\ suspended = "warm" => warms > 0

\* A program that waits for a web block is continued or restarted, whether the
\* server answers, answers late, answers something unreadable, or never does.
ReaderResumes == (suspended = "block" /\ ~catching) ~> Running

=============================================================================
