# A verification project for Post4

Post4 (`src/`) is a Forth system: a C interpreter (`src/post4.c`, `src/post4.h`, `src/main.c`,
`src/aline.c`, `src/hooks.c`), most of its words written in Forth (`src/post4.p4`), a few
libraries (`lib/post4`) and a Java binding (`jni`). Beside it the repository keeps a second Forth
system, JS-Forth (`reference/jsforth.js`), which runs in a web page. This directory holds TLA+
modules that model parts of both, TLC configurations that check them, and TLAPS proofs.

Paths below are relative to the repository; line numbers are those of the commit the modules were
written from. `PROJECT.json` maps every definition to its lines.

## 1. Inventory

| part | state it keeps | operations | hard part | what makes it correct |
|---|---|---|---|---|
| Block words (`post4.p4:1764-1947`) | one buffer cell with number, state and data; the block file and its position; buffers suspended by `LOAD` | `BLOCK BUFFER UPDATE SAVE-BUFFERS FLUSH EMPTY-BUFFERS OPEN-BLOCK CLOSE-BLOCK LOAD THRU` | order of calls, nested loads, partial failures, SIGINT in the middle | a block's content reaches that block and no other; no update is lost but by request; nested loads restore the right buffer |
| Block editor `ED` (`lib/post4/ed.p4`) | `SCR`, cursor, the block words' buffer | a loop: redraw, one key | each redraw is a `BLOCK` | what was edited reaches the file |
| Input sources and exceptions (`post4.p4:663-695, 1886-1937, 2051-2069`, `post4.c:1443-1597`) | chain of input sources, `catch_frame`, return stack | `EVALUATE INCLUDED LOAD CATCH THROW ABORT QUIT` | exceptions through nested texts, QUIT inside a text, signals | after any exception the right text goes on, with live buffers and closed files |
| Nested C interpreters (`p4EvalFile`, `p4EvalString`, JNI) | `ctx->longjmp`, C-stack copies of the input source | evaluate a file or string from C | returning from an inner `p4Repl` by an exception | no jump into a dead frame |
| Signals (`post4.c:2744-2804`, `main.c:108-142`) | `sig_break_glass` | SIGINT, SIGSEGV become exceptions | a jump out of any instruction | the interpreter's state stays usable |
| Dictionary (`post4.c:714-842`, `post4.p4:2869-2905`) | data space, wordlists, search order, hidden definition | create, append, `ALLOT`, `MARKER`, discard on error | marker and discard with several lists | lists name live words, data space covers them |
| Compiler, control flow (`post4.p4:2199-2307` and before) | data stack at compile time, LEAVE stack, branches | `IF BEGIN CASE DO LOOP +LOOP LEAVE` | nesting, resource bound, index wrap | each branch resolved once, loops run the defined number of times |
| Stacks (`post4.c:872-896, 1055-1099`) | base, top, size, sentinels | grow, check, reset | moving stacks while words run | overflow and underflow are noticed |
| Double-cell arithmetic (`post4.c:376-630`) | none | multiply, divide, add | normalisation, carries, signs | equals arithmetic on integers |
| Line editor (`aline.c`) | line, cursor, history ring, terminal mode | keys | boundaries of line and ring | line and cursor fit the buffer |
| Parsing, numbers, strings, memory, files, floats, terminal, tools, hooks, libraries | little or none | sequential words | - | covered by the repository's tests |

JS-Forth is one file, and its parts are these:

| part | state it keeps | operations | hard part | what makes it correct |
|---|---|---|---|---|
| mass storage, events, exceptions (`jsforth.js:3084-3440` and the event handlers) | drives (cookies, RAM, a web server), `maxbufs` buffers and the table `blockstat` of which block is where, requests to the server, browser timers, whether the machine is suspended | `BLOCK BUFFER UPDATE SAVE-BUFFERS FLUSH EMPTY-BUFFERS COLD KEY MS CATCH THROW`, answers, the watchdog, warm start | answers that come late, twice or not at all; a handler that goes on after it threw | the block asked for is the one returned, no update is lost, and the machine wakes up |
| stacks | `s sp tos r rp` | the words that move items | the top of the stack is cached | the stack effects the words are described with |
| control structures | code under construction, the data stack meanwhile, the return stack | `IF BEGIN CASE FOR DO LEAVE ...` and the words they compile | nesting, offsets through operands | a branch lands on a word, a loop takes its parameters with it |
| heap | chunks and the tables of them | `ALLOCATE FREE` | splitting, merging, moving table entries | the heap is tiled by its chunks |
| terminal | lines on screen, the line `ACCEPT` edits | `TYPE CR EMIT`, keys | breaking, scrolling, deletion | counts and echo agree with the text |
| arithmetic, number conversion | none | division, shifts, doubles, `#S`, `?NUMBER` | cells are JavaScript numbers | equals arithmetic on integers |
| floating point | `f ftos` | the float words | two stacks, each with its top in a variable; floats and 32-bit cells | stack effects, order of operands, conversions |
| dictionary | headers, search order, markers | defining words, `ONLY ALSO FORTH PREVIOUS DEFINITIONS` | markers and hidden words | a marker forgets what it says |
| input sources | text, position, `BLK`, saved positions, return stack | `QUIT EVALUATE LOAD CATCH THROW` | three stacks kept in step | a text returns to its caller |

How they interact: the outer interpreter reads words from the current input source and runs them;
`LOAD` makes a block buffer an input source, so the block words and the input sources share the
`CATCH` that ends a text; `THROW` in Forth and `LONGJMP` in C both end in `p4Repl`
(`post4.c:1443-1515`); signals jump there from anywhere; `ED` is a program on top of the block
words, and `QUIT` leaves all of this at once.

In JS-Forth everything runs in one JavaScript thread. The virtual machine runs until a word
suspends it (a key, a pause, a web block, an error), and a browser event starts it again; so
the interleavings are those of words between two suspensions with events. Exceptions
(`throwerror`) meet the storage words, because a handler that throws is not left. The other parts
are words that run to their end, and meet only through the two stacks and the dictionary.

## 2. Modules

| module | models | uses |
|---|---|---|
| `BlockBuffer` | the block words, any program, faults | - |
| `BlockStore` | the abstract store of numbered blocks a program relies on | - |
| `BlockClient` | `BlockBuffer` under a careful program, and the refinement to `BlockStore` | `BlockBuffer`, `BlockStore` |
| `Block_proofs` | theorems about `BlockBuffer`, and the refinement of `BlockStore` by `BlockClient` | `BlockClient`, TLAPS |
| `Editor` | `ED` as a client of the block words | `BlockBuffer` |
| `Interp` | input sources, `CATCH`, `THROW`, uncaught exceptions, `QUIT`, signals | - |
| `Interp_proofs` | theorems about `Interp` | `Interp`, TLAPS |
| `Dictionary` | words, word lists, data space, the discard of a failed definition, quotations, `MARKER` | - |
| `Dictionary_proofs` | theorems about `Dictionary` | `Dictionary`, TLAPS |
| `JsStorage` | JS-Forth's block words, requests, timers, suspension and exceptions | - |
| `JsStorage_proofs` | theorems about `JsStorage`: types, the table, timers, requests, what a read returns | `JsStorage`, TLAPS |
| `JsStack`, `JsControl`, `JsHeap`, `JsConsole`, `JsMath`, `JsNames`, `JsSources` | one part of JS-Forth each | - |
| `JsFloat` | JS-Forth's float stack beside the data stack | `JsStack` |
| `JsStack_proofs` | theorems about `JsStack` and `JsFloat` | `JsFloat`, TLAPS |
| `JsHeap_proofs` | theorems about `JsHeap` | `JsHeap`, TLAPS |
| `JsControl_proofs` | theorems about `JsControl` | `JsControl`, TLAPS |
| `JsWords_proofs` | theorems about `JsNames`, `JsConsole`, `JsSources` and `JsMath` | those four, TLAPS |
| `MCJsForth` | those eight in one run | all eight |
| `MC...` | each module with the values its configuration gives | |

### BlockBuffer

| variable | in the code |
|---|---|
| `disk` | the block files' contents, as sequences of blocks |
| `fd`, `pos` | `ctx.block_fd`, and that `FILE`'s position in blocks |
| `bufs` | the `p4_block` structures; the last is `ctx.block` |
| `loads` | for each `LOAD` in progress, the buffer pointer it left on the return stack, and `BLK` |
| `console` | the buffer a `QUIT` inside a loaded text left as the terminal's input buffer |
| `stale` | whether `ctx.block` leads to a freed buffer, or `ctx.block_fd` to a closed file |

Every word is an action: `AccessHit`, `BlockMiss` and `BufferMiss` are the paths of
`_block_or_buffer`; `BlockReadFails` and `SignalInAccess` its failures; `LOAD` is `_input_push`,
`_block_push`, `BLOCK` and the entry into `_interpret`; `LeaveLoads(j)` is the end of the text, or
an exception caught in the `j`-th load's text, with the `_block_pop`s on the way; `LoadFails` is an
exception in the prologue, before `CATCH`, where nothing pops the new buffer, and `SignalInLoad` a
SIGINT there. `Store(d)` is the program writing through the address it was given.

SIGINT leaves any word by a jump. `WriteBroken` is the one inside `_block_write`, or an exception of
its own: some of the blank blocks of `_block_grow` are in the file, or all of them, or the
buffer too, and the buffer keeps its state. `SignalBeforePop` is SIGINT in `LOAD`'s
epilogue, before `_block_pop`. Two points are worse. Between `_block_pop`'s `FREE` and the store of the outer
pointer (`post4.p4:1908-1909`) a signal leaves the freed buffer current (`SignalInPop`), and between
`CLOSE-BLOCK`'s `CLOSE-FILE` and the store (`1866-1867`) it leaves the closed file open
(`SignalInClose`); a program's `CATCH` goes on with that. What its next block word does with it is undefined in C, so the
model takes the step, and then follows the process no further than to its end (`Restart`). `LoadsNested`
excepts the first by name: the next `LOAD` would suspend the freed buffer, and return to it.

The words that save write the buffer in any state, dirty or not, contrary to `doc/block.md:70` ("Save all the dirty
block buffers"); a buffer that is assigned to no block lands wherever the file position is, and
`OnlyAssignedBlockChanges` says just where.

Abstracted: a block's content is one value, with one value each for blanks, the zeros of a hole in
the file, a buffer `ALLOCATE` left uninitialized, and mixtures. The stdio buffer is not modelled as
a state of its own; a lost `fflush` appears as a write that does not happen (`"write"` in `Faults`),
since its error return is dropped at `post4.p4:1785` and `1837`. So a file is here what stdio would give back
of it, and `FILE-SIZE` is taken to count all of that. In the code it is `fstat`'s (`post4.p4:1806`), which is
too small by what is not flushed: after `BUFFER` has evicted a dirty buffer that is assigned to no block, past the
end of the file, the next `_block_grow` writes a blank over it. A file opened twice, and a process that is killed, are
other ways to lose what stdio holds. A file has whole blocks only.

`BlockClient` restricts the program, one clause per operation, to what `test/block.p4` does: a
store is followed by `UPDATE`, a dirty block is not fetched again before it is saved, nothing is
saved while no block is assigned, files are opened outside `LOAD` with a free buffer. Each clause is
there because `BlockBuffer` breaks the store without it; `doc/block.md` mentions none of them.
`ImplementsStore` maps `latest` to the file with the dirty buffer applied, `saved` to the file, and
`shown` to the buffer.

### Editor

`ED` is `screen` (redraw: `SCR @ LIST`, so `BLOCK`) then `command` (one key). Keys that only move
the cursor are `OtherKey`. The history variable `edited` remembers what the user last made of each
block.

### Interp

| variable | in the code |
|---|---|
| `inputs` | the `P4_Input` structures, the last being `ctx->input` |
| `acts` | the return stack, as the words in progress: `EVALUATE`, `INCLUDED`, `LOAD` (before, inside or after their own `CATCH`) and a program's `CATCH` |
| `frame` | `ctx->frame` (`catch_frame`), as an index into `acts` |
| `open` | files `INCLUDED` has opened and not closed |
| `process` | running, `"wild"` when `ctx->input` leads to a freed source, or how `post4` ended |
| `session` | script or terminal, and which mishaps may happen, fixed in a behaviour |

`Begin`, `Enter`, `TextEnds` and `Finish` are the four stretches of `execute-parsing`,
`include-file-path` and `LOAD` between the points where something else can happen; `Thrown` is
`THROW`: to the frame if there is one, else to `p4Repl`'s `_thrown` switch. `QUIT` is the C label
`_quit`. Which number is thrown is left out, since nothing here depends on it.

Two signals strike between a call and the store after it: `SignalAfterClose` in `INCLUDED`, with the file closed and its
source still current, and `SignalInPop` between `_input_pop`'s `FREE` and the store of the outer source
(`post4.p4:1896`). After the second a program's `CATCH` goes on with a freed source, and the next
`EVALUATE` would save it as the one to return to; `process` is then `"wild"`, nothing is followed
further, and `ReturnsToLiveInput` excepts it by name.

### Dictionary

| variable | in the code |
|---|---|
| `lists` | `ctx.lists`: each list as a sequence of words, the head last; a word is its address, `data` and its hidden bit |
| `current` | `ctx.active`, as a wid |
| `here` | `ctx.here`, in cells above the system's own words |
| `open`, `enclosing` | the data stack at compile time: the colon-sys `;` checks, and the definitions `[:` took off the list |
| `marks` | what each marker that can be run saved in its data: the heads of all lists, `HERE`, the current list |
| `process` | running, `"hung"` in `p4Repl`'s handler, or `"undefined"` after `_free_words` passed the end of a list |
| `uses` | what the session may do, fixed in a behaviour |
| `before` | history: the dictionary just before each live marker, and each word being compiled, was created |

`Uncaught` is `p4Repl`'s `_thrown` switch with its discard; `Kept` is every way past it: a `CATCH`,
`ABORT` and SIGINT, which enter the switch below the discard (`post4.c:1487-1492`). `Thrown` is
their disjunction, and each word that can fail ends in it with the lists and `HERE` it had reached:
`CREATE` without room for its cell, `MARKER` part way through its `,`s, `;` without room, `;]` after
the quotation was shown or after the definition was put back. `RunMarker` is the `DOES>` part of
`MARKER`: `HERE`, the current list, then every list cut down to its saved head. A marker whose cells
were released and written over leaves `marks` (`Surviving`): what running it would do is not
defined by the code.

What a program does is restricted as standard Forth restricts it: inside a definition no defining
word but a quotation, no change of the compilation list, `[:` closed by `;]` before `;`. `STATE` is
not a variable, since `[` and `]` may change it anywhere in a definition and the discard
deliberately does not look at it. The session is a terminal; addresses freed are used again.

A session with `"break"` may leave a definition by `ABORT`, SIGINT or a `CATCH` around it, and may
interrupt a marker between two lists. Nothing but the type is claimed of such sessions: the hidden
word left behind is discarded, and `HERE` rewound, by whatever error comes next, and an interrupted
marker leaves markers whose stops are freed. With quotations, what is left of a failed definition is
the finding of `dictionary_discard`; so `WordsBelowHere` and `DiscardRestores` are about sessions
without them.

### JsStorage

| variable | in the code |
|---|---|
| `drive` | the cookie and the RAM drive, block by block; the web drive never changes |
| `mem`, `bufblk`, `bufdirty` | contents of the buffers, the block of each, its update flag |
| `blockstat` | the buffer a block is in, or -1 |
| `nextbuf`, `hotbuffer` | the buffer used last for a new block, the buffer `UPDATE` marks |
| `requesting_load`, `bufferforrequest`, `frame` | requests counted, the queue of buffers they are for, the block the data frame is loading |
| `suspended` | why the machine has stopped: a key, a pause, a block, a warm start |
| `watchdogs`, `warms`, `resumes` | the browser's pending timers |
| `frames` | `CATCH`es in progress |
| `latest` | history: the local blocks as the program sees them; empty once something has gone wrong |
| `unreadable` | history: an answer could not be read |

A word or an event handler is one action: nothing else runs in between. `throwerror` returns to the
handler that called it, which goes on with the code it threw as its number; `TosAfter` says what is
on the stack then, and `forthblock`, `BUFFER` and `SAVE-BUFFERS` go on from there as the code does,
throwing a second time where it does. `LoadingCompleteEvent`, `UnwantedAnswer` and `ErrorEvent` are
the answers: wanted, too late, unreadable. `COLD` starts again from anywhere the program is running.

A program stores into the buffer it was given and calls `UPDATE` (`StoreAndUpdate`), which marks
`hotbuffer` whatever the table says of it. After `SAVE-BUFFERS` the table gives no block that buffer any more, so
what is stored and `UPDATE`d then is in a buffer no `BLOCK` finds: this is the finding of `js_storage_save`. The
history calls such a block detached until it is read anew, and `ReadsAreCurrent` and `LatestIsHeld` are about the
other blocks. Both are about a session up to the first thing that goes wrong, timeouts included; what
`WatchdogPerRequest` says of pending requests goes on through timeouts and late answers. Contents are a
block's number and one bit. The text inside a block and the cookie's encoding are left out.

### The other JS modules

They share no state, but for the data stack, which floats use too; so `MCJsForth` chooses in
`part` which of them a behaviour is about, and its
actions leave the others' variables alone.

- `JsStack` (also the base of `JsFloat`): `StackWord` gives the assignments to `s`, `sp`, `tos`, `r`, `rp` of each word;
  `Described` and `CountedEffect` are the effects the words are described with, on plain sequences.
  `rdrop` is described as leaving an item and leaves none (`jsforth.js:1088-1090`); `Effects` is what the words do.
- `JsFloat`: a float is `<<n>>`, or the function and the floats it was applied to, so that operands
  in the wrong order are told apart. All words are modelled as they are; `FloatEffectsHold` is about
  those that do what they are described to do (`AsDescribed`), whatever the others have left.
- `JsControl`: a definition is compiled word by word, in any order that `Throws` does not stop, with
  the tags and addresses on the data stack (`cs`), ended at any point, since `;` looks at no tag (`jsforth.js:4838`),
  and run with every branch taken either way. A structure left open has its operand 0: a branch or
  `LEAVE` there takes the operand for a word, and the model stops; a loop left open leaves its parameters for
  `unnest`. `LandsOnWords` and `LoopsUnwound` except just these (`LeftOpen`, `innerloop`).
- `JsHeap`: chunks with headers, the tables of used and free chunks, growth at `heapend`.
- `JsConsole`: the lines on screen with their counts, and `ACCEPT`, key by key.
- `JsMath`: each word as a function of cells of `MathBits` bits, through the operators the code
  uses (`Signed` and `Unsigned` for `|0` and `>>>0`), called on all cells or on `Corners`. Numbers
  have `Mantissa` significant bits, 53 in the code: `Rounded` is what becomes of a product, and of each
  sum of `?NUMBER`, that needs more, and `Ratio` of the quotient of one.
- `JsNames`: headers with their vocabulary, the search order, what a marker keeps.
- `JsSources`: `QUIT` evaluates a line; words of a text evaluate strings, load blocks, catch and
  throw. `frames` is the return stack, `sourceid` the stack of saved positions, beside it.

The code does some things its users would not expect; the models have them, and a property is about
the rest:

- A negative quotient that is exact and below -1 is one too high (`-4 2 /` is -1). `D+` loses the
  carry when the low cells add up to 2^32. `UM*` and `M*` are wrong for products that need more than
  32 bits or operands with the sign bit; `UM/MOD` is right for divisors up to 2^30 that are above
  the high cell; `D<` compares low cells as signed. `+` does not wrap, so `0<` of 2147483648 is
  false. `*` and `*/mod` multiply before they mask, so a product from 2^53 up has lost its low bits
  (`jsforth.js:1756`, `1816`); so has a number of that size that `?NUMBER` reads (`2568-2573`): of the digits `#S`
  writes of -1 -1 it makes 0. (`SinglesExact`, `DoublesExact` and `NumbersReadBack` state where results are right.)
- `FREE` sorts addresses as text; `ALLOCATE` tests the address of `fittype` and so always takes the
  best fit.
- `(marker)` restores the headers and `HERE`, not the search order, the vocabulary bits or the heap.
  `PREVIOUS` of an empty stack makes the context undefined; `HIDE` clears the immediate bit; a
  definition that throws stays hidden.
- `EVALUATE` leaves `BLK`, so a string evaluated by a block, after it has `LOAD`ed, goes on in that
  block. `CATCH` restores neither the source nor `BLK`, and leaves a saved position; uncaught errors
  leave theirs until a cold start. (`SourceReturns` leaves these two callers out.)
- `ENDCASE` with an `OF` open stores through a tag before it throws. `+LOOP` with step zero leaves.
- `f=`, `f<>`, `f>`, `f<` leave their second operand in `ftos` (`jsforth.js:3651`), though described
  as `r1 r2 -- f`. `fdepth` stores `tos` by `s[sp++]` (`jsforth.js:3753`), so it loses an item of a
  data stack that is not empty. `f>d` of a negative number is one too high in its high cell, and
  `d>f` adds the low cell as signed. (`AsDescribed` excludes these.)
- A timeout of a web block that a `CATCH` takes leaves the machine stopped.

## 3. Runs

| run | expects | shows |
|---|---|---|
| `block_buffer` | pass | any program and all faults: type, nested loads, no suspended update, a write reaches only its block, files grow by blanks |
| `block_client` | pass | the careful program sees the abstract store (refinement); clean buffers agree with the file |
| `editor` | violation | `ED` loses edits when moving to another block, contrary to `doc/block.md:40` |
| `interp` | pass | frame chain, live input sources, one source per text, files closed, the prompt survives |
| `interp_throw` | violation | after an exception from `LOAD`'s `BLOCK`, `CATCH` leaves `LOAD`'s input source current, contrary to `doc/standard.md:1020` |
| `dictionary` | pass | the hidden word is the open definition, words' data is below `HERE`, markers find their stops and restore the whole dictionary, a failed definition leaves nothing |
| `dictionary_hang` | violation | with an empty list current, an uncaught exception loops in `p4Repl`, contrary to `doc/standard.md:1022` |
| `dictionary_discard` | violation | an exception after `[: ... ;]` leaves the quotation above `HERE`, contrary to the comment at `post4.c:1467` |
| `js_storage` | pass | the table of buffers agrees with the buffers; reads are current and no update is lost while nothing has gone wrong, but for blocks `UPDATE`d after `SAVE-BUFFERS`; requests, queue, watchdog and suspension come together; a machine that waits has its timer, and whatever fails, a reader of a web block is continued or restarted |
| `js_storage_save` | violation | with two buffers and nothing failing, `UPDATE` after `SAVE-BUFFERS` marks a buffer that `BLOCK` does not give, contrary to the standard the words are described with (`dpans-1994/DPANS-1994.txt:4422`) |
| `js_storage_bufs` | violation | with three buffers, a block read, saved and read again shows old text, contrary to the comment on `maxbufs` at `jsforth.js:50` |
| `js_words` | pass | for the eight word sets: branches land on words and loops are unwound; the heap is tiled, numbered and merged; screen and echo agree with what is stored; arithmetic agrees with integers where stated and numbers read back; stack effects, also of float words; markers; texts return to their callers |

Bounds. `MaxBlock = 2`: block one has a neighbour on each side that matters (the next block; the
end of the file), and a gap of one missing block exists; `MaxDepth = 3` buffers: two nested loads,
one of which may be inside the other's failure. One file and one content suffice for `block_buffer`
because its properties relate positions, not different contents, and the special contents share one
value `Garbage`; `block_client` has two files and two contents, so that data of the wrong file or an
old version is told apart. `MaxActs = 4`, `MaxInputs = 5`: a program's `CATCH` around and between
two texts, and one leaked source on top. The bounds are guards of the actions that would exceed
them; nothing else mentions them, except that `pos` and `disk` stay within `MaxBlock` by `Bounded`.

In `dictionary`, two lists and three words are what an inner and an outer marker with a word of
another list between them need; seven cells hold a definition with one quotation exactly (six
cells, and the last is never given out), or three markers, so data space runs
out at every word. Words' addresses are symmetric: nothing compares them but by equality. Deadlock
is not checked there, since the process may hang.

In `interp` the properties about a session free of mishaps and those about any session are in one
run, since `session` is chosen in `Init`. Deadlock is not checked there: the process may end.
In the JS runs it is not either: a program may have used up its bounds. In `block_buffer`,
`block_client` and `editor` it is checked.

In `js_storage`, two local blocks and a web block compete for the source's two buffers, so each
eviction pattern occurs; a third buffer is what the finding needs. One `CATCH` and one timer of a
kind are enough for a throw caught and a second one not, and for a watchdog that fires before,
after or without the answer. The mishap that is left out, `UPDATE` of a buffer without a block
(`"unmapped"`), triples the states, which fairness does not leave time for: TLC found nothing with it but without `ReaderResumes`,
and the theorems of `JsStorage_proofs` are about all mishaps. It touches neither the machine nor a timer.

In `js_words`, the numbers are the smallest at which every disjunct fires and the properties'
interesting cases happen. Stacks of six items (`StackCells = {0, 3}`: zero for `?DUP`, three for what `DEPTH` gives) hold the longest
effects, `2OVER`'s. `MaxCode = 8`, `MaxOpen = 6` fit two nested `DO` loops
with a `LEAVE` between, or a `CASE` with one `OF`, closed or left open at any point; a second `OF` would take nine cells and was not
run. Eighteen heap cells hold chunks of one and of four cells in every order, so that `FREE`
merges a chunk with both its neighbours. Lines of two characters and a screen of two break and scroll within one `ACCEPT` of
three keys. Cells of six bits are called on all values by single-cell words, on `Corners` (the
extremes, their neighbours, small numbers) by double-cell ones, and `Mantissa = 9`: two more than the sum of two cells needs, so that products of two cells
(up to eleven bits) and doubles (twelve) are rounded as those of 32 bits are with 53. Two headers and one vocabulary
besides the system's are two markers, one inside the other, or a marker and a hidden word. Texts of
two words, one string and two blocks nest as deep as six frames of the return stack allow.

Float words have cells of three bits and the numbers -1, 0 and 27: 27 takes both cells of a double,
with `FloatBits` as the width. Three floats are `fover` of two; one function is applied at a time,
before the data stack was used (`InBounds`), since what it was applied to moves like any float.

Fairness. Post4's modules assume none and claim no liveness: nothing obliges a Forth program to go
on calling words, and the code has no scheduler. `JsStorage` assumes weak fairness of `Resume`,
`forthwarminit` and `blockreadtimeout`: each is a function given to the browser's `setTimeout`, and
it runs once its time has come and the machine has stopped. Nothing is assumed of a user's keys, of
the server or of the program. `ReaderResumes` rests on the watchdog alone: the server may be silent.

What the violation runs of Post4 show was also observed on the built program.

## 4. Proofs

`Block_proofs` proves, from `BoundsAssumption`, `VolumesAssumption` and `FaultsAssumption`
alone, for any set of files and contents and any bounds:

- `TypeCorrect`, `LoadsStayNested`, `NoUpdateSuspended`: the three invariants of `block_buffer`, the second with
  its exception;
- `OnlyAssigned`, `GrowsOnlyByBlanks`: its two action properties, for a `_block_write` broken off anywhere.

The inductive invariant is `TypeOK /\ Nested /\ SuspendedAreSaved` (`Nested` is `LoadsNested` without its
exception, of the loads that are left). `TypeOK` alone is not
enough, because a load that returns to a depth beyond the buffers would leave `bufs` undefined;
`Nested` bounds every return depth, and `SuspendedAreSaved` needs it to know that a pop
uncovers a buffer below the top. The lemmas are in three layers: what the file operators return
(`GrownType`, `PutAtType`, `WriteType`, `BrokenType`, `ReadType`), what replacing the top buffer, catching an
exception or changing only the file preserves (`TopStep`, `CaughtStep`, `DiskStep`), and one lemma
per group of words. The action properties need the type invariant and `DiskChange`, which says
what any action can do to `disk`.

`Interp_proofs` proves, from `BoundsAssumption` and `MishapsAssumption` alone, for every nesting of
texts and CATCHes, all six properties of the `interp` run: `TypeCorrect`, `FramesStayChained`,
`SourcesStayLive` (with its exception, a freed source left current), `InputsStayMatched`,
`FilesGetClosed`, `ThePromptSurvives`.

Here the inductive invariant is the conjunction of the six, with `LiveInputs` for
`ReturnsToLiveInput`: a process with a freed source goes on nowhere, so no step relies on the exception. They hold each other up:
`ThePromptSurvives` needs `InputsMatchTexts`, because an exception without a frame reaches the
terminal only if the input source left is the first one; that needs `FrameChain`, because only then
does `THROW` cut the return stack just above the innermost CATCH, so that the text whose CATCH it
is still pops its source; and `_input_pop` yields an input source at all because of
`LiveInputs`. The lemmas say each part of any return stack and any input sources (`Chained`,
`Live`, `Matched`, `Files`), show what pushing, replacing and cutting the last activation does to it
(`PushChain`, `LastChain`, `PrefixChain`, `PushInputs`, `PopInputs`), and then `ThrownShape` and
`ThrownStep` treat THROW once for the five actions that may throw. `FilesClosed` and
`PromptSurvives` state more than a reader of the code would ask for (`open >= ...` with mishaps,
`inputs[1] = "term"`), which is what makes them inductive.

`JsStorage_proofs` proves, from the module's four assumptions on its constants alone, for any drives,
any number of buffers and all mishaps:

- `StorageTypes`: types and ranges, so `requesting_load` never falls below zero however late an
  answer is;
- `StorageMapped`: what the table calls buffered is in that very buffer. The finding with three
  buffers is old text of the right block, never another block's;
- `StorageAwake`: without `CATCH`, a suspended machine has the timer that restarts it.

The inductive invariant is `TypeOK`, `MappedBack`, `SomethingWakes` and `NoFrames` (a session
without `CATCH` has no frame of one), which is what makes every throw in such a session end in a
warm start with its timer. The proofs keep the table apart from the machine: a lemma per word says
what it does to the buffers, another what it does to suspension and timers. `LastExists`, from
the well-foundedness of the naturals, says that the buffer `SAVE-BUFFERS` writes last exists.

From that invariant it goes on to:

- `RequestsInStep`, for any number of buffers: while nothing has gone wrong, request, queue,
  watchdog and the machine that waits are there together (`Together`); after timeouts, late answers and failures too
  a pending request has a watchdog and a queued buffer, until an answer could not be read
  (`Watched`, inductive by itself). The strengthening says of each timer whose it is (`OwnTimers`);
- `UpdatesAreHeld` and `ReadsStayCurrent`, for at most two buffers (`MaxBufs <= 2`; the code
  has 2, `jsforth.js:50`): an update is not lost and a read returns the latest text, in every order of
  words and answers up to the first failure or timeout, but for the blocks `UPDATE`d in a buffer that
  `SAVE-BUFFERS` had taken off the table. Such a block is promised nothing, and the proof shows
  that it disturbs no other. The invariant is `Current`. Its part
  `StrayIsNext` is where the number matters: a changed buffer that the table no longer gives for
  its block is the very next one to be evicted, and its block is in no other buffer. With three
  buffers another can come between, which is the finding of `js_storage_bufs`.

`Block_proofs` also proves, when no file operation fails (`Faults = {}`, as the `block_client` run
has it), for any files, blocks, contents and depth of `LOAD`s:

- `CleanStaysCurrent`: a clean buffer in reach holds what the file holds;
- `BlocksImplementStore`: the words of a careful program implement `BlockStore`.

The invariant adds to that of `BlockBuffer` that free buffers are those without a block, and
that a dirty buffer's block waits in no suspended `LOAD`. Then each word is one of five kinds by the
buffer it leaves: it looks at a block (`Looks`, a `Read` of the store), lets the buffer go (`LetsGo`,
a `Save`), changes it (`Changes`, a `Put`), forgets it (`Forgets`, a `Discard`) or leaves file and
buffers alone. One lemma per group of words finds its kind, and one per kind refines it. What makes
it work is `WrittenIsUpdated`: `_block_write` of an assigned buffer is the store's update.

`Dictionary_proofs` proves all six properties of the `dictionary` run, for any number of lists,
words, cells, released cells and quotations inside one another, from its three assumptions on the constants
(there is a list, a cell, and addresses are none of the two special words):

- `TypeCorrect`, `HiddenStaysOpen`, `WordsStayBelow`, `StopsLiveAlways`: its invariants;
- `MarkersRestore`, `DiscardsRestore`: its action properties.

The inductive invariant is `IInv`. None of the properties holds itself up. That a marker stops
(`StopsStayLive`) follows from `Marked`, by which the words there were before a live marker still
begin every list, and are none that is being compiled (`Lower`); this survives a second marker's run only because of `Nested`:
of two live markers the older one saw a prefix of what the younger one saw, in every list. That
needs `Distinct`, since markers are told apart by their addresses, which are used again. That the discard hits the
open definition needs `HiddenIsOpen` with `Compiled`, for `;]` puts a definition back as the
head; and `Begun` is what `DiscardRestores` compares with. `Sound` is about sessions without
`"break"`, `Ordered` about those with no use in `uses`. An uncaught exception
can come from any failing word, so the proof does not go by words: `StepEffects` finds
for every step which of seven `Effects` it has on the lists (`Stays`, `Adds`, `Shows`, `Pops`,
`Opens`, `Closes`, `Cuts`), failures included, and one lemma per effect preserves the invariant.

`JsHeap_proofs` proves the three invariants of the heap, for any sizes (`ChunkSizesAssumption`:
naturals, zero too) and any number of chunks: `HeapStaysTiled`, `HeadersStayRight`,
`FreeStaysMerged`. Like the model they take the order in which `FREE` sorts addresses to be that of
numbers, so they are about heaps whose addresses have the same number of digits.

The inductive invariant says the tiling between neighbours: chunks are inside the heap, of two the
lower ends before the other's header, and each cell is some chunk's (`Tiled`). The tables list each
chunk once (`Listed`), without which the move of the last entry by `FREE` would lose one. `FREE` is
followed through the runs of neighbours it merges: each free chunk belongs to the run of a head
(`HeadBelow`), a run ends where its last chunk does (`RunFacts`), and runs do not meet
(`RunBefore`); so the merged chunks tile what the runs did (`MergedTiled`). Of all merged chunks at most the last
can be at the heap's end, and it is given back (`CutTiled`).

`JsWords_proofs` proves that JS-Forth's markers forget what they say (`MarkersAlwaysForget`), for any number of headers,
vocabularies and markers inside one another: a marker that is still a header keeps what is before
it (`KeptIsBefore`), since headers change by appending, by cutting at a marker and in the bits of the last one only.

It proves both properties of the terminal, for a screen of any width and height, any terminal
buffer, keys and texts (`ScreenAssumption`: at least one line of one character;
`TypedAssumption`: texts are of characters). `ScreenStaysCounted` is inductive nearly as it stands
(`Fits`), but `type` leaves it in between: the text is put on the last line first, and
a loop then breaks that line. The lemmas follow the loop turn by turn: each takes one line's
width off the last line and keeps the rest (`BrokenCounted`), so the number of turns computed
beforehand is the number needed (`BreaksFacts`, `TypeCounted`). That its recursive function is the one
defined is shown by the least turn where it would not be (`TypeTurns`). `EchoStaysInput` follows the
keys: the room left and the input add up to what was asked for, a key is shown at the end of the
last line (`PrintableStep`), and a deletion cuts the same number of characters off both
(`BackFits`, `DeletedStep`), until a line breaks.

And it proves `SourcesAlwaysReturn`, for any texts, blocks and nesting. The invariant finds in the return
stack one level per text in progress: the frame of its `EVALUATE` and below it those of `LOAD` and
`CATCH`, if there are (`Levels`). From the top down each level's caller is the next saved position
(`Rejoined`), and its BLK the one the `LOAD` kept or, without `LOAD`, the level's own. Calls push a
level (`PushedLevel`), the end of a text pops one (`PoppedLevel`); after a caught exception the saved
positions are no longer those of the levels, and the invariant is about sessions until then, like the property.

It also proves the three properties of arithmetic in cells of any width, the 32 bits of the code among
them, where the run has cells of six: `SingleCellsExact`, `DoubleCellsExact` and
`WrittenNumbersReadBack`. The first is about products below 2^`Mantissa`, the last about doubles
below it; from there on a JavaScript number is rounded, and what the words leave is in the model but
in no claim. What is assumed (`MathAssumption`) is that a cell has bits, that a number has
more significant bits than the sum of two cells needs (53 and 33 in the code), that the calls tried are
called with cells, that a power of two is twice the one before (the provers know nothing of
`^`), and that a radix is at least 2 and at most a quarter of the modulus, up to where the code's signed
remainder is right. The loops over bits and digits are recursive functions, about which the provers
know nothing either: `LoopRuns` says that a loop has one, by the least number of turns for which it would not,
and `CountedUp` what all turns keep. `NotRounded` and `CellsPrecise` take the rounding out of whatever is
below 2^`Mantissa`: every cell, and every partial sum of `?NUMBER`, since no such sum is above the double it
ends in. Each loop then has its own invariant:

- `UM*`: the product of the bits so far is the low cell, whose top bit is never lost (`ShiftAddTurn`);
- `UM/MOD`: quotient and remainder make up the bits so far (`ShiftSubtractTurn`, `FirstBitsFacts`), the
  quotient modulo the cell. At the end it is below the modulus (`DivideExact`), and
  `UD/MOD` is two such divisions (`DoubleQuotient`);
- `#S`: from the digits held one reads on, from the double still to be written to the one
  given (`ReadsOn`), and that double is halved at least, so it is 0 after as many turns as it has bits (`HeldReads`).
  `?NUMBER` reads those same values (`ReadAsNumber`).

`JsControl_proofs` proves both properties of control structures, for definitions of any length and
structures nested to any depth and left open anywhere (neither bound of `JsControl` occurs in the proof):
`DefinitionsLandOnWords` and `DefinitionsUnwound`. Both speak of a definition that runs; what makes them true happens while
it is compiled. The inductive invariant `ControlInv` says that two things exist:

- a label for each word, the number of loops open there (`Coded`). A branch that is resolved goes to a
  word with its own label, `(do)` falls through to one more, `(loop)` to one less, and `LEAVE` was
  compiled with the operand of a loop whose label is one less than its own;
- a mark for each cell the structures keep on the stack (`Stacked`): a tag, an operand to resolve,
  a place to go back to, the loop outside, the OFs of the CASE outside. Under a tag lies what its
  structure needs. An operand not yet resolved is marked (`Open`) and is 0 (`Pending`), so each one that `;` finds
  unresolved is among the cells left on the stack (`OpenCells`), which is what `LeftOpen` excepts.

While the definition runs, two cells are on the return stack for each loop its next word is labelled
with, unless it has come to an operand left open and stopped (`Executed`, `Reaches`, `Resolves`). The hard word is `ENDCASE`, which resolves as many cells as `OF`s were counted, whatever they are, if
the cell under them is 7. `Cased` is why they are its `ENDOF`s: no more are counted
than there are cells above the tag, and exactly as many only when all are `ENDOF`'s, at
one depth; and 7 as the number of `OF`s of the CASE outside always has a tag above it (`CaseTop`).
One lemma says what a word compiled does to the labels (`CompilesCoded`, `WordDone`), one per kind of
cell what putting it on the stack does to the marks, and one per group of words puts them together.

`JsStack_proofs` proves both properties of the stacks, for stacks of any size and numbers of any
value: `WordsDoAsDescribed`, in which `rdrop` has the effect it has (`Effects`) and not the one it is
described with, and `FloatWordsDoAsDescribed` for cells of any width. What is assumed is
that the bounds are naturals, that the values named are numbers (of a cell, where floats are), and
of `^` only that the cell's values are twice its negative ones. The words are those that
the properties name: `AsDescribed` leaves out what the code does otherwise (the comparisons, `fdepth`
above an item, the conversions of negative floats and of doubles with the low cell's top bit set).

The invariants only give the variables their types (`StackTyped`, `FloatTyped`), since the properties say
that nothing else about the arrays matters: what earlier words left above `sp`, and below the first
item, is arbitrary in the proof. A program's stack is cut out of the array and `tos`, the description's
out of that stack. In between is `HasEffect`, item by item: how many items there are, which are
the word's own (`Item`, by their numbers in the description) and that those below are as before
(`Kept`). `MoversMove` shows it word by word from the assignments; `EffectSeen` goes from the items
to the sequences that `StackEffect` builds, once for all words. The words that count
(`pick`, `roll`, `depth`, `?dup`, `min`, `max`) have `CountersCount`. Floats are
proved as sequences: `FloatShapes` and `DataShapes` say what the stack looks like after each thing that a
word may do to its array and top, and every float word is one of these on either stack. The
conversions rest on `CellsOfNumber`: a number that is not negative is the double of its two cells.

Only model-checked: `Editor`, whose run is a finding's, and `ReaderResumes` of `JsStorage`, which is
liveness under fairness and so out of the prover's reach. The properties of the violation runs are
false. Every other property of a passing run is stated by a theorem.

## 5. Not modelled, and what is left

Not modelled and not planned: stdio's buffer as a state of its own (section 2), terminal output, floating point, memory and string words, path names,
tools, hooks, the libraries (reasons in `PROJECT.json`); in JS-Forth memory and
string words (`MOVE` compares with a stale stack cell, `jsforth.js:2469-2480`, so which way it copies
depends on what was on the stack before), the cookies' encoding, help, dialogs and the browser
words, `DOES>`, the `LEAVE` of fig-Forth and Forth-79, `EXIT` and `UNLOOP` before the end of a definition (`LoopsUnwound` is about the five words that end a
loop), and `FREE` of an address
that is no chunk, which throws -72 and merges what is merged.

Left, most important first:

1. Post4's nested `p4Repl` with `ctx->longjmp`, from `-i` files and JNI.
2. Post4's double-cell arithmetic (`p4Mulu`, `p4Divu` and the signed and mixed words), line editor,
   control flow (`DO`'s eight `LEAVE` references, `+LOOP`'s signs) and the guards of its stacks.
