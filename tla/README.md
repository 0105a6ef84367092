# python-blosc2-c: specifications

TLA+ specifications of the compression library in `src/c-blosc2/blosc` and of
the Python extension in `src/blosc` on top of it, the TLC
configurations that check them, and theorems about them that TLAPS proves.
Line numbers are those of the files under `src/`; `blosc.c` is
`src/c-blosc2/blosc/blosc.c`.

## 1. Inventory

### 1.1 Parts of the system

| part | source | state it keeps | operations | what is hard |
|---|---|---|---|---|
| Context and thread pool | `blosc.c` (`do_job`, `serial_blosc`, `parallel_blosc`, `t_blosc`, `init_threads`, `blosc_release_threadpool`), `context.h` | the request, `output_bytes`, `thread_giveup_code`, `thread_nblock`, `bstarts`, `dref_not_init`; the pool: `threads_started`, `end_threads`, `count_threads`, a condition variable for both meeting points and one for the delta reference | create, compress, decompress, release the pool | interleavings of workers and caller; giving up; two meeting points on one counter |
| Filter pipeline | `blosc.c` (`pipeline_c`, `pipeline_d`, `blosc_d`), `delta.c`, `trunc-prec.c`, `shuffle*.c`, `bitshuffle*.c` | three buffers in turn, the delta reference | apply and undo five slots of filters | which buffer is read and written; order of undoing; bytes after the last element |
| Layout of a chunk | `btune.c`, `blosc.c` (`split_block`, `blosc_c`, `blosc_d`, `_blosc_getitem`) | block size, split sizes, block starts, room left in dest | cut, place, find again, read items | boundaries: leftover blocks, splits, little room |
| Global context | `blosc.c` (`blosc_init` ... `blosc_destroy`, `blosc_compress`, `blosc_decompress`, `blosc_getitem`, setters) | `g_*` parameters, `g_global_context`, `global_comp_mutex` | the Blosc-1 API | what one call leaves for the next; several callers |
| Super-chunks | `schunk.c` | counters, table of chunks, four special chunks; packed buffers | append, pack, unpack, packed append, packed decompress | two readers and writers of offsets that must agree |
| Condition variables on Windows | `win32/pthread.c` | `waiters`, `was_broadcast`, a semaphore, an event | wait, signal, broadcast | no waiter may take two wake-ups or leave one behind; the broadcast waits for the last of them |
| Filters on bytes | `shuffle-generic.h`, `bitshuffle-generic.c`, `delta.c`, `trunc-prec.c` | none; a lazily chosen table of functions (`shuffle.c:348`) | permute bytes and bits | tails; delta decodes its reference in place; the lazy choice is a data race |
| SIMD filters | `*-avx2.c`, `*-sse2.c`, `*-neon.c` | none | the same permutations | the chunk is a file format: another host may undo it with another implementation; remainders of a register, tiled types |
| BloscLZ | `blosclz.c` | hash table of one call | compress, decompress | one room test for all forms of a token, ends of matches, overlapping copies |
| Python extension | `blosc/blosc_extension.c` | `RELEASEGIL` | calls of the API above | two locks; parameters read after the interpreter's lock is released |
| Python package | `blosc/toplevel.py`, `blosc/__init__.py` | none | checks of arguments | what it lets through the library may refuse |
| Vendored codecs, build, tests, examples | `internal-complibs/*`, `setup.py`, ... | — | — | — |

### 1.2 How they interact

`blosc2_compress_ctx` and `blosc2_decompress_ctx` write a request into a
context and call `do_job`, which runs it in the caller's thread
(`serial_blosc`) or hands it to the pool (`parallel_blosc`). Workers read the
request from the shared context without a lock, claim blocks and reserve
places in dest under `count_mutex`, compress and copy outside of it, and run
the filter pipeline, where a block of a chunk with the delta filter waits for
the worker of block 0. The calls without a context share one global context
under `global_comp_mutex`; the setters and `blosc_init`/`blosc_destroy` change
it without taking the mutex. A super-chunk compresses with a context of its
own and keeps the chunks. The Python extension calls the API with the
interpreter's lock (global context) or without it (a context per call); the
checks of `toplevel.py` keep most of what the library would refuse from it. On
Windows the pool's condition variables are those of `win32/pthread.c`. The
pipeline runs each filter by way of a table that `shuffle.c` fills with the
routines of the host's processor, and ends in a codec, of which BloscLZ is
the one this repository brings itself.

### 1.3 Hazards

`PROJECT.json` lists every place where this code is hard to test, with the
properties that watch it, or the reason why none does.

## 2. Modules

| module | models | layers on |
|---|---|---|
| `ChunkJobs` | what a request is, blocks, regions of dest | |
| `ChunkCall` | abstract: a call returns a result that depends on the request alone | `ChunkJobs` |
| `BloscPool` | the context and the pool, step by step | `ChunkJobs`; implements `ChunkCall` |
| `SpuriousPool` | the same pool where `pthread_cond_wait` may return unasked | `BloscPool` |
| `FilterPipeline` | the pipeline of a chunk of two blocks, each slot a step | |
| `ChunkLayout` | block sizes, splits, budgets, places, ranges of items | |
| `GlobalApi` | sequences of calls through the global context, and several callers | |
| `SuperChunk` | append, pack, unpack, packed append | |
| `CondVar` | abstract: the condition variable `BloscPool` counts on, with its mutex | |
| `Win32Cond` | `win32/pthread.c` with threads that wait and broadcast | implements `CondVar` |
| `Win32Signal` | the same with `pthread_cond_signal` | `Win32Cond` |
| `PythonCalls` | Python threads, the interpreter's lock, the extension | `GlobalApi` |
| `BloscLZ` | the codec, token by token | |
| `GenericFilters` | the filters on bits, in plain C | |
| `VectorFilters` | shuffle and bitshuffle with SSE2 and AVX2, shuffle with NEON | `GenericFilters` |
| `ByteFilters` | one block through one filter and back | `VectorFilters` |
| `BloscPoolProofs`, `Win32CondProofs`, `ChunkLayoutProofs`, `SuperChunkProofs`, `FilterPipelineProofs`, `ByteFiltersProofs`, `BloscLZProofs` | theorems about the module of that name | the module |
| `ApiProofs` | theorems about `GlobalApi` and `PythonCalls` | `PythonCalls` |
| `MC*` | instances for TLC | |

### 2.1 BloscPool

A thread is its program counter `pc[p]`, the caller being the last
participant, `Master`. Variables carry the names of the code: `job` stands for
the parameters of the request, the others are fields of `blosc2_context` or
locals of `t_blosc` (`nblock_`, `tblock`, `ntbytes`, `cbytes`, `ntdest`,
`tmp2`). A step is what a thread does between two points where another one can
see it: a critical section of `count_mutex` or `delta_mutex` is one step, the
copy of a block to dest another, and the unlocked read of
`thread_giveup_code` in the loop's condition (blosc.c:1958) a step of its own.
`asleep` and `delta_asleep` are the sleepers of the two condition variables;
a waker empties the set, and a sleeper goes on from there. `dest` is the set
of regions written, so that the result says which blocks can be read back.

What the data decides is part of the request: `csize[b]` is what `blosc_c`
makes of block b (a size, 0 when it does not shrink, a negative error), `bad`
the blocks `blosc_d` rejects. The unit of dest is
four bytes: a header has 4 or 8 of them, an entry of bstarts one, a block two.

`ChunkCall` is the promise to the caller: a call returns, and its result is
one of those its request allows. The blocks of a compressed chunk have places
in any order, so the size of the result is a sum over a set of blocks
(`SumOver`); `Tight` says when a chunk is copied instead, and two outcomes are
possible only where a block fails and another one does not shrink: whoever is
met first decides. A request to compress nothing is always copied, because it
is smaller than `BLOSC_MIN_BUFFERSIZE` (blosc.c:1369). `Promise` maps
`BloscPool` to `ChunkCall` with the release of the pool hidden; `CallSafety` is
what it says of results, `CallSpec` adds that a call returns.

### 2.2 FilterPipeline

A buffer holds block b under a stack of layers, one per filter applied, or
nothing usable. `Cycled` is the turn of `_src`, `_dest` and `_tmp`
(blosc.c:812-820), `last_filter` the choice of the target. `TRUNC_PREC` is no
layer: what it clears never comes back and nobody expects it to. A bit shuffle
copies a block whose number of elements is not a multiple of eight; the last
block may have bytes after its last whole element.

### 2.3 ChunkLayout

Sizes are bytes in small proportions of the real ones (L1 cache 4 bytes,
`BLOSC_MIN_BUFFERSIZE` 2, headers 2 and 3, int 1, `BLOSC_MAX_TYPESIZE` 3). A step is
the compression of one split, with any size the codec may return, or the
placing of one block. `Threaded` chooses between the budget of `serial_blosc`
(what is left of dest) and that of `t_blosc` (a buffer per block), as `do_job`
does: threads are for more than one block. `blosc_d` is the walk over the
splits from where bstarts says a block is.

`Header` is the header of Blosc-1 or the extended one, as `blosc_compress` or
`blosc2_compress_ctx` asks `write_compression_header` for it. `OVERHEAD` is
`BLOSC_MAX_OVERHEAD`, the length of the first: where stored data begins with
either header, so that with the extended one it covers the filters.

A context is used again. `CompressGlobal` is the next `blosc_compress`, which
brings all its parameters; `CompressCtx` is the next `blosc2_compress_ctx`,
for which the block size is the one `btune_cparams` left in the context:
`request.blocksize` is what it finds there, `asked` what the caller said.
`scratch` is the job the workers' temporaries were laid out for, which happens
anew only when the block size differs (blosc.c:1918), not when typesize does.
For a larger typesize `tmp2` is then shorter than the room `blosc_c` is told,
and `OwnBufferSuffices` says why no block comes back wrong: what is written
beyond its end goes over splits of `tmp3` that are compressed already.

### 2.4 GlobalApi

Of a call only what it leaves in the context is followed (filters, number of
threads, pool, mutex) and the parameters it runs with (`used`: filters, block
size, threads). Compressions are at a level above 0, of items of several bytes
in several blocks. `LeftFilters` and `LeftNthreads` are what malloc may have
left in a new context (blosc.c:2356 does not clear it). A decompression is
"right" when the filters it undoes are those of its chunk, a compression when
its job was done, with the parameters in `used`; "nothing" is a job that no
thread ran. The test of `g_initlib` and the creation of the globals are two
steps. `seen`, `settled` and `kept` are history variables.

`nolock` is `BLOSC_NOLOCK`; the other environment variables make
`blosc_compress` call setters, which are calls here. Such a call builds its
parameters (`PrepareOwn`) and runs (`RunOwn`) in a context of its own. They
are not those of the locked path: `build_filters` fills only the slots that
are asked for, there over zeroes and here over `BLOSC_CPARAMS_DEFAULTS`, whose
last slot is a shuffle (blosc.c:1572-1576, blosc.h:503-505); the block size
that was forced is not passed on; and the number of threads is cast to a byte
(blosc.c:1577-1580). `NolockExact` says that these are the differences, each
exactly when it can be seen, and `NolockHonoured` is what blosc.h:247-251
says instead.

`blosc_set_nthreads` takes any number. With 0, `blosc_set_nthreads_` refuses
and `do_job` does not look at its result: the caller goes to the meeting points
of a pool that is not there. There it passes with nothing done, or, where
`count_threads`, which blosc_init leaves as malloc gave it, is positive, waits
for ever (`WaitForNobody`); workers of an older number of threads may do the
work. A context of a call's own is zeroed and always passes. Negative numbers
take the same way with the lock, and are not modelled.

A compression is `refused` for an argument or for too many bytes, and returns
with the mutex locked (blosc.c:1601-1607); `kept` has the reason. `Hung` is
when a caller may wait for ever: after this, or when one waits for no threads.

### 2.5 SuperChunk

A packed buffer is a map from word offsets to values. The 64-bit fields are
pairs of words, so that reading one at a wrong offset gives what is really
there: the halves of two others. `PackedBytes` is the length the code computes
and writes to the header, `packed.length` where its copies end:
`PackedAsDocumented` says that they agree, `PackedApart` that every byte up to
there is of one piece, and of one only.

### 2.6 Win32Cond

Every critical section of `waiters_lock` is one step, as is each wait and each
release outside of them. The threads are any program that holds the external
mutex around its calls, the one rule the file states. `Asleep` and `Waking`
map it to `CondVar`: the waiters of a broadcast are awake, abstractly, as soon
as their slices are in the semaphore, which works only because the caller of
the broadcast keeps the mutex until the last of them took his. `BloscPool`
uses the same condition variable in a coarser form: its `asleep` is a set
that a waker empties, and `CondVar` is that step with the mutex around it.

The other branch of the meeting points, POSIX barriers, cannot be built:
`WAIT_INIT` tests `_POSIX_BARRIERS_MINE` (blosc.c:97), `WAIT_FINISH` and
`context.h` `BLOSC_POSIX_BARRIERS_MINE`. Only the counter is modelled.

### 2.7 PythonCalls

A thread has a place in Python or the extension (`py`) and, inside the
library, the place `GlobalApi` gives it. `gil` is who has the interpreter's
lock. `compress_helper` is cut where another thread may run: before
`PyEval_SaveThread`, and at each global it reads after it
(blosc_extension.c:236-242). Which parameters a compression ran with is
`used` and `compcode`. `Checked` says that calls come by way of `toplevel.py`
and that nobody set `BLOSC_CLEVEL`, by which the environment brings a level past
the checks. Then no argument is refused (`PassesChecks`), but a buffer may be:
`compress` compares `len(bytesobj)`, a number of items, with `MAX_BUFFERSIZE`
(toplevel.py:405), and the library gets `view.len`, a number of bytes
(blosc_extension.c:333). More than 2 GB of doubles pass, are refused inside,
and the mutex is kept while other threads wait for it with the interpreter's
lock. `set_nthreads` is not checked at all, and 0 is one of the calls.

### 2.8 BloscLZ

The numbers of the format are constants (3 bits of length and 5 of distance in
a control byte, bytes of 256 values, the margins at the end of the input), so
that short inputs reach a continued length, a far distance and a full run of
literals. The hash table is not modelled: at every position it may answer any
earlier one or none, which is all the rest of the code knows of it. A step is
one token, or one literal byte. `GCC_SAFE_COPY` copies in units and reads what
was in the buffer where a unit reaches beyond what is written (`Garbage`).

### 2.9 Filters on bytes

A bit is the set of the input bits it is the XOR of. All filters are linear in
that sense, so one input whose bits are all different stands for every input:
a check of a shape of block (type size, elements, bytes after them) is a check
of all its contents. A vector register is a function of its bytes, an
intrinsic the permutation it does, a routine the network its loops build. In
`ByteFilters` one implementation filters a block and another one undoes it,
each chosen freely.

On ARM only shuffle is vectorized: `shuffle.c:299-316` calls the NEON
bitshuffle buggy and installs the generic one. `shuffle_neon` leaves
`vectorized_chunk_size` uninitialized for types it has no network for
(shuffle-neon.c:420-462). Whatever it holds but 0, either outcome of the test
that reads it ends in the generic routine over the whole block. A 0 makes
`blocksize % vectorized_chunk_size` (shuffle-neon.c:431, 487) a division by
zero, which C leaves undefined; the division of ARM gives 0 for it, the
remainder is then the block size and the generic routine follows here too,
and this is the outcome that the model takes.

## 3. Runs

| run | instance | shows |
|---|---|---|
| `PoolTwo` | two workers, chunks of one to three blocks | `TypeOK`, the meeting points (`BarrierPhases`, `CallerAlone`), claims and places (`BlocksClaimedOnce`, `PlacesApart`), the delta reference (`ReferenceFirst`), `ParametersStable`, and `Promise` with its liveness |
| `PoolDeltaCorrupt` | three workers, unreadable block 1, delta | violated: `CallReturns` |
| `Filters` | all 3125 pipelines of five slots, one or several threads, with and without tail | `RoundTrip` says exactly which pipelines are undone, `ItemsRead` the same for getitem, `BuffersApart` |
| `Layout` | 1261 requests, every result of the codec, then more buffers with the same context | `NothingLeftOut`, `PiecesApart`, `Restored`, `OwnBufferSuffices`, `ItemsExact` |
| `ApiSequence` | four calls of one caller, anything left by malloc | `PoolAgrees`, `HistoryDecides`, `NolockExact` |
| `ApiShared` | three callers, four calls | one holder of the mutex (`TypeOK`), `OwnParameters`, `CallsReturn` |
| `SchunkPack` | up to four chunks, any special ones | the counters, the packed layout and its documented header |
| `SchunkUnpack` | the same | violated: `UnpackRestores` |
| `Win32Cond` | four threads that wait and broadcast | `TypeOK`, one slice for each waiter (`OneSliceEach`), `BroadcastReturns`, and the refinement `ImplementsCondVar` |
| `PythonThreads` | two Python threads, four calls | `PyTypeOK`, `ContextUndisturbed`, `MutexNeverContended`, `OwnCodec`, `PyCallsReturn` |
| `BloscLZ` | inputs of two patterns, several rooms, any answers of the hash table | `TypeOK`, `InsideRoom`, `RoundTrip` |
| `ByteFilters` | 29 shapes of block, each filter, each pair of implementations | `SameFormat`, `Restored`, `TailAsModelled` |

`FilterPipeline`, `ChunkLayout`, `SuperChunk` and `ByteFilters` have a
`TypeOK` of their own, and `ChunkLayout` has `AlwaysSucceeds` (a compression
with room for the overhead and the data never fails). They hold, are not in the
regular runs, which ask one question each, and are checked by adding their
names to the cfg. `PoolThree.cfg` (three workers, more than blocks) passes,
too.

### 3.1 Bounds

- Threads of the pool: 2 and 3. With 2, each of two workers can be first, last or late at
  each meeting point; 3 adds a worker without blocks and the case of
  `PoolDeltaCorrupt`, where one worker waits for a second that a third
  stopped. The theorems of section 4 hold for every number.
- Blocks: 3 are enough for a first, a middle and a leftover one, and for one
  worker to have two. Requests follow one another without end in the pool
  runs, and the pool may be released between any two.
- Unreadable blocks: any set of them, but of chunks of several blocks with a
  delta block 0 is always readable: a worker that fails to decode the reference
  leaves others waiting as in `PoolDeltaCorrupt`.
- Codec results: 0, 1, `n - 1` and `n` in `Layout`: less than, one less than
  and as much as the input; room from too small for one split to ample.
- Buffers after the first in `Layout`: five requests to the global context
  (three typesizes of one block size, another block size, one without
  threads) and two sizes for a context of the caller, in any order and number.
- `MaxCalls` = 4 in `GlobalApi`: three calls to bring the context to a state
  (set threads, compress with a filter, destroy or release) and one that
  suffers from it. Numbers of threads are 0, 1 and 256 (none, one, and the
  first that a byte takes for none), block sizes 0 (automatic) and 1 (any
  other): nothing depends on more of them.
- `MaxChunks` = 4 in `SuperChunk`, two kinds of buffer: sums of different
  sizes, and one append after an unpack.
- Threads in `Win32Cond`: 4. One broadcasts, two wait for it and a third comes
  too late for it but before it returns; calls go on without end.
- `PythonThreads`: two threads and four calls are one to set `RELEASEGIL`, two
  that run beside each other and one that destroys or sets; numbers of threads
  are 0 and 2, next to the 1 of the start.
- `ByteFilters` and `trunc_prec`: 1, 20 and 23 bits (all of them) for floats,
  and 40 and 52 (all of them) for doubles besides.
- `BloscLZ`: inputs of 23 bytes with `Lens` = 3, `Highs` = 2, `Bytes` = 3, a
  word of 3 bytes and a tail of 7. Distances up to 8 are near ones and there
  are far ones beyond, a length of more than 3 is continued once or more, a
  run of literals is full after 3, and both branches of the copies come up.
  `MinRoom` is 4, so that a room can end in every token.
- `ByteFilters`: type sizes of every case of the dispatch (2, 4, 8, 16, other
  small ones, larger ones with and without remainder), and fewer elements than
  a register, one register, several and a remainder; three long blocks
  reach the loops over rows of bits. Nothing in the routines depends on a
  block otherwise than through these counts.

`CHECK_DEADLOCK FALSE` stands where a run ends: modules of one compression,
and bounded numbers of calls. The pool runs check deadlock, which is also what
shows that a release of the pool never waits for ever: if it did, nobody would
have a step left.

### 3.2 Fairness

`BloscPool`'s `Fairness` is weak fairness of every thread: the operating
system runs each one, and a mutex is never kept across steps. The caller need
not make a request, nor release the pool. `GlobalApi`'s `FairSpec` is weak
fairness of each caller's steps of a call, not of beginning one; with four
calls nobody can overtake a waiting caller for ever, so no strong fairness is
needed for the mutex.

`Win32Cond`'s `FairSpec` is weak fairness of a thread inside a call, not of
beginning one. The return of `pthread_cond_wait` competes for the mutex, but
`BroadcastReturns` does not need it: who broadcasts has the mutex, and the
waiters take their slices without it. `PyFairSpec` is strong fairness of
getting the interpreter's lock and of what is done with it, because CPython
makes its holder give it up on request and lets the thread that asked have it
(`ceval_gil`'s forced switching); a thread may still stay in Python for ever
without a call.

## 4. Proofs

TLC checks each property on the instances of section 3; TLAPS proves it for
every value of the constants. Eight modules hold the proofs
(`BloscPoolProofs`, `ApiProofs` for `GlobalApi` and `PythonCalls`,
`Win32CondProofs`, `ChunkLayoutProofs`, `SuperChunkProofs`,
`FilterPipelineProofs`, `ByteFiltersProofs`, `BloscLZProofs`). Every safety
property of the regular runs has a theorem. The inductive invariants were
checked with TLC before they were proved.

The assumptions are the `ASSUME`s of the modules (sizes positive, requests
well-formed, `NoOne` no caller), which TLC evaluates in the runs. Where a
theorem needs more, its statement has the hypothesis: `NThreads > 0` (a
context with no thread does break the promise, `PoolZeroThreads`),
`OnlyJobs` (callers that compress, decompress and read items after
`blosc_init`; the setters take no mutex) and `Alone \/ OnlyJobs`. The theorems
about `PythonCalls` hold with and without `Checked`, which is part of what
`NobodyWaitsInside` says and not assumed.

### 4.1 The pool

Four invariants, each resting on the ones before:

- `ControlInv` and `Phases` (`BarrierCorrect`, `CallerIsAlone`,
  `ParametersAreStable`). `WAIT_INIT` and `WAIT_FINISH` share `count_threads`
  and `count_threads_cv`. The pool is in one of four phases: `Gathering`
  (everybody on the way to `WAIT_INIT`, `count_threads` of them asleep there),
  `Working` (between the two, `NThreads - count_threads` asleep at the
  second), `Leaving` (the round in which `end_threads` sends the workers home)
  and `NoPool`. Sleepers that were woken but have not moved belong to the
  phase that woke them, which is what lets two rounds overlap in time and
  never in the counter. The step from one phase to the next is the case where
  the last participant empties `asleep`, and rests on facts about
  cardinalities of sets of sleepers. That no worker is inside while the caller
  is outside, and that nothing a worker reads without a lock changes under
  it, follow.
- `DataInv` (`TypeCorrect`): a worker on a block has the number of one,
  because the bounds of its range, which it copied to locals, are those of the
  request.
- `PlacesInv` (`ClaimsAreUnique`, `PlacesAreApart`, `ReferenceIsFirst`).
  `BlocksClaimedOnce` speaks of who holds a block; to be inductive it has to
  follow the number through `copy`, where `nblock_` is the next block and
  `tmp2` the present one, and to know that no claim passes `thread_nblock`
  (`ClaimInv`). A place is reserved before it is filled, so `PlaceInv` is
  about `Reserved`, places taken or promised, and keeps `output_bytes` behind
  all of them. `DeltaInv` says that block 0 is in place once `dref_not_init`
  is down.
- `CallInv` (`PromiseKept`, `SuccessComplete`), the refinement of `ChunkCall`
  step by step: that what a call returns is a function of the request, whoever
  ran when. `FlagInv` says why the MEMCPYED flag is up (the request, or blocks
  that do not fit). `ReadyInv` says what the workers will start from while the
  caller is on its way to them. `GiveUpInv` says what `thread_giveup_code`
  can be put down to. When blocks are packed (`PackInv`) every number below
  `thread_nblock` has a place or is held by somebody, and `output_bytes` is
  the header and the sizes of the blocks with a place, a sum over a set, in
  whatever order they came. When they are copied or decompressed (`RangeInv`)
  each worker has delivered its range up to where it is, and those that have
  finished have added their share; the shares of all telescope to the size of
  the source. `SerialInv` is the same for the loop of `serial_blosc`, and
  `ResultInv` what both come to when the caller takes the result. A step of
  the context is then a call, a return with one of the outcomes, or nothing
  its caller sees (`StepPromised`).

`PromiseKept` is the safety half of `Promise`. Its other half, that a call
returns, is liveness and stays with TLC. Both theorems need `NThreads > 0`:
with none, nobody writes a block and nobody finds out.

### 4.2 The global context, Python, Windows

- `GlobalApi`. `MutexHolder` is inductive with `Entered`: the library stays
  initialised, so that nobody creates the mutex anew. `ParametersAreOwn`: while
  one caller has a job no step of another writes the context.
  `PoolAlwaysAgrees` holds whatever is called and by whomever; it needs
  `Settled`, which follows each step that changes the number of threads to the
  pool. `NolockIsExact` follows a call from `PrepareOwn` to its return
  (nobody sets the globals beside it, which is what `Alone \/ OnlyJobs` is
  for). `HistoryIsEnough` keeps in `FiltersSeen` that the filters of the
  context are among those some call gave it, and that the context of a
  settled history has the number of threads that was set.
- `PythonCalls`. `PyInv` ties the place of a thread in the extension to its
  place in the library (`Places`): inside the library's own context it has the
  interpreter's lock. A mutex that is taken while nobody is inside was kept by
  a refused compression, and after the checks no argument is refused: what is
  left is too many bytes.
- `Win32Cond`. `CondInv` counts: `waiters` is the cardinality of the threads
  between the two critical sections, the semaphore has a slice for each
  blocked one while a broadcast goes on and none otherwise, and the event is
  set once, by the last. From it `OneSliceEach`, and `EmulatesCondVar`: every
  step is one of `CondVar` or a stutter under the mapping of section 2.6. The
  set of threads is any finite one.

### 4.3 One chunk

- `ChunkLayout`. `LayoutInv` says of every piece that it lies within what has
  been given out (`Within`) and of the budget that it is not spent twice
  (`Spending`), with blocks and splits counted by a quotient that is rounded
  up. `BlocksAreFound` needs `Recoverable` besides: the splits of a block are
  a chain, each beginning where the length of the one before says, which the
  recursive function of the walk follows by induction on the split.
- `SuperChunk`. `SchunkInv` says word by word what the header of a packed
  super-chunk holds, after the copy of the struct and everything that was
  written over it, and that the counter is `SumTo` of the lengths.
  `PackingApart` says in addition that the pieces fill the buffer.
- `FilterPipeline`, for any number of slots. `PipelineInv` follows the three
  buffers through their turns. `RoundTrip` is an equivalence. One direction
  is `DataKnown`: in a supported pipeline the buffer a filter reads holds the
  block under the layers (`Stacked`) of the slots not yet undone. The other is
  `LossInv`: an unsupported one loses the block in one of three ways
  (`SpoilsBelow`, `DeltaTwice`, `BitsLate`), and what is lost never comes
  back. `ItemsAreRead` is an equivalence, too.
- `BloscLZ`, for every input, format and answer of the hash table.
  `InsideRoom` follows from `LZInv`: one test of the room suffices for
  whatever is written before the next. `EverythingComesBack` has to say that
  the bytes written are tokens of the bytes read. A sequence of tokens of any
  number is a set of places, pairs of a position in each, from 0 to the ends,
  with a token from each place to another (`Tokens`); a run of literals that
  is not closed is outside of it, behind its control byte (`Coded`). The
  decompressor is always at one of the places, with a prefix of the input
  (`Decoded`).

### 4.4 The filters on bytes

`EveryFormatTheSame`, `EveryElementRestored` and `EveryTailAsModelled` hold
for every type size, number of elements and bytes after them, and for every
pair of implementations. The only assumption is `BlocksAssumption`: a block
has elements, a type size, and a tail shorter than an element. The invariant
(`ByteInv`) says in each phase what the data is: after `Compress` the
transposition that the format is made of (`ShuffledBlock`, `BitshuffledFrom`),
whichever implementation ran, and after `Decompress` the input wherever the
filter writes (`Written`, `Undone`). What it takes to get there is lemmas:

- *An instruction moves bits of an address.* Byte `i` of register `m` is
  addressed by the binary digits of `i` and of `m` (`Address`). `Unpack1` to
  `Unpack8`, `Permute8` to `Permute32` and NEON's `vzip` then move a digit
  from one place to another, whatever the bytes are, and a network is what its
  steps compose to (`Transpose16Is`, `ElemNetwork8Is`, `Joined16Is` and so
  on). For each type of 2, 4, 8 and 16 bytes and each width the networks of
  shuffle and unshuffle come to the same transposition (`Shuffle4x16` to
  `Unshuffle16x32`, `Neon8Is`, `Neon16Is`).
- *The loops around them.* A loop loads what the network wants and stores what
  it gives, a step at a time, and the generic routine does the elements that
  are left (`ShuffleByRegisters`, `UnshuffleByRegisters`, `RowIs` for the
  larger types, done in pieces of 16 bytes of which the first two may overlap).
  Hence `ShuffleVectorIs`, `ShuffleNeonIs` and, for the way back,
  `UnshuffledIs`.
- *bitshuffle* is three transpositions: of the bytes of elements, of the bits
  of eight bytes, and of rows. `TransBitIs` follows the three swaps of
  `TRANS_BIT_8X8` to the transposition of eight by eight bits, `BitsIs` the
  loop of `slli` and `movemask` that does the same to a register, `RowsSse2`
  and `RowsAvx2` the pass over rows of bits on the way back. `Passes` and
  `EightsBack` put the passes together, in numbers.
- *delta* in the first block is undone in place: each word is XORed with the
  one before it, which has to be decoded by then. `DeltaRestores` takes the
  least byte that did not come back (`LeastNumber`) and shows that it did.
  `DeltaWords` says which bytes are in a word at all: those of the whole
  elements, and with type sizes of 4 and 8 no others.

For the proofs' sake the registers of `VectorFilters` are functions of one
argument (`regs[j][o]`), and a dispatch that tests one condition after another
is an IF ... ELSE and not a CASE, whose arms may not overlap.

### 4.5 How induction is done

The induction theorems of the library take an operator as a parameter, which
no installed prover can instantiate. Where induction over numbers is needed
(sums, chains, walks), it is over a set: a set that holds 0, and with each
number below n the next one, holds all up to n (`UpTo`, from the fact that a
set of numbers that is not empty has a least member). Recursion is written as
recursive functions, whose equation is proved by showing that a function that
satisfies it exists. For the proofs' sake `ChunkCall` says `Tight` (some block
does not shrink, or all that do are too long together) of any number of
blocks, and `SumOver` adds up over a set of numbers.

### 4.6 Only model-checked

- Liveness: `CallsReturn`, `PyCallsReturn`, `BroadcastReturns` and the
  fairness half of `Promise`. Liveness under fairness and `ENABLED` are out of
  the prover's reach.
- That one input with all bits different stands for every input of a block
  (section 2.9) is an argument about linear filters and not a theorem; it
  is how `ByteFilters` is written.
- The types of `ByteFilters`, `FilterPipeline`, `ChunkLayout` and
  `SuperChunk` and `AlwaysSucceeds`, which are in no regular run (section 3),
  beyond what the invariants above say of them.

## 5. Disagreements between the code and what is said of it

In the regular runs, each with its counterexample (see `findings`):

1. `PoolDeltaCorrupt`: a worker waits on `delta_cv` for a reference nobody
   decodes any more after another one gave up; the call never returns.
2. `SchunkUnpack`: readers of a packed super-chunk look twelve bytes after
   where the writer puts the fields.

Further configurations are kept beside them, for one question each, and all
end in a violation:

| configuration | module | property | what it shows |
|---|---|---|---|
| `PoolZeroThreads.cfg` | `MCBloscPool` | `SuccessIsComplete` | a context made with `nthreads = 0` reports success with nothing written |
| `FiltersAny.cfg` | `FilterPipeline` | `EveryPipelineRoundTrips` | a pipeline outside `Supported` is not undone |
| `FiltersItems.cfg` | `FilterPipeline` | `ItemsAreTheChunks` | getitem undoes a delta at offset 0 of its scratch buffer |
| `ApiFirst.cfg` | `MCGlobalApi` | `DecompressionRuns` | a process that only decompresses runs with the number of threads malloc left |
| `ApiStale.cfg` | `MCGlobalApi` | `DecompressionRight` | a chunk without filters is undone with those of an earlier call |
| `ApiItems.cfg` | `MCGlobalApi` | `ItemsRight` | getitem runs with filters nobody set |
| `PoolSpurious.cfg` | `MCBloscPool` | `AllFinished` | the meeting points test the counter once (blosc.c:106, :128): a spurious wake-up lets the caller out of `parallel_blosc` while a worker compresses |
| `FiltersTail.cfg` | `FilterPipeline` | `TailComesBack` | bytes after the last whole element of the last block are not copied by bitshuffle or delta and do not come back |
| `ApiRefused.cfg` | `MCGlobalApi` | `AlwaysReturns` | a refused `blosc_compress` leaves the global mutex locked (blosc.c:1602) |
| `ApiNolock.cfg` | `MCGlobalApi` | `NolockHonoured` | blosc.h:247-251 says of `BLOSC_NOLOCK` that block size and nthreads are those set last and that the shuffle is honored, but no shuffle becomes shuffle, a forced block size is dropped and nthreads is cut to a byte (blosc.c:1572-1580) |
| `PythonTooLong.cfg` | `MCPythonCalls` | `TooLongRaises` | toplevel.py:388-389 documents a `ValueError` "If bytesobj is too long", in bytes (:344), but `compress` counts items: a buffer that is refused reaches the library, which keeps its mutex |
| `Win32Signal.cfg` | `Win32Signal` | `SlicesForWaiters` | two signals that look before either waiter took its slice leave one in the semaphore; blosc.c only broadcasts |
| `LayoutMultiple.cfg` | `MCChunkLayout` | `BlocksizeIsMultiple` | a block size below typesize stays as it is (btune.c:110) |
| `LayoutReused.cfg` | `MCChunkLayout` | `AutomaticStays` | blosc.h:491-492 says of `blocksize` "0; meaning automatic", but `btune_cparams` leaves its choice where the next `blosc2_compress_ctx` takes it for the user's |

Three that no model is needed for: `toplevel.py:72-74` documents a `ValueError`
of `set_nthreads` that nothing raises; `_POSIX_BARRIERS_MINE` (section 2.6);
and `blosc.h:626-628` says that the `nbytes` of a super-chunk counts its
header, which `schunk.c` starts at 0.

## 6. Not modelled

Most of the repository's C is third-party code: `internal-complibs` (lz4,
lizard, snappy, miniz, zstd with all its legacy formats) is more than nine
tenths of it. It is used by what it returns and a model of it would say
nothing of this library. Of the library's own code and of the extension, this
is left out:

- Failures of allocation and of `pthread_create`: the code ignores them or
  prints and goes on; what follows is not defined by it.
- Malformed chunks and too small destinations beyond what the requests say.
- Codecs: any result of the right type. Codecs whose room is unsigned
  (`maxout` of blosc.c:671-675 may be negative near the end of dest) need a
  module of their own.
- The first-call race of `blosc_init` is in `GlobalApi` (`Initialised =
  FALSE` and several callers violate `TypeOK`); `blosc.h:160` asks for
  `blosc_init` before any other call, and the runs with several callers do.
- Setters and `blosc_destroy` beside running jobs: `blosc.h:161` sends such
  programs to the contexts of their own.
- The order of memory on weak processors: `shuffle.c:353` fills a table and
  then a flag without a barrier. Each writer writes the same values, and where
  stores stay in order a reader that sees the flag sees the table.
- `bitshuffle-neon.c`, which is never chosen; 32-bit builds, where the blocks
  of the vectorized filters are the same; the hash function of BloscLZ, and
  its decompression of what it did not write.
- `pthread_cond_destroy`, `pthread_create` and `pthread_join` of
  `win32/pthread.c`, each one system call.
- Pickling and numpy arrays in `toplevel.py`, queries that keep no state.
- Vendored codecs, build files, tests, benchmarks, examples.

## 7. Plan

Order: the pool first, where a test reaches least, then what a single thread
does with a chunk, then what calls leave to each other, then what is kept on
top. Done: `ChunkJobs`, `ChunkCall`, `BloscPool` (1), `FilterPipeline`,
`ChunkLayout` (2), `GlobalApi` (3), `SuperChunk` (4), `Win32Cond` and
`CondVar` (5), `PythonCalls` (6), the filters on bytes (7), `BloscLZ` (8),
and proofs about all of these (section 4).

Still to come:

1. `SuperChunk`: `blosc2_decompress_chunk` and the release of a super-chunk.
2. `ChunkLayout` with a codec whose room is unsigned.
