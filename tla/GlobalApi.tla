------------------------------ MODULE GlobalApi ------------------------------
(***************************************************************************)
(* The calls that share the library's own context (blosc_compress,         *)
(* blosc_decompress, blosc_getitem, the setters, blosc_init and            *)
(* blosc_destroy of blosc.c), over sequences of calls and, for compression *)
(* and decompression, with several callers.  What matters of a call here   *)
(* is what it leaves behind in the context for the next one: the filters,  *)
(* the number of threads, the pool, and the global mutex.                  *)
(*                                                                         *)
(* Chunks have several blocks of items of several bytes and are compressed *)
(* at a level above 0; pipelines are those of build_filters: a delta in    *)
(* the last slot but one, a shuffle in the last.  A decompression is       *)
(* "right" when the filters it undoes are those its chunk was made with; a *)
(* compression, when its job was done, with the parameters in "used".      *)
(***************************************************************************)
EXTENDS Integers, FiniteSets

CONSTANTS
  Callers,       \* threads of the application
  Initialised,   \* did it call blosc_init before it had several of them?
  Calls,         \* the calls they make
  Blocksizes,    \* the sizes given to blosc_set_blocksize, 0 for automatic
  LeftFilters,   \* what malloc may leave in context->filters
  LeftNthreads,  \* and in context->nthreads
  MaxCalls       \* bound on the number of calls

NoOne == "no one"

Filters == [front : {"clear", "dirty"}, delta : BOOLEAN, last : {"none", "shuffle", "bitshuffle"}]
Pipeline(d, l) == [front |-> "clear", delta |-> d, last |-> l]
Chunks == [filters : [front : {"clear"}, delta : BOOLEAN, last : {"none", "shuffle", "bitshuffle"}],
           extended : BOOLEAN, memcpyed : BOOLEAN]

\* What the library refuses of a compression: an argument (a clevel, a codec
\* that is not built in), or more bytes than BLOSC_MAX_BUFFERSIZE.
Refusals == {"no", "argument", "bytes"}

AllCalls ==
  [op : {"compress"}, doshuffle : {"none", "shuffle", "bitshuffle"}, refused : Refusals, nolock : BOOLEAN]
  \cup [op : {"decompress"}, chunk : Chunks, room : BOOLEAN, nolock : BOOLEAN]
  \cup [op : {"getitem"}, chunk : Chunks]
  \cup [op : {"set_nthreads"}, nthreads : Nat]
  \cup [op : {"set_blocksize"}, size : Blocksizes]
  \cup [op : {"set_delta"}, dodelta : BOOLEAN]
  \cup [op : {"init", "destroy", "free_resources"}]

ASSUME CallsKnown == Calls \subseteq AllCalls
ASSUME LeftOver == LeftFilters \subseteq Filters /\ LeftNthreads \subseteq Nat
ASSUME InitialisedKnown == Initialised \in BOOLEAN
ASSUME BlocksizesKnown == Blocksizes \subseteq Nat
ASSUME CallersNamed == NoOne \notin Callers
ASSUME CallsBound == MaxCalls \in Nat

VARIABLES
  g_initlib, g_nthreads, g_delta, g_force_blocksize,
  global_comp_mutex,   \* the caller that holds it, or NoOne
  ctx,                 \* *g_global_context, when g_initlib
  pc, call, result,    \* of each caller
  used,                \* the parameters its call runs with
  calls,               \* how many were made
  seen, settled,       \* history of ctx: the pipelines it held, and whether
                       \* a compression or blosc_set_nthreads gave it its
                       \* nthreads before it had a pool
  kept                 \* and of the mutex: why a compression was refused
                       \* that kept it, or "no"

globals == <<g_initlib, g_nthreads, g_delta, g_force_blocksize>>
history == <<seen, settled, kept>>
vars == <<globals, global_comp_mutex, ctx, pc, call, result, used, calls, history>>

Context == [filters : Filters, nthreads : Nat, threads_started : Nat]

Parameters == [filters : Filters, blocksize : Nat, nthreads : Nat]
Unused == [filters |-> Pipeline(FALSE, "none"), blocksize |-> 0, nthreads |-> 0]

-----------------------------------------------------------------------------
(* Init and end of the library *)

\* blosc_init's context is fresh from malloc: its nthreads and filters are
\* whatever was there.
FreshContexts ==
  {[filters |-> f, nthreads |-> n, threads_started |-> 0] : f \in LeftFilters, n \in LeftNthreads}

NewGlobals(contexts) ==
  /\ g_initlib' = TRUE /\ global_comp_mutex' = NoOne /\ kept' = "no"
  /\ ctx' \in contexts /\ seen' = {ctx'.filters}

blosc_init ==
  IF g_initlib
  THEN UNCHANGED <<g_initlib, global_comp_mutex, ctx, history>>
  ELSE NewGlobals(FreshContexts) /\ settled' = FALSE

Init ==
  /\ g_initlib = Initialised /\ g_nthreads = 1 /\ g_delta = FALSE /\ g_force_blocksize = 0
  /\ global_comp_mutex = NoOne /\ kept = "no"
  /\ ctx \in FreshContexts /\ seen = {ctx.filters} /\ settled = FALSE
  /\ pc = [p \in Callers |-> "idle"]
  /\ call = [p \in Callers |-> [op |-> "init"]]
  /\ result = [p \in Callers |-> "none"]
  /\ used = [p \in Callers |-> Unused]
  /\ calls = 0

Return(p, r) ==
  /\ pc' = [pc EXCEPT ![p] = "idle"]
  /\ result' = [result EXCEPT ![p] = r]

Goto(p, l) == pc' = [pc EXCEPT ![p] = l]

Begin(p) ==
  /\ pc[p] = "idle" /\ calls < MaxCalls
  /\ \E c \in Calls : call' = [call EXCEPT ![p] = c]
  /\ calls' = calls + 1
  /\ Goto(p, "enter")
  /\ result' = [result EXCEPT ![p] = "none"] /\ used' = [used EXCEPT ![p] = Unused]
  /\ UNCHANGED <<globals, global_comp_mutex, ctx, history>>

Doing(p, l, op) == pc[p] = l /\ call[p].op = op

-----------------------------------------------------------------------------
(* Setters and the like, each a call of one step *)

\* The new number given to the context and its old pool
AssignNthreads(n) ==
  /\ IF g_initlib
     THEN ctx' = [ctx EXCEPT !.nthreads = n] /\ UNCHANGED <<g_initlib, global_comp_mutex, history>>
     ELSE blosc_init
  /\ g_nthreads' = n
  /\ UNCHANGED <<g_delta, g_force_blocksize>>

blosc_set_nthreads(n) ==
  /\ IF n = g_nthreads
     THEN blosc_init
     ELSE NewGlobals({[c EXCEPT !.nthreads = n] : c \in FreshContexts}) /\ settled' = TRUE
  /\ g_nthreads' = n
  /\ UNCHANGED <<g_delta, g_force_blocksize>>

blosc_set_delta(d) == blosc_init /\ g_delta' = d /\ UNCHANGED <<g_nthreads, g_force_blocksize>>

\* The one setter that does not initialize the library
blosc_set_blocksize(size) ==
  /\ g_force_blocksize' = size
  /\ UNCHANGED <<g_initlib, g_nthreads, g_delta, global_comp_mutex, ctx, history>>

blosc_destroy ==
  /\ g_initlib' = FALSE
  /\ ctx' = [ctx EXCEPT !.threads_started = 0]
  /\ global_comp_mutex' = NoOne /\ kept' = "no"
  /\ UNCHANGED <<g_nthreads, g_delta, g_force_blocksize, seen, settled>>

blosc_free_resources ==
  /\ ctx' = IF g_initlib THEN [ctx EXCEPT !.threads_started = 0] ELSE ctx
  /\ UNCHANGED <<globals, global_comp_mutex, history>>

Setter(p) ==
  /\ pc[p] = "enter"
  /\ CASE call[p].op = "set_nthreads" -> blosc_set_nthreads(call[p].nthreads)
       [] call[p].op = "set_delta" -> blosc_set_delta(call[p].dodelta)
       [] call[p].op = "set_blocksize" -> blosc_set_blocksize(call[p].size)
       [] call[p].op = "init" -> blosc_init /\ UNCHANGED <<g_nthreads, g_delta, g_force_blocksize>>
       [] call[p].op = "destroy" -> blosc_destroy
       [] call[p].op = "free_resources" -> blosc_free_resources
       [] OTHER -> FALSE
  /\ Return(p, "right")
  /\ UNCHANGED <<call, used, calls>>

-----------------------------------------------------------------------------
(* Filters: from the arguments, from the header *)

\* Fills slots of the given pipeline; one that is not asked for stays as it is.
build_filters(doshuffle, delta, filters) ==
  [filters EXCEPT !.last = IF doshuffle = "none" THEN @ ELSE doshuffle,
                  !.delta = @ \/ delta]

\* A context left as malloc gave it
NotZeroed == [front |-> "dirty", delta |-> FALSE, last |-> "none"]
ZeroedFilters == Pipeline(FALSE, "none")

\* BLOSC_CPARAMS_DEFAULTS
DefaultFilters == Pipeline(FALSE, "shuffle")

\* What blosc_compress gives to the global context, and with BLOSC_NOLOCK to
\* one of its own: there the pipeline of the defaults is filled, the block
\* size left automatic, and nthreads cast to one byte.
GlobalParameters(p) ==
  [filters |-> build_filters(call[p].doshuffle, g_delta, ZeroedFilters),
   blocksize |-> g_force_blocksize, nthreads |-> g_nthreads]
NolockParameters(p) ==
  [filters |-> build_filters(call[p].doshuffle, g_delta, DefaultFilters),
   blocksize |-> 0, nthreads |-> g_nthreads % 256]

\* Delta left to the context
FlagsShuffleOnly(c, f) ==
  [f EXCEPT !.last = IF c.filters.last = "none" THEN @ ELSE c.filters.last]

\* A Blosc-1 header sets the slots its flags name and leaves the others
flags_to_filters(c, f) ==
  [f EXCEPT !.last = IF c.filters.last = "none" THEN @ ELSE c.filters.last,
            !.delta = @ \/ c.filters.delta]

\* An extended header names every slot; in a stored chunk the bytes after
\* the 16th are data already.
HeaderFilters(c, f) ==
  IF ~c.extended THEN {flags_to_filters(c, f)}
  ELSE IF c.memcpyed THEN Filters ELSE {c.filters}

Decoded(c, f) == IF c.memcpyed \/ f = c.filters THEN "right" ELSE "wrong"

-----------------------------------------------------------------------------
(* blosc_compress and blosc_decompress *)

\* The check of g_initlib and what follows it are two steps: two callers
\* that come first may both create the globals.
FirstStop(p) == IF call[p].nolock THEN "own" ELSE "lock"

EnterLibrary(p) ==
  /\ pc[p] = "enter" /\ call[p].op \in {"compress", "decompress"}
  /\ Goto(p, IF g_initlib THEN FirstStop(p) ELSE "create")
  /\ UNCHANGED <<globals, global_comp_mutex, ctx, call, result, used, calls, history>>

CreateGlobals(p) ==
  /\ pc[p] = "create"
  /\ NewGlobals(FreshContexts) /\ settled' = FALSE
  /\ Goto(p, FirstStop(p))
  /\ UNCHANGED <<g_nthreads, g_delta, g_force_blocksize, call, result, used, calls>>

\* BLOSC_NOLOCK: a context for this call only, zeroed when it is made
PrepareOwn(p) ==
  /\ pc[p] = "own"
  /\ used' = [used EXCEPT ![p] = IF call[p].op = "compress" THEN NolockParameters(p)
                                 ELSE [Unused EXCEPT !.nthreads = g_nthreads]]
  /\ Goto(p, "run")
  /\ UNCHANGED <<globals, global_comp_mutex, ctx, call, result, calls, history>>

\* Without threads the job finds nobody to wait for (the zeroed context
\* counts 0) and reports what the header gave it: nothing was done.
Worked(p, r) == IF used[p].nthreads = 0 THEN "nothing" ELSE r

OwnResults(p) ==
  IF call[p].op = "compress"
  THEN {IF call[p].refused = "no" THEN Worked(p, "right") ELSE "error"}
  ELSE IF ~call[p].room THEN {"error"}
  ELSE IF call[p].chunk.memcpyed THEN {"right"}
  ELSE {Worked(p, Decoded(call[p].chunk, f)) : f \in HeaderFilters(call[p].chunk, ZeroedFilters)}

RunOwn(p) ==
  /\ pc[p] = "run"
  /\ \E r \in OwnResults(p) : Return(p, r)
  /\ UNCHANGED <<globals, global_comp_mutex, ctx, call, used, calls, history>>

\* No mutex
AnyTime == TRUE
Free == global_comp_mutex = NoOne

Lock(p) ==
  /\ pc[p] = "lock" /\ Free
  /\ global_comp_mutex' = p
  /\ Goto(p, "prepare")
  /\ UNCHANGED <<globals, ctx, call, result, used, calls, history>>

\* What initialize_context_compression or write_compression_header refuses
\* ends the call here, with the parameters set and the mutex taken.
PrepareCompression(p) ==
  /\ Doing(p, "prepare", "compress")
  /\ LET given == GlobalParameters(p)
     IN  /\ used' = [used EXCEPT ![p] = given]
         /\ ctx' = [ctx EXCEPT !.filters = given.filters, !.nthreads = given.nthreads]
         /\ seen' = seen \cup {given.filters}
  /\ settled' = (settled \/ ctx.threads_started = 0)
  /\ kept' = call[p].refused
  /\ IF call[p].refused = "no"
     THEN Goto(p, "job") /\ UNCHANGED result
     ELSE Return(p, "error")
  /\ UNCHANGED <<globals, global_comp_mutex, call, calls>>

PrepareDecompression(p) ==
  /\ Doing(p, "prepare", "decompress")
  /\ \E f \in HeaderFilters(call[p].chunk, ctx.filters) :
       /\ ctx' = [ctx EXCEPT !.filters = f]
       /\ seen' = seen \cup {f}
  /\ IF call[p].room
     THEN Goto(p, "job") /\ UNCHANGED result
     ELSE pc' = [pc EXCEPT ![p] = "unlock"] /\ result' = [result EXCEPT ![p] = "error"]
  /\ UNCHANGED <<globals, global_comp_mutex, call, used, calls, settled, kept>>

\* blosc_run_decompression_with_context copies a stored chunk without a job
Copied(p) == call[p].op = "decompress" /\ call[p].chunk.memcpyed

Finished(p) == IF call[p].op = "compress" THEN "right" ELSE Decoded(call[p].chunk, ctx.filters)

\* do_job does not look whether blosc_set_nthreads_ refused 0 threads: the
\* caller passes the first meeting point alone, and the second one as well if
\* count_threads, that malloc left, is not positive.  Workers of an older
\* number of threads may do the work.
JobResults(p) ==
  IF Copied(p) THEN {"right"}
  ELSE IF ctx.nthreads > 0 THEN {Finished(p)}
  ELSE IF ctx.threads_started = 0 THEN {"nothing"} ELSE {"nothing", Finished(p)}

DoJob(p) ==
  /\ pc[p] = "job"
  /\ \E r \in JobResults(p) : result' = [result EXCEPT ![p] = r]
  /\ ctx' = IF ctx.nthreads > 1 /\ ~Copied(p)
            THEN [ctx EXCEPT !.threads_started = ctx.nthreads] ELSE ctx
  /\ Goto(p, "unlock")
  /\ UNCHANGED <<globals, global_comp_mutex, call, used, calls, history>>

\* If count_threads is positive the caller waits there for ever.
WaitForNobody(p) ==
  /\ pc[p] = "job" /\ ctx.nthreads = 0 /\ ~Copied(p)
  /\ Goto(p, "stuck")
  /\ UNCHANGED <<globals, global_comp_mutex, ctx, call, result, used, calls, history>>

\* A return without unlocking
UnlockForgotten(p) ==
  /\ pc[p] = "unlock"
  /\ Goto(p, "idle")
  /\ UNCHANGED <<globals, global_comp_mutex, ctx, call, result, used, calls, history>>

Unlock(p) ==
  /\ pc[p] = "unlock"
  /\ global_comp_mutex' = NoOne
  /\ Goto(p, "idle")
  /\ UNCHANGED <<globals, ctx, call, result, used, calls, history>>

-----------------------------------------------------------------------------
\* blosc_getitem: a context on the stack, whose filters nobody sets
GetItem(p) ==
  /\ Doing(p, "enter", "getitem")
  /\ \E left \in LeftFilters : \E f \in HeaderFilters(call[p].chunk, left) :
       Return(p, Decoded(call[p].chunk, f))
  /\ UNCHANGED <<globals, global_comp_mutex, ctx, call, used, calls, history>>

Step(p) ==
  \/ Setter(p) \/ EnterLibrary(p) \/ CreateGlobals(p) \/ PrepareOwn(p) \/ RunOwn(p) \/ Lock(p)
  \/ PrepareCompression(p) \/ PrepareDecompression(p) \/ DoJob(p) \/ WaitForNobody(p) \/ Unlock(p)
  \/ GetItem(p)

Next == \E p \in Callers : Begin(p) \/ Step(p)

Spec == Init /\ [][Next]_vars
FairSpec == Spec /\ \A p \in Callers : WF_vars(Step(p))

-----------------------------------------------------------------------------
(* Properties *)

(* Types, and that a caller has the mutex from Lock to Unlock, or for good *)
(* when it waits for a pool of no threads.                                 *)
TypeOK ==
  /\ {g_initlib, g_delta, settled} \subseteq BOOLEAN
  /\ g_nthreads \in Nat /\ g_force_blocksize \in Nat /\ calls \in 0 .. MaxCalls
  /\ ctx \in Context /\ seen \subseteq Filters /\ kept \in Refusals
  /\ pc \in [Callers -> {"idle", "enter", "create", "own", "run", "lock", "prepare", "job", "unlock", "stuck"}]
  /\ call \in [Callers -> AllCalls]
  /\ result \in [Callers -> {"none", "right", "wrong", "nothing", "error"}]
  /\ used \in [Callers -> Parameters]
  /\ global_comp_mutex \in Callers \cup {NoOne}
  /\ \A p \in Callers : pc[p] \in {"prepare", "job", "unlock", "stuck"} => global_comp_mutex = p

(* The pool of a context that was given its threads has as many as the     *)
(* context says, so that blosc_release_threadpool, which meets nthreads of *)
(* them, never waits for one that does not exist (blosc.c:2379-2391).      *)
PoolAgrees == g_initlib /\ settled => ctx.threads_started \in {0, ctx.nthreads}

(* A job runs with the parameters of its own call: no other caller came    *)
(* between (blosc.c:1589-1611, 1692-1697).                                 *)
OwnParameters ==
  \A p \in Callers : pc[p] = "job" =>
    /\ call[p].op = "compress" =>
         ctx.nthreads = g_nthreads /\ ctx.filters.last = call[p].doshuffle /\ ctx.filters.front = "clear"
    /\ call[p].op = "decompress" /\ ~call[p].chunk.memcpyed =>
         ctx.filters \in HeaderFilters(call[p].chunk, ctx.filters)

\* Filters that do no harm to a chunk: each one of them is one of its own
Harmless(f, c) ==
  /\ f.front = "clear"
  /\ f.delta => c.filters.delta
  /\ f.last \in {"none", c.filters.last}

\* What a decompression comes to with n threads: right, or, of a chunk that is
\* not stored and with none of them, nothing
RightWith(c, n) == IF n = 0 /\ ~c.memcpyed THEN "nothing" ELSE "right"

(* A context that was given its threads decompresses every chunk with an   *)
(* extended header, and one without as long as it never held a filter the  *)
(* chunk was not made with; with nthreads set to 0 it writes nothing, and  *)
(* only then (blosc.c:1123-1134, 2115-2137).                               *)
HistoryDecides ==
  \A p \in Callers :
    /\ Doing(p, "unlock", "decompress") /\ call[p].room /\ settled
    /\ \/ call[p].chunk.extended
       \/ \A f \in seen : Harmless(f, call[p].chunk)
    => result[p] = RightWith(call[p].chunk, g_nthreads)

Nolock(p) == call[p].op \in {"compress", "decompress"} /\ call[p].nolock

(* Without the lock nothing depends on what other calls left in a context: *)
(* every chunk is decompressed, whatever its header, and a compression has *)
(* the parameters it would have with the lock, but for exactly three: no   *)
(* shuffle becomes shuffle, a block size that was forced is dropped, and   *)
(* nthreads loses all but its last byte, down to no threads at all         *)
(* (blosc.c:1565-1587, 1680-1690).                                         *)
NolockExact ==
  \A p \in Callers : Nolock(p) =>
    /\ Doing(p, "run", "compress") =>
         LET locked == GlobalParameters(p)
         IN  /\ used[p].filters = locked.filters <=> call[p].doshuffle # "none"
             /\ used[p].filters = [locked.filters EXCEPT !.last = used[p].filters.last]
             /\ used[p].blocksize = locked.blocksize <=> g_force_blocksize = 0
             /\ used[p].nthreads = locked.nthreads <=> g_nthreads < 256
    /\ pc[p] = "idle" /\ result[p] # "none" /\ call[p].op = "decompress" =>
         result[p] = IF call[p].room THEN RightWith(call[p].chunk, used[p].nthreads) ELSE "error"
    /\ pc[p] = "idle" /\ result[p] = "nothing" => used[p].nthreads = 0

\* A refused compression kept the mutex, or a caller waits with it for ever.
Hung == kept # "no" \/ \E p \in Callers : pc[p] = "stuck"

(* Every call returns, unless the mutex is never given back: because of a  *)
(* refused compression (blosc.c:1601-1607) or of a pool of no threads.     *)
CallsReturn == \A p \in Callers : pc[p] # "idle" ~> pc[p] = "idle" \/ Hung

(* blosc.h says that a call returns, an error code if need be: there is no *)
(* such exception.                                                         *)
AlwaysReturns == \A p \in Callers : pc[p] # "idle" ~> pc[p] = "idle"

(* blosc.h says of BLOSC_NOLOCK that block size and nthreads are "the same *)
(* as the last calls to" their setters, and that BLOSC_SHUFFLE is honored. *)
NolockHonoured ==
  \A p \in Callers : Nolock(p) /\ Doing(p, "run", "compress") =>
    /\ used[p].blocksize = g_force_blocksize /\ used[p].nthreads = g_nthreads
    /\ used[p].filters.last = call[p].doshuffle

(* blosc.h says of nthreads "If this is not called, `nthreads` is set to 1 *)
(* internally": a decompression never finds no thread at all.              *)
DecompressionRuns == \A p \in Callers : result[p] # "nothing"

(* blosc.h says that blosc_decompress decompresses the data in src,        *)
(* whatever the calls before it did.                                       *)
DecompressionRight == \A p \in Callers : call[p].op = "decompress" => result[p] # "wrong"

(* The same for blosc_getitem, which gets the items of src.                *)
ItemsRight == \A p \in Callers : call[p].op = "getitem" => result[p] # "wrong"
=============================================================================
