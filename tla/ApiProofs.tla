------------------------------ MODULE ApiProofs ------------------------------
(***************************************************************************)
(* GlobalApi for any number of callers, then PythonCalls, which is built   *)
(* on it, for any number of threads and any calls.                         *)
(***************************************************************************)
EXTENDS PythonCalls, TLAPS

-----------------------------------------------------------------------------
(* GlobalApi.  That a pool agrees with its context holds whatever is       *)
(* called.  The global mutex has one holder, who alone uses the global     *)
(* context, among callers that only compress, decompress and read items,   *)
(* after blosc_init: the setters and blosc_destroy do not take the mutex,  *)
(* and without blosc_init two first calls may both create the globals      *)
(* (blosc.h:160 asks for blosc_init before any other call).                *)

OnlyJobs == Initialised /\ \A c \in Calls : c.op \in {"compress", "decompress", "getitem"}

(* What makes TypeOK inductive: nobody makes the globals, and with them    *)
(* the mutex, anew.                                                        *)
Entered ==
  /\ g_initlib
  /\ \A p \in Callers :
       /\ pc[p] # "create"
       /\ pc[p] = "enter" => call[p] \in Calls

IInv == TypeOK /\ Entered

\* One of the steps of Next
Do(p) == Begin(p) \/ Step(p)

\* TypeOK without the mutex, for which the calls do not matter
Types ==
  /\ {g_initlib, g_delta, settled} \subseteq BOOLEAN
  /\ g_nthreads \in Nat /\ g_force_blocksize \in Nat /\ calls \in 0 .. MaxCalls
  /\ ctx \in Context /\ seen \subseteq Filters /\ kept \in Refusals
  /\ pc \in [Callers -> {"idle", "enter", "create", "own", "run", "lock", "prepare", "job", "unlock", "stuck"}]
  /\ call \in [Callers -> AllCalls]
  /\ result \in [Callers -> {"none", "right", "wrong", "nothing", "error"}]
  /\ used \in [Callers -> Parameters]
  /\ global_comp_mutex \in Callers \cup {NoOne}

LEMMA TypesOfInv == IInv => Types
BY DEF IInv, TypeOK, Types

-----------------------------------------------------------------------------
(* The fields a call has *)
LEMMA CompressFields ==
  ASSUME NEW c \in AllCalls, c.op = "compress"
  PROVE  c.doshuffle \in {"none", "shuffle", "bitshuffle"} /\ c.refused \in Refusals /\ c.nolock \in BOOLEAN
BY DEF AllCalls

LEMMA DecompressFields ==
  ASSUME NEW c \in AllCalls, c.op = "decompress"
  PROVE  c.chunk \in Chunks /\ c.room \in BOOLEAN /\ c.nolock \in BOOLEAN
BY DEF AllCalls

LEMMA GetItemFields ==
  ASSUME NEW c \in AllCalls, c.op = "getitem"
  PROVE  c.chunk \in Chunks
BY DEF AllCalls

(* Pipelines made from arguments or headers are pipelines,                 *)
LEMMA PipelineType ==
  ASSUME NEW d \in BOOLEAN, NEW l \in {"none", "shuffle", "bitshuffle"}
  PROVE  /\ Pipeline(d, l) \in Filters /\ Pipeline(d, l).front = "clear"
         /\ Pipeline(d, l).last = l /\ Pipeline(d, l).delta = d
BY DEF Pipeline, Filters

LEMMA SameFilters ==
  ASSUME NEW f \in Filters, NEW g \in Filters, f.front = g.front, f.delta = g.delta, f.last = g.last
  PROVE  f = g
BY DEF Filters

(* and the flags of a header, given twice, change nothing the second time. *)
LEMMA FlagsType ==
  ASSUME NEW c \in Chunks, NEW f \in Filters
  PROVE  /\ flags_to_filters(c, f) \in Filters
         /\ flags_to_filters(c, f).front = f.front
         /\ flags_to_filters(c, f).delta = (f.delta \/ c.filters.delta)
         /\ flags_to_filters(c, f).last = (IF c.filters.last = "none" THEN f.last ELSE c.filters.last)
<1>2. c.filters.delta \in BOOLEAN /\ c.filters.last \in {"none", "shuffle", "bitshuffle"}
  BY DEF Chunks
<1>3. f.front \in {"clear", "dirty"} /\ f.delta \in BOOLEAN /\ f.last \in {"none", "shuffle", "bitshuffle"}
  BY DEF Filters
<1> DEFINE l == IF c.filters.last = "none" THEN f.last ELSE c.filters.last
           d == f.delta \/ c.filters.delta
<1>4. l \in {"none", "shuffle", "bitshuffle"} /\ d \in BOOLEAN
  BY <1>2, <1>3
<1>5. flags_to_filters(c, f) = [f EXCEPT !.last = l, !.delta = d]
  BY DEF flags_to_filters
<1> HIDE DEF l, d
<1>6. /\ [f EXCEPT !.last = l, !.delta = d] \in Filters
      /\ [f EXCEPT !.last = l, !.delta = d].front = f.front
      /\ [f EXCEPT !.last = l, !.delta = d].delta = d
      /\ [f EXCEPT !.last = l, !.delta = d].last = l
  BY <1>4 DEF Filters
<1> QED
  BY <1>5, <1>6 DEF l, d

LEMMA FlagsTwice ==
  ASSUME NEW c \in Chunks, NEW f \in Filters
  PROVE  flags_to_filters(c, flags_to_filters(c, f)) = flags_to_filters(c, f)
<1> DEFINE g == flags_to_filters(c, f)
           h == flags_to_filters(c, g)
<1>1. g \in Filters /\ h \in Filters
  BY FlagsType
<1>2. h.front = g.front /\ h.last = g.last
  BY FlagsType
<1>3. g.delta \in BOOLEAN /\ h.delta \in BOOLEAN
  BY <1>1 DEF Filters
<1>4. h.delta = (g.delta \/ c.filters.delta) /\ g.delta = (f.delta \/ c.filters.delta)
  BY <1>1, FlagsType
<1>5. f.delta \in BOOLEAN /\ c.filters.delta \in BOOLEAN
  BY DEF Filters, Chunks
<1> HIDE DEF g, h
<1>6. h.delta = g.delta
  BY <1>4, <1>5
<1>7. h = g
  BY <1>1, <1>2, <1>6, SameFilters
<1> QED
  BY <1>7 DEF g, h

(* The filters a header gives are filters, and giving them again changes   *)
(* nothing.                                                                *)
LEMMA HeaderType ==
  ASSUME NEW c \in Chunks, NEW f \in Filters, NEW g \in HeaderFilters(c, f)
  PROVE  g \in Filters /\ g \in HeaderFilters(c, g)
<1>1. CASE ~c.extended
  BY <1>1, FlagsType, FlagsTwice DEF HeaderFilters
<1>2. CASE c.extended /\ c.memcpyed
  BY <1>2 DEF HeaderFilters
<1>3. CASE c.extended /\ ~c.memcpyed
  BY <1>3 DEF HeaderFilters, Chunks, Filters
<1> QED
  BY <1>1, <1>2, <1>3

(* Filling the slots of a pipeline, *)
LEMMA BuiltFilters ==
  ASSUME NEW l \in {"none", "shuffle", "bitshuffle"}, NEW d \in BOOLEAN, NEW f \in Filters
  PROVE  /\ build_filters(l, d, f) \in Filters
         /\ build_filters(l, d, f).front = f.front
         /\ build_filters(l, d, f).last = (IF l = "none" THEN f.last ELSE l)
         /\ build_filters(l, d, f).delta = (f.delta \/ d)
<1>1. f.front \in {"clear", "dirty"} /\ f.delta \in BOOLEAN /\ f.last \in {"none", "shuffle", "bitshuffle"}
  BY DEF Filters
<1> DEFINE last == IF l = "none" THEN f.last ELSE l
           delta == f.delta \/ d
<1>2. last \in {"none", "shuffle", "bitshuffle"} /\ delta \in BOOLEAN
  BY <1>1
<1>3. build_filters(l, d, f) = [f EXCEPT !.last = last, !.delta = delta]
  BY DEF build_filters
<1> HIDE DEF last, delta
<1>4. /\ [f EXCEPT !.last = last, !.delta = delta] \in Filters
      /\ [f EXCEPT !.last = last, !.delta = delta].front = f.front
      /\ [f EXCEPT !.last = last, !.delta = delta].last = last
      /\ [f EXCEPT !.last = last, !.delta = delta].delta = delta
  BY <1>2 DEF Filters
<1> QED
  BY <1>3, <1>4 DEF last, delta

(* the parameters of a compression, with the lock *)
LEMMA Locked ==
  ASSUME Types, NEW p \in Callers, call[p].op = "compress"
  PROVE  /\ GlobalParameters(p) \in Parameters
         /\ GlobalParameters(p).blocksize = g_force_blocksize /\ GlobalParameters(p).nthreads = g_nthreads
         /\ GlobalParameters(p).filters \in Filters
         /\ GlobalParameters(p).filters.front = "clear" /\ GlobalParameters(p).filters.delta = g_delta
         /\ GlobalParameters(p).filters.last = call[p].doshuffle
<1> DEFINE f == build_filters(call[p].doshuffle, g_delta, ZeroedFilters)
<1>1. /\ call[p].doshuffle \in {"none", "shuffle", "bitshuffle"} /\ g_delta \in BOOLEAN
      /\ g_force_blocksize \in Nat /\ g_nthreads \in Nat
  BY CompressFields DEF Types
<1>2. ZeroedFilters \in Filters /\ ZeroedFilters.front = "clear" /\ ZeroedFilters.last = "none"
      /\ ZeroedFilters.delta = FALSE
  BY PipelineType DEF ZeroedFilters
<1>3. f \in Filters /\ f.front = "clear" /\ f.last = call[p].doshuffle /\ f.delta = (FALSE \/ g_delta)
  BY <1>1, <1>2, BuiltFilters
<1>4. f.delta = g_delta
  BY <1>1, <1>3
<1>5. GlobalParameters(p) = [filters |-> f, blocksize |-> g_force_blocksize, nthreads |-> g_nthreads]
  BY DEF GlobalParameters
<1> HIDE DEF f
<1> QED
  BY <1>1, <1>3, <1>4, <1>5 DEF Parameters

(* and without. *)
LEMMA Unlocked ==
  ASSUME Types, NEW p \in Callers, call[p].op = "compress"
  PROVE  /\ NolockParameters(p) \in Parameters
         /\ NolockParameters(p).blocksize = 0 /\ NolockParameters(p).nthreads = g_nthreads % 256
         /\ NolockParameters(p).filters \in Filters
         /\ NolockParameters(p).filters.front = "clear" /\ NolockParameters(p).filters.delta = g_delta
         /\ NolockParameters(p).filters.last = (IF call[p].doshuffle = "none" THEN "shuffle" ELSE call[p].doshuffle)
<1> DEFINE f == build_filters(call[p].doshuffle, g_delta, DefaultFilters)
           last == IF call[p].doshuffle = "none" THEN "shuffle" ELSE call[p].doshuffle
<1>1. /\ call[p].doshuffle \in {"none", "shuffle", "bitshuffle"} /\ g_delta \in BOOLEAN
      /\ g_nthreads \in Nat
  BY CompressFields DEF Types
<1>2. DefaultFilters \in Filters /\ DefaultFilters.front = "clear" /\ DefaultFilters.last = "shuffle"
      /\ DefaultFilters.delta = FALSE
  BY PipelineType DEF DefaultFilters
<1>3. f \in Filters /\ f.front = "clear" /\ f.last = last /\ f.delta = (FALSE \/ g_delta)
  BY <1>1, <1>2, BuiltFilters
<1>4. f.delta = g_delta
  BY <1>1, <1>3
<1>5. NolockParameters(p) = [filters |-> f, blocksize |-> 0, nthreads |-> g_nthreads % 256]
  BY DEF NolockParameters
<1>6. g_nthreads % 256 \in Nat
  BY <1>1
<1> HIDE DEF f
<1> QED
  BY <1>3, <1>4, <1>5, <1>6 DEF Parameters

LEMMA UnusedType ==
  /\ Unused \in Parameters
  /\ \A n \in Nat : [Unused EXCEPT !.nthreads = n] \in Parameters /\ [Unused EXCEPT !.nthreads = n].nthreads = n
BY PipelineType DEF Unused, Parameters

LEMMA DecodedType ==
  ASSUME NEW c, NEW f
  PROVE  Decoded(c, f) \in {"right", "wrong"}
BY DEF Decoded

LEMMA JobResultsType ==
  ASSUME NEW p
  PROVE  JobResults(p) \subseteq {"right", "wrong", "nothing"}
<1>1. Finished(p) \in {"right", "wrong"}
  BY DecodedType DEF Finished
<1> QED
  BY <1>1 DEF JobResults

LEMMA OwnResultsType ==
  ASSUME NEW p
  PROVE  OwnResults(p) \subseteq {"right", "wrong", "nothing", "error"}
<1>1. ASSUME NEW r \in {"right", "wrong"}
      PROVE  Worked(p, r) \in {"right", "wrong", "nothing"}
  BY DEF Worked
<1>2. CASE call[p].op = "compress"
  BY <1>1, <1>2 DEF OwnResults
<1>3. CASE call[p].op # "compress"
  <2>1. ASSUME NEW f \in HeaderFilters(call[p].chunk, ZeroedFilters)
        PROVE  Worked(p, Decoded(call[p].chunk, f)) \in {"right", "wrong", "nothing"}
    BY <1>1, DecodedType
  <2> QED
    BY <1>3, <2>1 DEF OwnResults
<1> QED
  BY <1>2, <1>3

-----------------------------------------------------------------------------
(* The invariant holds at the start, *)
LEMMA FreshContextsType == FreshContexts \subseteq Context
<1>1. \A f \in LeftFilters, n \in LeftNthreads :
        [filters |-> f, nthreads |-> n, threads_started |-> 0] \in Context
  BY LeftOver DEF Context
<1> QED
  BY <1>1 DEF FreshContexts

LEMMA TypesAtInit == Init => Types
<1> SUFFICES ASSUME Init
             PROVE  Types
  OBVIOUS
<1>1. [op |-> "init"] \in AllCalls
  <2>1. [op |-> "init"] \in [op : {"init", "destroy", "free_resources"}]
    OBVIOUS
  <2> QED
    BY <2>1 DEF AllCalls
<1>2. ctx \in Context /\ seen \subseteq Filters
  <2>1. ctx \in Context /\ seen = {ctx.filters}
    BY FreshContextsType DEF Init
  <2> QED
    BY <2>1 DEF Context
<1>3. call \in [Callers -> AllCalls]
  <2>1. \A i \in AllCalls : [p \in Callers |-> i] \in [Callers -> AllCalls]
    OBVIOUS
  <2>2. call = [p \in Callers |-> [op |-> "init"]]
    BY DEF Init
  <2> QED
    BY <1>1, <2>1, <2>2, Zenon
<1>4. {g_initlib, g_delta, settled} \subseteq BOOLEAN /\ g_nthreads \in Nat /\ g_force_blocksize \in Nat
      /\ calls \in 0 .. MaxCalls /\ kept \in Refusals
  <2>1. g_initlib = Initialised /\ g_delta = FALSE /\ settled = FALSE /\ g_nthreads = 1 /\ calls = 0
        /\ g_force_blocksize = 0 /\ kept = "no"
    BY DEF Init
  <2>2. {g_initlib, g_delta, settled} \subseteq BOOLEAN
    BY <2>1, InitialisedKnown
  <2> QED
    BY <2>1, <2>2, CallsBound DEF Refusals
<1>5. /\ pc \in [Callers -> {"idle", "enter", "create", "own", "run", "lock", "prepare", "job", "unlock", "stuck"}]
      /\ result \in [Callers -> {"none", "right", "wrong", "nothing", "error"}]
      /\ \A p \in Callers : pc[p] = "idle"
  BY DEF Init
<1>6. global_comp_mutex \in Callers \cup {NoOne} /\ used \in [Callers -> Parameters]
  BY UnusedType DEF Init
<1> QED
  BY <1>2, <1>3, <1>4, <1>5, <1>6 DEF Types

LEMMA InitOK == OnlyJobs /\ Init => IInv
<1>1. Init => \A p \in Callers : pc[p] = "idle"
  BY DEF Init
<1>2. Init => TypeOK
  BY <1>1, TypesAtInit DEF Types, TypeOK
<1>3. OnlyJobs /\ Init => Entered
  BY <1>1 DEF Init, Entered, OnlyJobs
<1> QED
  BY <1>2, <1>3 DEF IInv

(* no step of a caller reaches the setters, *)
LEMMA NoSetter ==
  ASSUME OnlyJobs, IInv, NEW p \in Callers
  PROVE  ~Setter(p)
<1> SUFFICES ASSUME pc[p] = "enter"
             PROVE  ~Setter(p)
  BY DEF Setter
<1>1. call[p].op \in {"compress", "decompress", "getitem"}
  BY DEF IInv, Entered, OnlyJobs
<1> QED
  BY <1>1 DEF Setter

LEMMA NoCreation ==
  ASSUME IInv, NEW p \in Callers
  PROVE  ~CreateGlobals(p)
BY DEF IInv, Entered, CreateGlobals

(* and every step preserves it. *)
LEMMA BeginOK ==
  ASSUME OnlyJobs, IInv, NEW p \in Callers, Begin(p)
  PROVE  IInv'
<1>1. PICK c \in Calls : call' = [call EXCEPT ![p] = c]
  BY DEF Begin
<1>2. c \in AllCalls
  BY CallsKnown
<1>3. TypeOK'
  BY <1>1, <1>2, CallsBound, UnusedType DEF IInv, TypeOK, Begin, Goto, globals, history
<1>4. Entered'
  BY <1>1 DEF IInv, TypeOK, Entered, Begin, Goto, globals
<1> QED
  BY <1>3, <1>4 DEF IInv

LEMMA EnterOK ==
  ASSUME OnlyJobs, IInv, NEW p \in Callers, EnterLibrary(p)
  PROVE  IInv'
<1>1. pc' = [pc EXCEPT ![p] = FirstStop(p)] /\ FirstStop(p) \in {"own", "lock"}
  BY DEF IInv, Entered, EnterLibrary, Goto, FirstStop
<1>2. TypeOK'
  BY <1>1 DEF IInv, TypeOK, EnterLibrary, globals, history
<1>3. Entered'
  BY <1>1 DEF IInv, TypeOK, Entered, EnterLibrary, globals
<1> QED
  BY <1>2, <1>3 DEF IInv

(* The parameters a call without the lock takes are parameters, *)
LEMMA PreparedOwn ==
  ASSUME Types, NEW p \in Callers, PrepareOwn(p)
  PROVE  /\ used' \in [Callers -> Parameters]
         /\ call[p].op = "compress" => used'[p] = NolockParameters(p)
<1>1. CASE call[p].op = "compress"
  <2>1. used' = [used EXCEPT ![p] = NolockParameters(p)]
    BY <1>1 DEF PrepareOwn
  <2>2. NolockParameters(p) \in Parameters
    BY <1>1, Unlocked
  <2> QED
    BY <2>1, <2>2 DEF Types
<1>2. CASE call[p].op # "compress"
  <2>1. used' = [used EXCEPT ![p] = [Unused EXCEPT !.nthreads = g_nthreads]]
    BY <1>2 DEF PrepareOwn
  <2>2. [Unused EXCEPT !.nthreads = g_nthreads] \in Parameters
    BY UnusedType DEF Types
  <2> QED
    BY <1>2, <2>1, <2>2 DEF Types
<1> QED
  BY <1>1, <1>2

LEMMA PrepareOwnOK ==
  ASSUME OnlyJobs, IInv, NEW p \in Callers, PrepareOwn(p)
  PROVE  IInv'
<1>1. used' \in [Callers -> Parameters]
  BY PreparedOwn, TypesOfInv
<1>2. pc[p] = "own" /\ pc' = [pc EXCEPT ![p] = "run"]
      /\ UNCHANGED <<globals, global_comp_mutex, ctx, call, result, calls, history>>
  BY DEF PrepareOwn, Goto
<1>3. TypeOK'
  BY <1>1, <1>2 DEF IInv, TypeOK, globals, history
<1>4. Entered'
  BY <1>2 DEF IInv, TypeOK, Entered, globals
<1> QED
  BY <1>3, <1>4 DEF IInv

LEMMA RunOwnOK ==
  ASSUME OnlyJobs, IInv, NEW p \in Callers, RunOwn(p)
  PROVE  IInv'
<1>1. PICK r \in {"right", "wrong", "nothing", "error"} : Return(p, r)
  BY OwnResultsType DEF RunOwn
<1>2. TypeOK'
  BY <1>1 DEF IInv, TypeOK, RunOwn, Return, globals, history
<1>3. Entered'
  BY <1>1 DEF IInv, TypeOK, Entered, RunOwn, Return, globals
<1> QED
  BY <1>2, <1>3 DEF IInv

LEMMA LockOK ==
  ASSUME OnlyJobs, IInv, NEW p \in Callers, Lock(p)
  PROVE  IInv'
<1>1. TypeOK'
  BY CallersNamed DEF IInv, TypeOK, Lock, Free, Goto, globals, history
<1>2. Entered'
  BY DEF IInv, TypeOK, Entered, Lock, Goto, globals
<1> QED
  BY <1>1, <1>2 DEF IInv

(* A compression leaves the filters and the threads of its arguments, *)
LEMMA PreparedCompression ==
  ASSUME Types, NEW p \in Callers, PrepareCompression(p)
  PROVE  /\ ctx' \in Context /\ seen' \subseteq Filters /\ ctx'.filters \in seen'
         /\ used' \in [Callers -> Parameters] /\ kept' \in Refusals
         /\ ctx'.nthreads = g_nthreads /\ ctx'.threads_started = ctx.threads_started
         /\ ctx'.filters.last = call[p].doshuffle /\ ctx'.filters.front = "clear"
<1> DEFINE given == GlobalParameters(p)
<1>1. call[p] \in AllCalls /\ call[p].op = "compress"
  BY DEF Types, PrepareCompression, Doing
<1>2. /\ given \in Parameters /\ given.filters \in Filters /\ given.nthreads = g_nthreads
      /\ given.filters.last = call[p].doshuffle /\ given.filters.front = "clear"
  BY <1>1, Locked
<1>3. /\ ctx' = [ctx EXCEPT !.filters = given.filters, !.nthreads = given.nthreads]
      /\ seen' = seen \cup {given.filters} /\ used' = [used EXCEPT ![p] = given]
      /\ kept' = call[p].refused
  BY DEF PrepareCompression
<1>4. ctx \in Context /\ seen \subseteq Filters /\ g_nthreads \in Nat /\ used \in [Callers -> Parameters]
  BY DEF Types
<1>5. kept' \in Refusals
  BY <1>1, <1>3, CompressFields
<1> HIDE DEF given
<1> QED
  BY <1>2, <1>3, <1>4, <1>5 DEF Context

LEMMA PrepareCompressionOK ==
  ASSUME OnlyJobs, IInv, NEW p \in Callers, PrepareCompression(p)
  PROVE  IInv'
<1>1. ctx' \in Context /\ seen' \subseteq Filters /\ used' \in [Callers -> Parameters] /\ kept' \in Refusals
  BY PreparedCompression, TypesOfInv
<1>2. settled' \in BOOLEAN
  BY DEF IInv, TypeOK, PrepareCompression
<1>3. CASE Goto(p, "job") /\ UNCHANGED result
  <2>1. TypeOK'
    BY <1>1, <1>2, <1>3 DEF IInv, TypeOK, PrepareCompression, Doing, Goto, globals
  <2>2. Entered'
    BY <1>3 DEF IInv, TypeOK, Entered, PrepareCompression, Doing, Goto, globals
  <2> QED
    BY <2>1, <2>2 DEF IInv
<1>4. CASE Return(p, "error")
  <2>1. TypeOK'
    BY <1>1, <1>2, <1>4 DEF IInv, TypeOK, PrepareCompression, Return, globals
  <2>2. Entered'
    BY <1>4 DEF IInv, TypeOK, Entered, PrepareCompression, Return, globals
  <2> QED
    BY <2>1, <2>2 DEF IInv
<1> QED
  BY <1>3, <1>4 DEF PrepareCompression

(* and a decompression those its chunk gives to them. *)
LEMMA PreparedDecompression ==
  ASSUME Types, NEW p \in Callers, PrepareDecompression(p)
  PROVE  /\ ctx' \in Context /\ seen' \subseteq Filters
         /\ ctx'.filters \in HeaderFilters(call[p].chunk, ctx'.filters)
<1>1. call[p] \in AllCalls /\ call[p].op = "decompress"
  BY DEF Types, PrepareDecompression, Doing
<1>2. call[p].chunk \in Chunks
  BY <1>1, DecompressFields
<1>3. PICK f \in HeaderFilters(call[p].chunk, ctx.filters) :
        ctx' = [ctx EXCEPT !.filters = f] /\ seen' = seen \cup {f}
  BY DEF PrepareDecompression
<1>4. ctx \in Context /\ ctx.filters \in Filters /\ seen \subseteq Filters
  BY DEF Types, Context
<1>5. f \in Filters /\ f \in HeaderFilters(call[p].chunk, f)
  BY <1>2, <1>3, <1>4, HeaderType
<1>6. ctx' \in Context /\ ctx'.filters = f
  BY <1>3, <1>4, <1>5 DEF Context
<1> QED
  BY <1>3, <1>4, <1>5, <1>6

LEMMA PrepareDecompressionOK ==
  ASSUME OnlyJobs, IInv, NEW p \in Callers, PrepareDecompression(p)
  PROVE  IInv'
<1>1. ctx' \in Context /\ seen' \subseteq Filters
  BY PreparedDecompression, TypesOfInv
<1>2. PICK l \in {"job", "unlock"} : pc' = [pc EXCEPT ![p] = l]
  BY DEF PrepareDecompression, Goto
<1>3. result' \in [Callers -> {"none", "right", "wrong", "nothing", "error"}]
  BY DEF IInv, TypeOK, PrepareDecompression
<1>4. UNCHANGED <<globals, global_comp_mutex, call, used, calls, settled, kept>> /\ pc[p] = "prepare"
  BY DEF PrepareDecompression, Doing
<1>5. TypeOK'
  BY <1>1, <1>2, <1>3, <1>4 DEF IInv, TypeOK, globals
<1>6. Entered'
  BY <1>2, <1>4 DEF IInv, TypeOK, Entered, globals
<1> QED
  BY <1>5, <1>6 DEF IInv

LEMMA DoJobOK ==
  ASSUME OnlyJobs, IInv, NEW p \in Callers, DoJob(p)
  PROVE  IInv'
<1>1. ctx' \in Context
  BY DEF IInv, TypeOK, DoJob, Context
<1>2. result' \in [Callers -> {"none", "right", "wrong", "nothing", "error"}]
  BY JobResultsType DEF IInv, TypeOK, DoJob
<1>3. /\ pc[p] = "job" /\ pc' = [pc EXCEPT ![p] = "unlock"]
      /\ UNCHANGED <<globals, global_comp_mutex, call, used, calls, history>>
  BY DEF DoJob, Goto
<1>4. TypeOK'
  BY <1>1, <1>2, <1>3 DEF IInv, TypeOK, globals, history
<1>5. Entered'
  BY <1>3 DEF IInv, TypeOK, Entered, globals
<1> QED
  BY <1>4, <1>5 DEF IInv

LEMMA WaitForNobodyOK ==
  ASSUME OnlyJobs, IInv, NEW p \in Callers, WaitForNobody(p)
  PROVE  IInv'
<1>1. /\ pc[p] = "job" /\ pc' = [pc EXCEPT ![p] = "stuck"]
      /\ UNCHANGED <<globals, global_comp_mutex, ctx, call, result, used, calls, history>>
  BY DEF WaitForNobody, Goto
<1>2. TypeOK'
  BY <1>1 DEF IInv, TypeOK, globals, history
<1>3. Entered'
  BY <1>1 DEF IInv, TypeOK, Entered, globals
<1> QED
  BY <1>2, <1>3 DEF IInv

LEMMA UnlockOK ==
  ASSUME OnlyJobs, IInv, NEW p \in Callers, Unlock(p)
  PROVE  IInv'
<1>1. TypeOK'
  BY CallersNamed DEF IInv, TypeOK, Unlock, Goto, globals, history
<1>2. Entered'
  BY DEF IInv, TypeOK, Entered, Unlock, Goto, globals
<1> QED
  BY <1>1, <1>2 DEF IInv

LEMMA GetItemOK ==
  ASSUME OnlyJobs, IInv, NEW p \in Callers, GetItem(p)
  PROVE  IInv'
<1>1. PICK r \in {"right", "wrong"} : Return(p, r)
  BY DecodedType DEF GetItem
<1>2. TypeOK'
  BY <1>1 DEF IInv, TypeOK, GetItem, Return, globals, history
<1>3. Entered'
  BY <1>1 DEF IInv, TypeOK, Entered, GetItem, Return, globals
<1> QED
  BY <1>2, <1>3 DEF IInv

LEMMA StutterOK == IInv /\ UNCHANGED vars => IInv'
BY DEF vars, globals, history, IInv, TypeOK, Entered

LEMMA NextOK == OnlyJobs /\ IInv /\ [Next]_vars => IInv'
<1> SUFFICES ASSUME OnlyJobs, IInv, NEW p \in Callers, Do(p)
             PROVE  IInv'
  BY StutterOK DEF Next, Do
<1> QED
  BY BeginOK, NoSetter, NoCreation, EnterOK, PrepareOwnOK, RunOwnOK, LockOK, PrepareCompressionOK,
     PrepareDecompressionOK, DoJobOK, WaitForNobodyOK, UnlockOK, GetItemOK DEF Do, Step

(* Types, and one holder of global_comp_mutex at a time, from the lock     *)
(* (blosc.c:1589, :1691) to the unlock, whatever the number of callers.    *)
THEOREM MutexHolder == OnlyJobs => (Spec => []TypeOK)
<1> SUFFICES ASSUME OnlyJobs
             PROVE  Spec => []TypeOK
  OBVIOUS
<1>1. Init => IInv
  BY InitOK
<1>2. IInv /\ [Next]_vars => IInv'
  BY NextOK
<1>3. IInv => TypeOK
  BY DEF IInv
<1> QED
  BY <1>1, <1>2, <1>3, PTL DEF Spec

-----------------------------------------------------------------------------
(* A step of another caller leaves what a caller does alone, *)
LEMMA OthersKeepCalls ==
  ASSUME Types, NEW p \in Callers, NEW q \in Callers, q # p, Do(q)
  PROVE  pc'[p] = pc[p] /\ call'[p] = call[p] /\ result'[p] = result[p] /\ used'[p] = used[p]
<1> USE DEF Types, Goto, Return
<1>1. CASE Begin(q)
  BY <1>1 DEF Begin
<1>2. CASE Setter(q)
  BY <1>2 DEF Setter
<1>3. CASE EnterLibrary(q) \/ CreateGlobals(q) \/ Lock(q) \/ Unlock(q)
  BY <1>3 DEF EnterLibrary, CreateGlobals, Lock, Unlock
<1>4. CASE PrepareOwn(q) \/ RunOwn(q) \/ GetItem(q)
  BY <1>4 DEF PrepareOwn, RunOwn, GetItem
<1>5. CASE PrepareCompression(q)
  BY <1>5 DEF PrepareCompression
<1>6. CASE PrepareDecompression(q)
  BY <1>6 DEF PrepareDecompression
<1>7. CASE DoJob(q) \/ WaitForNobody(q)
  BY <1>7 DEF DoJob, WaitForNobody
<1> QED
  BY <1>1, <1>2, <1>3, <1>4, <1>5, <1>6, <1>7 DEF Do, Step

(* and while he has the mutex, the global context: of the steps of the     *)
(* others, those that write it need the mutex, and blosc_init finds the    *)
(* library initialised.                                                    *)
LEMMA OthersKeepContext ==
  ASSUME OnlyJobs, IInv, NEW p \in Callers, pc[p] \in {"job", "unlock"},
         NEW q \in Callers, q # p, Do(q)
  PROVE  ctx' = ctx /\ g_nthreads' = g_nthreads /\ UNCHANGED history
<1>1. global_comp_mutex = p /\ g_initlib
  BY DEF IInv, TypeOK, Entered
<1>2. pc[q] \notin {"prepare", "job", "unlock", "stuck"}
  BY <1>1 DEF IInv, TypeOK
<1>3. CASE Begin(q)
  BY <1>3 DEF Begin, globals, history
<1>4. CASE EnterLibrary(q)
  BY <1>4 DEF EnterLibrary, globals, history
<1>5. CASE PrepareOwn(q) \/ RunOwn(q)
  BY <1>5 DEF PrepareOwn, RunOwn, globals, history
<1>6. CASE Lock(q)
  BY <1>6 DEF Lock, globals, history
<1>7. CASE GetItem(q)
  BY <1>7 DEF GetItem, globals, history
<1> QED
  BY <1>2, <1>3, <1>4, <1>5, <1>6, <1>7, NoSetter, NoCreation
     DEF Do, Step, PrepareCompression, PrepareDecompression, DoJob, WaitForNobody, Unlock, Doing

(* Nobody writes the globals that calls without the lock read.             *)
LEMMA JobsKeepGlobals ==
  ASSUME OnlyJobs, IInv, NEW q \in Callers, Do(q)
  PROVE  UNCHANGED globals
BY NoSetter, NoCreation
   DEF Do, Step, Begin, EnterLibrary, PrepareOwn, RunOwn, Lock, PrepareCompression, PrepareDecompression,
       DoJob, WaitForNobody, Unlock, GetItem, globals

(* A caller's own steps only reach a job with the context prepared for it. *)
LEMMA PreparedForJob ==
  ASSUME OnlyJobs, IInv, NEW p \in Callers, Do(p), pc'[p] = "job"
  PROVE  PrepareCompression(p) \/ PrepareDecompression(p)
<1>1. pc \in [Callers -> {"idle", "enter", "create", "own", "run", "lock", "prepare", "job", "unlock", "stuck"}]
  BY DEF IInv, TypeOK
<1> QED
  BY <1>1, NoSetter, NoCreation DEF Do, Step, Begin, EnterLibrary, FirstStop, PrepareOwn, RunOwn, Lock,
                                  DoJob, WaitForNobody, Unlock, GetItem, Goto, Return

\* OwnParameters, of one caller
Own(p) ==
  pc[p] = "job" =>
    /\ call[p].op = "compress" =>
         ctx.nthreads = g_nthreads /\ ctx.filters.last = call[p].doshuffle /\ ctx.filters.front = "clear"
    /\ call[p].op = "decompress" /\ ~call[p].chunk.memcpyed =>
         ctx.filters \in HeaderFilters(call[p].chunk, ctx.filters)

LEMMA OwnStep ==
  ASSUME OnlyJobs, IInv, NEW p \in Callers, Own(p), NEW q \in Callers, Do(q)
  PROVE  Own(p)'
<1> SUFFICES ASSUME pc'[p] = "job"
             PROVE  Own(p)'
  BY DEF Own
<1>1. CASE q # p
  <2>1. pc'[p] = pc[p] /\ call'[p] = call[p]
    BY <1>1, OthersKeepCalls, TypesOfInv
  <2>2. ctx' = ctx /\ g_nthreads' = g_nthreads
    BY <1>1, <2>1, OthersKeepContext
  <2> QED
    BY <2>1, <2>2 DEF Own, HeaderFilters
<1>2. CASE q = p /\ PrepareCompression(p)
  <2>1. call' = call /\ g_nthreads' = g_nthreads /\ call[p].op = "compress"
    BY <1>2 DEF PrepareCompression, Doing, globals
  <2> QED
    BY <1>2, <2>1, PreparedCompression, TypesOfInv DEF Own
<1>3. CASE q = p /\ PrepareDecompression(p)
  <2>1. call' = call /\ call[p].op = "decompress"
    BY <1>3 DEF PrepareDecompression, Doing
  <2> QED
    BY <1>3, <2>1, PreparedDecompression, TypesOfInv DEF Own, HeaderFilters
<1> QED
  BY <1>1, <1>2, <1>3, PreparedForJob

(* Whatever the number of callers, a job runs with the parameters of its   *)
(* own call (blosc.c:1582-1611, 1692-1697).                                *)
THEOREM ParametersAreOwn == OnlyJobs => (Spec => []OwnParameters)
<1> SUFFICES ASSUME OnlyJobs
             PROVE  Spec => []OwnParameters
  OBVIOUS
<1>1. Init => IInv /\ OwnParameters
  BY InitOK DEF Init, OwnParameters
<1>2. IInv /\ OwnParameters /\ [Next]_vars => IInv' /\ OwnParameters'
  <2> SUFFICES ASSUME IInv, OwnParameters, [Next]_vars
               PROVE  OwnParameters'
    BY NextOK
  <2>1. CASE UNCHANGED vars
    BY <2>1 DEF vars, globals, history, OwnParameters, HeaderFilters
  <2>2. ASSUME NEW q \in Callers, Do(q), NEW p \in Callers
        PROVE  Own(p)'
    BY <2>2, OwnStep DEF OwnParameters, Own
  <2>3. CASE Next
    BY <2>2, <2>3 DEF Next, Do, OwnParameters, Own
  <2> QED
    BY <2>1, <2>3
<1> QED
  BY <1>1, <1>2, PTL DEF Spec

-----------------------------------------------------------------------------
(* What holds of any calls, of any number of callers.  The types do, *)
LEMMA FreshTypes ==
  ASSUME Types, NewGlobals(FreshContexts)
  PROVE  /\ g_initlib' \in BOOLEAN /\ global_comp_mutex' \in Callers \cup {NoOne}
         /\ ctx' \in Context /\ seen' \subseteq Filters /\ kept' \in Refusals
BY FreshContextsType DEF NewGlobals, Context, Refusals

LEMMA InitTypes ==
  ASSUME Types, blosc_init
  PROVE  /\ g_initlib' \in BOOLEAN /\ global_comp_mutex' \in Callers \cup {NoOne}
         /\ ctx' \in Context /\ seen' \subseteq Filters /\ settled' \in BOOLEAN
         /\ kept' \in Refusals
BY FreshTypes DEF Types, blosc_init, history

LEMMA SetNthreadsTypes ==
  ASSUME Types, NEW n \in Nat, blosc_set_nthreads(n)
  PROVE  /\ g_initlib' \in BOOLEAN /\ global_comp_mutex' \in Callers \cup {NoOne}
         /\ ctx' \in Context /\ seen' \subseteq Filters /\ settled' \in BOOLEAN
         /\ kept' \in Refusals
         /\ g_nthreads' = n /\ g_delta' = g_delta /\ g_force_blocksize' = g_force_blocksize
<1>1. CASE n = g_nthreads
  BY <1>1, InitTypes DEF blosc_set_nthreads
<1>2. CASE n # g_nthreads
  <2>1. NewGlobals({[c EXCEPT !.nthreads = n] : c \in FreshContexts}) /\ settled' = TRUE
        /\ g_nthreads' = n /\ g_delta' = g_delta /\ g_force_blocksize' = g_force_blocksize
    BY <1>2 DEF blosc_set_nthreads
  <2>2. PICK c \in FreshContexts : ctx' = [c EXCEPT !.nthreads = n]
    BY <2>1 DEF NewGlobals
  <2>3. ctx' \in Context
    BY <2>2, FreshContextsType DEF Context
  <2> QED
    BY <2>1, <2>3 DEF NewGlobals, Context, Refusals
<1> QED
  BY <1>1, <1>2

LEMMA SetterTypes ==
  ASSUME Types, NEW p \in Callers, Setter(p)
  PROVE  Types'
<1>1. /\ pc' = [pc EXCEPT ![p] = "idle"] /\ result' = [result EXCEPT ![p] = "right"]
      /\ call' = call /\ used' = used /\ calls' = calls
  BY DEF Setter, Return
<1>2. /\ call' \in [Callers -> AllCalls] /\ calls' \in 0 .. MaxCalls /\ used' \in [Callers -> Parameters]
      /\ pc' \in [Callers -> {"idle", "enter", "create", "own", "run", "lock", "prepare", "job", "unlock", "stuck"}]
      /\ result' \in [Callers -> {"none", "right", "wrong", "nothing", "error"}]
  BY <1>1 DEF Types
<1>3. /\ g_initlib' \in BOOLEAN /\ g_delta' \in BOOLEAN /\ settled' \in BOOLEAN
      /\ g_nthreads' \in Nat /\ g_force_blocksize' \in Nat /\ ctx' \in Context /\ seen' \subseteq Filters
      /\ kept' \in Refusals
      /\ global_comp_mutex' \in Callers \cup {NoOne}
  <2>1. CASE call[p].op = "set_nthreads"
    <3>1. call[p].nthreads \in Nat /\ blosc_set_nthreads(call[p].nthreads)
      <4>1. call[p] \in AllCalls
        BY DEF Types
      <4>2. call[p].nthreads \in Nat
        BY <2>1, <4>1 DEF AllCalls
      <4> QED
        BY <2>1, <4>2 DEF Setter
    <3> QED
      BY <3>1, SetNthreadsTypes DEF Types
  <2>2. CASE call[p].op = "set_delta"
    <3>1. call[p].dodelta \in BOOLEAN
      <4>1. call[p] \in AllCalls
        BY DEF Types
      <4> QED
        BY <2>2, <4>1 DEF AllCalls
    <3>2. blosc_init /\ g_delta' = call[p].dodelta /\ UNCHANGED <<g_nthreads, g_force_blocksize>>
      BY <2>2 DEF Setter, blosc_set_delta
    <3> QED
      BY <3>1, <3>2, InitTypes DEF Types
  <2>3. CASE call[p].op = "init"
    <3>1. blosc_init /\ UNCHANGED <<g_nthreads, g_delta, g_force_blocksize>>
      BY <2>3 DEF Setter
    <3> QED
      BY <3>1, InitTypes DEF Types
  <2>4. CASE call[p].op = "destroy"
    <3>1. blosc_destroy
      BY <2>4 DEF Setter
    <3> QED
      BY <3>1 DEF blosc_destroy, Types, Context, Refusals
  <2>5. CASE call[p].op = "free_resources"
    <3>1. blosc_free_resources
      BY <2>5 DEF Setter
    <3> QED
      BY <3>1 DEF blosc_free_resources, Types, Context, globals, history
  <2>6. CASE call[p].op = "set_blocksize"
    <3>1. blosc_set_blocksize(call[p].size)
      BY <2>6 DEF Setter
    <3>2. call[p].size \in Nat
      <4>1. call[p] \in AllCalls
        BY DEF Types
      <4>2. call[p].size \in Blocksizes
        BY <2>6, <4>1 DEF AllCalls
      <4> QED
        BY <4>2, BlocksizesKnown
    <3> QED
      BY <3>1, <3>2 DEF blosc_set_blocksize, Types, history
  <2> QED
    BY <2>1, <2>2, <2>3, <2>4, <2>5, <2>6 DEF Setter
<1> QED
  BY <1>2, <1>3 DEF Types

LEMMA CallTypes ==
  ASSUME Types, NEW p \in Callers, Do(p), ~Setter(p)
  PROVE  Types'
<1> USE DEF Types, Goto, Return
<1>1. CASE Begin(p)
  BY <1>1, CallsKnown, CallsBound, UnusedType DEF Begin, globals, history
<1>2. CASE EnterLibrary(p)
  BY <1>2 DEF EnterLibrary, FirstStop, globals, history
<1>3. CASE CreateGlobals(p)
  BY <1>3, FreshTypes DEF CreateGlobals, FirstStop
<1>4. CASE PrepareOwn(p)
  BY <1>4, PreparedOwn DEF PrepareOwn, globals, history
<1>11. CASE RunOwn(p)
  BY <1>11, OwnResultsType DEF RunOwn, globals, history
<1>12. CASE WaitForNobody(p)
  BY <1>12 DEF WaitForNobody, globals, history
<1>5. CASE Lock(p)
  BY <1>5 DEF Lock, globals, history
<1>6. CASE PrepareCompression(p)
  BY <1>6, PreparedCompression DEF PrepareCompression, globals
<1>7. CASE PrepareDecompression(p)
  BY <1>7, PreparedDecompression DEF PrepareDecompression, globals
<1>8. CASE DoJob(p)
  BY <1>8, JobResultsType DEF DoJob, Context, globals, history
<1>9. CASE Unlock(p)
  BY <1>9 DEF Unlock, globals, history
<1>10. CASE GetItem(p)
  BY <1>10, DecodedType DEF GetItem, globals, history
<1> QED
  BY <1>1, <1>2, <1>3, <1>4, <1>5, <1>6, <1>7, <1>8, <1>9, <1>10, <1>11, <1>12 DEF Do, Step

LEMMA TypesHold == Spec => []Types
<1>1. Init => Types
  BY TypesAtInit
<1>2. Types /\ [Next]_vars => Types'
  <2>1. Types /\ UNCHANGED vars => Types'
    BY DEF vars, globals, history, Types
  <2> QED
    BY <2>1, SetterTypes, CallTypes DEF Next, Do
<1> QED
  BY <1>1, <1>2, PTL DEF Spec

-----------------------------------------------------------------------------
(* and what was settled: once a compression or blosc_set_nthreads gave the *)
(* context its threads before it had a pool, it follows g_nthreads.        *)
Settled ==
  settled => ctx.nthreads = g_nthreads /\ ctx.threads_started \in {0, ctx.nthreads}

\* The filters the context holds are among those it held.
FiltersSeen == ctx.filters \in seen

\* A call with BLOSC_NOLOCK never comes near the context; while it runs, a
\* compression has the parameters that blosc_compress gave to it,
OwnPlaces(p) ==
  /\ pc[p] \in {"create", "own", "run", "lock", "prepare", "job", "unlock", "stuck"} =>
       call[p].op \in {"compress", "decompress"}
  /\ pc[p] \in {"lock", "prepare", "job", "unlock", "stuck"} => ~call[p].nolock
OwnGiven(p) == Doing(p, "run", "compress") => used[p] = NolockParameters(p)

\* and when it returned, only one with no threads did nothing.
OwnReturned(p) ==
  pc[p] = "idle" /\ Nolock(p) /\ result[p] # "none" =>
    /\ call[p].op = "decompress" =>
         result[p] = IF call[p].room THEN RightWith(call[p].chunk, used[p].nthreads) ELSE "error"
    /\ result[p] = "nothing" => used[p].nthreads = 0

OwnExact(p) == OwnPlaces(p) /\ OwnGiven(p) /\ OwnReturned(p)

\* A decompression has the filters its chunk gives to the context,
Prepared(p) ==
  Doing(p, "job", "decompress") =>
    /\ call[p].room
    /\ ~call[p].chunk.memcpyed => ctx.filters \in HeaderFilters(call[p].chunk, ctx.filters)

\* and HistoryDecides, of one caller.
Decides(p) ==
  /\ Doing(p, "unlock", "decompress") /\ call[p].room /\ settled
  /\ \/ call[p].chunk.extended
     \/ \A f \in seen : Harmless(f, call[p].chunk)
  => result[p] = RightWith(call[p].chunk, g_nthreads)

\* One caller makes any calls, or many make only those with the mutex.
Alone == \E p : Callers = {p}

LEMMA SettledOK ==
  ASSUME Types, Settled, NEW p \in Callers, Do(p)
  PROVE  Settled'
<1>1. ctx \in Context /\ settled \in BOOLEAN
  BY DEF Types
<1>2. ASSUME blosc_init, g_nthreads' = g_nthreads
      PROVE  Settled'
  BY <1>2 DEF Settled, blosc_init, history
<1>3. CASE Setter(p)
  <2>1. ASSUME NEW n, blosc_set_nthreads(n)
        PROVE  Settled'
    <3>1. CASE n = g_nthreads
      BY <1>2, <2>1, <3>1 DEF blosc_set_nthreads
    <3>2. CASE n # g_nthreads
      <4>1. PICK c \in FreshContexts : ctx' = [c EXCEPT !.nthreads = n]
        BY <2>1, <3>2 DEF blosc_set_nthreads, NewGlobals
      <4>2. ctx'.nthreads = n /\ ctx'.threads_started = 0
        BY <4>1 DEF FreshContexts
      <4> QED
        BY <2>1, <4>2 DEF blosc_set_nthreads, Settled
    <3> QED
      BY <3>1, <3>2
  <2>2. ASSUME blosc_destroy
        PROVE  Settled'
    BY <1>1, <2>2 DEF blosc_destroy, Settled, Context
  <2>3. ASSUME blosc_free_resources
        PROVE  Settled'
    BY <1>1, <2>3 DEF blosc_free_resources, Settled, Context, globals, history
  <2>4. ASSUME NEW n, blosc_set_blocksize(n)
        PROVE  Settled'
    BY <2>4 DEF blosc_set_blocksize, Settled, history
  <2> QED
    BY <1>2, <1>3, <2>1, <2>2, <2>3, <2>4 DEF Setter, blosc_set_delta
<1>4. CASE CreateGlobals(p)
  BY <1>4 DEF CreateGlobals, Settled
<1>5. CASE PrepareCompression(p)
  <2>1. ctx'.nthreads = g_nthreads /\ ctx'.threads_started = ctx.threads_started
    BY <1>5, PreparedCompression
  <2>2. g_nthreads' = g_nthreads /\ settled' = (settled \/ ctx.threads_started = 0)
    BY <1>5 DEF PrepareCompression, globals
  <2> QED
    BY <1>1, <2>1, <2>2 DEF Settled
<1>6. CASE PrepareDecompression(p)
  BY <1>1, <1>6 DEF PrepareDecompression, Settled, Context, globals
<1>7. CASE DoJob(p)
  BY <1>1, <1>7 DEF DoJob, Settled, Context, globals, history
<1>8. CASE Begin(p) \/ EnterLibrary(p) \/ PrepareOwn(p) \/ RunOwn(p) \/ Lock(p) \/ WaitForNobody(p)
           \/ Unlock(p) \/ GetItem(p)
  BY <1>8 DEF Begin, EnterLibrary, PrepareOwn, RunOwn, Lock, WaitForNobody, Unlock, GetItem, Settled, globals,
              history
<1> QED
  BY <1>3, <1>4, <1>5, <1>6, <1>7, <1>8 DEF Do, Step

LEMMA SettledStays == Spec => []Settled
<1>1. Init => Settled
  BY DEF Init, Settled
<1>2. Types /\ Settled /\ [Next]_vars => Settled'
  <2>1. Settled /\ UNCHANGED vars => Settled'
    BY DEF vars, globals, history, Settled
  <2> QED
    BY <2>1, SettledOK DEF Next, Do
<1> QED
  BY <1>1, <1>2, TypesHold, PTL DEF Spec

LEMMA FiltersSeenOK ==
  ASSUME Types, FiltersSeen, NEW p \in Callers, Do(p)
  PROVE  FiltersSeen'
<1>1. ctx \in Context
  BY DEF Types
<1>2. \A contexts : NewGlobals(contexts) => FiltersSeen'
  BY DEF NewGlobals, FiltersSeen
<1>3. CASE Setter(p)
  <2>1. blosc_init => FiltersSeen'
    BY <1>2 DEF blosc_init, history, FiltersSeen
  <2>2. \A n : blosc_set_nthreads(n) => FiltersSeen'
    BY <1>2, <2>1 DEF blosc_set_nthreads
  <2>3. blosc_destroy \/ blosc_free_resources => FiltersSeen'
    BY <1>1 DEF blosc_destroy, blosc_free_resources, FiltersSeen, Context, history
  <2>4. \A n : blosc_set_blocksize(n) => FiltersSeen'
    BY DEF blosc_set_blocksize, FiltersSeen, history
  <2> QED
    BY <1>3, <2>1, <2>2, <2>3, <2>4 DEF Setter, blosc_set_delta
<1>4. CASE CreateGlobals(p)
  BY <1>2, <1>4 DEF CreateGlobals
<1>5. CASE PrepareCompression(p)
  BY <1>5, PreparedCompression DEF FiltersSeen
<1>6. CASE PrepareDecompression(p)
  BY <1>1, <1>6 DEF PrepareDecompression, FiltersSeen, Context
<1>7. CASE DoJob(p)
  BY <1>1, <1>7 DEF DoJob, FiltersSeen, Context, history
<1>8. CASE Begin(p) \/ EnterLibrary(p) \/ PrepareOwn(p) \/ RunOwn(p) \/ Lock(p) \/ WaitForNobody(p)
           \/ Unlock(p) \/ GetItem(p)
  BY <1>8 DEF Begin, EnterLibrary, PrepareOwn, RunOwn, Lock, WaitForNobody, Unlock, GetItem, FiltersSeen, history
<1> QED
  BY <1>3, <1>4, <1>5, <1>6, <1>7, <1>8 DEF Do, Step

(* Whatever is called and by whomever, setters included: a context that    *)
(* was given its threads has a pool of as many as it says, or none         *)
(* (blosc.c:1092-1094, 2132-2148, 2379-2425).                              *)
THEOREM PoolAlwaysAgrees == Spec => []PoolAgrees
<1>1. Settled => PoolAgrees
  BY DEF Settled, PoolAgrees
<1> QED
  BY <1>1, SettledStays, PTL

-----------------------------------------------------------------------------
(* A header gives filters that undo its chunk to a context that is zeroed, *)
LEMMA ZeroedRight ==
  ASSUME NEW c \in Chunks, NEW f \in HeaderFilters(c, ZeroedFilters)
  PROVE  Decoded(c, f) = "right"
<1>1. ZeroedFilters \in Filters /\ ZeroedFilters.front = "clear" /\ ZeroedFilters.delta = FALSE
      /\ ZeroedFilters.last = "none"
  BY DEF ZeroedFilters, Pipeline, Filters
<1>2. CASE c.extended
  BY <1>2 DEF HeaderFilters, Decoded
<1>3. CASE ~c.extended
  <2>1. f = flags_to_filters(c, ZeroedFilters)
    BY <1>3 DEF HeaderFilters
  <2>2. /\ c.filters \in Filters /\ c.filters.front = "clear"
        /\ c.filters.delta \in BOOLEAN
    BY DEF Chunks, Filters
  <2>3. f \in Filters /\ f.front = "clear" /\ f.delta = c.filters.delta /\ f.last = c.filters.last
    BY <1>1, <2>1, <2>2, FlagsType
  <2>4. f = c.filters
    BY <2>2, <2>3, SameFilters
  <2> QED
    BY <2>4 DEF Decoded
<1> QED
  BY <1>2, <1>3

(* and to one whose filters do no harm to it. *)
LEMMA HarmlessRight ==
  ASSUME NEW c \in Chunks, ~c.memcpyed, NEW f \in Filters, f \in HeaderFilters(c, f),
         c.extended \/ Harmless(f, c)
  PROVE  Decoded(c, f) = "right"
<1>1. CASE c.extended
  BY <1>1 DEF HeaderFilters, Decoded
<1>2. CASE ~c.extended
  <2>1. f = flags_to_filters(c, f) /\ Harmless(f, c)
    BY <1>2 DEF HeaderFilters
  <2>2. /\ c.filters \in Filters /\ c.filters.front = "clear"
        /\ c.filters.delta \in BOOLEAN /\ f.delta \in BOOLEAN
    BY DEF Chunks, Filters
  <2>3. f.front = "clear" /\ (f.delta => c.filters.delta) /\ f.last \in {"none", c.filters.last}
    BY <2>1 DEF Harmless
  <2>4. f.delta = (f.delta \/ c.filters.delta)
        /\ f.last = (IF c.filters.last = "none" THEN f.last ELSE c.filters.last)
    BY <2>1, FlagsType
  <2>5. f.delta = c.filters.delta
    BY <2>2, <2>3, <2>4
  <2>6. f.last = c.filters.last
    BY <2>3, <2>4
  <2>7. f = c.filters
    BY <2>2, <2>3, <2>5, <2>6, SameFilters
  <2> QED
    BY <2>7 DEF Decoded
<1> QED
  BY <1>1, <1>2

(* A call keeps away from the context, *)
LEMMA OwnPlacesOK ==
  ASSUME Types, NEW p \in Callers, OwnPlaces(p), Do(p)
  PROVE  OwnPlaces(p)'
<1>1. CASE Begin(p)
  BY <1>1 DEF Begin, Goto, Types, OwnPlaces
<1>2. CASE Setter(p)
  <2>1. pc'[p] = "idle"
    BY <1>2 DEF Setter, Return, Types
  <2> QED
    BY <2>1 DEF OwnPlaces
<1>3. CASE EnterLibrary(p)
  BY <1>3 DEF EnterLibrary, Goto, FirstStop, Types, OwnPlaces
<1>4. CASE CreateGlobals(p)
  BY <1>4 DEF CreateGlobals, Goto, FirstStop, Types, OwnPlaces
<1>5. CASE PrepareOwn(p) \/ RunOwn(p)
  BY <1>5 DEF PrepareOwn, RunOwn, Goto, Return, Types, OwnPlaces
<1>6. CASE Lock(p) \/ Unlock(p)
  BY <1>6 DEF Lock, Unlock, Goto, Types, OwnPlaces
<1>7. CASE PrepareCompression(p) \/ PrepareDecompression(p)
  BY <1>7 DEF PrepareCompression, PrepareDecompression, Goto, Return, Doing, Types, OwnPlaces
<1>8. CASE DoJob(p) \/ WaitForNobody(p)
  BY <1>8 DEF DoJob, WaitForNobody, Goto, Types, OwnPlaces
<1>9. CASE GetItem(p)
  BY <1>9 DEF GetItem, Return, Types, OwnPlaces
<1> QED
  BY <1>1, <1>2, <1>3, <1>4, <1>5, <1>6, <1>7, <1>8, <1>9 DEF Do, Step

(* takes its parameters from the globals, *)
LEMMA OwnGivenOK ==
  ASSUME Types, NEW p \in Callers, OwnGiven(p), Do(p)
  PROVE  OwnGiven(p)'
<1>1. CASE PrepareOwn(p)
  <2>1. call' = call /\ UNCHANGED globals
    BY <1>1 DEF PrepareOwn
  <2>2. call[p].op = "compress" => used'[p] = NolockParameters(p)
    BY <1>1, PreparedOwn
  <2> QED
    BY <2>1, <2>2 DEF OwnGiven, Doing, NolockParameters, globals
<1>2. CASE ~PrepareOwn(p)
  <2>1. pc'[p] # "run"
    BY <1>2 DEF Do, Step, Begin, Setter, EnterLibrary, CreateGlobals, FirstStop, RunOwn, Lock, PrepareCompression,
               PrepareDecompression, DoJob, WaitForNobody, Unlock, GetItem, Goto, Return, Types
  <2> QED
    BY <2>1 DEF OwnGiven, Doing
<1> QED
  BY <1>1, <1>2

(* and comes to an end that does not depend on the context of all.         *)
LEMMA RunOwnExact ==
  ASSUME Types, NEW p \in Callers, OwnPlaces(p), RunOwn(p)
  PROVE  OwnReturned(p)'
<1>1. /\ pc[p] = "run" /\ call' = call /\ used' = used
      /\ \E r \in OwnResults(p) : result' = [result EXCEPT ![p] = r]
  BY DEF RunOwn, Return
<1>2. result'[p] \in OwnResults(p) /\ call[p] \in AllCalls
  BY <1>1 DEF Types
<1>3. call[p].op \in {"compress", "decompress"}
  BY <1>1 DEF OwnPlaces
<1>4. CASE call[p].op = "compress"
  <2>1. result'[p] = "nothing" => used[p].nthreads = 0
    BY <1>2, <1>4 DEF OwnResults, Worked
  <2> QED
    BY <1>1, <1>4, <2>1 DEF OwnReturned, Nolock
<1>5. CASE call[p].op = "decompress"
  <2>1. call[p].chunk \in Chunks /\ call[p].room \in BOOLEAN
    BY <1>2, <1>5, DecompressFields
  <2>2. CASE ~call[p].room
    <3>1. result'[p] = "error"
      BY <1>2, <1>5, <2>2 DEF OwnResults
    <3> QED
      BY <1>1, <2>2, <3>1 DEF OwnReturned, Nolock
  <2>3. CASE call[p].room
    <3>1. result'[p] = RightWith(call[p].chunk, used[p].nthreads)
      <4>1. CASE call[p].chunk.memcpyed
        BY <1>2, <1>5, <2>3, <4>1 DEF OwnResults, RightWith
      <4>2. CASE ~call[p].chunk.memcpyed
        <5>1. PICK f \in HeaderFilters(call[p].chunk, ZeroedFilters) :
                result'[p] = Worked(p, Decoded(call[p].chunk, f))
          BY <1>2, <1>5, <2>3, <4>2 DEF OwnResults
        <5>2. Decoded(call[p].chunk, f) = "right"
          BY <2>1, ZeroedRight
        <5> QED
          BY <4>2, <5>1, <5>2 DEF Worked, RightWith
      <4> QED
        BY <4>1, <4>2
    <3>2. RightWith(call[p].chunk, used[p].nthreads) = "nothing" => used[p].nthreads = 0
      BY DEF RightWith
    <3> QED
      BY <1>1, <2>3, <3>1, <3>2 DEF OwnReturned, Nolock, RightWith
  <2> QED
    BY <2>1, <2>2, <2>3
<1> QED
  BY <1>3, <1>4, <1>5

LEMMA OwnReturnedOK ==
  ASSUME Types, NEW p \in Callers, OwnPlaces(p), OwnReturned(p), Do(p)
  PROVE  OwnReturned(p)'
<1>1. CASE RunOwn(p)
  BY <1>1, RunOwnExact
<1>2. CASE Setter(p) \/ GetItem(p)
  <2>1. call' = call /\ call[p].op \notin {"compress", "decompress"}
    BY <1>2 DEF Setter, GetItem, Doing
  <2> QED
    BY <2>1 DEF OwnReturned, Nolock
<1>3. CASE PrepareCompression(p) \/ PrepareDecompression(p) \/ Unlock(p)
  <2>1. call' = call /\ pc[p] \in {"prepare", "unlock"}
    BY <1>3 DEF PrepareCompression, PrepareDecompression, Unlock, Doing
  <2>2. ~call[p].nolock
    BY <2>1 DEF OwnPlaces
  <2> QED
    BY <2>1, <2>2 DEF OwnReturned, Nolock
<1>4. CASE Begin(p) \/ EnterLibrary(p) \/ CreateGlobals(p) \/ PrepareOwn(p) \/ Lock(p) \/ DoJob(p)
           \/ WaitForNobody(p)
  <2>1. pc'[p] # "idle"
    BY <1>4 DEF Begin, EnterLibrary, CreateGlobals, FirstStop, PrepareOwn, Lock, DoJob, WaitForNobody, Goto, Types
  <2> QED
    BY <2>1 DEF OwnReturned
<1> QED
  BY <1>1, <1>2, <1>3, <1>4 DEF Do, Step

(* A step of another caller does not change what one found in the globals. *)
LEMMA OthersExact ==
  ASSUME OnlyJobs, IInv, NEW p \in Callers, OwnExact(p), NEW q \in Callers, q # p, Do(q)
  PROVE  OwnExact(p)'
<1>1. pc'[p] = pc[p] /\ call'[p] = call[p] /\ result'[p] = result[p] /\ used'[p] = used[p]
  BY OthersKeepCalls, TypesOfInv
<1>2. UNCHANGED globals
  BY JobsKeepGlobals
<1>3. OwnPlaces(p)' /\ OwnReturned(p)'
  BY <1>1 DEF OwnExact, OwnPlaces, OwnReturned, Nolock, RightWith
<1>4. OwnGiven(p)'
  BY <1>1, <1>2 DEF OwnExact, OwnGiven, Doing, NolockParameters, globals
<1> QED
  BY <1>3, <1>4 DEF OwnExact

(* What the two ways to compress differ in.                                *)
LEMMA LostWithoutLock ==
  ASSUME Types, NEW p \in Callers, call[p].op = "compress", used[p] = NolockParameters(p)
  PROVE  LET locked == GlobalParameters(p)
         IN  /\ used[p].filters = locked.filters <=> call[p].doshuffle # "none"
             /\ used[p].filters = [locked.filters EXCEPT !.last = used[p].filters.last]
             /\ used[p].blocksize = locked.blocksize <=> g_force_blocksize = 0
             /\ used[p].nthreads = locked.nthreads <=> g_nthreads < 256
<1> DEFINE f == NolockParameters(p).filters
           g == GlobalParameters(p).filters
<1>1. /\ f \in Filters /\ f.front = "clear" /\ f.delta = g_delta
      /\ f.last = (IF call[p].doshuffle = "none" THEN "shuffle" ELSE call[p].doshuffle)
      /\ NolockParameters(p).blocksize = 0 /\ NolockParameters(p).nthreads = g_nthreads % 256
  BY Unlocked
<1>2. /\ g \in Filters /\ g.front = "clear" /\ g.delta = g_delta /\ g.last = call[p].doshuffle
      /\ GlobalParameters(p).blocksize = g_force_blocksize /\ GlobalParameters(p).nthreads = g_nthreads
  BY Locked
<1>3. g_nthreads \in Nat /\ g_force_blocksize \in Nat
  BY DEF Types
<1> HIDE DEF f, g
<1>4. f = g <=> call[p].doshuffle # "none"
  BY <1>1, <1>2, SameFilters
<1>5. f = [g EXCEPT !.last = f.last]
  <2> DEFINE h == [g EXCEPT !.last = f.last]
  <2>1. f.last \in {"none", "shuffle", "bitshuffle"}
    BY <1>1 DEF Filters
  <2>2. h \in Filters /\ h.last = f.last /\ h.front = g.front /\ h.delta = g.delta
    BY <1>2, <2>1 DEF Filters
  <2> HIDE DEF h
  <2>3. f.front = h.front /\ f.delta = h.delta /\ f.last = h.last
    BY <1>1, <1>2, <2>2
  <2>4. f = h
    BY <1>1, <2>2, <2>3, SameFilters
  <2> QED
    BY <2>4 DEF h
<1>6. g_nthreads % 256 = g_nthreads <=> g_nthreads < 256
  BY <1>3
<1> QED
  BY <1>1, <1>2, <1>3, <1>4, <1>5, <1>6 DEF f, g

(* A call with BLOSC_NOLOCK decompresses every chunk, and compresses with  *)
(* the parameters of blosc_compress but for the three it loses: for one    *)
(* caller of any calls, and for many that only work on chunks after        *)
(* blosc_init (blosc.c:1565-1587, 1680-1690).                              *)
THEOREM NolockIsExact == Alone \/ OnlyJobs => (Spec => []NolockExact)
<1> SUFFICES ASSUME Alone \/ OnlyJobs
             PROVE  Spec => []NolockExact
  OBVIOUS
<1> DEFINE I == \A p \in Callers : OwnExact(p)
           J == OnlyJobs => IInv
<1>1. Init => I /\ J
  <2>1. Init => \A p \in Callers : pc[p] = "idle" /\ call[p].op = "init"
    BY DEF Init
  <2> QED
    BY <2>1, InitOK DEF OwnExact, OwnPlaces, OwnGiven, OwnReturned, Doing, Nolock
<1>2. Types /\ I /\ J /\ [Next]_vars => I' /\ J'
  <2> SUFFICES ASSUME Types, I, J, [Next]_vars
               PROVE  I'
    BY NextOK
  <2>1. CASE UNCHANGED vars
    BY <2>1 DEF vars, globals, OwnExact, OwnPlaces, OwnGiven, OwnReturned, Doing, Nolock, RightWith, NolockParameters
  <2>2. ASSUME NEW q \in Callers, Do(q), NEW p \in Callers
        PROVE  OwnExact(p)'
    <3>1. CASE q = p
      BY <2>2, <3>1, OwnPlacesOK, OwnGivenOK, OwnReturnedOK DEF OwnExact
    <3>2. CASE q # p
      <4>1. OnlyJobs
        BY <3>2 DEF Alone
      <4> QED
        BY <2>2, <3>2, <4>1, OthersExact
    <3> QED
      BY <3>1, <3>2
  <2> QED
    BY <2>1, <2>2 DEF Next, Do
<1>3. Types /\ I => NolockExact
  <2> SUFFICES ASSUME Types, I, NEW p \in Callers, Nolock(p)
               PROVE  /\ Doing(p, "run", "compress") =>
                           LET locked == GlobalParameters(p)
                           IN  /\ used[p].filters = locked.filters <=> call[p].doshuffle # "none"
                               /\ used[p].filters = [locked.filters EXCEPT !.last = used[p].filters.last]
                               /\ used[p].blocksize = locked.blocksize <=> g_force_blocksize = 0
                               /\ used[p].nthreads = locked.nthreads <=> g_nthreads < 256
                      /\ pc[p] = "idle" /\ result[p] # "none" /\ call[p].op = "decompress" =>
                           result[p] = IF call[p].room THEN RightWith(call[p].chunk, used[p].nthreads) ELSE "error"
                      /\ pc[p] = "idle" /\ result[p] = "nothing" => used[p].nthreads = 0
    BY DEF NolockExact
  <2>1. ASSUME Doing(p, "run", "compress")
        PROVE  call[p].op = "compress" /\ used[p] = NolockParameters(p)
    BY <2>1 DEF OwnExact, OwnGiven, Doing
  <2>2. OwnReturned(p)
    BY DEF OwnExact
  <2> QED
    BY <2>1, <2>2, LostWithoutLock DEF OwnReturned
<1> HIDE DEF I, J
<1> QED
  BY <1>1, <1>2, <1>3, TypesHold, PTL DEF Spec

-----------------------------------------------------------------------------
(* A job ends right with the filters its chunk gives to a context that     *)
(* never held another chunk's.                                             *)
LEMMA JobRight ==
  ASSUME Types, Settled, FiltersSeen, NEW p \in Callers, Prepared(p), DoJob(p)
  PROVE  Decides(p)'
<1> SUFFICES ASSUME call[p].op = "decompress", call[p].room, settled,
                    call[p].chunk.extended \/ \A f \in seen : Harmless(f, call[p].chunk)
             PROVE  JobResults(p) = {RightWith(call[p].chunk, g_nthreads)}
  <2>1. /\ result'[p] \in JobResults(p) /\ call' = call /\ g_nthreads' = g_nthreads /\ settled' = settled
        /\ seen' = seen
    BY DEF DoJob, globals, history, Types
  <2> QED
    BY <2>1 DEF Decides, Doing, Harmless, RightWith
<1>1. pc[p] = "job" /\ call[p] \in AllCalls
  BY DEF DoJob, Types
<1>2. call[p].chunk \in Chunks
  BY <1>1, DecompressFields
<1>3. ctx.nthreads = g_nthreads /\ g_nthreads \in Nat /\ (g_nthreads = 0 => ctx.threads_started = 0)
  BY DEF Settled, Types
<1>4. CASE call[p].chunk.memcpyed
  BY <1>4 DEF JobResults, Copied, RightWith
<1>5. CASE ~call[p].chunk.memcpyed
  <2>1. ctx.filters \in HeaderFilters(call[p].chunk, ctx.filters)
    BY <1>1, <1>5 DEF Prepared, Doing
  <2>2. ctx.filters \in Filters /\ ctx.filters \in seen
    BY DEF Types, Context, FiltersSeen
  <2>3. call[p].chunk.extended \/ Harmless(ctx.filters, call[p].chunk)
    BY <2>2
  <2>4. Finished(p) = "right"
    BY <1>2, <1>5, <2>1, <2>2, <2>3, HarmlessRight DEF Finished
  <2>5. CASE g_nthreads = 0
    BY <1>3, <1>5, <2>5 DEF JobResults, Copied, RightWith
  <2>6. CASE g_nthreads # 0
    BY <1>3, <1>5, <2>4, <2>6 DEF JobResults, Copied, RightWith
  <2> QED
    BY <2>5, <2>6
<1> QED
  BY <1>4, <1>5

\* A caller's own steps, with whatever calls
LEMMA DecidesOK ==
  ASSUME Types, Settled, FiltersSeen, NEW p \in Callers, Prepared(p), Decides(p), Do(p)
  PROVE  Prepared(p)' /\ Decides(p)'
<1>1. CASE DoJob(p)
  <2>1. Prepared(p)'
    BY <1>1 DEF DoJob, Goto, Types, Prepared, Doing
  <2> QED
    BY <1>1, <2>1, JobRight
<1>2. CASE PrepareCompression(p)
  <2>1. call' = call /\ call[p].op = "compress"
    BY <1>2 DEF PrepareCompression, Doing
  <2> QED
    BY <2>1 DEF Prepared, Decides, Doing
<1>3. CASE PrepareDecompression(p)
  <2>1. ctx'.filters \in HeaderFilters(call[p].chunk, ctx'.filters)
    BY <1>3, PreparedDecompression
  <2>2. /\ call' = call
        /\ IF call[p].room THEN pc' = [pc EXCEPT ![p] = "job"] ELSE pc' = [pc EXCEPT ![p] = "unlock"]
    BY <1>3 DEF PrepareDecompression, Goto
  <2>3. Prepared(p)'
    BY <2>1, <2>2 DEF Prepared, Doing, Types, HeaderFilters
  <2>4. Decides(p)'
    BY <2>2 DEF Decides, Doing, Types
  <2> QED
    BY <2>3, <2>4
<1>4. CASE ~DoJob(p) /\ ~PrepareCompression(p) /\ ~PrepareDecompression(p)
  <2>1. pc'[p] \notin {"job", "unlock"}
    BY <1>4 DEF Do, Step, Begin, Setter, EnterLibrary, CreateGlobals, FirstStop, PrepareOwn, RunOwn, Lock,
               WaitForNobody, Unlock, GetItem, Goto, Return, Types
  <2> QED
    BY <2>1 DEF Prepared, Decides, Doing
<1> QED
  BY <1>1, <1>2, <1>3, <1>4

LEMMA OthersDecide ==
  ASSUME OnlyJobs, IInv, NEW p \in Callers, Prepared(p), Decides(p), NEW q \in Callers, q # p, Do(q)
  PROVE  Prepared(p)' /\ Decides(p)'
<1>1. pc'[p] = pc[p] /\ call'[p] = call[p] /\ result'[p] = result[p]
  BY OthersKeepCalls, TypesOfInv
<1>2. CASE pc[p] \in {"job", "unlock"}
  <2>1. ctx' = ctx /\ seen' = seen /\ settled' = settled /\ g_nthreads' = g_nthreads
    BY <1>2, OthersKeepContext DEF history
  <2> QED
    BY <1>1, <2>1 DEF Prepared, Decides, Doing, HeaderFilters, Harmless, RightWith
<1>3. CASE pc[p] \notin {"job", "unlock"}
  BY <1>1, <1>3 DEF Prepared, Decides, Doing
<1> QED
  BY <1>2, <1>3

(* A context that was given its threads decompresses a chunk that names    *)
(* its filters, and one that does not if it never held others, or writes   *)
(* nothing when their number is 0: for one caller of any calls, and for    *)
(* many that only work on chunks after blosc_init (blosc.c:1077-1094,      *)
(* 1617-1641, 1692-1699).                                                  *)
THEOREM HistoryIsEnough == Alone \/ OnlyJobs => (Spec => []HistoryDecides)
<1> SUFFICES ASSUME Alone \/ OnlyJobs
             PROVE  Spec => []HistoryDecides
  OBVIOUS
<1> DEFINE I == \A p \in Callers : Prepared(p) /\ Decides(p)
           J == OnlyJobs => IInv
<1>1. Init => I /\ J /\ FiltersSeen
  BY InitOK DEF Init, Prepared, Decides, Doing, FiltersSeen
<1>2. Types /\ Settled /\ FiltersSeen /\ I /\ J /\ [Next]_vars => FiltersSeen' /\ I' /\ J'
  <2> SUFFICES ASSUME Types, Settled, FiltersSeen, I, J, [Next]_vars
               PROVE  FiltersSeen' /\ I'
    BY NextOK
  <2>1. CASE UNCHANGED vars
    BY <2>1 DEF vars, globals, history, FiltersSeen, Prepared, Decides, Doing, HeaderFilters, Harmless, RightWith
  <2>2. ASSUME NEW q \in Callers, Do(q), NEW p \in Callers
        PROVE  Prepared(p)' /\ Decides(p)'
    <3>1. CASE q = p
      BY <2>2, <3>1, DecidesOK
    <3>2. CASE q # p
      <4>1. OnlyJobs
        BY <3>2 DEF Alone
      <4> QED
        BY <2>2, <3>2, <4>1, OthersDecide
    <3> QED
      BY <3>1, <3>2
  <2>3. ASSUME NEW q \in Callers, Do(q)
        PROVE  FiltersSeen'
    BY <2>3, FiltersSeenOK
  <2> QED
    BY <2>1, <2>2, <2>3 DEF Next, Do
<1>3. I => HistoryDecides
  BY DEF Decides, HistoryDecides
<1> HIDE DEF I, J
<1> QED
  BY <1>1, <1>2, <1>3, TypesHold, SettledStays, PTL DEF Spec
-----------------------------------------------------------------------------
(* PythonCalls: the interpreter's lock protects the library's own context, *)
(* and the codec that all share.                                           *)
(* The invariant *)
Stops == {"idle", "enter", "create", "own", "run", "lock", "prepare", "job", "unlock", "stuck"}
AtWork == {"prepare", "job", "unlock", "stuck"}
PyStops == {"python", "asked", "holding", "blocksize", "nthreads", "running"}

\* What a thread may call: a compression comes with the name of its codec.
PyCall == {c \in AllPyCalls \cup AllCalls : c.op = "compress" => c \in AllPyCalls}

PyTypes ==
  /\ gil \in Callers \cup {NoOne} /\ RELEASEGIL \in BOOLEAN
  /\ g_compressor \in Codecs /\ compcode \in [Callers -> Codecs \cup {NoCodec}]
  /\ py \in [Callers -> PyStops] /\ pc \in [Callers -> Stops]
  /\ call \in [Callers -> PyCall] /\ kept \in Refusals

\* Who is in the library's own context has the interpreter's lock; without
\* it a thread has a context of its own.
Places(p) ==
  /\ py[p] = "holding" => gil = p
  /\ py[p] = "running" => pc[p] \in {"run", "idle"}
  /\ py[p] \notin {"holding", "running"} => pc[p] = "idle"

\* The codec all share is the caller's while he has the lock, and stays it
\* for the job; without the lock he took it from the call.
CodecOf(p) ==
  /\ py[p] = "holding" /\ call[p].op = "compress" => g_compressor = call[p].cname
  /\ Doing(p, "run", "compress") \/ Doing(p, "job", "compress") => compcode[p] = call[p].cname

\* global_comp_mutex is taken by a thread at work, or kept by a compression
\* that was refused, which behind the checks of toplevel.py is one for its
\* bytes.
MutexInv ==
  /\ kept = "no" /\ global_comp_mutex # NoOne => \E p \in Callers : pc[p] \in AtWork
  /\ Checked =>
       /\ kept # "argument"
       /\ \A p \in Callers : call[p].op = "compress" => call[p].refused # "argument"

PyInv == PyTypes /\ MutexInv /\ \A p \in Callers : Places(p) /\ CodecOf(p)

LEMMA PyCompressFields ==
  ASSUME NEW c \in PyCall, c.op = "compress"
  PROVE  c.cname \in Codecs /\ c.refused \in Refusals
BY DEF PyCall, AllPyCalls

LEMMA ReleasegilFields ==
  ASSUME NEW c \in PyCall, c.op = "set_releasegil"
  PROVE  c.gilstate \in BOOLEAN
BY DEF PyCall, AllPyCalls, AllCalls

LEMMA InitCall == [op |-> "init"] \in PyCall
<1>1. [op |-> "init"] \in [op : {"init", "destroy", "free_resources"}]
  OBVIOUS
<1> QED
  BY <1>1 DEF PyCall, AllCalls

-----------------------------------------------------------------------------
(* The invariant holds at the start, *)
LEMMA PyInitOK == PyInit => PyInv
<1> SUFFICES ASSUME PyInit
             PROVE  PyInv
  OBVIOUS
<1>1. pc = [p \in Callers |-> "idle"] /\ call = [p \in Callers |-> [op |-> "init"]]
      /\ global_comp_mutex = NoOne /\ kept = "no"
  BY DEF PyInit, Init
<1>2. call \in [Callers -> PyCall]
  <2>1. \A i \in PyCall : [p \in Callers |-> i] \in [Callers -> PyCall]
    OBVIOUS
  <2> QED
    BY <1>1, <2>1, InitCall, Zenon
<1>3. PyTypes
  BY <1>1, <1>2 DEF PyInit, PyTypes, Codecs, PyStops, Stops, Refusals
<1>4. MutexInv
  BY <1>1 DEF MutexInv
<1>5. \A p \in Callers : Places(p) /\ CodecOf(p)
  BY <1>1 DEF PyInit, Places, CodecOf, Doing
<1> QED
  BY <1>3, <1>4, <1>5 DEF PyInv

(* and a step in the library moves the thread, with its call, from stop to *)
(* stop,                                                                   *)
LEMMA LibraryMoves ==
  ASSUME pc \in [Callers -> Stops], NEW p \in Callers, Step(p)
  PROVE  /\ call' = call /\ pc[p] # "idle"
         /\ \E l \in Stops : pc' = [pc EXCEPT ![p] = l]
         /\ pc[p] = "run" => pc'[p] = "idle"
         /\ pc'[p] = "run" => pc[p] = "own"
         /\ pc'[p] = "job" => pc[p] = "prepare"
<1> USE DEF Stops, Goto, Return
<1>1. CASE Setter(p)
  BY <1>1 DEF Setter
<1>2. CASE EnterLibrary(p) \/ CreateGlobals(p) \/ Lock(p) \/ Unlock(p)
  BY <1>2 DEF EnterLibrary, CreateGlobals, Lock, Unlock, FirstStop
<1>3. CASE PrepareOwn(p) \/ RunOwn(p)
  BY <1>3 DEF PrepareOwn, RunOwn
<1>4. CASE PrepareCompression(p)
  BY <1>4 DEF PrepareCompression, Doing
<1>5. CASE PrepareDecompression(p)
  BY <1>5 DEF PrepareDecompression, Doing
<1>6. CASE DoJob(p) \/ WaitForNobody(p) \/ GetItem(p)
  BY <1>6 DEF DoJob, WaitForNobody, GetItem, Doing
<1> QED
  BY <1>1, <1>2, <1>3, <1>4, <1>5, <1>6 DEF Step

(* while the mutex is taken by who goes to work and released by who        *)
(* unlocks,                                                                *)
LEMMA LibraryMutex ==
  ASSUME pc \in [Callers -> Stops], NEW p \in Callers, Step(p), global_comp_mutex' # NoOne, kept' = "no"
  PROVE  \/ pc'[p] \in AtWork
         \/ global_comp_mutex' = global_comp_mutex /\ kept = "no" /\ pc[p] \notin AtWork
<1> USE DEF Stops, AtWork, history
<1>1. CASE Setter(p)
  BY <1>1 DEF Setter, blosc_set_nthreads, blosc_set_delta, blosc_set_blocksize, blosc_init, blosc_destroy,
             blosc_free_resources, NewGlobals
<1>2. CASE CreateGlobals(p)
  BY <1>2 DEF CreateGlobals, NewGlobals
<1>3. CASE Lock(p) \/ Unlock(p)
  BY <1>3 DEF Lock, Unlock, Goto
<1>4. CASE PrepareCompression(p) \/ PrepareDecompression(p)
  BY <1>4 DEF PrepareCompression, PrepareDecompression, Goto
<1>5. CASE DoJob(p) \/ WaitForNobody(p)
  BY <1>5 DEF DoJob, WaitForNobody, Goto
<1>6. CASE EnterLibrary(p) \/ PrepareOwn(p) \/ RunOwn(p) \/ GetItem(p)
  BY <1>6 DEF EnterLibrary, PrepareOwn, RunOwn, GetItem, Doing
<1> QED
  BY <1>1, <1>2, <1>3, <1>4, <1>5, <1>6 DEF Step

(* or is kept because of what was refused.                                 *)
LEMMA LibraryKept ==
  ASSUME NEW p \in Callers, Step(p)
  PROVE  kept' \in {kept, "no"} \/ (call[p].op = "compress" /\ kept' = call[p].refused)
<1> USE DEF history
<1>1. CASE Setter(p)
  BY <1>1 DEF Setter, blosc_set_nthreads, blosc_set_delta, blosc_set_blocksize, blosc_init, blosc_destroy,
             blosc_free_resources, NewGlobals
<1>2. CASE CreateGlobals(p)
  BY <1>2 DEF CreateGlobals, NewGlobals
<1>3. CASE PrepareCompression(p)
  BY <1>3 DEF PrepareCompression, Doing
<1>4. CASE ~Setter(p) /\ ~CreateGlobals(p) /\ ~PrepareCompression(p)
  BY <1>4 DEF Step, EnterLibrary, PrepareOwn, RunOwn, Lock, PrepareDecompression, DoJob, WaitForNobody, Unlock,
             GetItem
<1> QED
  BY <1>1, <1>2, <1>3, <1>4

LEMMA Selected ==
  ASSUME PyInv, NEW p \in Callers, SelectCompressor(p)
  PROVE  /\ g_compressor' \in Codecs
         /\ call[p].op = "compress" => g_compressor' = call[p].cname
         /\ UNCHANGED <<global_comp_mutex, kept>> \/ (global_comp_mutex' = NoOne /\ kept' = "no")
<1>1. call[p] \in PyCall /\ g_compressor \in Codecs
  BY DEF PyInv, PyTypes
<1> QED
  BY <1>1, PyCompressFields DEF SelectCompressor, blosc_init, NewGlobals, history

\* Nobody else has the library's own context while a thread has the lock.
LEMMA OthersApart ==
  ASSUME PyInv, NEW p \in Callers, gil = p \/ gil = NoOne, NEW q \in Callers, q # p
  PROVE  py[q] # "holding" /\ pc[q] \in {"idle", "run"}
BY CallersNamed DEF PyInv, PyTypes, Places

-----------------------------------------------------------------------------
(* Every step preserves the invariant: of the interpreter, *)
LEMMA GilOK ==
  ASSUME PyInv, NEW p \in Callers, TakeGil(p) \/ DropGil(p)
  PROVE  PyInv'
<1>1. UNCHANGED <<global_comp_mutex, kept, pc, call, RELEASEGIL, g_compressor, py, compcode>>
      /\ gil' \in Callers \cup {NoOne} /\ py[p] \in {"python", "asked"} /\ gil \in {p, NoOne}
  BY DEF TakeGil, DropGil, libVars, history
<1>2. PyTypes' /\ MutexInv'
  BY <1>1 DEF PyInv, PyTypes, MutexInv
<1>3. ASSUME NEW q \in Callers
      PROVE  Places(q)' /\ CodecOf(q)'
  BY <1>1, OthersApart DEF PyInv, Places, CodecOf, Doing
<1> QED
  BY <1>2, <1>3 DEF PyInv

LEMMA AskOK ==
  ASSUME PyInv, NEW p \in Callers, Ask(p)
  PROVE  PyInv'
<1>1. PICK c \in PyCalls : PassesChecks(c) /\ call' = [call EXCEPT ![p] = c]
  BY DEF Ask
<1>2. c \in PyCall
  BY PyCallsKnown DEF PyCall
<1>3. /\ UNCHANGED <<global_comp_mutex, kept, pc, gil, RELEASEGIL, g_compressor, compcode>>
      /\ gil = p /\ py[p] = "python" /\ py' = [py EXCEPT ![p] = "asked"]
  BY DEF Ask, PyGoto, history
<1>4. PyTypes'
  BY <1>1, <1>2, <1>3 DEF PyInv, PyTypes, PyStops
<1>5. MutexInv'
  BY <1>1, <1>3 DEF PyInv, PyTypes, MutexInv, PassesChecks
<1>6. ASSUME NEW q \in Callers
      PROVE  Places(q)' /\ CodecOf(q)'
  BY <1>1, <1>3 DEF PyInv, PyTypes, Places, CodecOf, Doing
<1> QED
  BY <1>4, <1>5, <1>6 DEF PyInv

(* of the extension, with the lock *)
LEMMA CallOK ==
  ASSUME PyInv, NEW p \in Callers, CallHolding(p) \/ CallReleasing(p)
  PROVE  PyInv'
<1>1. /\ gil = p /\ py[p] = "asked" /\ SelectCompressor(p)
      /\ UNCHANGED <<call, RELEASEGIL, compcode>>
  BY DEF CallHolding, CallReleasing, Asked
<1>2. \/ gil' = p /\ pc' = [pc EXCEPT ![p] = "enter"] /\ py' = [py EXCEPT ![p] = "holding"]
      \/ /\ gil' = NoOne /\ pc' = pc
         /\ \E l \in {"blocksize", "nthreads"} : py' = [py EXCEPT ![p] = l]
  BY <1>1 DEF CallHolding, CallReleasing, Goto, PyGoto
<1>3. pc[p] = "idle"
  BY <1>1 DEF PyInv, Places
<1>4. PyTypes'
  BY <1>1, <1>2, Selected DEF PyInv, PyTypes, PyStops, Stops, Refusals
<1>5. MutexInv'
  BY <1>1, <1>2, <1>3, Selected DEF PyInv, PyTypes, MutexInv, AtWork
<1>6. ASSUME NEW q \in Callers, q # p
      PROVE  Places(q)' /\ CodecOf(q)'
  <2>1. py'[q] = py[q] /\ pc'[q] = pc[q] /\ call'[q] = call[q] /\ compcode'[q] = compcode[q]
    BY <1>1, <1>2, <1>6 DEF PyInv, PyTypes
  <2>2. py[q] # "holding" /\ pc[q] \in {"idle", "run"}
    BY <1>1, <1>6, OthersApart
  <2> QED
    BY <2>1, <2>2 DEF PyInv, Places, CodecOf, Doing
<1>7. Places(p)' /\ CodecOf(p)'
  BY <1>1, <1>2, <1>3, Selected DEF PyInv, PyTypes, Places, CodecOf, Doing
<1> QED
  BY <1>4, <1>5, <1>6, <1>7 DEF PyInv

LEMMA SetterOK ==
  ASSUME PyInv, NEW p \in Callers, CallSetter(p)
  PROVE  PyInv'
<1>1. /\ gil = p /\ py[p] = "asked" /\ call[p].op # "compress"
      /\ UNCHANGED <<global_comp_mutex, kept, call, gil, RELEASEGIL, g_compressor, compcode>>
      /\ pc' = [pc EXCEPT ![p] = "enter"] /\ py' = [py EXCEPT ![p] = "holding"]
  BY DEF CallSetter, Asked, Goto, PyGoto, history
<1>2. pc[p] = "idle"
  BY <1>1 DEF PyInv, Places
<1>3. PyTypes'
  BY <1>1 DEF PyInv, PyTypes, PyStops, Stops
<1>4. MutexInv'
  BY <1>1, <1>2 DEF PyInv, PyTypes, MutexInv, AtWork
<1>5. ASSUME NEW q \in Callers
      PROVE  Places(q)' /\ CodecOf(q)'
  BY <1>1, <1>2 DEF PyInv, PyTypes, Places, CodecOf, Doing
<1> QED
  BY <1>3, <1>4, <1>5 DEF PyInv

LEMMA BackOK ==
  ASSUME PyInv, NEW p \in Callers, BackToPython(p), pc[p] = "idle", gil \in {p, NoOne}, gil' = p,
         UNCHANGED <<global_comp_mutex, kept, pc, g_compressor>>, RELEASEGIL' \in BOOLEAN
  PROVE  PyInv'
<1>1. /\ py' = [py EXCEPT ![p] = "python"] /\ call' = [call EXCEPT ![p] = [op |-> "init"]]
      /\ compcode' = [compcode EXCEPT ![p] = NoCodec]
  BY DEF BackToPython, PyGoto
<1>2. PyTypes'
  BY <1>1, InitCall DEF PyInv, PyTypes, PyStops
<1>3. MutexInv'
  BY <1>1 DEF PyInv, PyTypes, MutexInv
<1>4. ASSUME NEW q \in Callers, q # p
      PROVE  Places(q)' /\ CodecOf(q)'
  <2>1. py'[q] = py[q] /\ call'[q] = call[q] /\ compcode'[q] = compcode[q]
    BY <1>1, <1>4 DEF PyInv, PyTypes
  <2>2. py[q] # "holding" /\ pc[q] \in {"idle", "run"}
    BY <1>4, OthersApart
  <2> QED
    BY <2>1, <2>2 DEF PyInv, Places, CodecOf, Doing
<1>5. Places(p)' /\ CodecOf(p)'
  BY <1>1 DEF PyInv, PyTypes, Places, CodecOf, Doing
<1> QED
  BY <1>2, <1>3, <1>4, <1>5 DEF PyInv

LEMMA ReturnOK ==
  ASSUME PyInv, NEW p \in Callers, SetReleasegil(p) \/ ReturnHolding(p) \/ RestoreThread(p)
  PROVE  PyInv'
<1>1. RELEASEGIL \in BOOLEAN /\ call[p] \in PyCall
  BY DEF PyInv, PyTypes
<1>2. CASE SetReleasegil(p)
  <2>1. /\ py[p] = "asked" /\ gil = p /\ BackToPython(p)
        /\ UNCHANGED <<global_comp_mutex, kept, pc, g_compressor, gil>>
    BY <1>2 DEF SetReleasegil, Asked, history
  <2>2. RELEASEGIL' \in BOOLEAN
    BY <1>1, <1>2, ReleasegilFields DEF SetReleasegil, Asked
  <2>3. pc[p] = "idle"
    BY <2>1 DEF PyInv, Places
  <2> QED
    BY <2>1, <2>2, <2>3, BackOK
<1>3. CASE ReturnHolding(p)
  <2>1. py[p] = "holding" /\ pc[p] = "idle" /\ BackToPython(p)
        /\ UNCHANGED <<global_comp_mutex, kept, pc, g_compressor, gil, RELEASEGIL>>
    BY <1>3 DEF ReturnHolding, history
  <2>2. gil = p
    BY <2>1 DEF PyInv, Places
  <2> QED
    BY <1>1, <2>1, <2>2, BackOK
<1>4. CASE RestoreThread(p)
  <2>1. gil = NoOne /\ gil' = p /\ pc[p] = "idle" /\ BackToPython(p)
        /\ UNCHANGED <<global_comp_mutex, kept, pc, g_compressor, RELEASEGIL>>
    BY <1>4 DEF RestoreThread, history
  <2> QED
    BY <1>1, <2>1, BackOK
<1> QED
  BY <1>2, <1>3, <1>4

(* and without it, *)
LEMMA ReadOK ==
  ASSUME PyInv, NEW p \in Callers, ReadBlocksize(p) \/ ReadNthreads(p)
  PROVE  PyInv'
<1>1. CASE ReadBlocksize(p)
  <2>1. /\ UNCHANGED <<global_comp_mutex, kept, pc, call, gil, RELEASEGIL, g_compressor, compcode>>
        /\ py[p] = "blocksize" /\ py' = [py EXCEPT ![p] = "nthreads"]
    BY <1>1 DEF ReadBlocksize, PyGoto, history
  <2>2. PyTypes'
    BY <2>1 DEF PyInv, PyTypes, PyStops
  <2>3. MutexInv'
    BY <2>1 DEF PyInv, MutexInv
  <2>4. ASSUME NEW q \in Callers
        PROVE  Places(q)' /\ CodecOf(q)'
    BY <2>1 DEF PyInv, PyTypes, Places, CodecOf, Doing
  <2> QED
    BY <2>2, <2>3, <2>4 DEF PyInv
<1>2. CASE ReadNthreads(p)
  <2>1. /\ UNCHANGED <<global_comp_mutex, kept, call, gil, RELEASEGIL, g_compressor>>
        /\ py[p] = "nthreads" /\ py' = [py EXCEPT ![p] = "running"] /\ pc' = [pc EXCEPT ![p] = "run"]
        /\ IF call[p].op = "compress" THEN compcode' = [compcode EXCEPT ![p] = call[p].cname]
           ELSE compcode' = compcode
    BY <1>2 DEF ReadNthreads, PyGoto, Goto, Codec, history
  <2>2. pc[p] = "idle"
    BY <2>1 DEF PyInv, Places
  <2>3. PyTypes'
    <3>1. call[p].op = "compress" => call[p].cname \in Codecs
      BY PyCompressFields DEF PyInv, PyTypes
    <3> QED
      BY <2>1, <3>1 DEF PyInv, PyTypes, PyStops, Stops
  <2>4. MutexInv'
    BY <2>1, <2>2 DEF PyInv, PyTypes, MutexInv, AtWork
  <2>5. ASSUME NEW q \in Callers, q # p
        PROVE  Places(q)' /\ CodecOf(q)'
    BY <2>1, <2>5 DEF PyInv, PyTypes, Places, CodecOf, Doing
  <2>6. Places(p)' /\ CodecOf(p)'
    BY <2>1, <2>2 DEF PyInv, PyTypes, Places, CodecOf, Doing
  <2> QED
    BY <2>3, <2>4, <2>5, <2>6 DEF PyInv
<1> QED
  BY <1>1, <1>2

(* and in the library.                                                     *)
LEMMA InLibraryOK ==
  ASSUME PyInv, NEW p \in Callers, InLibrary(p)
  PROVE  PyInv'
<1>1. /\ py[p] \in {"holding", "running"} /\ Step(p)
      /\ UNCHANGED <<gil, RELEASEGIL, g_compressor, py>>
      /\ compcode' = IF (pc[p] = "own" \/ pc[p] = "prepare") /\ call[p].op = "compress"
                     THEN [compcode EXCEPT ![p] = g_compressor] ELSE compcode
  BY DEF InLibrary
<1>2. /\ pc \in [Callers -> Stops] /\ compcode \in [Callers -> Codecs \cup {NoCodec}]
      /\ g_compressor \in Codecs /\ kept \in Refusals /\ call[p] \in PyCall
  BY DEF PyInv, PyTypes
<1>3. /\ call' = call /\ pc[p] # "idle"
      /\ pc[p] = "run" => pc'[p] = "idle"
      /\ pc'[p] = "run" => pc[p] = "own"
      /\ pc'[p] = "job" => pc[p] = "prepare"
  BY <1>1, <1>2, LibraryMoves
<1>4. PICK l \in Stops : pc' = [pc EXCEPT ![p] = l]
  BY <1>1, <1>2, LibraryMoves
<1>5. kept' \in {kept, "no"} \/ (call[p].op = "compress" /\ kept' = call[p].refused)
  BY <1>1, LibraryKept
<1>6. PyTypes'
  <2>1. compcode' \in [Callers -> Codecs \cup {NoCodec}]
    BY <1>1, <1>2
  <2>2. kept' \in Refusals
    BY <1>2, <1>5, PyCompressFields DEF Refusals
  <2> QED
    BY <1>1, <1>3, <1>4, <2>1, <2>2 DEF PyInv, PyTypes
<1>7. MutexInv'
  <2>1. ASSUME kept' = "no", global_comp_mutex' # NoOne
        PROVE  \E q \in Callers : pc'[q] \in AtWork
    <3>1. CASE pc'[p] \in AtWork
      BY <3>1
    <3>2. CASE global_comp_mutex' = global_comp_mutex /\ kept = "no" /\ pc[p] \notin AtWork
      <4>1. PICK q \in Callers : pc[q] \in AtWork
        BY <2>1, <3>2 DEF PyInv, MutexInv
      <4>2. q # p /\ pc'[q] = pc[q]
        BY <1>2, <1>4, <3>2, <4>1
      <4> QED
        BY <4>1, <4>2
    <3> QED
      BY <1>1, <1>2, <2>1, <3>1, <3>2, LibraryMutex
  <2>2. Checked => kept' # "argument" /\ \A q \in Callers : call'[q].op = "compress" => call'[q].refused # "argument"
    BY <1>3, <1>5 DEF PyInv, MutexInv
  <2> QED
    BY <2>1, <2>2 DEF MutexInv
<1>8. ASSUME NEW q \in Callers, q # p
      PROVE  Places(q)' /\ CodecOf(q)'
  <2>1. pc'[q] = pc[q] /\ compcode'[q] = compcode[q]
    BY <1>1, <1>2, <1>4, <1>8
  <2> QED
    BY <1>1, <1>3, <2>1 DEF PyInv, Places, CodecOf, Doing
<1>9. Places(p)'
  BY <1>1, <1>3 DEF PyInv, Places
<1>10. CodecOf(p)'
  <2>1. py[p] = "holding" \/ pc[p] = "run"
    BY <1>1, <1>3 DEF PyInv, Places
  <2>2. CASE pc[p] = "run"
    BY <1>1, <1>3, <2>2 DEF PyInv, CodecOf, Doing
  <2>3. CASE py[p] = "holding"
    <3>1. (pc[p] = "own" \/ pc[p] = "prepare") /\ call[p].op = "compress" => compcode'[p] = g_compressor
      BY <1>1, <1>2
    <3> QED
      BY <1>1, <1>3, <2>3, <3>1 DEF PyInv, CodecOf, Doing
  <2> QED
    BY <2>1, <2>2, <2>3
<1> QED
  BY <1>6, <1>7, <1>8, <1>9, <1>10 DEF PyInv

LEMMA PyNextOK == PyInv /\ [PyNext]_<<libVars, pyVars>> => PyInv'
<1>1. PyInv /\ UNCHANGED <<libVars, pyVars>> => PyInv'
  BY DEF libVars, pyVars, history, PyInv, PyTypes, MutexInv, Places, CodecOf, Doing
<1> QED
  BY <1>1, GilOK, AskOK, CallOK, SetterOK, ReturnOK, ReadOK, InLibraryOK DEF PyNext, Proceed

LEMMA PyCorrect == PySpec => []PyInv
BY PyInitOK, PyNextOK, PTL DEF PySpec

-----------------------------------------------------------------------------
(* Types, and a thread is in the library's own context only with the       *)
(* interpreter's lock: RELEASEGIL sends those without it to a context of   *)
(* their own (blosc_extension.c:206-280, 405-449).                         *)
THEOREM ContextNeedsTheLock == PySpec => []PyTypeOK
<1>1. PyInv => PyTypeOK
  BY DEF PyInv, PyTypes, PyStops, Places, Stops, PyTypeOK, InsideGlobal
<1> QED
  BY <1>1, PyCorrect, PTL

(* Whatever codecs the threads name at the same time, each compresses with *)
(* its own (blosc_extension.c:206-263).                                    *)
THEOREM CodecIsOwn == PySpec => []OwnCodec
<1>1. PyInv => OwnCodec
  BY DEF PyInv, CodecOf, OwnCodec
<1> QED
  BY <1>1, PyCorrect, PTL

(* Nobody waits for global_comp_mutex, and thereby for everybody, because  *)
(* of a thread at work, whatever was called; and after the checks of       *)
(* toplevel.py nobody does at all, as long as no compression was of more   *)
(* bytes than BLOSC_MAX_BUFFERSIZE (blosc.c:1589, 1601-1607, 1692).        *)
THEOREM NobodyWaitsInside == PySpec => []MutexNeverContended
<1>1. PyInv => MutexNeverContended
  <2> SUFFICES ASSUME PyInv, NEW p \in Callers, pc[p] = "lock", global_comp_mutex # NoOne
               PROVE  kept # "no" /\ (Checked => kept = "bytes")
    BY DEF MutexNeverContended, Free
  <2>1. gil = p
    BY DEF PyInv, Places
  <2>2. \A q \in Callers : pc[q] \notin AtWork
    BY <2>1, OthersApart DEF AtWork
  <2>3. kept # "no"
    BY <2>2 DEF PyInv, MutexInv
  <2> QED
    BY <2>3 DEF PyInv, PyTypes, MutexInv, Refusals
<1> QED
  BY <1>1, PyCorrect, PTL

(* While a thread works with the library's own context no other writes it: *)
(* the setters take no mutex, but the interpreter's lock keeps them out    *)
(* (blosc.c:2115-2130, 2365-2376, 2428-2433).                              *)
THEOREM NobodyDisturbs == PySpec => ContextUndisturbed
<1> DEFINE Undisturbed == UNCHANGED <<ctx, g_initlib, g_nthreads, g_delta, global_comp_mutex>>
<1>1. ASSUME PyInv, NEW p \in Callers, pc[p] \in {"prepare", "job", "unlock"}, pc'[p] = pc[p],
             NEW q \in Callers,
             TakeGil(q) \/ DropGil(q) \/ Ask(q) \/ Proceed(q) \/ RestoreThread(q)
      PROVE  Undisturbed
  <2>1. py[p] = "holding" /\ gil = p
    BY <1>1 DEF PyInv, Places
  <2>2. q # p => py[q] # "holding" /\ pc[q] \in {"idle", "run"}
    BY <1>1, <2>1, OthersApart
  <2>3. CASE InLibrary(q)
    <3>1. pc \in [Callers -> Stops] /\ Step(q)
      BY <1>1, <2>3 DEF InLibrary, PyInv, PyTypes
    <3>2. q # p
      BY <1>1, <3>1 DEF Step, Setter, EnterLibrary, CreateGlobals, PrepareOwn, RunOwn, Lock, PrepareCompression,
                        PrepareDecompression, DoJob, WaitForNobody, Unlock, GetItem, Doing, Goto, Return, Stops
    <3>3. RunOwn(q)
      BY <2>2, <3>1, <3>2 DEF Step, Setter, EnterLibrary, CreateGlobals, PrepareOwn, Lock, PrepareCompression,
                              PrepareDecompression, DoJob, WaitForNobody, Unlock, GetItem, Doing
    <3> QED
      BY <3>3 DEF RunOwn, globals
  <2>4. CASE CallHolding(q) \/ CallReleasing(q) \/ CallSetter(q) \/ SetReleasegil(q) \/ Ask(q)
    BY <2>1, <2>4 DEF CallHolding, CallReleasing, CallSetter, SetReleasegil, Asked, Ask
  <2>5. CASE TakeGil(q) \/ DropGil(q) \/ ReadBlocksize(q) \/ ReadNthreads(q) \/ ReturnHolding(q)
             \/ RestoreThread(q)
    BY <2>5 DEF TakeGil, DropGil, ReadBlocksize, ReadNthreads, ReturnHolding, RestoreThread, libVars, globals
  <2> QED
    BY <1>1, <2>3, <2>4, <2>5 DEF Proceed
<1>2. PyInv /\ [PyNext]_<<libVars, pyVars>> =>
        [\A p \in Callers : pc[p] \in {"prepare", "job", "unlock"} /\ pc'[p] = pc[p] => Undisturbed]_<<libVars, pyVars>>
  BY <1>1 DEF PyNext
<1> QED
  BY <1>2, PyCorrect, PTL DEF PySpec, ContextUndisturbed
=============================================================================
