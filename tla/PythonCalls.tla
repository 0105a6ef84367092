----------------------------- MODULE PythonCalls -----------------------------
(***************************************************************************)
(* The calls of GlobalApi as Python threads make them through              *)
(* blosc/toplevel.py and blosc_extension.c: arguments are checked, then    *)
(* the extension calls the library either with the interpreter's lock and  *)
(* the library's own context, or, when RELEASEGIL is set, without the lock *)
(* and with a context for that call.                                       *)
(***************************************************************************)
EXTENDS GlobalApi

CONSTANTS
  PyCalls,      \* what the threads call
  Checked       \* by way of toplevel.py, and without BLOSC_CLEVEL?

Codecs == {"blosclz", "lz4"}
AllPyCalls ==
  [op : {"compress"}, doshuffle : {"none", "shuffle", "bitshuffle"}, refused : Refusals,
   nolock : BOOLEAN, cname : Codecs]
  \cup [op : {"set_releasegil"}, gilstate : BOOLEAN]

ASSUME PyCallsKnown ==
  \A c \in PyCalls : c \in AllPyCalls \/ (c \in AllCalls /\ c.op # "compress")
ASSUME CheckedKnown == Checked \in BOOLEAN

VARIABLES
  gil,                 \* the thread that has the interpreter's lock, or NoOne
  RELEASEGIL,
  g_compressor,
  py,                  \* where a thread is outside of the library
  compcode             \* the codec its compression runs with

pyVars == <<gil, RELEASEGIL, g_compressor, py, compcode>>
libVars == <<globals, global_comp_mutex, ctx, pc, call, result, used, calls, history>>

PyGoto(p, l) == py' = [py EXCEPT ![p] = l]

NoCodec == "no codec"

PyInit ==
  /\ Init
  /\ gil = NoOne /\ RELEASEGIL = FALSE
  /\ g_compressor = "blosclz"
  /\ py = [p \in Callers |-> "python"]
  /\ compcode = [p \in Callers |-> NoCodec]
-----------------------------------------------------------------------------
\* Back in Python; of the call nothing is left
BackToPython(p) ==
  /\ PyGoto(p, "python")
  /\ call' = [call EXCEPT ![p] = [op |-> "init"]]
  /\ result' = [result EXCEPT ![p] = "none"]
  /\ used' = [used EXCEPT ![p] = Unused]
  /\ compcode' = [compcode EXCEPT ![p] = NoCodec]
-----------------------------------------------------------------------------
(* The interpreter: a thread gets the lock, and gives it up between two    *)
(* byte codes.                                                             *)
TakeGil(p) ==
  /\ gil = NoOne /\ py[p] \in {"python", "asked"}
  /\ gil' = p
  /\ UNCHANGED <<libVars, RELEASEGIL, g_compressor, py, compcode>>

DropGil(p) ==
  /\ gil = p /\ py[p] \in {"python", "asked"}
  /\ gil' = NoOne
  /\ UNCHANGED <<libVars, RELEASEGIL, g_compressor, py, compcode>>

\* The functions of toplevel.py: _check_clevel and the like raise an
\* exception for the arguments that the library would refuse; but compress
\* gives _check_input_length the number of items of bytesobj, and the
\* extension gives the library its bytes.
PassesChecks(c) == c.op = "compress" /\ Checked => c.refused # "argument"

Ask(p) ==
  /\ gil = p /\ py[p] = "python" /\ calls < MaxCalls
  /\ \E c \in PyCalls :
       /\ PassesChecks(c)
       /\ call' = [call EXCEPT ![p] = c]
  /\ calls' = calls + 1
  /\ PyGoto(p, "asked")
  /\ UNCHANGED <<globals, global_comp_mutex, ctx, pc, result, history, gil, RELEASEGIL,
                 g_compressor, used, compcode>>
-----------------------------------------------------------------------------
(* blosc_extension.c *)
Asked(p, ops) == gil = p /\ py[p] = "asked" /\ call[p].op \in ops

\* blosc_set_compressor, which initializes the library if need be
SelectCompressor(p) ==
  IF call[p].op = "compress"
  THEN g_compressor' = call[p].cname /\ blosc_init
  ELSE UNCHANGED <<g_compressor, g_initlib, global_comp_mutex, ctx, history>>

\* compress_helper and decompress_helper, up to the branch
CallHolding(p) ==
  /\ Asked(p, {"compress", "decompress"}) /\ ~RELEASEGIL
  /\ SelectCompressor(p)
  /\ PyGoto(p, "holding") /\ Goto(p, "enter")
  /\ UNCHANGED <<g_nthreads, g_delta, g_force_blocksize, call, result, used, calls, gil,
                 RELEASEGIL, compcode>>

\* The global context without the lock
CallUnlocked(p) ==
  /\ Asked(p, {"compress", "decompress"})
  /\ SelectCompressor(p)
  /\ gil' = IF RELEASEGIL THEN NoOne ELSE gil
  /\ PyGoto(p, IF RELEASEGIL THEN "running" ELSE "holding") /\ Goto(p, "enter")
  /\ UNCHANGED <<g_nthreads, g_delta, g_force_blocksize, call, result, used, calls, RELEASEGIL, compcode>>

CallReleasing(p) ==
  /\ Asked(p, {"compress", "decompress"}) /\ RELEASEGIL
  /\ SelectCompressor(p)
  /\ gil' = NoOne
  /\ PyGoto(p, IF call[p].op = "compress" THEN "blocksize" ELSE "nthreads")
  /\ UNCHANGED <<g_nthreads, g_delta, g_force_blocksize, pc, call, result, used, calls, RELEASEGIL,
                 compcode>>

CallSetter(p) ==
  /\ Asked(p, {"set_nthreads", "set_delta", "set_blocksize", "init", "destroy", "free_resources"})
  /\ PyGoto(p, "holding") /\ Goto(p, "enter")
  /\ UNCHANGED <<globals, global_comp_mutex, ctx, call, result, used, calls, history, gil,
                 RELEASEGIL, g_compressor, compcode>>

SetReleasegil(p) ==
  /\ Asked(p, {"set_releasegil"})
  /\ RELEASEGIL' = call[p].gilstate
  /\ BackToPython(p)
  /\ UNCHANGED <<globals, global_comp_mutex, ctx, pc, calls, history, gil, g_compressor>>
-----------------------------------------------------------------------------
(* Without the interpreter's lock *)
ReadBlocksize(p) ==
  /\ py[p] = "blocksize"
  /\ used' = [used EXCEPT ![p].blocksize = g_force_blocksize]
  /\ PyGoto(p, "nthreads")
  /\ UNCHANGED <<globals, global_comp_mutex, ctx, pc, call, result, calls, history,
                 gil, RELEASEGIL, g_compressor, compcode>>

SelectedCodec(p) == g_compressor
Codec(p) == call[p].cname

\* The number of threads, and the rest of cparams or dparams: the shuffle is
\* the last filter, whatever it is, and nobody asks for a delta.
ReadNthreads(p) ==
  /\ py[p] = "nthreads"
  /\ IF call[p].op = "compress"
     THEN /\ used' = [used EXCEPT ![p].nthreads = g_nthreads,
                                  ![p].filters = Pipeline(FALSE, call[p].doshuffle)]
          /\ compcode' = [compcode EXCEPT ![p] = Codec(p)]
     ELSE used' = [used EXCEPT ![p].nthreads = g_nthreads] /\ UNCHANGED compcode
  /\ PyGoto(p, "running") /\ Goto(p, "run")
  /\ UNCHANGED <<globals, global_comp_mutex, ctx, call, result, calls, history,
                 gil, RELEASEGIL, g_compressor>>

\* PyEval_RestoreThread
RestoreThread(p) ==
  /\ py[p] = "running" /\ pc[p] = "idle" /\ gil = NoOne
  /\ gil' = p
  /\ BackToPython(p)
  /\ UNCHANGED <<globals, global_comp_mutex, ctx, pc, calls, history, RELEASEGIL, g_compressor>>
-----------------------------------------------------------------------------
(* In the library.  blosc_compress takes its codec from the globals.       *)
InLibrary(p) ==
  /\ py[p] \in {"holding", "running"}
  /\ Step(p)
  /\ compcode' = IF (pc[p] = "own" \/ pc[p] = "prepare") /\ call[p].op = "compress"
                 THEN [compcode EXCEPT ![p] = g_compressor] ELSE compcode
  /\ UNCHANGED <<gil, RELEASEGIL, g_compressor, py>>

ReturnHolding(p) ==
  /\ py[p] = "holding" /\ pc[p] = "idle"
  /\ BackToPython(p)
  /\ UNCHANGED <<globals, global_comp_mutex, ctx, pc, calls, history, gil, RELEASEGIL, g_compressor>>

\* What a thread with a call does once it may
Proceed(p) ==
  \/ CallHolding(p) \/ CallReleasing(p) \/ CallSetter(p) \/ SetReleasegil(p)
  \/ ReadBlocksize(p) \/ ReadNthreads(p) \/ InLibrary(p) \/ ReturnHolding(p)

PyNext == \E p \in Callers :
  TakeGil(p) \/ DropGil(p) \/ Ask(p) \/ Proceed(p) \/ RestoreThread(p)

PySpec == PyInit /\ [][PyNext]_<<libVars, pyVars>>

\* CPython makes a thread that is asked for the lock give it up, and lets
\* the thread that asked have it.
PyFairSpec ==
  /\ PySpec
  /\ \A p \in Callers :
       /\ WF_<<libVars, pyVars>>(DropGil(p))
       /\ SF_<<libVars, pyVars>>(py[p] = "asked" /\ TakeGil(p))
       /\ SF_<<libVars, pyVars>>(Proceed(p))
       /\ SF_<<libVars, pyVars>>(RestoreThread(p))
-----------------------------------------------------------------------------
(* Properties *)

InsideGlobal(p) == pc[p] \in {"enter", "create", "own", "lock", "prepare", "job", "unlock", "stuck"}

(* Types, and that a thread is in the library's own context only with the  *)
(* interpreter's lock.                                                     *)
PyTypeOK ==
  /\ gil \in Callers \cup {NoOne} /\ RELEASEGIL \in BOOLEAN
  /\ g_compressor \in Codecs /\ compcode \in [Callers -> Codecs \cup {NoCodec}]
  /\ py \in [Callers -> {"python", "asked", "holding", "blocksize", "nthreads", "running"}]
  /\ \A p \in Callers : py[p] = "holding" => gil = p
  /\ \A p \in Callers : InsideGlobal(p) => py[p] = "holding"

(* While a thread works with the library's own context, nobody else        *)
(* initializes, destroys or writes it, although blosc_set_nthreads,        *)
(* blosc_destroy and blosc_free_resources take no lock (blosc.c:2115-2130, *)
(* 2365-2376, 2428-2433).                                                  *)
ContextUndisturbed ==
  [][\A p \in Callers :
       pc[p] \in {"prepare", "job", "unlock"} /\ pc'[p] = pc[p]
         => UNCHANGED <<ctx, g_initlib, g_nthreads, g_delta, global_comp_mutex>>]_<<libVars, pyVars>>

(* A thread waits for global_comp_mutex, which with the interpreter's lock *)
(* stops every other thread too (blosc.c:1589, 1692), never because of one *)
(* at work: only when a refused compression kept the mutex, and, after the *)
(* checks of toplevel.py, only one of too many bytes in few enough items.  *)
MutexNeverContended ==
  \A p \in Callers : pc[p] = "lock" /\ ~Free =>
    kept # "no" /\ (Checked => kept = "bytes")

(* A compression runs with the codec its caller named, although all share  *)
(* g_compressor (blosc_extension.c:220, 242).                              *)
OwnCodec ==
  \A p \in Callers :
    Doing(p, "run", "compress") \/ Doing(p, "job", "compress") => compcode[p] = call[p].cname

(* Every call returns to Python, unless a refused compression kept the     *)
(* mutex or a thread waits for a pool of no threads, each of which may     *)
(* leave every thread without the interpreter's lock.                      *)
PyCallsReturn == \A p \in Callers : py[p] # "python" ~> py[p] = "python" \/ Hung

(* toplevel.py says that compress raises a ValueError "If bytesobj is too  *)
(* long", of more than MAX_BUFFERSIZE bytes: the library never sees one.   *)
TooLongRaises == \A p \in Callers : pc[p] # "idle" /\ call[p].op = "compress" => call[p].refused # "bytes"
=============================================================================
