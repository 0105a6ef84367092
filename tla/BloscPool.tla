----------------------------- MODULE BloscPool ------------------------------
(* One blosc2_context and its thread pool (blosc.c): a caller, the master, *)
(* runs one request at a time through blosc_compress_context or            *)
(* blosc_run_decompression_with_context, either in its own thread          *)
(* (serial_blosc) or with the nthreads workers of t_blosc, and may release *)
(* the pool between requests (blosc_release_threadpool).                   *)
(*                                                                         *)
(* The build takes the branch of WAIT_INIT and WAIT_FINISH that has no     *)
(* POSIX barriers: one condition variable, count_threads_cv, and one       *)
(* counter serve both meeting points.  Every critical section of the code  *)
(* is one action (none of them blocks except in pthread_cond_wait, which   *)
(* ends one action and starts another), and so is every access to shared   *)
(* state outside a critical section.  A sleeper wakes only when somebody   *)
(* has broadcast; SpuriousPool has the wake-ups that POSIX allows besides. *)
EXTENDS ChunkJobs

CONSTANT NThreads    \* context->nthreads, which never changes

ASSUME NThreadsAssumption == NThreads \in Nat

Workers == 0 .. (NThreads - 1)     \* the tids of t_blosc
Master == NThreads                 \* the thread of the caller
Participants == 0 .. NThreads

VARIABLES
  job,              \* the request the fields of the context describe
  memcpyed,         \* the BLOSC_MEMCPYED bit of header_flags
  output_bytes, threads_started, end_threads, count_threads,
  thread_giveup_code, thread_nblock, dref_not_init,
  asleep,           \* who waits on count_threads_cv
  delta_asleep,     \* who waits on delta_cv
  bstarts,          \* the starts of the blocks, by block
  dest,             \* the regions of dest
  ret,              \* what the last call returned (see ChunkCall)
  tid,              \* the loop variable of init_threads and of the joins
  pc,               \* where each participant is
  nblock_, tblock, ntbytes, cbytes, ntdest,  \* locals of each participant
  tmp2              \* the block whose compressed form a thread has in tmp2

contextVars == <<job, memcpyed, end_threads, threads_started>>
barrierVars == <<count_threads, asleep>>
deltaVars == <<dref_not_init, delta_asleep>>
jobVars == <<output_bytes, thread_giveup_code, thread_nblock>>
bufferVars == <<bstarts, dest>>
localVars == <<nblock_, tblock, ntbytes, cbytes, ntdest, tmp2>>
callerVars == <<ret, tid>>
vars == <<contextVars, barrierVars, deltaVars, jobVars, bufferVars,
          localVars, callerVars, pc>>

Goto(p, l) == pc' = [pc EXCEPT ![p] = l]
-----------------------------------------------------------------------------
Init ==
  /\ job \in Jobs
  /\ memcpyed = FALSE
  /\ output_bytes = 0
  /\ threads_started = 0
  /\ end_threads = FALSE
  /\ count_threads = 0
  /\ thread_giveup_code = 0
  /\ thread_nblock = 0
  /\ dref_not_init = FALSE
  /\ asleep = {}
  /\ delta_asleep = {}
  /\ bstarts = [b \in Blocks(job) |-> 0]
  /\ dest = {}
  /\ ret = [code |-> 0, readable |-> {}]
  /\ tid = 0
  /\ pc = [p \in Participants |-> IF p = Master THEN "idle" ELSE "none"]
  /\ nblock_ = [p \in Participants |-> 0]
  /\ tblock = [p \in Participants |-> 0]
  /\ ntbytes = [p \in Participants |-> 0]
  /\ cbytes = [p \in Participants |-> 0]
  /\ ntdest = [p \in Participants |-> 0]
  /\ tmp2 = [p \in Participants |-> 0]
-----------------------------------------------------------------------------
(* WAIT_INIT and WAIT_FINISH.  The code looks at count_threads once, before *)
(* it waits, and never again.                                               *)
AfterInit(p) ==
  IF p # Master THEN "begin" ELSE IF end_threads THEN "join" ELSE "finish"

AfterFinish(p) == IF p = Master THEN "result" ELSE "init"

InitMissingOneLess == count_threads < NThreads - 1
InitMissing == count_threads < NThreads

FinishMissingOneLess == count_threads > 1
FinishMissing == count_threads > 0

WaitInit(p) ==
  /\ pc[p] = "init"
  /\ IF InitMissing
       THEN /\ count_threads' = count_threads + 1
            /\ asleep' = asleep \cup {p}
            /\ Goto(p, "init_wait")
       ELSE /\ asleep' = {}
            /\ UNCHANGED count_threads
            /\ Goto(p, AfterInit(p))
  /\ UNCHANGED <<contextVars, deltaVars, jobVars, bufferVars, localVars, callerVars>>

WakeInit(p) ==
  /\ pc[p] = "init_wait"
  /\ p \notin asleep
  /\ Goto(p, AfterInit(p))
  /\ UNCHANGED <<contextVars, barrierVars, deltaVars, jobVars, bufferVars,
                 localVars, callerVars>>

WaitFinish(p) ==
  /\ pc[p] = "finish"
  /\ IF FinishMissing
       THEN /\ count_threads' = count_threads - 1
            /\ asleep' = asleep \cup {p}
            /\ Goto(p, "finish_wait")
       ELSE /\ asleep' = {}
            /\ UNCHANGED count_threads
            /\ Goto(p, AfterFinish(p))
  /\ UNCHANGED <<contextVars, deltaVars, jobVars, bufferVars, localVars, callerVars>>

WakeFinish(p) ==
  /\ pc[p] = "finish_wait"
  /\ p \notin asleep
  /\ Goto(p, AfterFinish(p))
  /\ UNCHANGED <<contextVars, barrierVars, deltaVars, jobVars, bufferVars,
                 localVars, callerVars>>
-----------------------------------------------------------------------------
(* The caller: requests *)

\* initialize_context_compression and write_compression_header, or
\* initialize_context_decompression, and the first test of the flag.
StartJob(j) ==
  /\ pc[Master] = "idle"
  /\ job' = j
  /\ memcpyed' = j.memcpyed
  /\ end_threads' = FALSE
  /\ output_bytes' = FirstOutput(j)
  /\ bstarts' = [b \in Blocks(j) |-> 0]
  /\ dest' = {}
  /\ ret' = [code |-> 0, readable |-> {}]
  /\ Goto(Master, IF j.memcpyed THEN "memcpyed" ELSE "do_job")
  /\ UNCHANGED <<threads_started, barrierVars, deltaVars, thread_giveup_code,
                 thread_nblock, localVars, tid>>

\* How a call ends: `code` goes to the caller, who finds buf in dest.  Of
\* the locals nothing is left.
ReturnWith(code, buf) ==
  /\ ret' = [code |-> code,
             readable |-> IF code > 0 THEN Readable(job, memcpyed, bstarts, buf, code)
                          ELSE {}]
  /\ nblock_' = [nblock_ EXCEPT ![Master] = 0]
  /\ ntbytes' = [ntbytes EXCEPT ![Master] = 0]
  /\ Goto(Master, "idle")

\* do_job: the serial version for one thread or for less than two full blocks
RunsSerially == NThreads = 1 \/ SourceSize(job) \div BlockSize <= 1

DoJob ==
  /\ pc[Master] = "do_job"
  /\ dref_not_init' = TRUE
  /\ IF RunsSerially
       THEN /\ nblock_' = [nblock_ EXCEPT ![Master] = 0]
            /\ ntbytes' = [ntbytes EXCEPT ![Master] = output_bytes]
            /\ Goto(Master, IF NBlocks(job) = 0 THEN "job_done" ELSE "serial")
       ELSE /\ Goto(Master, "set_nthreads")
            /\ UNCHANGED <<nblock_, ntbytes>>
  /\ UNCHANGED <<contextVars, barrierVars, delta_asleep, jobVars, bufferVars, tblock,
                 cbytes, ntdest, callerVars, tmp2>>

GiveUpKept == UNCHANGED thread_giveup_code /\ thread_nblock' = -1
Sentinels == thread_giveup_code' = 1 /\ thread_nblock' = -1

\* blosc_set_nthreads_ and the first half of init_threads.  The pool is
\* either absent or has nthreads workers, so that the release of an old
\* pool finds threads_started = 0; with no thread to start an error is
\* returned, which do_job ignores.
SetNthreads ==
  /\ pc[Master] = "set_nthreads"
  /\ IF NThreads > 1 /\ NThreads # threads_started
       THEN /\ Sentinels
            /\ count_threads' = 0
            /\ tid' = 0
            /\ Goto(Master, "create")
       ELSE /\ UNCHANGED <<thread_giveup_code, thread_nblock, count_threads, tid>>
            /\ Goto(Master, "sentinels")
  /\ UNCHANGED <<contextVars, asleep, deltaVars, output_bytes, bufferVars, localVars, ret>>

\* pthread_create of worker tid, which runs at once
CreateThread ==
  /\ pc[Master] = "create"
  /\ tid' = tid + 1
  /\ pc' = [pc EXCEPT ![tid] = "init",
                      ![Master] = IF tid + 1 = NThreads THEN "sentinels" ELSE "create"]
  /\ threads_started' = IF tid + 1 = NThreads THEN NThreads ELSE threads_started
  /\ UNCHANGED <<job, memcpyed, end_threads, barrierVars, deltaVars, jobVars,
                 bufferVars, localVars, ret>>

\* parallel_blosc, up to its first meeting point
SetSentinels ==
  /\ pc[Master] = "sentinels"
  /\ Sentinels
  /\ Goto(Master, "init")
  /\ UNCHANGED <<contextVars, barrierVars, deltaVars, output_bytes, bufferVars,
                 localVars, callerVars>>

\* parallel_blosc, behind its second meeting point
TakeResult ==
  /\ pc[Master] = "result"
  /\ ntbytes' = [ntbytes EXCEPT ![Master] =
                   IF thread_giveup_code <= 0 THEN thread_giveup_code ELSE output_bytes]
  /\ Goto(Master, "job_done")
  /\ UNCHANGED <<contextVars, barrierVars, deltaVars, jobVars, bufferVars, nblock_,
                 tblock, cbytes, ntdest, callerVars, tmp2>>

\* serial_blosc, one block.  blosc_c is given the room that is left in dest
\* and returns 0 for a block that does not fit.  Of two blocks the first is
\* decoded first, so that delta_decoder always finds its reference.
SerialBlock ==
  LET b == nblock_[Master]
      at == ntbytes[Master]
      c == IF ~job.compress /\ b \in job.bad THEN -2
           ELSE IF ~job.compress \/ memcpyed THEN BlockLen(job, b)
           ELSE IF at + job.csize[b] > job.destsize THEN 0
           ELSE job.csize[b]
  IN /\ pc[Master] = "serial"
     /\ b < NBlocks(job)
     /\ bstarts' = IF job.compress /\ ~memcpyed THEN [bstarts EXCEPT ![b] = at]
                   ELSE bstarts
     /\ dest' = IF c <= 0 THEN dest
                ELSE Write(dest, IF ~job.compress THEN Plain(job, b)
                                 ELSE IF memcpyed THEN Stored(job, b)
                                 ELSE Packed(job, b, at))
     /\ dref_not_init' = IF ~job.compress /\ job.delta /\ c > 0 /\ NThreads # 1
                         THEN FALSE ELSE dref_not_init
     /\ IF c <= 0
          THEN /\ ntbytes' = [ntbytes EXCEPT ![Master] = c]
               /\ Goto(Master, "job_done")
               /\ UNCHANGED nblock_
          ELSE /\ ntbytes' = [ntbytes EXCEPT ![Master] = at + c]
               /\ nblock_' = [nblock_ EXCEPT ![Master] = b + 1]
               /\ Goto(Master, IF b + 1 = NBlocks(job) THEN "job_done" ELSE "serial")
     /\ UNCHANGED <<contextVars, barrierVars, delta_asleep, jobVars, tblock, cbytes,
                    ntdest, callerVars, tmp2>>

\* What blosc_compress_context and blosc_run_decompression_with_context
\* make of the result of do_job
JobGaveUp ==
  /\ pc[Master] = "job_done"
  /\ job.compress /\ ntbytes[Master] = 0 /\ ~memcpyed
  /\ memcpyed' = TRUE
  /\ Goto(Master, "memcpyed")
  /\ UNCHANGED <<job, end_threads, threads_started, barrierVars, deltaVars, jobVars,
                 bufferVars, localVars, callerVars>>

JobDone ==
  /\ pc[Master] = "job_done"
  /\ ~(job.compress /\ ntbytes[Master] = 0 /\ ~memcpyed)
  /\ ReturnWith(IF ntbytes[Master] < 0 THEN -1 ELSE ntbytes[Master], dest)
  /\ UNCHANGED <<contextVars, barrierVars, deltaVars, jobVars, bufferVars, tblock,
                 cbytes, ntdest, tid, tmp2>>

\* A chunk that is stored as it is: nothing if dest is too small, a second
\* job that copies block by block, or one memcpy.
CopyWithJob ==
  /\ pc[Master] = "memcpyed"
  /\ job.compress
  /\ SourceSize(job) + MAX_OVERHEAD <= job.destsize
  /\ job.aligned \/ NThreads > 1
  /\ output_bytes' = MAX_OVERHEAD
  /\ Goto(Master, "do_job")
  /\ UNCHANGED <<contextVars, barrierVars, deltaVars, thread_giveup_code,
                 thread_nblock, bufferVars, localVars, callerVars>>

CopyDirectly ==
  /\ pc[Master] = "memcpyed"
  /\ \/ ~job.compress
     \/ SourceSize(job) + MAX_OVERHEAD > job.destsize
     \/ ~job.aligned /\ NThreads <= 1
  /\ LET fits == ~job.compress \/ SourceSize(job) + MAX_OVERHEAD <= job.destsize
     IN /\ dest' = IF ~fits THEN dest
                   ELSE {IF job.compress THEN Stored(job, b) ELSE Plain(job, b) :
                           b \in Blocks(job)}
        /\ ReturnWith(IF ~fits THEN 0
                      ELSE IF job.compress THEN SourceSize(job) + MAX_OVERHEAD
                      ELSE SourceSize(job), dest')
  /\ UNCHANGED <<contextVars, barrierVars, deltaVars, jobVars, bstarts, tblock,
                 cbytes, ntdest, tid, tmp2>>
-----------------------------------------------------------------------------
(* The caller: blosc_release_threadpool between two requests *)
StartRelease ==
  /\ pc[Master] = "idle"
  /\ threads_started > 0
  /\ end_threads' = TRUE
  /\ tid' = 0
  /\ Goto(Master, "init")
  /\ UNCHANGED <<job, memcpyed, threads_started, barrierVars, deltaVars, jobVars,
                 bufferVars, localVars, ret>>

LastJoin == tid + 1 = threads_started

\* pthread_join of worker tid; behind the last one all that the pool used
\* is destroyed.
JoinThread ==
  /\ pc[Master] = "join"
  /\ pc[tid] = "exited"
  /\ tid' = tid + 1
  /\ pc' = [pc EXCEPT ![tid] = "none",
                      ![Master] = IF LastJoin THEN "idle" ELSE "join"]
  /\ threads_started' = IF LastJoin THEN 0 ELSE threads_started
  /\ UNCHANGED <<job, memcpyed, end_threads, barrierVars, deltaVars, jobVars,
                 bufferVars, localVars, ret>>
-----------------------------------------------------------------------------
(* The workers: t_blosc *)
InBlockOrder == job.compress /\ ~memcpyed   \* blocks are claimed one by one

\* thread_nblock++ and its value, under count_mutex
ClaimUncounted(t) ==
  UNCHANGED thread_nblock /\ nblock_' = [nblock_ EXCEPT ![t] = thread_nblock + 1]
ClaimNext(t) ==
  /\ thread_nblock' = thread_nblock + 1
  /\ nblock_' = [nblock_ EXCEPT ![t] = thread_nblock + 1]

\* blocks per thread when the ranges are static
TBlocks == (NBlocks(job) + NThreads - 1) \div NThreads

Begin(t) ==
  /\ pc[t] = "begin"
  /\ IF end_threads
       THEN /\ Goto(t, "exited")
            /\ UNCHANGED <<thread_nblock, nblock_, tblock, ntbytes>>
       ELSE /\ Goto(t, "loop")
            /\ ntbytes' = [ntbytes EXCEPT ![t] = 0]
            /\ IF InBlockOrder
                 THEN /\ ClaimNext(t)
                      /\ tblock' = [tblock EXCEPT ![t] = NBlocks(job)]
                 ELSE /\ nblock_' = [nblock_ EXCEPT ![t] = t * TBlocks]
                      /\ tblock' = [tblock EXCEPT ![t] =
                                      IF (t + 1) * TBlocks > NBlocks(job)
                                      THEN NBlocks(job) ELSE (t + 1) * TBlocks]
                      /\ UNCHANGED thread_nblock
  /\ UNCHANGED <<contextVars, barrierVars, deltaVars, output_bytes, thread_giveup_code,
                 bufferVars, cbytes, ntdest, callerVars, tmp2>>

\* The condition of the loop, which reads thread_giveup_code without a lock
OneBlockMore(t) == nblock_[t] <= tblock[t] /\ thread_giveup_code > 0
MoreBlocks(t) == nblock_[t] < tblock[t] /\ thread_giveup_code > 0

Loop(t) ==
  /\ pc[t] = "loop"
  /\ Goto(t, IF MoreBlocks(t) THEN "block" ELSE "sum")
  /\ UNCHANGED <<contextVars, barrierVars, deltaVars, jobVars, bufferVars, localVars,
                 callerVars>>

\* blosc_c into a temporary of the thread, whose size depends on the block only
CompressBlock(t) ==
  /\ pc[t] = "block"
  /\ InBlockOrder
  /\ cbytes' = [cbytes EXCEPT ![t] = job.csize[nblock_[t]]]
  /\ tmp2' = [tmp2 EXCEPT ![t] = nblock_[t]]
  /\ Goto(t, "check")
  /\ UNCHANGED <<contextVars, barrierVars, deltaVars, jobVars, bufferVars, nblock_,
                 tblock, ntbytes, ntdest, callerVars>>

\* A memcpy of the block, or blosc_d of one that needs no other block
PlaceBlock(t) ==
  LET b == nblock_[t]
  IN /\ pc[t] = "block"
     /\ memcpyed \/ (~job.compress /\ ~job.delta /\ b \notin job.bad)
     /\ dest' = Write(dest, IF job.compress THEN Stored(job, b) ELSE Plain(job, b))
     /\ cbytes' = [cbytes EXCEPT ![t] = BlockLen(job, b)]
     /\ Goto(t, "check")
     /\ UNCHANGED <<contextVars, barrierVars, deltaVars, jobVars, bstarts, nblock_,
                    tblock, ntbytes, ntdest, callerVars, tmp2>>

\* blosc_d finds the wrong number of bytes in a block, before any filter
RejectBlock(t) ==
  /\ pc[t] = "block"
  /\ ~job.compress /\ ~memcpyed
  /\ nblock_[t] \in job.bad
  /\ cbytes' = [cbytes EXCEPT ![t] = -2]
  /\ Goto(t, "check")
  /\ UNCHANGED <<contextVars, barrierVars, deltaVars, jobVars, bufferVars, nblock_,
                 tblock, ntbytes, ntdest, callerVars, tmp2>>

NeverWait(b) == FALSE
MustWait(b) == dref_not_init /\ b # 0

\* pipeline_d at the delta filter, under delta_mutex: block 0 is decoded and
\* announced, the others wait for it or go on.
DeltaGate(t) ==
  LET b == nblock_[t]
  IN /\ pc[t] = "block"
     /\ ~job.compress /\ ~memcpyed /\ job.delta
     /\ b \notin job.bad
     /\ cbytes' = [cbytes EXCEPT ![t] = BlockLen(job, b)]
     /\ CASE MustWait(b) ->
               /\ delta_asleep' = delta_asleep \cup {t}
               /\ Goto(t, "delta_wait")
               /\ UNCHANGED <<dref_not_init, dest>>
          [] dref_not_init /\ b = 0 ->
               /\ dest' = Write(dest, Plain(job, 0))
               /\ dref_not_init' = FALSE
               /\ delta_asleep' = {}
               /\ Goto(t, "check")
          [] OTHER ->
               /\ Goto(t, IF b # 0 THEN "delta" ELSE "check")
               /\ UNCHANGED <<deltaVars, dest>>
     /\ UNCHANGED <<contextVars, barrierVars, jobVars, bstarts, nblock_, tblock,
                    ntbytes, ntdest, callerVars, tmp2>>

DeltaWake(t) ==
  /\ pc[t] = "delta_wait"
  /\ t \notin delta_asleep
  /\ Goto(t, "delta")
  /\ UNCHANGED <<contextVars, barrierVars, deltaVars, jobVars, bufferVars, localVars,
                 callerVars>>

\* delta_decoder for another block than the first, outside the mutex: the
\* result is the data only if the reference is in place.
DeltaDecode(t) ==
  LET b == nblock_[t]
      form == IF Plain(job, 0) \in dest THEN "raw" ELSE "garbage"
  IN /\ pc[t] = "delta"
     /\ dest' = Write(dest, Region(b, b * BlockSize, BlockLen(job, b), form))
     /\ Goto(t, "check")
     /\ UNCHANGED <<contextVars, barrierVars, deltaVars, jobVars, bstarts, localVars,
                    callerVars>>

\* Has another thread given up?  If not, where to with this result
Check(t) ==
  /\ pc[t] = "check"
  /\ IF thread_giveup_code > 0 /\ cbytes[t] >= 0 /\ ~InBlockOrder
       THEN /\ nblock_' = [nblock_ EXCEPT ![t] = @ + 1]
            /\ ntbytes' = [ntbytes EXCEPT ![t] = @ + cbytes[t]]
       ELSE UNCHANGED <<nblock_, ntbytes>>
  /\ Goto(t, IF thread_giveup_code <= 0 THEN "sum"
             ELSE IF cbytes[t] < 0 THEN "fail"
             ELSE IF InBlockOrder THEN "commit" ELSE "loop")
  /\ UNCHANGED <<contextVars, barrierVars, deltaVars, jobVars, bufferVars, tblock,
                 cbytes, ntdest, callerVars, tmp2>>

Fail(t) ==
  /\ pc[t] = "fail"
  /\ thread_giveup_code' = cbytes[t]
  /\ Goto(t, "sum")
  /\ UNCHANGED <<contextVars, barrierVars, deltaVars, output_bytes, thread_nblock,
                 bufferVars, localVars, callerVars>>

AnyRoom(t) == cbytes[t] = 0
NoRoom(t) == cbytes[t] = 0 \/ output_bytes + cbytes[t] > job.destsize

\* The critical section in which a block gets its place in dest
Commit(t) ==
  LET b == nblock_[t]
      at == output_bytes
  IN /\ pc[t] = "commit"
     /\ ntdest' = [ntdest EXCEPT ![t] = at]
     /\ bstarts' = [bstarts EXCEPT ![b] = at]
     /\ IF NoRoom(t)
          THEN /\ thread_giveup_code' = 0
               /\ Goto(t, "sum")
               /\ UNCHANGED <<thread_nblock, nblock_, output_bytes>>
          ELSE /\ ClaimNext(t)
               /\ output_bytes' = at + cbytes[t]
               /\ Goto(t, "copy")
               /\ UNCHANGED thread_giveup_code
     /\ UNCHANGED <<contextVars, barrierVars, deltaVars, dest, tblock, ntbytes, cbytes,
                    callerVars, tmp2>>

\* The memcpy of the block behind the critical section, when nblock_ is the
\* next one already
CopyBlock(t) ==
  /\ pc[t] = "copy"
  /\ dest' = Write(dest, Packed(job, tmp2[t], ntdest[t]))
  /\ Goto(t, "loop")
  /\ UNCHANGED <<contextVars, barrierVars, deltaVars, jobVars, bstarts, localVars,
                 callerVars>>

\* The locals of a round are dead from here.
Forget(t) ==
  /\ nblock_' = [nblock_ EXCEPT ![t] = 0]
  /\ tblock' = [tblock EXCEPT ![t] = 0]
  /\ ntbytes' = [ntbytes EXCEPT ![t] = 0]
  /\ cbytes' = [cbytes EXCEPT ![t] = 0]
  /\ ntdest' = [ntdest EXCEPT ![t] = 0]
  /\ tmp2' = [tmp2 EXCEPT ![t] = 0]

\* Behind the loop: a thread that decompressed or copied adds what it did,
\* unless somebody gave up.
Sum(t) ==
  /\ pc[t] = "sum"
  /\ IF ~InBlockOrder /\ thread_giveup_code > 0
       THEN Goto(t, "add") /\ UNCHANGED localVars
       ELSE Goto(t, "finish") /\ Forget(t)
  /\ UNCHANGED <<contextVars, barrierVars, deltaVars, jobVars, bufferVars, callerVars>>

Add(t) ==
  /\ pc[t] = "add"
  /\ output_bytes' = output_bytes + ntbytes[t]
  /\ Goto(t, "finish")
  /\ Forget(t)
  /\ UNCHANGED <<contextVars, barrierVars, deltaVars, thread_giveup_code,
                 thread_nblock, bufferVars, callerVars>>
-----------------------------------------------------------------------------
Meet(p) == WaitInit(p) \/ WakeInit(p) \/ WaitFinish(p) \/ WakeFinish(p)

WorkerStep(t) ==
  \/ Begin(t) \/ Loop(t)
  \/ CompressBlock(t) \/ PlaceBlock(t) \/ RejectBlock(t)
  \/ DeltaGate(t) \/ DeltaWake(t) \/ DeltaDecode(t)
  \/ Check(t) \/ Fail(t) \/ Commit(t) \/ CopyBlock(t)
  \/ Sum(t) \/ Add(t)

\* What the thread of the caller does once it has made a call
MasterStep ==
  \/ DoJob \/ SerialBlock
  \/ SetNthreads \/ CreateThread \/ SetSentinels \/ TakeResult
  \/ JobGaveUp \/ JobDone \/ CopyWithJob \/ CopyDirectly
  \/ JoinThread

Next ==
  \/ \E j \in Jobs : StartJob(j)
  \/ StartRelease
  \/ MasterStep
  \/ \E p \in Participants : Meet(p)
  \/ \E t \in Workers : WorkerStep(t)

Spec == Init /\ [][Next]_vars

\* The operating system runs every thread; no thread waits for a mutex that
\* another one keeps, so that a step that can be taken stays possible.
Fairness ==
  /\ WF_vars(MasterStep)
  /\ \A p \in Participants : WF_vars(Meet(p))
  /\ \A t \in Workers : WF_vars(WorkerStep(t))

FairSpec == Spec /\ Fairness
-----------------------------------------------------------------------------
(* Properties *)
MasterOutside == {"idle", "do_job", "serial", "set_nthreads", "create", "sentinels",
                  "result", "job_done", "memcpyed", "join"}
Body == {"loop", "block", "delta_wait", "delta", "check", "fail", "commit", "copy",
         "sum", "add"}
OnBlock == {"block", "delta_wait", "delta", "check", "fail", "commit"}
MasterPcs == MasterOutside \cup {"init", "init_wait", "finish", "finish_wait"}
WorkerPcs == Body \cup {"none", "init", "init_wait", "begin", "finish", "finish_wait",
                        "exited"}

\* Every variable has the type of its declaration in context.h; the pool is
\* absent or complete; who sleeps on a condition variable is in its wait; a
\* worker that works on a block has the number of one.
ControlTypeOK ==
  /\ threads_started \in {0, NThreads}
  /\ end_threads \in BOOLEAN
  /\ count_threads \in 0 .. NThreads
  /\ tid \in Participants
  /\ pc \in [Participants -> MasterPcs \cup WorkerPcs]
  /\ pc[Master] \in MasterPcs
  /\ \A t \in Workers : pc[t] \in WorkerPcs
  /\ asleep \subseteq {p \in Participants : pc[p] \in {"init_wait", "finish_wait"}}
  /\ delta_asleep \subseteq {t \in Workers : pc[t] = "delta_wait"}

DataTypeOK ==
  /\ job \in Jobs
  /\ memcpyed \in BOOLEAN
  /\ output_bytes \in Int
  /\ thread_giveup_code \in Int
  /\ thread_nblock \in Nat \cup {-1}
  /\ dref_not_init \in BOOLEAN
  /\ bstarts \in [Blocks(job) -> Int]
  /\ nblock_ \in [Participants -> Nat]
  /\ tblock \in [Participants -> Int]
  /\ ntbytes \in [Participants -> Int]
  /\ cbytes \in [Participants -> Int]
  /\ ntdest \in [Participants -> Int]
  /\ tmp2 \in [Participants -> Nat]
  /\ \A t \in Workers : pc[t] \in OnBlock => nblock_[t] \in Blocks(job)

TypeOK == ControlTypeOK /\ DataTypeOK

\* The stages in the life of a pool, as the caller's thread goes through them.
PoolStages ==
  /\ pc[Master] = "set_nthreads" => NThreads # 1
  /\ pc[Master] = "create" => /\ threads_started = 0
                              /\ tid < NThreads
                              /\ \A t \in Workers : t >= tid => pc[t] = "none"
  /\ pc[Master] = "join" => /\ end_threads
                            /\ threads_started = NThreads
                            /\ tid < NThreads
                            /\ \A t \in Workers : t < tid => pc[t] = "none"
  /\ (threads_started = 0 /\ pc[Master] # "create") =>
       \A t \in Workers : pc[t] = "none"
  /\ end_threads => pc[Master] \in {"idle", "init", "init_wait", "join"}
  /\ (end_threads /\ pc[Master] \in {"init", "init_wait"}) =>
       tid = 0 /\ threads_started = NThreads /\ NThreads > 0

\* The meeting points of WAIT_INIT and WAIT_FINISH share a counter and a
\* condition variable.  Either everybody is on the way to WAIT_INIT, with
\* count_threads of them asleep in it, or everybody is on the way from it to
\* WAIT_FINISH, with nthreads - count_threads asleep there; woken sleepers of
\* the other meeting point belong to the phase that woke them.
SleepIn(l) == {p \in asleep : pc[p] = l}

Gathering ==
  /\ \A t \in Workers :
       \/ pc[t] \in {"none", "init", "finish_wait"}
       \/ pc[t] = "init_wait" /\ t \in asleep
  /\ pc[Master] \in (MasterOutside \ {"join"}) \cup {"init", "init_wait", "finish_wait"}
  /\ pc[Master] = "init_wait" => Master \in asleep
  /\ SleepIn("finish_wait") = {}
  /\ count_threads = Cardinality(SleepIn("init_wait"))

Working ==
  /\ ~end_threads
  /\ \A t \in Workers :
       \/ pc[t] \in Body \cup {"begin", "finish", "init_wait"}
       \/ pc[t] = "finish_wait" /\ t \in asleep
  /\ pc[Master] \in {"init_wait", "finish", "finish_wait"}
  /\ pc[Master] = "finish_wait" => Master \in asleep
  /\ SleepIn("init_wait") = {}
  /\ NThreads - count_threads = Cardinality(SleepIn("finish_wait"))

\* The last round of a pool, from the release to the end of the joins.
Leaving ==
  /\ end_threads
  /\ asleep = {}
  /\ pc[Master] \in {"init_wait", "join"}
  /\ \A t \in Workers : \/ pc[t] \in {"init_wait", "begin", "exited"}
                        \/ pc[t] = "none" /\ pc[Master] = "join"

\* No pool: count_threads keeps what the last one left.
NoPool ==
  /\ threads_started = 0
  /\ asleep = {}
  /\ pc[Master] \in MasterOutside \ {"join", "create", "sentinels", "result"}
  /\ \A t \in Workers : pc[t] = "none"

Phases == Gathering \/ Working \/ Leaving \/ NoPool

BarrierPhases == PoolStages /\ Phases

\* "Wait until all threads are initialized", "Synchronization point for all
\* threads (wait for finalization)": while the caller is outside of
\* parallel_blosc's two meeting points, where it writes the context, no
\* worker is between them.
CallerAlone ==
  pc[Master] \in MasterOutside \ {"join"} =>
    \A t \in Workers : \/ pc[t] \in {"none", "init", "finish_wait"}
                       \/ pc[t] = "init_wait" /\ t \in asleep

\* t_blosc copies the parameters of the context to locals and reads
\* header_flags, end_threads and filters without a lock: nothing of it changes
\* from the moment a worker can read it until the last one has finished.
ParametersStable ==
  [][(\E t \in Workers : pc[t] \in Body \cup {"begin", "finish"})
       => UNCHANGED <<job, memcpyed, end_threads>>]_vars

\* Compression hands out the blocks one by one (thread_nblock): no two workers
\* hold the same block, and none holds a block whose place is taken.
Holding(t) == /\ pc[t] \in {"loop", "block", "check", "fail", "commit"}
              /\ nblock_[t] < NBlocks(job)
BlocksClaimedOnce ==
  (InBlockOrder /\ ~RunsSerially) =>
    \A t \in Workers : Holding(t) =>
      /\ \A u \in Workers \ {t} : Holding(u) => nblock_[u] # nblock_[t]
      /\ \A r \in dest : r.block # nblock_[t]
      /\ \A u \in Workers : pc[u] = "copy" => tmp2[u] # nblock_[t]

\* The copies to dest run outside the critical section that reserved their
\* place: all places, taken or still to be filled, are apart from each
\* other, behind the header and before output_bytes, which fits.
Reserved == dest \cup {Packed(job, tmp2[t], ntdest[t]) :
                         t \in {u \in Workers : pc[u] = "copy"}}
PlacesApart ==
  (InBlockOrder /\ \E t \in Workers : pc[t] \in Body) =>
    /\ \A r, s \in Reserved : r # s => Disjoint(r, s)
    /\ \A r \in Reserved : /\ r.at >= FirstOutput(job)
                           /\ r.at + r.len <= output_bytes
                           /\ r.at + r.len <= job.destsize

\* delta_mutex and delta_cv: no block is decoded against a reference that is
\* not there yet.
ReferenceFirst == \A r \in dest : r.form # "garbage"

\* The assertions that end blosc_compress_context and
\* blosc_run_decompression_with_context: ntbytes <= destsize; and a result
\* that is reported as a success is complete.
SuccessIsComplete ==
  (pc[Master] = "idle" /\ ret.code > 0) =>
    /\ ret.code <= job.destsize
    /\ ret.readable = Blocks(job)

\* A context keeps the promise of ChunkCall, with the release of the pool and
\* everything inside a call hidden.
Caller == INSTANCE ChunkCall
            WITH call <- IF pc[Master] = "idle" \/ end_threads THEN <<>> ELSE <<job>>,
                 ret <- ret
Promise == Caller!CallSpec

\* "If an error occurs, e.g. the compressed data is corrupted ... then 0 or a
\* negative value will be returned instead": a call that was made returns.
CallReturns == (pc[Master] = "do_job") ~> (pc[Master] = "idle")
=============================================================================
