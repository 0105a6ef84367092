-------------------------- MODULE BloscPoolProofs ---------------------------
(* Proofs about BloscPool for every number of threads, every set of         *)
(* requests and every block size: control and the two meeting points, the   *)
(* types of the data, who holds a block, that the places in dest are apart  *)
(* from each other, that no block is decoded before the one the delta       *)
(* filter refers to, and that a call returns what ChunkCall promises.       *)
EXTENDS BloscPool, FiniteSetTheorems, WellFoundedInduction, TLAPS

-----------------------------------------------------------------------------
(* The participants *)

\* The thread of the caller is none of the workers.
LEMMA ParticipantFacts ==
  /\ Master \in Participants
  /\ Master \notin Workers
  /\ \A t \in Workers : t \in Participants /\ t # Master
  /\ \A p \in Participants : p # Master => p \in Workers
  BY NThreadsAssumption DEF Master, Participants, Workers

-----------------------------------------------------------------------------
(* Control *)
ControlInv == ControlTypeOK /\ PoolStages

\* The initial state has the types of the control variables and no pool.
LEMMA ControlInit == Init => ControlInv
<1> SUFFICES ASSUME Init PROVE ControlInv
  OBVIOUS
<1>1. pc[Master] = "idle" /\ \A t \in Workers : pc[t] = "none"
  BY ParticipantFacts DEF Init
<1>2. pc \in [Participants -> MasterPcs \cup WorkerPcs]
  BY DEF Init, MasterPcs, MasterOutside, WorkerPcs, Body
<1>3. ControlTypeOK
  <2>1. tid \in Participants /\ count_threads \in 0 .. NThreads
    BY NThreadsAssumption DEF Init, Participants
  <2>2. threads_started \in {0, NThreads} /\ end_threads \in BOOLEAN
    BY DEF Init
  <2>3. asleep = {} /\ delta_asleep = {}
    BY DEF Init
  <2>4. pc[Master] \in MasterPcs /\ \A t \in Workers : pc[t] \in WorkerPcs
    BY <1>1 DEF MasterPcs, MasterOutside, WorkerPcs
  <2> QED
    BY <1>2, <2>1, <2>2, <2>3, <2>4 DEF ControlTypeOK
<1>4. PoolStages
  BY <1>1 DEF Init, PoolStages
<1> QED
  BY <1>3, <1>4 DEF ControlInv

\* A step of one worker that is in the pool and not asleep, which changes
\* nothing else of the control and puts nobody to sleep
LEMMA WorkerMoves ==
  ASSUME ControlInv, NEW t \in Workers, NEW l \in WorkerPcs \ {"none"},
         pc[t] # "none", t \notin asleep, t \notin delta_asleep',
         delta_asleep' \subseteq delta_asleep,
         Goto(t, l), UNCHANGED <<threads_started, end_threads, tid, barrierVars>>
  PROVE  ControlInv'
<1> USE ParticipantFacts
<1>1. pc' \in [Participants -> MasterPcs \cup WorkerPcs]
  BY DEF ControlInv, ControlTypeOK, Goto
<1>2. pc'[t] = l /\ \A p \in Participants \ {t} : pc'[p] = pc[p]
  BY DEF ControlInv, ControlTypeOK, Goto
<1>3. pc'[Master] = pc[Master]
  BY <1>2
<1>4. \A u \in Workers : pc'[u] \in WorkerPcs /\ (pc[u] = "none" => pc'[u] = "none")
  BY <1>2 DEF ControlInv, ControlTypeOK
<1>5. asleep' \subseteq {p \in Participants : pc'[p] \in {"init_wait", "finish_wait"}}
  BY <1>2 DEF ControlInv, ControlTypeOK, barrierVars
<1>6. delta_asleep' \subseteq {u \in Workers : pc'[u] = "delta_wait"}
  BY <1>2 DEF ControlInv, ControlTypeOK
<1>7. ControlTypeOK'
  BY <1>1, <1>3, <1>4, <1>5, <1>6 DEF ControlInv, ControlTypeOK, barrierVars
<1>8. PoolStages'
  BY <1>3, <1>4 DEF ControlInv, PoolStages, ControlTypeOK
<1> QED
  BY <1>7, <1>8 DEF ControlInv

\* A worker that goes from block to block keeps the control in order.
LEMMA WorkerControl ==
  ASSUME ControlInv, NEW t \in Workers, WorkerStep(t)
  PROVE  ControlInv'
<1> USE ParticipantFacts
<1>1. /\ {"loop", "block", "delta_wait", "delta", "check", "fail", "commit", "copy",
          "sum", "add", "begin", "finish", "exited"} \subseteq WorkerPcs
      /\ "none" \notin Body
  BY DEF WorkerPcs, Body
<1>2. /\ pc[t] \in Body \cup {"begin"} => pc[t] \notin {"none", "init_wait", "finish_wait"}
      /\ pc[t] \notin {"init_wait", "finish_wait"} => t \notin asleep
      /\ pc[t] # "delta_wait" => t \notin delta_asleep
  BY DEF ControlInv, ControlTypeOK, Body
<1>3. CASE Begin(t)
  <2>1. PICK l \in {"loop", "exited"} : Goto(t, l)
    BY <1>3 DEF Begin
  <2> QED
    BY <1>1, <1>2, <1>3, <2>1, WorkerMoves DEF Begin, contextVars, callerVars, deltaVars
<1>4. CASE Loop(t)
  <2>1. PICK l \in {"block", "sum"} : Goto(t, l)
    BY <1>4 DEF Loop
  <2> QED
    BY <1>1, <1>2, <1>4, <2>1, WorkerMoves DEF Loop, contextVars, callerVars, deltaVars
<1>5. CASE CompressBlock(t) \/ PlaceBlock(t) \/ RejectBlock(t) \/ DeltaDecode(t)
  BY <1>1, <1>2, <1>5, WorkerMoves
     DEF CompressBlock, PlaceBlock, RejectBlock, DeltaDecode, contextVars, callerVars,
         deltaVars
<1>6. CASE DeltaGate(t)
  <2>1. CASE dref_not_init /\ nblock_[t] # 0
    <3>1. /\ Goto(t, "delta_wait")
          /\ delta_asleep' = delta_asleep \cup {t}
          /\ UNCHANGED <<threads_started, end_threads, tid, barrierVars>>
          /\ pc[t] = "block"
      BY <1>6, <2>1 DEF DeltaGate, MustWait, contextVars, callerVars
    <3>2. /\ pc' \in [Participants -> MasterPcs \cup WorkerPcs]
          /\ pc'[t] = "delta_wait"
          /\ \A p \in Participants \ {t} : pc'[p] = pc[p]
      BY <1>1, <3>1 DEF ControlInv, ControlTypeOK, Goto
    <3>3. pc'[Master] = pc[Master]
      BY <3>2
    <3>4. \A u \in Workers : pc'[u] \in WorkerPcs /\ (pc[u] = "none" => pc'[u] = "none")
      BY <1>1, <3>1, <3>2 DEF ControlInv, ControlTypeOK
    <3>5. /\ asleep' \subseteq {p \in Participants : pc'[p] \in {"init_wait", "finish_wait"}}
          /\ delta_asleep' \subseteq {u \in Workers : pc'[u] = "delta_wait"}
      BY <3>1, <3>2 DEF ControlInv, ControlTypeOK, barrierVars
    <3>6. ControlTypeOK'
      BY <3>1, <3>2, <3>3, <3>4, <3>5 DEF ControlInv, ControlTypeOK, barrierVars
    <3>7. PoolStages'
      BY <3>1, <3>3, <3>4 DEF ControlInv, PoolStages, ControlTypeOK
    <3> QED
      BY <3>6, <3>7 DEF ControlInv
  <2>2. CASE dref_not_init /\ nblock_[t] = 0
    BY <1>1, <1>2, <1>6, <2>2, WorkerMoves
       DEF DeltaGate, MustWait, contextVars, callerVars
  <2>3. CASE ~dref_not_init
    <3>1. PICK l \in {"delta", "check"} : Goto(t, l)
      BY <1>6, <2>3 DEF DeltaGate, MustWait
    <3> QED
      BY <1>1, <1>2, <1>6, <2>3, <3>1, WorkerMoves
         DEF DeltaGate, MustWait, contextVars, callerVars, deltaVars
  <2> QED
    BY <2>1, <2>2, <2>3
<1>7. CASE DeltaWake(t)
  BY <1>1, <1>2, <1>7, WorkerMoves DEF DeltaWake, contextVars, callerVars, deltaVars
<1>8. CASE Check(t)
  <2>1. PICK l \in {"sum", "fail", "commit", "loop"} : Goto(t, l)
    BY <1>8 DEF Check
  <2> QED
    BY <1>1, <1>2, <1>8, <2>1, WorkerMoves DEF Check, contextVars, callerVars, deltaVars
<1>9. CASE Fail(t)
  BY <1>1, <1>2, <1>9, WorkerMoves DEF Fail, contextVars, callerVars, deltaVars
<1>10. CASE Commit(t)
  <2>1. PICK l \in {"sum", "copy"} : Goto(t, l)
    BY <1>10 DEF Commit
  <2> QED
    BY <1>1, <1>2, <1>10, <2>1, WorkerMoves DEF Commit, contextVars, callerVars, deltaVars
<1>11. CASE CopyBlock(t)
  BY <1>1, <1>2, <1>11, WorkerMoves DEF CopyBlock, contextVars, callerVars, deltaVars
<1>12. CASE Sum(t)
  <2>1. PICK l \in {"add", "finish"} : Goto(t, l)
    BY <1>12 DEF Sum
  <2> QED
    BY <1>1, <1>2, <1>12, <2>1, WorkerMoves DEF Sum, contextVars, callerVars, deltaVars
<1>13. CASE Add(t)
  BY <1>1, <1>2, <1>13, WorkerMoves DEF Add, contextVars, callerVars, deltaVars
<1> QED
  BY <1>3, <1>4, <1>5, <1>6, <1>7, <1>8, <1>9, <1>10, <1>11, <1>12, <1>13 DEF WorkerStep

\* Meeting, at either point, keeps the control in order.
LEMMA MeetControl ==
  ASSUME ControlInv, NEW p \in Participants, Meet(p)
  PROVE  ControlInv'
<1> USE ParticipantFacts
<1>1. PICK l : /\ Goto(p, l)
               /\ l \in {"init_wait", "finish_wait", AfterInit(p), AfterFinish(p)}
               /\ l \in {AfterInit(p), "init_wait"} => pc[p] \in {"init", "init_wait"}
               /\ l \in {AfterFinish(p), "finish_wait"} =>
                    pc[p] \in {"finish", "finish_wait"}
               /\ asleep' \subseteq asleep
                    \cup {q \in {p} : l \in {"init_wait", "finish_wait"}}
               /\ p \in asleep' => l \in {"init_wait", "finish_wait"}
               /\ count_threads' \in 0 .. NThreads
  <2> USE DEF ControlInv, ControlTypeOK
  <2>1. CASE WaitInit(p)
    BY <2>1, NThreadsAssumption DEF WaitInit, InitMissing, AfterInit, AfterFinish
  <2>2. CASE WakeInit(p)
    BY <2>2 DEF WakeInit, AfterInit, AfterFinish, barrierVars
  <2>3. CASE WaitFinish(p)
    BY <2>3, NThreadsAssumption DEF WaitFinish, FinishMissing, AfterInit, AfterFinish
  <2>4. CASE WakeFinish(p)
    BY <2>4 DEF WakeFinish, AfterInit, AfterFinish, barrierVars
  <2> QED
    BY <2>1, <2>2, <2>3, <2>4 DEF Meet
<1>2. UNCHANGED <<threads_started, end_threads, tid, delta_asleep>>
  BY DEF Meet, WaitInit, InitMissing, WakeInit, WaitFinish, FinishMissing, WakeFinish, contextVars, callerVars, deltaVars
<1>3. pc[p] \notin {"none", "delta_wait", "create", "join"}
  BY <1>1
<1>4. /\ p \in Workers => l \in WorkerPcs /\ l # "none"
      /\ p = Master => l \in MasterPcs
  BY <1>1 DEF AfterInit, AfterFinish, WorkerPcs, MasterPcs, MasterOutside
<1>5. /\ pc' \in [Participants -> MasterPcs \cup WorkerPcs]
      /\ pc'[p] = l
      /\ \A q \in Participants \ {p} : pc'[q] = pc[q]
  BY <1>1, <1>4 DEF ControlInv, ControlTypeOK, Goto
<1>6. pc'[Master] \in MasterPcs /\ \A u \in Workers : pc'[u] \in WorkerPcs
  BY <1>4, <1>5 DEF ControlInv, ControlTypeOK
<1>7. asleep' \subseteq {q \in Participants : pc'[q] \in {"init_wait", "finish_wait"}}
  BY <1>1, <1>5 DEF ControlInv, ControlTypeOK
<1>8. delta_asleep' \subseteq {u \in Workers : pc'[u] = "delta_wait"}
  BY <1>2, <1>3, <1>5 DEF ControlInv, ControlTypeOK
<1>9. ControlTypeOK'
  BY <1>1, <1>2, <1>5, <1>6, <1>7, <1>8 DEF ControlInv, ControlTypeOK
<1>10. \A u \in Workers : pc[u] = "none" => pc'[u] = "none"
  BY <1>3, <1>5
<1>11. PoolStages'
  <2>1. CASE p # Master
    BY <1>2, <1>5, <1>10, <2>1 DEF ControlInv, PoolStages, ControlTypeOK
  <2>2. CASE p = Master
    <3>1. pc'[Master] \in {"init_wait", "finish_wait", "join", "finish", "result"}
      BY <1>1, <1>5, <2>2 DEF AfterInit, AfterFinish
    <3>2. threads_started = 0 => \A u \in Workers : pc'[u] = "none"
      BY <1>3, <1>10, <2>2 DEF ControlInv, PoolStages
    <3>3. end_threads => /\ pc[Master] \in {"init", "init_wait"}
                         /\ pc'[Master] \in {"init_wait", "join"}
      BY <1>1, <1>5, <2>2 DEF ControlInv, PoolStages, AfterInit
    <3>4. pc'[Master] = "join" => end_threads
      BY <1>1, <1>5, <2>2 DEF AfterInit, AfterFinish
    <3> QED
      BY <1>2, <3>1, <3>2, <3>3, <3>4, NThreadsAssumption
         DEF ControlInv, PoolStages, ControlTypeOK, Workers
  <2> QED
    BY <2>1, <2>2
<1> QED
  BY <1>9, <1>11 DEF ControlInv

\* A step of the caller's thread that changes nothing else of the control
LEMMA MasterMoves ==
  ASSUME ControlInv, NEW l \in MasterPcs \ {"create", "join"},
         pc[Master] \notin {"create", "init_wait", "finish_wait"},
         l = "set_nthreads" => NThreads # 1,
         Goto(Master, l),
         end_threads' = FALSE \/ (end_threads' = end_threads /\ l = "idle"),
         UNCHANGED <<threads_started, delta_asleep, asleep>>,
         count_threads' \in 0 .. NThreads, tid' \in Participants
  PROVE  ControlInv'
<1> USE ParticipantFacts
<1>1. /\ pc' \in [Participants -> MasterPcs \cup WorkerPcs]
      /\ pc'[Master] = l
      /\ \A t \in Workers : pc'[t] = pc[t]
  BY DEF ControlInv, ControlTypeOK, Goto
<1>2. asleep' \subseteq {p \in Participants : pc'[p] \in {"init_wait", "finish_wait"}}
  BY <1>1 DEF ControlInv, ControlTypeOK
<1>3. delta_asleep' \subseteq {t \in Workers : pc'[t] = "delta_wait"}
  BY <1>1 DEF ControlInv, ControlTypeOK
<1>4. ControlTypeOK'
  BY <1>1, <1>2, <1>3 DEF ControlInv, ControlTypeOK
<1>5. PoolStages'
  BY <1>1 DEF ControlInv, PoolStages, ControlTypeOK
<1> QED
  BY <1>4, <1>5 DEF ControlInv

\* Outside of the meetings the flag end_threads is up at rest only.
LEMMA NotEnding ==
  ASSUME ControlInv, pc[Master] \notin {"idle", "init", "init_wait", "join"}
  PROVE  end_threads = FALSE
  BY DEF ControlInv, ControlTypeOK, PoolStages

\* Every step of a call, and of the release, keeps the control in order.
LEMMA MasterControl ==
  ASSUME ControlInv, MasterStep \/ StartRelease \/ \E j \in Jobs : StartJob(j)
  PROVE  ControlInv'
<1> USE ParticipantFacts, NThreadsAssumption
<1>1. /\ {"idle", "do_job", "serial", "set_nthreads", "sentinels", "result", "job_done",
          "memcpyed", "init"} \subseteq MasterPcs \ {"create", "join"}
      /\ {"create", "join"} \subseteq MasterPcs
  BY DEF MasterPcs, MasterOutside
<1>2. /\ 0 \in Participants
      /\ tid \in Participants
      /\ count_threads \in 0 .. NThreads
      /\ 0 \in 0 .. NThreads
  BY DEF ControlInv, ControlTypeOK, Participants
<1>3. CASE \E j \in Jobs : StartJob(j)
  <2>1. PICK l \in {"memcpyed", "do_job"} : Goto(Master, l)
    BY <1>3 DEF StartJob
  <2> QED
    BY <1>1, <1>2, <1>3, <2>1, MasterMoves DEF StartJob, barrierVars, deltaVars
<1>4. CASE DoJob
  <2>1. PICK l \in {"serial", "job_done", "set_nthreads"} :
          Goto(Master, l) /\ (l = "set_nthreads" => NThreads # 1)
    BY <1>4 DEF DoJob, RunsSerially
  <2>2. end_threads = FALSE
    BY <1>4, NotEnding DEF DoJob
  <2> QED
    BY <1>1, <1>2, <1>4, <2>1, <2>2, MasterMoves
       DEF DoJob, barrierVars, contextVars, callerVars
<1>5. CASE SerialBlock
  <2>1. PICK l \in {"serial", "job_done"} : Goto(Master, l)
    BY <1>5 DEF SerialBlock
  <2>2. end_threads = FALSE
    BY <1>5, NotEnding DEF SerialBlock
  <2> QED
    BY <1>1, <1>2, <1>5, <2>1, <2>2, MasterMoves
       DEF SerialBlock, barrierVars, contextVars, callerVars
<1>6. CASE SetNthreads
  <2>1. end_threads = FALSE
    BY <1>6, NotEnding DEF SetNthreads
  <2>2. CASE NThreads > 1 /\ NThreads # threads_started
    <3>1. /\ Goto(Master, "create") /\ tid' = 0 /\ count_threads' = 0
          /\ UNCHANGED <<threads_started, end_threads, asleep, delta_asleep>>
      BY <1>6, <2>2 DEF SetNthreads, Sentinels, contextVars, deltaVars
    <3>2. /\ pc' \in [Participants -> MasterPcs \cup WorkerPcs]
          /\ pc'[Master] = "create"
          /\ \A t \in Workers : pc'[t] = pc[t]
      BY <1>1, <3>1 DEF ControlInv, ControlTypeOK, Goto
    <3>3. threads_started = 0 /\ \A t \in Workers : pc[t] = "none"
      BY <1>6, <2>2 DEF SetNthreads, Sentinels, ControlInv, ControlTypeOK, PoolStages
    <3>4. asleep = {} /\ delta_asleep = {}
      BY <1>6, <3>3 DEF SetNthreads, Sentinels, ControlInv, ControlTypeOK
    <3>5. ControlTypeOK'
      BY <1>1, <1>2, <3>1, <3>2, <3>3, <3>4 DEF ControlInv, ControlTypeOK
    <3>6. PoolStages'
      BY <2>1, <2>2, <3>1, <3>2, <3>3 DEF PoolStages
    <3> QED
      BY <3>5, <3>6 DEF ControlInv
  <2>3. CASE ~(NThreads > 1 /\ NThreads # threads_started)
    BY <1>1, <1>2, <1>6, <2>1, <2>3, MasterMoves
       DEF SetNthreads, Sentinels, contextVars, deltaVars
  <2> QED
    BY <2>2, <2>3
<1>7. CASE CreateThread
  <2>1. /\ tid \in Workers /\ tid + 1 \in Participants /\ tid \in Nat
        /\ pc[tid] = "none" /\ threads_started = 0
        /\ end_threads = FALSE /\ NThreads > 0
    BY <1>7, NotEnding
       DEF CreateThread, ControlInv, PoolStages, ControlTypeOK, Workers, Participants
  <2>2. /\ UNCHANGED <<end_threads, asleep, delta_asleep, count_threads>>
        /\ tid' = tid + 1
        /\ threads_started' = IF tid + 1 = NThreads THEN NThreads ELSE threads_started
    BY <1>7 DEF CreateThread, barrierVars, deltaVars
  <2> DEFINE l == IF tid + 1 = NThreads THEN "sentinels" ELSE "create"
  <2>3. /\ pc' \in [Participants -> MasterPcs \cup WorkerPcs]
        /\ pc'[Master] = l
        /\ pc'[tid] = "init"
        /\ \A t \in Workers \ {tid} : pc'[t] = pc[t]
    BY <1>1, <1>7, <2>1 DEF CreateThread, ControlInv, ControlTypeOK, WorkerPcs
  <2>4. tid \notin asleep /\ tid \notin delta_asleep /\ Master \notin asleep
    BY <1>7, <2>1 DEF CreateThread, ControlInv, ControlTypeOK
  <2>5. /\ asleep' \subseteq {p \in Participants : pc'[p] \in {"init_wait", "finish_wait"}}
        /\ delta_asleep' \subseteq {t \in Workers : pc'[t] = "delta_wait"}
    BY <2>2, <2>3, <2>4 DEF ControlInv, ControlTypeOK
  <2>6. pc'[Master] \in MasterPcs /\ \A t \in Workers : pc'[t] \in WorkerPcs
    BY <1>1, <2>3 DEF ControlInv, ControlTypeOK, WorkerPcs
  <2>7. ControlTypeOK'
    BY <1>2, <2>1, <2>2, <2>3, <2>5, <2>6 DEF ControlInv, ControlTypeOK
  <2>8. \A t \in Workers : t >= tid + 1 => pc'[t] = "none"
    BY <1>7, <2>1, <2>3 DEF CreateThread, ControlInv, PoolStages, Workers
  <2>9. PoolStages'
    <3>1. CASE tid + 1 = NThreads
      BY <2>1, <2>2, <2>3, <3>1 DEF PoolStages
    <3>2. CASE tid + 1 # NThreads
      BY <2>1, <2>2, <2>3, <2>8, <3>2 DEF PoolStages, Participants
    <3> QED
      BY <3>1, <3>2
  <2> QED
    BY <2>7, <2>9 DEF ControlInv
<1>8. CASE SetSentinels
  BY <1>1, <1>2, <1>8, MasterMoves, NotEnding
     DEF SetSentinels, barrierVars, deltaVars, contextVars, callerVars
<1>9. CASE TakeResult
  BY <1>1, <1>2, <1>9, MasterMoves, NotEnding
     DEF TakeResult, barrierVars, deltaVars, contextVars, callerVars
<1>10. CASE JobGaveUp
  BY <1>1, <1>2, <1>10, MasterMoves, NotEnding
     DEF JobGaveUp, barrierVars, deltaVars, callerVars
<1>11. CASE JobDone \/ CopyDirectly
  BY <1>1, <1>2, <1>11, MasterMoves, NotEnding
     DEF JobDone, CopyDirectly, ReturnWith, barrierVars, deltaVars, contextVars, callerVars
<1>12. CASE CopyWithJob
  BY <1>1, <1>2, <1>12, MasterMoves, NotEnding
     DEF CopyWithJob, barrierVars, deltaVars, contextVars, callerVars
<1>13. CASE JoinThread
  <2>1. /\ tid \in Workers /\ tid + 1 \in Participants /\ tid \in Nat
        /\ pc[tid] = "exited" /\ threads_started = NThreads
        /\ end_threads
    BY <1>13 DEF JoinThread, LastJoin, ControlInv, PoolStages, ControlTypeOK, Workers, Participants
  <2>2. /\ UNCHANGED <<end_threads, asleep, delta_asleep, count_threads>>
        /\ tid' = tid + 1
        /\ threads_started' = IF tid + 1 = NThreads THEN 0 ELSE threads_started
    BY <1>13, <2>1 DEF JoinThread, LastJoin, barrierVars, deltaVars
  <2> DEFINE l == IF tid + 1 = NThreads THEN "idle" ELSE "join"
  <2>3. /\ pc' \in [Participants -> MasterPcs \cup WorkerPcs]
        /\ pc'[Master] = l
        /\ pc'[tid] = "none"
        /\ \A t \in Workers \ {tid} : pc'[t] = pc[t]
    BY <1>1, <1>13, <2>1 DEF JoinThread, LastJoin, ControlInv, ControlTypeOK, WorkerPcs
  <2>4. tid \notin asleep /\ tid \notin delta_asleep /\ Master \notin asleep
    BY <1>13, <2>1 DEF JoinThread, LastJoin, ControlInv, ControlTypeOK
  <2>5. /\ asleep' \subseteq {p \in Participants : pc'[p] \in {"init_wait", "finish_wait"}}
        /\ delta_asleep' \subseteq {t \in Workers : pc'[t] = "delta_wait"}
    BY <2>2, <2>3, <2>4 DEF ControlInv, ControlTypeOK
  <2>6. pc'[Master] \in MasterPcs /\ \A t \in Workers : pc'[t] \in WorkerPcs
    BY <1>1, <2>3 DEF ControlInv, ControlTypeOK, WorkerPcs
  <2>7. ControlTypeOK'
    BY <1>2, <2>1, <2>2, <2>3, <2>5, <2>6 DEF ControlInv, ControlTypeOK
  <2>8. \A t \in Workers : t < tid + 1 => pc'[t] = "none"
    BY <1>13, <2>1, <2>3 DEF JoinThread, LastJoin, ControlInv, PoolStages, Workers
  <2>9. PoolStages'
    <3>1. CASE tid + 1 = NThreads
      BY <2>1, <2>2, <2>3, <2>8, <3>1 DEF PoolStages, Workers
    <3>2. CASE tid + 1 # NThreads
      BY <2>1, <2>2, <2>3, <2>8, <3>2 DEF PoolStages, Participants, Workers
    <3> QED
      BY <3>1, <3>2
  <2> QED
    BY <2>7, <2>9 DEF ControlInv
<1>14. CASE StartRelease
  <2>1. /\ Goto(Master, "init") /\ tid' = 0 /\ end_threads' = TRUE
        /\ UNCHANGED <<threads_started, asleep, delta_asleep, count_threads>>
        /\ pc[Master] = "idle" /\ threads_started = NThreads /\ NThreads > 0
    BY <1>14 DEF StartRelease, barrierVars, deltaVars, ControlInv, ControlTypeOK
  <2>2. /\ pc' \in [Participants -> MasterPcs \cup WorkerPcs]
        /\ pc'[Master] = "init"
        /\ \A t \in Workers : pc'[t] = pc[t]
    BY <1>1, <2>1 DEF ControlInv, ControlTypeOK, Goto
  <2>3. /\ asleep' \subseteq {p \in Participants : pc'[p] \in {"init_wait", "finish_wait"}}
        /\ delta_asleep' \subseteq {t \in Workers : pc'[t] = "delta_wait"}
    BY <2>1, <2>2 DEF ControlInv, ControlTypeOK
  <2>4. ControlTypeOK'
    BY <1>1, <1>2, <2>1, <2>2, <2>3 DEF ControlInv, ControlTypeOK
  <2>5. PoolStages'
    BY <2>1, <2>2 DEF PoolStages
  <2> QED
    BY <2>4, <2>5 DEF ControlInv
<1> QED
  BY <1>3, <1>4, <1>5, <1>6, <1>7, <1>8, <1>9, <1>10, <1>11, <1>12, <1>13, <1>14
     DEF MasterStep

\* Control is in order in every reachable state.
LEMMA ControlCorrect == Spec => []ControlInv
<1>1. ControlInv /\ [Next]_vars => ControlInv'
  <2> SUFFICES ASSUME ControlInv, [Next]_vars PROVE ControlInv'
    OBVIOUS
  <2>1. CASE UNCHANGED vars
    BY <2>1 DEF vars, contextVars, barrierVars, deltaVars, callerVars, ControlInv,
                ControlTypeOK, PoolStages
  <2> QED
    BY <2>1, MasterControl, MeetControl, WorkerControl DEF Next
<1> QED
  BY <1>1, ControlInit, PTL DEF Spec

-----------------------------------------------------------------------------
(* The phases of the meeting points *)

\* There are nthreads + 1 participants: if nthreads others sleep, everybody
\* else does.
LEMMA AllOthers ==
  ASSUME NEW p \in Participants, NEW S \in SUBSET (Participants \ {p}),
         Cardinality(S) = NThreads
  PROVE  S = Participants \ {p}
<1>1. IsFiniteSet(Participants) /\ Cardinality(Participants) = NThreads + 1
  BY FS_Interval, NThreadsAssumption DEF Participants
<1>2. /\ IsFiniteSet(Participants \ {p})
      /\ Cardinality(Participants \ {p}) = NThreads
  BY <1>1, FS_RemoveElement, NThreadsAssumption
<1> QED
  BY <1>2, FS_Subset

\* Who sleeps is a finite set of participants, and one more sleeper is one more.
LEMMA Sleepers ==
  ASSUME ControlInv, NEW l
  PROVE  /\ SleepIn(l) \subseteq Participants
         /\ IsFiniteSet(SleepIn(l))
         /\ Cardinality(SleepIn(l)) \in Nat
         /\ \A p \in Participants \ SleepIn(l) :
              Cardinality(SleepIn(l) \cup {p}) = Cardinality(SleepIn(l)) + 1
<1>1. SleepIn(l) \subseteq Participants
  BY DEF SleepIn, ControlInv, ControlTypeOK
<1>2. IsFiniteSet(Participants)
  BY FS_Interval, NThreadsAssumption DEF Participants
<1>3. IsFiniteSet(SleepIn(l))
  BY <1>1, <1>2, FS_Subset
<1> QED
  BY <1>1, <1>3, FS_AddElement, FS_CardinalityType

\* Initially there is no pool.
LEMMA PhaseInit == Init => Phases
  BY ParticipantFacts DEF Init, Phases, NoPool, MasterOutside

\* Work on a block happens between the meeting points and stays there.
LEMMA WorkerPhase ==
  ASSUME ControlInv, Phases, NEW t \in Workers, WorkerStep(t)
  PROVE  Phases'
<1> USE ParticipantFacts
<1>1. pc[t] \in Body \cup {"begin"}
  BY DEF WorkerStep, Begin, Loop, CompressBlock, PlaceBlock, RejectBlock, DeltaGate,
         DeltaWake, DeltaDecode, Check, Fail, Commit, CopyBlock, Sum, Add, Body
<1>2. PICK l \in Body \cup {"finish", "exited"} :
        /\ Goto(t, l)
        /\ l = "exited" <=> (pc[t] = "begin" /\ end_threads)
  <2> USE DEF Body
  <2>1. CASE Begin(t)
    BY <2>1 DEF Begin, ControlInv, ControlTypeOK
  <2>2. CASE Loop(t) \/ CompressBlock(t) \/ PlaceBlock(t) \/ RejectBlock(t) \/ DeltaWake(t)
    BY <2>2 DEF Loop, CompressBlock, PlaceBlock, RejectBlock, DeltaWake
  <2>3. CASE DeltaGate(t)
    <3>1. PICK l \in {"delta_wait", "check", "delta"} : Goto(t, l)
      BY <2>3 DEF DeltaGate
    <3> QED
      BY <2>3, <3>1 DEF DeltaGate
  <2>4. CASE DeltaDecode(t) \/ Check(t) \/ Fail(t)
    BY <2>4 DEF DeltaDecode, Check, Fail
  <2>5. CASE Commit(t) \/ CopyBlock(t) \/ Sum(t) \/ Add(t)
    BY <2>5 DEF Commit, CopyBlock, Sum, Add
  <2> QED
    BY <2>1, <2>2, <2>3, <2>4, <2>5 DEF WorkerStep
<1>3. UNCHANGED <<end_threads, barrierVars>>
  BY DEF WorkerStep, Begin, Loop, CompressBlock, PlaceBlock, RejectBlock, DeltaGate,
         DeltaWake, DeltaDecode, Check, Fail, Commit, CopyBlock, Sum, Add, contextVars
<1>4. /\ pc'[t] = l
      /\ \A p \in Participants \ {t} : pc'[p] = pc[p]
      /\ pc'[Master] = pc[Master]
  BY <1>2 DEF ControlInv, ControlTypeOK, Goto
<1>5. t \notin asleep
  BY <1>1 DEF ControlInv, ControlTypeOK, Body
<1>6. CASE Working
  <2>1. l # "exited"
    BY <1>2, <1>6 DEF Working
  <2>2. SleepIn("init_wait")' = SleepIn("init_wait")
        /\ SleepIn("finish_wait")' = SleepIn("finish_wait")
    BY <1>3, <1>4, <1>5 DEF SleepIn, ControlInv, ControlTypeOK, barrierVars
  <2>3. Working'
    BY <1>2, <1>3, <1>4, <1>6, <2>1, <2>2 DEF Working, barrierVars
  <2> QED
    BY <2>3 DEF Phases
<1>7. CASE Leaving
  <2>1. l = "exited"
    BY <1>1, <1>2, <1>7 DEF Leaving, Body
  <2>2. Leaving'
    BY <1>3, <1>4, <1>7, <2>1 DEF Leaving, barrierVars
  <2> QED
    BY <2>2 DEF Phases
<1>8. ~Gathering /\ ~NoPool
  BY <1>1 DEF Gathering, NoPool, Body
<1> QED
  BY <1>6, <1>7, <1>8 DEF Phases

\* Arriving at WAIT_INIT happens while everybody gathers, and the last to
\* arrive finds all the others asleep there.
LEMMA WaitInitPhase ==
  ASSUME ControlInv, Phases, NEW p \in Participants, WaitInit(p)
  PROVE  Phases'
<1> USE ParticipantFacts, NThreadsAssumption
<1>1. Gathering
  BY DEF WaitInit, InitMissing, Phases, Gathering, Working, Leaving, NoPool, MasterOutside, Body
<1>2. /\ pc' \in [Participants -> MasterPcs \cup WorkerPcs]
      /\ \A q \in Participants \ {p} : pc'[q] = pc[q]
      /\ UNCHANGED end_threads
      /\ p \notin asleep
      /\ count_threads \in 0 .. NThreads
  BY DEF WaitInit, InitMissing, AfterInit, Goto, ControlInv, ControlTypeOK, WorkerPcs, MasterPcs,
         MasterOutside, contextVars
<1>3. CASE count_threads < NThreads
  <2>1. /\ asleep' = asleep \cup {p} /\ count_threads' = count_threads + 1
        /\ pc'[p] = "init_wait"
    BY <1>3 DEF WaitInit, InitMissing, Goto, ControlInv, ControlTypeOK
  <2>2. SleepIn("init_wait")' = SleepIn("init_wait") \cup {p}
    BY <1>2, <2>1 DEF SleepIn, ControlInv, ControlTypeOK
  <2>3. SleepIn("finish_wait")' = {}
    BY <1>1, <1>2, <2>1 DEF SleepIn, Gathering, ControlInv, ControlTypeOK
  <2>4. Cardinality(SleepIn("init_wait")') = Cardinality(SleepIn("init_wait")) + 1
    BY <1>2, <2>2, Sleepers DEF SleepIn
  <2>5. count_threads' = Cardinality(SleepIn("init_wait"))'
    BY <1>1, <2>1, <2>4 DEF Gathering
  <2>6. \A t \in Workers : \/ pc'[t] \in {"none", "init", "finish_wait"}
                           \/ pc'[t] = "init_wait" /\ t \in asleep'
    BY <1>1, <1>2, <2>1 DEF Gathering
  <2>7. /\ pc'[Master] \in (MasterOutside \ {"join"}) \cup {"init", "init_wait", "finish_wait"}
        /\ pc'[Master] = "init_wait" => Master \in asleep'
    BY <1>1, <1>2, <2>1 DEF Gathering
  <2>8. Gathering'
    BY <2>3, <2>5, <2>6, <2>7 DEF Gathering
  <2> QED
    BY <2>8 DEF Phases
<1>4. CASE ~(count_threads < NThreads)
  <2>1. /\ asleep' = {} /\ count_threads' = count_threads /\ count_threads = NThreads
        /\ pc'[p] = AfterInit(p)
    BY <1>2, <1>4 DEF WaitInit, InitMissing, Goto, ControlInv, ControlTypeOK
  <2>2. SleepIn("init_wait") \in SUBSET (Participants \ {p})
    BY <1>2 DEF SleepIn, ControlInv, ControlTypeOK
  <2>3. SleepIn("init_wait") = Participants \ {p}
    BY <1>1, <2>1, <2>2, AllOthers DEF Gathering
  <2>4. \A q \in Participants \ {p} : pc'[q] = "init_wait"
    BY <1>2, <2>3 DEF SleepIn
  <2>5. /\ SleepIn("init_wait")' = {} /\ SleepIn("finish_wait")' = {}
        /\ Cardinality({}) = 0
    BY <2>1, FS_EmptySet DEF SleepIn
  <2>6. CASE end_threads
    <3>1. /\ pc'[Master] \in {"init_wait", "join"}
          /\ \A t \in Workers : pc'[t] \in {"init_wait", "begin"}
      BY <2>1, <2>4, <2>6 DEF AfterInit
    <3>2. Leaving'
      BY <1>2, <2>1, <2>6, <3>1 DEF Leaving
    <3> QED
      BY <3>2 DEF Phases
  <2>7. CASE ~end_threads
    <3>1. /\ pc'[Master] \in {"init_wait", "finish"}
          /\ \A t \in Workers : pc'[t] \in {"init_wait", "begin"}
      BY <2>1, <2>4, <2>7 DEF AfterInit
    <3>2. NThreads - count_threads' = Cardinality(SleepIn("finish_wait")')
      BY <2>1, <2>5
    <3>3. Working'
      BY <1>2, <2>5, <2>7, <3>1, <3>2 DEF Working
    <3> QED
      BY <3>3 DEF Phases
  <2> QED
    BY <2>6, <2>7
<1> QED
  BY <1>3, <1>4

\* Arriving at WAIT_FINISH happens while everybody works, and the last to
\* arrive finds all the others asleep there.
LEMMA WaitFinishPhase ==
  ASSUME ControlInv, Phases, NEW p \in Participants, WaitFinish(p)
  PROVE  Phases'
<1> USE ParticipantFacts, NThreadsAssumption
<1>1. Working
  BY DEF WaitFinish, FinishMissing, Phases, Gathering, Working, Leaving, NoPool, MasterOutside, Body
<1>2. /\ pc' \in [Participants -> MasterPcs \cup WorkerPcs]
      /\ \A q \in Participants \ {p} : pc'[q] = pc[q]
      /\ UNCHANGED end_threads
      /\ p \notin asleep
      /\ count_threads \in 0 .. NThreads
  BY DEF WaitFinish, FinishMissing, AfterFinish, Goto, ControlInv, ControlTypeOK, WorkerPcs, MasterPcs,
         MasterOutside, contextVars
<1>3. CASE count_threads > 0
  <2>1. /\ asleep' = asleep \cup {p} /\ count_threads' = count_threads - 1
        /\ pc'[p] = "finish_wait"
    BY <1>3 DEF WaitFinish, FinishMissing, Goto, ControlInv, ControlTypeOK
  <2>2. SleepIn("finish_wait")' = SleepIn("finish_wait") \cup {p}
    BY <1>2, <2>1 DEF SleepIn, ControlInv, ControlTypeOK
  <2>3. SleepIn("init_wait")' = {}
    BY <1>1, <1>2, <2>1 DEF SleepIn, Working, ControlInv, ControlTypeOK
  <2>4. Cardinality(SleepIn("finish_wait")') = Cardinality(SleepIn("finish_wait")) + 1
    BY <1>2, <2>2, Sleepers DEF SleepIn
  <2>5. NThreads - count_threads' = Cardinality(SleepIn("finish_wait"))'
    BY <1>1, <1>2, <2>1, <2>4 DEF Working
  <2>6. \A t \in Workers : \/ pc'[t] \in Body \cup {"begin", "finish", "init_wait"}
                           \/ pc'[t] = "finish_wait" /\ t \in asleep'
    BY <1>1, <1>2, <2>1 DEF Working
  <2>7. /\ pc'[Master] \in {"init_wait", "finish", "finish_wait"}
        /\ pc'[Master] = "finish_wait" => Master \in asleep'
    BY <1>1, <1>2, <2>1 DEF Working
  <2>8. Working'
    BY <1>1, <1>2, <2>3, <2>5, <2>6, <2>7 DEF Working
  <2> QED
    BY <2>8 DEF Phases
<1>4. CASE ~(count_threads > 0)
  <2>1. /\ asleep' = {} /\ count_threads' = 0 /\ count_threads = 0
        /\ pc'[p] = AfterFinish(p)
    BY <1>2, <1>4 DEF WaitFinish, FinishMissing, Goto, ControlInv, ControlTypeOK
  <2>2. SleepIn("finish_wait") \in SUBSET (Participants \ {p})
    BY <1>2 DEF SleepIn, ControlInv, ControlTypeOK
  <2>3. SleepIn("finish_wait") = Participants \ {p}
    BY <1>1, <2>1, <2>2, AllOthers DEF Working
  <2>4. \A q \in Participants \ {p} : pc'[q] = "finish_wait"
    BY <1>2, <2>3 DEF SleepIn
  <2>5. /\ SleepIn("init_wait")' = {} /\ SleepIn("finish_wait")' = {}
        /\ Cardinality({}) = 0
    BY <2>1, FS_EmptySet DEF SleepIn
  <2>6. /\ pc'[Master] \in {"finish_wait", "result"}
        /\ \A t \in Workers : pc'[t] \in {"finish_wait", "init"}
    BY <2>1, <2>4 DEF AfterFinish
  <2>7. count_threads' = Cardinality(SleepIn("init_wait")')
    BY <2>1, <2>5
  <2>8. Gathering'
    BY <2>5, <2>6, <2>7 DEF Gathering, MasterOutside
  <2> QED
    BY <2>8 DEF Phases
<1> QED
  BY <1>3, <1>4

\* Leaving a meeting point belongs to the phase the last arrival began.
LEMMA WakePhase ==
  ASSUME ControlInv, Phases, NEW p \in Participants, WakeInit(p) \/ WakeFinish(p)
  PROVE  Phases'
<1> USE ParticipantFacts
<1>1. /\ UNCHANGED <<end_threads, barrierVars>>
      /\ p \notin asleep
      /\ pc[p] \in {"init_wait", "finish_wait"}
  BY DEF WakeInit, WakeFinish, contextVars
<1>2. /\ \A q \in Participants \ {p} : pc'[q] = pc[q]
      /\ pc[p] = "init_wait" => pc'[p] = AfterInit(p)
      /\ pc[p] = "finish_wait" => pc'[p] = AfterFinish(p)
  BY DEF WakeInit, WakeFinish, Goto, ControlInv, ControlTypeOK
<1>3. \A l : SleepIn(l)' = SleepIn(l)
  BY <1>1, <1>2 DEF SleepIn, ControlInv, ControlTypeOK, barrierVars
<1>4. CASE pc[p] = "init_wait" /\ ~end_threads
  <2>1. Working
    BY <1>1, <1>4 DEF Phases, Gathering, Leaving, NoPool, MasterOutside
  <2>2. /\ pc'[Master] \in {"init_wait", "finish", "finish_wait"}
        /\ pc'[Master] = "finish_wait" => Master \in asleep
        /\ \A t \in Workers : \/ pc'[t] \in Body \cup {"begin", "finish", "init_wait"}
                              \/ pc'[t] = "finish_wait" /\ t \in asleep
    BY <1>2, <1>4, <2>1 DEF Working, AfterInit
  <2>3. Working'
    BY <1>1, <1>3, <2>1, <2>2 DEF Working, barrierVars
  <2> QED
    BY <2>3 DEF Phases
<1>5. CASE pc[p] = "init_wait" /\ end_threads
  <2>1. Leaving
    BY <1>1, <1>5 DEF Phases, Gathering, Working, NoPool, MasterOutside
  <2>2. Leaving'
    BY <1>1, <1>2, <1>5, <2>1 DEF Leaving, AfterInit, barrierVars
  <2> QED
    BY <2>2 DEF Phases
<1>6. CASE pc[p] = "finish_wait"
  <2>1. Gathering
    BY <1>1, <1>6 DEF Phases, Working, Leaving, NoPool, MasterOutside, Body
  <2>2. Gathering'
    BY <1>1, <1>2, <1>3, <1>6, <2>1 DEF Gathering, AfterFinish, MasterOutside, barrierVars
  <2> QED
    BY <2>2 DEF Phases
<1> QED
  BY <1>1, <1>4, <1>5, <1>6

\* A step of the caller's thread outside of the meeting points
LEMMA CallerMoves ==
  ASSUME ControlInv, Phases, NEW l,
         pc[Master] \in MasterOutside \ {"join"}, Goto(Master, l),
         l \in (MasterOutside \ {"join", "create"}) \cup {"init"},
         UNCHANGED <<threads_started, barrierVars>>,
         NoPool => l \notin {"init", "sentinels", "result"}
  PROVE  Phases'
<1> USE ParticipantFacts
<1>1. /\ pc'[Master] = l
      /\ \A t \in Workers : pc'[t] = pc[t]
  BY DEF ControlInv, ControlTypeOK, Goto
<1>2. Master \notin asleep
  BY DEF ControlInv, ControlTypeOK, MasterOutside
<1>3. \A w : SleepIn(w)' = SleepIn(w)
  BY <1>1, <1>2 DEF SleepIn, ControlInv, ControlTypeOK, Goto, barrierVars
<1>4. CASE Gathering
  <2>1. Gathering'
    BY <1>1, <1>2, <1>3, <1>4 DEF Gathering, barrierVars, MasterOutside
  <2> QED
    BY <2>1 DEF Phases
<1>5. CASE NoPool
  <2>1. NoPool'
    BY <1>1, <1>5 DEF NoPool, barrierVars, MasterOutside
  <2> QED
    BY <2>1 DEF Phases
<1>6. ~Working /\ ~Leaving
  BY DEF Working, Leaving, MasterOutside
<1> QED
  BY <1>4, <1>5, <1>6 DEF Phases

\* Calls begin and end, and pools are made and joined, while nobody works.
LEMMA CallerPhase ==
  ASSUME ControlInv, Phases, MasterStep \/ StartRelease \/ \E j \in Jobs : StartJob(j)
  PROVE  Phases'
<1> USE ParticipantFacts, NThreadsAssumption
<1>1. {"idle", "do_job", "serial", "set_nthreads", "sentinels", "result", "job_done",
       "memcpyed"} \subseteq MasterOutside \ {"join", "create"}
  BY DEF MasterOutside
<1>2. "create" \in MasterOutside
  BY DEF MasterOutside
<1>3. CASE \E j \in Jobs : StartJob(j)
  <2>1. PICK l \in {"memcpyed", "do_job"} : Goto(Master, l)
    BY <1>3 DEF StartJob
  <2> QED
    BY <1>1, <1>3, <2>1, CallerMoves DEF StartJob
<1>4. CASE DoJob
  <2>1. PICK l \in {"serial", "job_done", "set_nthreads"} : Goto(Master, l)
    BY <1>4 DEF DoJob
  <2> QED
    BY <1>1, <1>4, <2>1, CallerMoves DEF DoJob, contextVars
<1>5. CASE SerialBlock
  <2>1. PICK l \in {"serial", "job_done"} : Goto(Master, l)
    BY <1>5 DEF SerialBlock
  <2> QED
    BY <1>1, <1>5, <2>1, CallerMoves DEF SerialBlock, contextVars
<1>6. CASE SetNthreads
  <2>1. pc[Master] = "set_nthreads" /\ asleep' = asleep /\ threads_started' = threads_started
    BY <1>6 DEF SetNthreads, Sentinels, contextVars
  <2>2. CASE NThreads > 1 /\ NThreads # threads_started
    <3>1. pc' = [pc EXCEPT ![Master] = "create"] /\ count_threads' = 0
      BY <1>6, <2>2 DEF SetNthreads, Sentinels, Goto
    <3>2. threads_started = 0 /\ \A t \in Workers : pc[t] = "none"
      BY <2>1, <2>2 DEF ControlInv, ControlTypeOK, PoolStages
    <3>3. asleep = {}
      BY <2>1, <3>2 DEF ControlInv, ControlTypeOK
    <3>4. pc'[Master] = "create" /\ \A t \in Workers : pc'[t] = "none"
      BY <3>1, <3>2 DEF ControlInv, ControlTypeOK
    <3>5. /\ SleepIn("init_wait")' = {} /\ SleepIn("finish_wait")' = {}
          /\ Cardinality({}) = 0
      BY <2>1, <3>3, FS_EmptySet DEF SleepIn
    <3>6. Gathering'
      BY <1>2, <3>1, <3>4, <3>5 DEF Gathering
    <3> QED
      BY <3>6 DEF Phases
  <2>3. CASE ~(NThreads > 1 /\ NThreads # threads_started) /\ ~NoPool
    BY <1>1, <1>6, <2>1, <2>3, CallerMoves DEF SetNthreads, Sentinels, contextVars, barrierVars
  <2>4. CASE ~(NThreads > 1 /\ NThreads # threads_started) /\ NoPool
    <3>1. NThreads = 0 /\ count_threads = 0
      BY <2>1, <2>4 DEF NoPool, ControlInv, ControlTypeOK, PoolStages
    <3>2. /\ pc' = [pc EXCEPT ![Master] = "sentinels"]
          /\ count_threads' = 0 /\ asleep' = {}
      BY <1>6, <2>1, <2>4, <3>1 DEF SetNthreads, Sentinels, Goto, NoPool
    <3>3. pc'[Master] = "sentinels" /\ \A t \in Workers : pc'[t] = "none"
      BY <2>4, <3>2 DEF ControlInv, ControlTypeOK, NoPool
    <3>4. /\ SleepIn("init_wait")' = {} /\ SleepIn("finish_wait")' = {}
          /\ Cardinality({}) = 0
      BY <3>2, FS_EmptySet DEF SleepIn
    <3>5. Gathering'
      BY <1>1, <3>2, <3>3, <3>4 DEF Gathering
    <3> QED
      BY <3>5 DEF Phases
  <2> QED
    BY <2>2, <2>3, <2>4
<1>7. CASE CreateThread
  <2>1. tid \in Workers /\ pc[tid] = "none" /\ UNCHANGED barrierVars
        /\ pc[Master] = "create"
    BY <1>7 DEF CreateThread, ControlInv, PoolStages, ControlTypeOK, Workers, Participants
  <2>2. Gathering
    BY <2>1 DEF Phases, Working, Leaving, NoPool
  <2>3. /\ pc'[tid] = "init"
        /\ pc'[Master] \in {"sentinels", "create"}
        /\ \A t \in Workers \ {tid} : pc'[t] = pc[t]
    BY <1>7, <2>1 DEF CreateThread, ControlInv, ControlTypeOK
  <2>4. tid \notin asleep /\ Master \notin asleep
    BY <2>1 DEF ControlInv, ControlTypeOK
  <2>5. \A w : SleepIn(w)' = SleepIn(w)
    BY <2>1, <2>3, <2>4 DEF SleepIn, ControlInv, ControlTypeOK, barrierVars
  <2>6. Gathering'
    BY <1>1, <1>2, <2>1, <2>2, <2>3, <2>4, <2>5 DEF Gathering, barrierVars
  <2> QED
    BY <2>6 DEF Phases
<1>8. CASE SetSentinels
  <2>1. ~NoPool
    BY <1>8 DEF SetSentinels, NoPool
  <2> QED
    BY <1>1, <1>8, <2>1, CallerMoves DEF SetSentinels, contextVars
<1>9. CASE TakeResult \/ JobGaveUp \/ JobDone \/ CopyWithJob \/ CopyDirectly
  BY <1>1, <1>9, CallerMoves
     DEF TakeResult, JobGaveUp, JobDone, CopyWithJob, CopyDirectly, ReturnWith, contextVars
<1>10. CASE JoinThread
  <2>1. /\ tid \in Workers /\ threads_started = NThreads
        /\ \A t \in Workers : t < tid => pc[t] = "none"
        /\ UNCHANGED barrierVars /\ end_threads' = end_threads
        /\ pc[Master] = "join"
    BY <1>10 DEF JoinThread, LastJoin, ControlInv, PoolStages, ControlTypeOK, Workers, Participants
  <2>2. Leaving
    BY <2>1 DEF Phases, Gathering, Working, NoPool
  <2>3. /\ pc'[tid] = "none"
        /\ pc'[Master] = IF tid + 1 = NThreads THEN "idle" ELSE "join"
        /\ \A t \in Workers \ {tid} : pc'[t] = pc[t]
    BY <1>10, <2>1 DEF JoinThread, LastJoin, ControlInv, ControlTypeOK
  <2>4. CASE tid + 1 = NThreads
    <3>1. threads_started' = 0
      BY <1>10, <2>1, <2>4 DEF JoinThread, LastJoin
    <3>2. \A t \in Workers : pc'[t] = "none"
      BY <2>1, <2>3, <2>4 DEF Workers
    <3>3. NoPool'
      BY <1>1, <2>1, <2>2, <2>3, <2>4, <3>1, <3>2 DEF NoPool, Leaving, barrierVars
    <3> QED
      BY <3>3 DEF Phases
  <2>5. CASE tid + 1 # NThreads
    <3>1. Leaving'
      BY <2>1, <2>2, <2>3, <2>5 DEF Leaving, barrierVars
    <3> QED
      BY <3>1 DEF Phases
  <2> QED
    BY <2>4, <2>5
<1>11. CASE StartRelease
  <2>1. ~NoPool
    BY <1>11 DEF StartRelease, NoPool
  <2> QED
    BY <1>1, <1>11, <2>1, CallerMoves DEF StartRelease
<1> QED
  BY <1>3, <1>4, <1>5, <1>6, <1>7, <1>8, <1>9, <1>10, <1>11 DEF MasterStep

\* WAIT_INIT and WAIT_FINISH keep everybody in the same phase, although they
\* share a counter and a condition variable: BarrierPhases of the runs, for
\* every number of threads.
THEOREM BarrierCorrect == Spec => []BarrierPhases
<1>1. ControlInv /\ Phases /\ [Next]_vars => Phases'
  <2> SUFFICES ASSUME ControlInv, Phases, [Next]_vars PROVE Phases'
    OBVIOUS
  <2>1. CASE UNCHANGED vars
    BY <2>1 DEF vars, contextVars, barrierVars, Phases, Gathering, Working, Leaving,
                NoPool, SleepIn
  <2> QED
    BY <2>1, CallerPhase, WorkerPhase, WaitInitPhase, WaitFinishPhase, WakePhase
       DEF Next, Meet
<1>2. ControlInv /\ Phases => BarrierPhases
  BY DEF ControlInv, BarrierPhases
<1> QED
  BY <1>1, <1>2, ControlCorrect, PhaseInit, PTL DEF Spec

\* While the caller's thread is outside of parallel_blosc no worker is between
\* the meeting points.
THEOREM CallerIsAlone == Spec => []CallerAlone
<1>1. BarrierPhases => CallerAlone
  BY DEF BarrierPhases, Phases, Gathering, Working, Leaving, NoPool, CallerAlone,
         MasterOutside
<1> QED
  BY <1>1, BarrierCorrect, PTL

\* What a worker reads of the context without a lock does not change under it.
THEOREM ParametersAreStable == Spec => ParametersStable
<1> DEFINE Quiet == (\E t \in Workers : pc[t] \in Body \cup {"begin", "finish"})
                      => UNCHANGED <<job, memcpyed, end_threads>>
<1>1. ControlInv /\ BarrierPhases /\ [Next]_vars => [Quiet]_vars
  <2> SUFFICES ASSUME ControlInv, BarrierPhases, Next,
                      NEW t \in Workers, pc[t] \in Body \cup {"begin", "finish"}
               PROVE  UNCHANGED <<job, memcpyed, end_threads>>
    OBVIOUS
  <2>1. pc[Master] \in {"init_wait", "finish", "finish_wait", "join"}
    BY DEF BarrierPhases, Phases, Gathering, Working, Leaving, NoPool, Body
  <2>2. CASE MasterStep
    BY <2>1, <2>2 DEF MasterStep, DoJob, SerialBlock, SetNthreads, CreateThread,
         SetSentinels, TakeResult, JobGaveUp, JobDone, CopyWithJob, CopyDirectly,
         JoinThread
  <2>3. CASE StartRelease \/ \E j \in Jobs : StartJob(j)
    BY <2>1, <2>3 DEF StartRelease, StartJob
  <2>4. CASE \E p \in Participants : Meet(p)
    BY <2>4 DEF Meet, WaitInit, InitMissing, WakeInit, WaitFinish, FinishMissing, WakeFinish, contextVars
  <2>5. CASE \E u \in Workers : WorkerStep(u)
    BY <2>5 DEF WorkerStep, Begin, Loop, CompressBlock, PlaceBlock, RejectBlock,
         DeltaGate, DeltaWake, DeltaDecode, Check, Fail, Commit, CopyBlock, Sum, Add,
         contextVars
  <2> QED
    BY <2>2, <2>3, <2>4, <2>5 DEF Next
<1> QED
  BY <1>1, ControlCorrect, BarrierCorrect, PTL DEF Spec, ParametersStable

-----------------------------------------------------------------------------
(* Data *)
DataInv ==
  /\ DataTypeOK
  /\ \A t \in Workers : pc[t] \in Body => tblock[t] <= NBlocks(job)
-----------------------------------------------------------------------------
\* Blocks per thread: the quotient of two numbers is a number.
LEMMA TBlocksType ==
  ASSUME job \in Jobs, NThreads > 0
  PROVE  TBlocks \in Nat
<1>1. NBlocks(job) \in Nat
  BY JobsAssumption, BlockSizeAssumption DEF IsJob, NBlocks
<1>2. \A x, n \in Nat : n > 0 => x \div n \in Nat
  OBVIOUS
<1> QED
  BY <1>1, <1>2, NThreadsAssumption DEF TBlocks

\* The numbers of a request
LEMMA JobFacts ==
  ASSUME NEW j \in Jobs
  PROVE  /\ NBlocks(j) \in Nat
         /\ SourceSize(j) \in Nat
         /\ FirstOutput(j) \in Nat
         /\ j.destsize \in Nat
         /\ j.memcpyed \in BOOLEAN
         /\ \A b \in Blocks(j) : BlockLen(j, b) \in Nat /\ j.csize[b] \in Int
         /\ \A b \in Nat : b < NBlocks(j) <=> b \in Blocks(j)
<1>1. IsJob(j) /\ BlockSize \in Nat \ {0}
  BY JobsAssumption, BlockSizeAssumption
<1>2. NBlocks(j) \in Nat /\ j.left \in Nat /\ j.nfull \in Nat
  BY <1>1 DEF IsJob, NBlocks
<1>3. SourceSize(j) \in Nat
  BY <1>1, <1>2 DEF SourceSize
<1>4. FirstOutput(j) \in Nat
  BY <1>1, <1>2 DEF FirstOutput, IsJob, MIN_HEADER, EXTENDED_HEADER
<1> QED
  BY SMTT(60), <1>1, <1>2, <1>3, <1>4 DEF IsJob, BlockLen, Blocks

\* The initial values have the types of their variables.
LEMMA DataInit == Init => DataInv
<1> USE ParticipantFacts
<1> SUFFICES ASSUME Init PROVE DataInv
  OBVIOUS
<1>1. \A t \in Workers : pc[t] = "none"
  BY DEF Init
<1>2. /\ job \in Jobs /\ memcpyed = FALSE /\ dref_not_init = FALSE
      /\ output_bytes = 0 /\ thread_giveup_code = 0 /\ thread_nblock = 0
  BY DEF Init
<1>3. bstarts \in [Blocks(job) -> Int]
  BY DEF Init
<1>4. /\ nblock_ \in [Participants -> Nat] /\ tblock \in [Participants -> Int]
      /\ ntbytes \in [Participants -> Int] /\ cbytes \in [Participants -> Int]
      /\ ntdest \in [Participants -> Int] /\ tmp2 \in [Participants -> Nat]
  BY DEF Init
<1>5. \A t \in Workers : pc[t] \notin OnBlock
  BY <1>1 DEF OnBlock
<1>6. memcpyed \in BOOLEAN /\ dref_not_init \in BOOLEAN
  BY <1>2
<1>7. DataTypeOK
  BY <1>2, <1>3, <1>4, <1>5, <1>6 DEF DataTypeOK
<1> QED
  BY <1>1, <1>7 DEF DataInv, Body

\* Meeting changes no data, and takes nobody to a block.
LEMMA MeetData ==
  ASSUME ControlInv, DataInv, NEW p \in Participants, Meet(p)
  PROVE  DataInv'
<1>1. UNCHANGED <<contextVars, deltaVars, jobVars, bufferVars, localVars>>
  BY DEF Meet, WaitInit, WakeInit, WaitFinish, WakeFinish
<1>2. PICK l \in {"init_wait", "finish_wait", AfterInit(p), AfterFinish(p)} : Goto(p, l)
  BY DEF Meet, WaitInit, WakeInit, WaitFinish, WakeFinish
<1>3. l \notin OnBlock /\ l \notin Body
  BY <1>2 DEF AfterInit, AfterFinish, OnBlock, Body
<1>4. \A t \in Workers : /\ pc'[t] \in OnBlock => pc[t] \in OnBlock
                         /\ pc'[t] \in Body => pc[t] \in Body
  BY <1>2, <1>3, ParticipantFacts DEF Goto, ControlInv, ControlTypeOK
<1> QED
  BY <1>1, <1>4
     DEF DataInv, DataTypeOK, contextVars, deltaVars, jobVars, bufferVars, localVars

\* While the caller's thread writes the context no worker is on a block.
LEMMA CallerData ==
  ASSUME ControlInv, Phases, DataInv,
         MasterStep \/ StartRelease \/ \E j \in Jobs : StartJob(j)
  PROVE  DataInv'
<1> USE ParticipantFacts
<1>1. \A t \in Workers : pc[t] \notin Body
  BY DEF Phases, Gathering, Working, Leaving, NoPool, Body, MasterOutside, MasterStep,
         DoJob, SerialBlock, SetNthreads, CreateThread, SetSentinels, TakeResult,
         JobGaveUp, JobDone, CopyWithJob, CopyDirectly, JoinThread, StartRelease, StartJob
<1>2. \A t \in Workers : pc'[t] \in {pc[t], "init", "none"}
  <2>1. CASE CreateThread \/ JoinThread
    BY <2>1 DEF CreateThread, JoinThread, ControlInv, ControlTypeOK
  <2>2. CASE \E l : Goto(Master, l)
    BY <2>2 DEF Goto, ControlInv, ControlTypeOK
  <2> QED
    BY <2>1, <2>2
       DEF MasterStep, DoJob, SerialBlock, SetNthreads, SetSentinels, TakeResult,
           JobGaveUp, JobDone, CopyWithJob, CopyDirectly, ReturnWith, StartRelease, StartJob
<1>3. \A t \in Workers : pc'[t] \notin Body /\ pc'[t] \notin OnBlock
  BY <1>1, <1>2 DEF Body, OnBlock
<1> USE <1>3 DEF DataInv, DataTypeOK
<1>4. ASSUME NEW j \in Jobs, StartJob(j) PROVE DataInv'
  <2>1. /\ job' = j /\ memcpyed' = j.memcpyed /\ output_bytes' = FirstOutput(j)
        /\ bstarts' = [b \in Blocks(j) |-> 0]
        /\ UNCHANGED <<deltaVars, thread_giveup_code, thread_nblock, localVars>>
    BY <1>4 DEF StartJob
  <2>2. bstarts' \in [Blocks(job') -> Int]
    BY <2>1
  <2>3. memcpyed' \in BOOLEAN /\ output_bytes' \in Int
    BY <2>1, JobFacts
  <2> QED
    BY <2>1, <2>2, <2>3 DEF deltaVars, localVars
<1>5. CASE DoJob
  <2>1. /\ nblock_' \in [Participants -> Nat] /\ ntbytes' \in [Participants -> Int]
        /\ dref_not_init' \in BOOLEAN
    BY <1>5 DEF DoJob
  <2> QED
    BY <1>5, <2>1 DEF DoJob, contextVars, jobVars, bufferVars
<1>6. CASE SerialBlock
  <2> DEFINE b == nblock_[Master]
             c == IF ~job.compress /\ b \in job.bad THEN -2
                  ELSE IF ~job.compress \/ memcpyed THEN BlockLen(job, b)
                  ELSE IF ntbytes[Master] + job.csize[b] > job.destsize THEN 0
                  ELSE job.csize[b]
  <2>1. b \in Blocks(job) /\ ntbytes[Master] \in Int
    BY <1>6, JobFacts DEF SerialBlock
  <2>2. c \in Int
    BY <2>1, JobFacts
  <2>3. bstarts' \in [Blocks(job) -> Int]
    BY <1>6, <2>1 DEF SerialBlock
  <2>4. dref_not_init' \in BOOLEAN
    BY <1>6 DEF SerialBlock
  <2>5. /\ \/ ntbytes' = [ntbytes EXCEPT ![Master] = c]
           \/ ntbytes' = [ntbytes EXCEPT ![Master] = ntbytes[Master] + c]
        /\ nblock_' = nblock_ \/ nblock_' = [nblock_ EXCEPT ![Master] = b + 1]
    BY <1>6 DEF SerialBlock
  <2>6. nblock_' \in [Participants -> Nat] /\ ntbytes' \in [Participants -> Int]
    BY <2>1, <2>2, <2>5
  <2>7. UNCHANGED <<contextVars, jobVars, tblock, cbytes, ntdest, tmp2>>
    BY <1>6 DEF SerialBlock
  <2> QED
    BY <2>3, <2>4, <2>6, <2>7 DEF contextVars, jobVars
<1>7. CASE SetNthreads
  BY <1>7 DEF SetNthreads, Sentinels, contextVars, deltaVars, bufferVars, localVars
<1>8. CASE SetSentinels
  BY <1>8 DEF SetSentinels, Sentinels, contextVars, deltaVars, bufferVars, localVars
<1>9. CASE TakeResult
  <2>1. ntbytes' \in [Participants -> Int]
    BY <1>9 DEF TakeResult
  <2> QED
    BY <1>9, <2>1 DEF TakeResult, contextVars, deltaVars, jobVars, bufferVars
<1>10. CASE JobGaveUp
  BY <1>10 DEF JobGaveUp, deltaVars, jobVars, bufferVars, localVars
<1>11. CASE JobDone \/ CopyDirectly
  <2>1. nblock_' \in [Participants -> Nat] /\ ntbytes' \in [Participants -> Int]
    BY <1>11 DEF JobDone, CopyDirectly, ReturnWith
  <2> QED
    BY <1>11, <2>1 DEF JobDone, CopyDirectly, contextVars, deltaVars, jobVars, bufferVars
<1>12. CASE CopyWithJob
  BY <1>12 DEF CopyWithJob, contextVars, deltaVars, bufferVars, localVars, MAX_OVERHEAD
<1>13. CASE CreateThread \/ JoinThread \/ StartRelease
  BY <1>13 DEF CreateThread, JoinThread, StartRelease, deltaVars, jobVars, bufferVars,
         localVars
<1> QED
  BY <1>4, <1>5, <1>6, <1>7, <1>8, <1>9, <1>10, <1>11, <1>12, <1>13 DEF MasterStep

\* A step of one worker that leaves its numbers alone, or forgets them
LEMMA WorkerKeeps ==
  ASSUME ControlInv, DataInv, NEW t \in Workers, NEW l,
         Goto(t, l),
         l \in OnBlock => pc[t] \in OnBlock /\ nblock_'[t] = nblock_[t],
         l \in Body => pc[t] \in Body /\ tblock'[t] = tblock[t],
         UNCHANGED <<job, memcpyed>>,
         nblock_' \in [Participants -> Nat], tblock' \in [Participants -> Int],
         ntbytes' \in [Participants -> Int], cbytes' \in [Participants -> Int],
         ntdest' \in [Participants -> Int], tmp2' \in [Participants -> Nat],
         \A u \in Workers \ {t} : nblock_'[u] = nblock_[u] /\ tblock'[u] = tblock[u],
         output_bytes' \in Int, thread_giveup_code' \in Int,
         thread_nblock' \in Nat \cup {-1}, dref_not_init' \in BOOLEAN,
         bstarts' \in [Blocks(job) -> Int]
  PROVE  DataInv'
<1>1. pc'[t] = l /\ \A u \in Workers \ {t} : pc'[u] = pc[u]
  BY ParticipantFacts DEF Goto, ControlInv, ControlTypeOK
<1>2. \A u \in Workers : pc'[u] \in OnBlock => nblock_'[u] \in Blocks(job)
  BY <1>1 DEF DataInv, DataTypeOK
<1>3. \A u \in Workers : pc'[u] \in Body => tblock'[u] <= NBlocks(job)
  BY <1>1 DEF DataInv
<1>4. DataTypeOK'
  BY <1>2 DEF DataInv, DataTypeOK
<1> QED
  BY <1>3, <1>4 DEF DataInv

\* The numbers a worker computes with, and the block it is on, have their types.
LEMMA WorkerData ==
  ASSUME ControlInv, DataInv, NEW t \in Workers, WorkerStep(t)
  PROVE  DataInv'
<1> USE ParticipantFacts, JobFacts
<1>1. /\ job \in Jobs /\ memcpyed \in BOOLEAN
      /\ output_bytes \in Int /\ thread_giveup_code \in Int
      /\ thread_nblock \in Nat \cup {-1}
      /\ dref_not_init \in BOOLEAN /\ bstarts \in [Blocks(job) -> Int]
  BY DEF DataInv, DataTypeOK
<1>2. /\ nblock_ \in [Participants -> Nat] /\ tblock \in [Participants -> Int]
      /\ ntbytes \in [Participants -> Int] /\ cbytes \in [Participants -> Int]
      /\ ntdest \in [Participants -> Int] /\ tmp2 \in [Participants -> Nat]
  BY DEF DataInv, DataTypeOK
<1>3. pc[t] \in OnBlock => /\ nblock_[t] \in Blocks(job)
                           /\ BlockLen(job, nblock_[t]) \in Int
                           /\ job.csize[nblock_[t]] \in Int
  BY <1>1 DEF DataInv, DataTypeOK
<1>4. pc \in [Participants -> MasterPcs \cup WorkerPcs]
  BY DEF ControlInv, ControlTypeOK
<1>5. Forget(t) => /\ nblock_' \in [Participants -> Nat] /\ tblock' \in [Participants -> Int]
                   /\ ntbytes' \in [Participants -> Int]
                   /\ cbytes' \in [Participants -> Int]
                   /\ ntdest' \in [Participants -> Int] /\ tmp2' \in [Participants -> Nat]
                   /\ \A u \in Workers \ {t} : nblock_'[u] = nblock_[u]
                                               /\ tblock'[u] = tblock[u]
  BY <1>2 DEF Forget
<1>6. CASE Begin(t)
  <2>1. CASE end_threads
    BY <1>1, <1>2, <1>6, <2>1, WorkerKeeps
       DEF Begin, ClaimNext, OnBlock, Body, contextVars, bufferVars, deltaVars
  <2>2. CASE ~end_threads
    <3>1. NThreads > 0 /\ t \in Nat /\ t + 1 \in Nat
      BY NThreadsAssumption DEF Workers
    <3>2. TBlocks \in Nat
      BY <1>1, <3>1, TBlocksType
    <3>3. t * TBlocks \in Nat /\ (t + 1) * TBlocks \in Nat
      BY <3>1, <3>2
    <3>4. /\ nblock_' \in [Participants -> Nat] /\ tblock' \in [Participants -> Int]
          /\ ntbytes' \in [Participants -> Int] /\ thread_nblock' \in Nat \cup {-1}
      BY <1>1, <1>2, <1>6, <2>2, <3>3 DEF Begin, ClaimNext
    <3>5. /\ tblock'[t] <= NBlocks(job)
          /\ \A u \in Workers \ {t} : nblock_'[u] = nblock_[u] /\ tblock'[u] = tblock[u]
      BY <1>1, <1>2, <1>6, <2>2, <3>3 DEF Begin, ClaimNext
    <3>6. pc'[t] = "loop" /\ \A u \in Workers \ {t} : pc'[u] = pc[u]
      BY <1>4, <1>6, <2>2 DEF Begin, ClaimNext, Goto
    <3>7. UNCHANGED <<contextVars, deltaVars, output_bytes, thread_giveup_code, bufferVars,
                      cbytes, ntdest, tmp2>>
      BY <1>6 DEF Begin, ClaimNext
    <3>8. \A u \in Workers : pc'[u] \in OnBlock => nblock_'[u] \in Blocks(job)
      BY <3>5, <3>6 DEF OnBlock, DataInv, DataTypeOK
    <3>9. DataTypeOK'
      BY <1>1, <1>2, <3>4, <3>7, <3>8 DEF DataTypeOK, contextVars, deltaVars, bufferVars
    <3>10. \A u \in Workers : pc'[u] \in Body => tblock'[u] <= NBlocks(job)
      BY <3>5, <3>6 DEF DataInv
    <3> QED
      BY <3>7, <3>9, <3>10 DEF DataInv, contextVars
  <2> QED
    BY <2>1, <2>2
<1>7. CASE Loop(t)
  <2>1. PICK l \in {"block", "sum"} :
          Goto(t, l) /\ (l = "block" => nblock_[t] < tblock[t])
    BY <1>7 DEF Loop, MoreBlocks
  <2>2. UNCHANGED <<contextVars, deltaVars, jobVars, bufferVars, localVars>>
    BY <1>7 DEF Loop, MoreBlocks
  <2>3. tblock[t] <= NBlocks(job) /\ pc[t] \in Body
    BY <1>7 DEF Loop, MoreBlocks, DataInv, Body
  <2>4. l = "block" => nblock_[t] \in Blocks(job)
    BY <1>1, <1>2, <2>1, <2>3
  <2>5. pc'[t] = l /\ \A u \in Workers \ {t} : pc'[u] = pc[u]
    BY <1>4, <2>1 DEF Goto
  <2>6. \A u \in Workers : pc'[u] \in OnBlock => nblock_[u] \in Blocks(job)
    BY <2>1, <2>4, <2>5 DEF DataInv, DataTypeOK, OnBlock
  <2>7. \A u \in Workers : pc'[u] \in Body => tblock[u] <= NBlocks(job)
    BY <2>3, <2>5 DEF DataInv
  <2> QED
    BY <2>2, <2>6, <2>7
       DEF DataInv, DataTypeOK, contextVars, deltaVars, jobVars, bufferVars, localVars
<1>8. CASE CompressBlock(t)
  <2>1. cbytes' \in [Participants -> Int] /\ tmp2' \in [Participants -> Nat]
    BY <1>2, <1>3, <1>8 DEF CompressBlock, OnBlock
  <2> QED
    BY <1>1, <1>2, <1>8, <2>1, WorkerKeeps
       DEF CompressBlock, OnBlock, Body, contextVars, deltaVars, jobVars, bufferVars
<1>9. CASE PlaceBlock(t) \/ RejectBlock(t)
  <2>1. cbytes' \in [Participants -> Int]
    BY <1>2, <1>3, <1>9 DEF PlaceBlock, RejectBlock, OnBlock
  <2> QED
    BY <1>1, <1>2, <1>9, <2>1, WorkerKeeps
       DEF PlaceBlock, RejectBlock, OnBlock, Body, contextVars, deltaVars, jobVars, bufferVars
<1>10. CASE DeltaGate(t)
  <2>1. cbytes' \in [Participants -> Int]
    BY <1>2, <1>3, <1>10 DEF DeltaGate, MustWait, OnBlock
  <2>2. dref_not_init' \in BOOLEAN
    BY <1>1, <1>10 DEF DeltaGate, MustWait, deltaVars
  <2>3. PICK l \in {"delta_wait", "delta", "check"} : Goto(t, l)
    BY <1>10 DEF DeltaGate, MustWait
  <2> QED
    BY <1>1, <1>2, <1>10, <2>1, <2>2, <2>3, WorkerKeeps
       DEF DeltaGate, MustWait, OnBlock, Body, contextVars, jobVars
<1>11. CASE DeltaWake(t) \/ DeltaDecode(t)
  BY <1>1, <1>2, <1>11, WorkerKeeps
     DEF DeltaWake, DeltaDecode, OnBlock, Body, contextVars, deltaVars, jobVars, bufferVars,
         localVars
<1>12. CASE Check(t)
  <2>1. PICK l \in {"sum", "fail", "commit", "loop"} :
          /\ Goto(t, l)
          /\ l # "loop" => nblock_' = nblock_
    <3>1. cbytes[t] \in Int /\ thread_giveup_code \in Int
      BY <1>1, <1>2
    <3> QED
      BY <1>12, <3>1 DEF Check
  <2>2. /\ nblock_' \in [Participants -> Nat] /\ ntbytes' \in [Participants -> Int]
        /\ \A u \in Workers \ {t} : nblock_'[u] = nblock_[u]
    BY <1>2, <1>12 DEF Check
  <2>3. UNCHANGED <<contextVars, deltaVars, jobVars, bufferVars, tblock, cbytes, ntdest, tmp2>>
    BY <1>12 DEF Check
  <2>4. pc[t] = "check"
    BY <1>12 DEF Check
  <2>5. pc'[t] = l /\ \A u \in Workers \ {t} : pc'[u] = pc[u]
    BY <1>4, <2>1 DEF Goto
  <2>6. \A u \in Workers : pc'[u] \in OnBlock => nblock_'[u] \in Blocks(job)
    BY <2>1, <2>2, <2>4, <2>5 DEF DataInv, DataTypeOK, OnBlock
  <2>7. \A u \in Workers : pc'[u] \in Body => tblock[u] <= NBlocks(job)
    BY <2>4, <2>5 DEF DataInv, Body
  <2> QED
    BY <2>2, <2>3, <2>6, <2>7
       DEF DataInv, DataTypeOK, contextVars, deltaVars, jobVars, bufferVars
<1>13. CASE Fail(t)
  <2>1. thread_giveup_code' \in Int
    BY <1>2, <1>13 DEF Fail
  <2> QED
    BY <1>1, <1>2, <1>13, <2>1, WorkerKeeps
       DEF Fail, OnBlock, Body, contextVars, deltaVars, bufferVars, localVars
<1>14. CASE Commit(t)
  <2>1. PICK l \in {"sum", "copy"} : Goto(t, l)
    BY <1>14 DEF Commit, ClaimNext
  <2>2. /\ ntdest' \in [Participants -> Int] /\ nblock_' \in [Participants -> Nat]
        /\ \A u \in Workers \ {t} : nblock_'[u] = nblock_[u]
    BY <1>1, <1>2, <1>14 DEF Commit, ClaimNext
  <2>3. bstarts' \in [Blocks(job) -> Int]
    BY <1>1, <1>3, <1>14 DEF Commit, ClaimNext, OnBlock
  <2>4. /\ thread_giveup_code' \in Int /\ thread_nblock' \in Nat \cup {-1}
        /\ output_bytes' \in Int
    BY <1>1, <1>2, <1>14 DEF Commit, ClaimNext
  <2>5. UNCHANGED <<contextVars, deltaVars, tblock, ntbytes, cbytes, tmp2>>
    BY <1>14 DEF Commit, ClaimNext
  <2>6. pc'[t] = l /\ \A u \in Workers \ {t} : pc'[u] = pc[u]
    BY <1>4, <2>1 DEF Goto
  <2>7. \A u \in Workers : pc'[u] \in OnBlock => nblock_'[u] \in Blocks(job)
    BY <2>1, <2>2, <2>6 DEF DataInv, DataTypeOK, OnBlock
  <2>8. \A u \in Workers : pc'[u] \in Body => tblock[u] <= NBlocks(job)
    BY <1>14, <2>6 DEF Commit, ClaimNext, DataInv, Body
  <2> QED
    BY <1>2, <2>2, <2>3, <2>4, <2>5, <2>7, <2>8
       DEF DataInv, DataTypeOK, contextVars, deltaVars
<1>15. CASE CopyBlock(t)
  BY <1>1, <1>2, <1>15, WorkerKeeps
     DEF CopyBlock, OnBlock, Body, contextVars, deltaVars, jobVars, localVars
<1>16. CASE Sum(t)
  <2>1. CASE Goto(t, "add") /\ UNCHANGED localVars
    BY <1>1, <1>2, <1>16, <2>1, WorkerKeeps
       DEF Sum, OnBlock, Body, contextVars, deltaVars, jobVars, bufferVars, localVars
  <2>2. CASE Goto(t, "finish") /\ Forget(t)
    BY <1>1, <1>2, <1>5, <1>16, <2>2, WorkerKeeps
       DEF Sum, OnBlock, Body, contextVars, deltaVars, jobVars, bufferVars
  <2> QED
    BY <1>16, <2>1, <2>2 DEF Sum
<1>17. CASE Add(t)
  <2>1. output_bytes' \in Int
    BY <1>1, <1>2, <1>17 DEF Add
  <2> QED
    BY <1>1, <1>2, <1>5, <1>17, <2>1, WorkerKeeps
       DEF Add, OnBlock, Body, contextVars, deltaVars, bufferVars
<1> QED
  BY <1>6, <1>7, <1>8, <1>9, <1>10, <1>11, <1>12, <1>13, <1>14, <1>15, <1>16, <1>17
     DEF WorkerStep

\* The data have their types in every reachable state.
LEMMA DataCorrect == Spec => []DataInv
<1>1. ControlInv /\ BarrierPhases /\ DataInv /\ [Next]_vars => DataInv'
  <2> SUFFICES ASSUME ControlInv, BarrierPhases, DataInv, [Next]_vars PROVE DataInv'
    OBVIOUS
  <2>1. CASE UNCHANGED vars
    BY <2>1 DEF vars, contextVars, deltaVars, jobVars, bufferVars, localVars, DataInv,
                DataTypeOK
  <2> QED
    BY <2>1, CallerData, MeetData, WorkerData DEF Next, BarrierPhases
<1> QED
  BY <1>1, DataInit, ControlCorrect, BarrierCorrect, PTL DEF Spec

\* Every variable has its type in every reachable state, for every number of
\* threads and every set of requests.
THEOREM TypeCorrect == Spec => []TypeOK
<1>1. ControlInv /\ DataInv => TypeOK
  BY DEF ControlInv, DataInv, TypeOK
<1> QED
  BY <1>1, ControlCorrect, DataCorrect, PTL

-----------------------------------------------------------------------------
(* The stages of a job *)

\* The caller's thread is in do_job, on the way to the pool or beside it.
InPool == {"set_nthreads", "create", "sentinels", "init", "init_wait", "finish",
           "finish_wait", "result"}
BeforePool == {"do_job", "set_nthreads", "create", "sentinels", "init"}

StageInv ==
  /\ pc[Master] = "memcpyed" => memcpyed
  /\ pc[Master] = "serial" => RunsSerially
  /\ pc[Master] \in InPool /\ ~end_threads => ~RunsSerially
  /\ pc[Master] \in BeforePool /\ ~end_threads /\ InBlockOrder =>
       dest = {} /\ output_bytes = FirstOutput(job)
  /\ \A t \in Workers : pc[t] \in {"delta", "delta_wait"} => ~job.compress /\ ~memcpyed
  /\ \A t \in Workers : pc[t] \in {"commit", "copy"} => InBlockOrder
  /\ \A t \in Workers : pc[t] = "add" => ~InBlockOrder

InOrder == InBlockOrder /\ ~RunsSerially

-----------------------------------------------------------------------------
(* Who holds a block *)

\* nblock_ is a number that was claimed; from "copy" on it is the next one.
Claimed(t) == pc[t] \in {"loop", "block", "check", "fail", "commit", "copy"}

ClaimInv ==
  InOrder =>
    /\ \A t \in Workers : Claimed(t) => nblock_[t] <= thread_nblock
    /\ \A t, u \in Workers : t # u /\ Claimed(t) /\ Claimed(u) => nblock_[t] # nblock_[u]
    /\ \A r \in dest : /\ r.block \in Nat /\ r.block <= thread_nblock
                       /\ \A t \in Workers : Claimed(t) => r.block # nblock_[t]
    /\ \A t \in Workers : pc[t] \in {"check", "fail", "commit"} => tmp2[t] = nblock_[t]
    /\ \A u \in Workers : pc[u] = "copy" =>
         /\ tmp2[u] <= thread_nblock
         /\ \A t \in Workers : Claimed(t) => tmp2[u] # nblock_[t]

\* What the places in dest rest on: the sizes that were checked
PlaceInv ==
  InOrder =>
    /\ pc[Master] \in {"init", "init_wait", "finish", "finish_wait"} /\ ~end_threads =>
         output_bytes >= FirstOutput(job)
    /\ \A r, s \in Reserved : r # s => Disjoint(r, s)
    /\ \A r \in Reserved : /\ r.at \in Int /\ r.len \in Int
                           /\ r.at >= FirstOutput(job)
                           /\ r.at + r.len <= output_bytes
                           /\ r.at + r.len <= job.destsize
    /\ \A t \in Workers :
         /\ pc[t] \in {"check", "commit"} => cbytes[t] = job.csize[nblock_[t]]
         /\ pc[t] = "commit" => cbytes[t] >= 0

\* The first block is in place once delta_cv says so.
DeltaInv ==
  /\ ReferenceFirst
  /\ (pc[Master] \in InPool /\ ~end_threads /\ ~job.compress /\ ~dref_not_init)
       => Plain(job, 0) \in dest
  /\ \A t \in Workers : pc[t] = "delta" \/ (pc[t] = "delta_wait" /\ t \notin delta_asleep)
       => ~dref_not_init
-----------------------------------------------------------------------------
(* What a step leaves alone *)

\* A step of a worker is between the meeting points and changes its own
\* locals only.
LEMMA WorkerFrame ==
  ASSUME ControlInv, DataInv, NEW t \in Workers, WorkerStep(t)
  PROVE  /\ pc[t] \in Body \cup {"begin"}
         /\ pc'[t] \in Body \cup {"finish", "exited"}
         /\ pc'[Master] = pc[Master]
         /\ UNCHANGED <<contextVars, tid, barrierVars>>
         /\ \A u \in Workers \ {t} :
              /\ pc'[u] = pc[u] /\ nblock_'[u] = nblock_[u] /\ tmp2'[u] = tmp2[u]
              /\ ntdest'[u] = ntdest[u] /\ cbytes'[u] = cbytes[u]
              /\ tblock'[u] = tblock[u] /\ ntbytes'[u] = ntbytes[u]
<1> USE ParticipantFacts
<1> USE DEF Body, contextVars, callerVars, localVars
<1>1. /\ pc \in [Participants -> MasterPcs \cup WorkerPcs]
      /\ nblock_ \in [Participants -> Nat] /\ tmp2 \in [Participants -> Nat]
      /\ ntdest \in [Participants -> Int] /\ cbytes \in [Participants -> Int]
      /\ tblock \in [Participants -> Int] /\ ntbytes \in [Participants -> Int]
  BY DEF ControlInv, ControlTypeOK, DataInv, DataTypeOK
<1>2. CASE Begin(t)
  BY <1>1, <1>2 DEF Begin, ClaimNext, Goto
<1>3. CASE Loop(t)
  BY <1>1, <1>3 DEF Loop, Goto
<1>4. CASE CompressBlock(t)
  BY <1>1, <1>4 DEF CompressBlock, Goto
<1>5. CASE PlaceBlock(t) \/ RejectBlock(t)
  BY <1>1, <1>5 DEF PlaceBlock, RejectBlock, Goto
<1>6. CASE DeltaGate(t)
  BY <1>1, <1>6 DEF DeltaGate, Goto
<1>7. CASE DeltaWake(t) \/ DeltaDecode(t)
  BY <1>1, <1>7 DEF DeltaWake, DeltaDecode, Goto
<1>8. CASE Check(t)
  BY <1>1, <1>8 DEF Check, Goto
<1>9. CASE Fail(t)
  BY <1>1, <1>9 DEF Fail, Goto
<1>10. CASE Commit(t)
  BY <1>1, <1>10 DEF Commit, ClaimNext, Goto
<1>11. CASE CopyBlock(t)
  BY <1>1, <1>11 DEF CopyBlock, Goto
<1>12. CASE Sum(t)
  BY <1>1, <1>12 DEF Sum, Forget, Goto
<1>13. CASE Add(t)
  BY <1>1, <1>13 DEF Add, Forget, Goto
<1> QED
  BY <1>2, <1>3, <1>4, <1>5, <1>6, <1>7, <1>8, <1>9, <1>10, <1>11, <1>12, <1>13 DEF WorkerStep

\* While a worker is on a block, or about to be, the caller's thread is in
\* the pool with a job.
LEMMA WorkingCaller ==
  ASSUME ControlInv, Phases, NEW t \in Workers,
         pc[t] \in Body \/ (pc[t] = "begin" /\ ~end_threads)
  PROVE  ~end_threads /\ pc[Master] \in {"init_wait", "finish", "finish_wait"}
  BY DEF Phases, Gathering, Working, Leaving, NoPool, Body

\* While the caller's thread is outside, no worker is between the meeting
\* points, before and after its step.
LEMMA CallerFrame ==
  ASSUME ControlInv, Phases, MasterStep \/ StartRelease \/ \E j \in Jobs : StartJob(j)
  PROVE  \A t \in Workers : pc[t] \notin Body /\ pc'[t] \notin Body
<1> USE ParticipantFacts
<1>1. \A t \in Workers : pc[t] \notin Body
  BY DEF Phases, Gathering, Working, Leaving, NoPool, Body, MasterOutside, MasterStep,
         DoJob, SerialBlock, SetNthreads, CreateThread, SetSentinels, TakeResult,
         JobGaveUp, JobDone, CopyWithJob, CopyDirectly, JoinThread, StartRelease, StartJob
<1>2. \A t \in Workers : pc'[t] \in {pc[t], "init", "none"}
  <2>1. CASE CreateThread \/ JoinThread
    BY <2>1 DEF CreateThread, JoinThread, ControlInv, ControlTypeOK
  <2>2. CASE \E l : Goto(Master, l)
    BY <2>2 DEF Goto, ControlInv, ControlTypeOK
  <2> QED
    BY <2>1, <2>2
       DEF MasterStep, DoJob, SerialBlock, SetNthreads, SetSentinels, TakeResult,
           JobGaveUp, JobDone, CopyWithJob, CopyDirectly, ReturnWith, StartRelease, StartJob
<1> QED
  BY <1>1, <1>2 DEF Body

\* Into the meeting points the caller's thread comes from two places.
LEMMA CallerTarget ==
  ASSUME ControlInv, MasterStep \/ StartRelease \/ \E j \in Jobs : StartJob(j)
  PROVE  SetSentinels \/ StartRelease
           \/ pc'[Master] \notin {"init", "init_wait", "finish", "finish_wait"}
<1> USE ParticipantFacts
<1>1. pc \in [Participants -> MasterPcs \cup WorkerPcs]
  BY DEF ControlInv, ControlTypeOK
<1>2. CASE CreateThread \/ JoinThread
  <2>1. tid \in Workers /\ pc[Master] \in {"create", "join"}
    BY <1>2 DEF CreateThread, JoinThread, ControlInv, PoolStages, ControlTypeOK, Workers,
         Participants
  <2> QED
    BY <1>1, <1>2, <2>1 DEF CreateThread, JoinThread
<1>3. ASSUME NEW l \in {"do_job", "serial", "job_done", "set_nthreads", "create", "sentinels",
                        "memcpyed", "idle"}, Goto(Master, l)
      PROVE  pc'[Master] \notin {"init", "init_wait", "finish", "finish_wait"}
  BY <1>1, <1>3 DEF Goto
<1> QED
  BY <1>2, <1>3 DEF MasterStep, DoJob, SerialBlock, SetNthreads, TakeResult, JobGaveUp, JobDone,
       CopyWithJob, CopyDirectly, ReturnWith, StartJob

\* Meeting changes no data, takes nobody to a block and nobody off one.
LEMMA MeetFrame ==
  ASSUME ControlInv, NEW p \in Participants, Meet(p)
  PROVE  /\ UNCHANGED <<contextVars, deltaVars, jobVars, bufferVars, localVars, callerVars>>
         /\ \A t \in Workers : pc[t] \in Body \/ pc'[t] \in Body => pc'[t] = pc[t]
         /\ \/ pc'[Master] = pc[Master]
            \/ /\ pc[Master] \in {"init", "init_wait", "finish", "finish_wait"}
               /\ pc'[Master] \in {"init_wait", "finish", "finish_wait", "result"}
                                 \cup {IF end_threads THEN "join" ELSE "finish"}
<1> USE ParticipantFacts
<1>1. UNCHANGED <<contextVars, deltaVars, jobVars, bufferVars, localVars, callerVars>>
  BY DEF Meet, WaitInit, WakeInit, WaitFinish, WakeFinish
<1>2. PICK l \in {"init_wait", "finish_wait", AfterInit(p), AfterFinish(p)} :
        Goto(p, l) /\ pc[p] \in {"init", "init_wait", "finish", "finish_wait"}
  BY DEF Meet, WaitInit, WakeInit, WaitFinish, WakeFinish
<1>3. pc'[p] = l /\ \A q \in Participants \ {p} : pc'[q] = pc[q]
  BY <1>2 DEF Goto, ControlInv, ControlTypeOK
<1>4. l \notin Body /\ pc[p] \notin Body
  BY <1>2 DEF AfterInit, AfterFinish, Body
<1>5. p = Master => l \in {"init_wait", "finish", "finish_wait", "result"}
                          \cup {IF end_threads THEN "join" ELSE "finish"}
  BY <1>2 DEF AfterInit, AfterFinish
<1> QED
  BY <1>1, <1>2, <1>3, <1>4, <1>5

-----------------------------------------------------------------------------
(* The stages *)

\* Nothing is in dest before a job.
LEMMA StageInit == Init => StageInv
  BY ParticipantFacts DEF Init, StageInv, InPool, BeforePool, InBlockOrder

\* A stage follows from what the caller's thread did to get there.
LEMMA CallerStage ==
  ASSUME ControlInv, Phases, StageInv, MasterStep \/ StartRelease \/ \E j \in Jobs : StartJob(j)
  PROVE  StageInv'
<1> USE ParticipantFacts DEF StageInv, InPool, BeforePool
<1>1. \A t \in Workers : pc'[t] \notin {"delta", "delta_wait", "commit", "copy", "add"}
  BY CallerFrame DEF Body
<1>2. pc \in [Participants -> MasterPcs \cup WorkerPcs]
  BY DEF ControlInv, ControlTypeOK
<1>3. ASSUME NEW j \in Jobs, StartJob(j) PROVE StageInv'
  <2>1. /\ job' = j /\ memcpyed' = j.memcpyed /\ dest' = {} /\ output_bytes' = FirstOutput(j)
        /\ pc'[Master] = IF j.memcpyed THEN "memcpyed" ELSE "do_job"
    BY <1>2, <1>3 DEF StartJob, Goto
  <2> QED
    BY <1>1, <2>1
<1>4. CASE DoJob
  <2>1. /\ pc[Master] = "do_job"
        /\ UNCHANGED <<contextVars, output_bytes, bufferVars>>
        /\ pc'[Master] \in {"job_done", "serial", "set_nthreads"}
        /\ pc'[Master] = "serial" => RunsSerially
        /\ pc'[Master] = "set_nthreads" => ~RunsSerially
    BY <1>2, <1>4 DEF DoJob, Goto, jobVars
  <2> QED
    BY <1>1, <2>1 DEF contextVars, bufferVars, InBlockOrder, RunsSerially
<1>5. CASE SerialBlock
  <2>1. /\ pc[Master] = "serial" /\ pc'[Master] \in {"serial", "job_done"}
        /\ UNCHANGED contextVars
    BY <1>2, <1>5 DEF SerialBlock, Goto
  <2> QED
    BY <1>1, <2>1 DEF contextVars, RunsSerially
<1>6. CASE SetNthreads \/ CreateThread \/ SetSentinels
  <2>1. /\ pc[Master] \in {"set_nthreads", "create", "sentinels"}
        /\ pc'[Master] \in {"create", "sentinels", "init"}
        /\ UNCHANGED <<job, memcpyed, end_threads, output_bytes, dest>>
    <3>1. CASE SetNthreads
      BY <1>2, <3>1 DEF SetNthreads, Goto, contextVars, bufferVars
    <3>2. CASE CreateThread
      <4>1. tid \in Workers
        BY <3>2 DEF CreateThread, ControlInv, PoolStages, ControlTypeOK, Workers, Participants
      <4> QED
        BY <1>2, <3>2, <4>1 DEF CreateThread, jobVars, bufferVars
    <3>3. CASE SetSentinels
      BY <1>2, <3>3 DEF SetSentinels, Goto, contextVars, bufferVars
    <3> QED
      BY <1>6, <3>1, <3>2, <3>3
  <2> QED
    BY <1>1, <2>1 DEF InBlockOrder, RunsSerially
<1>7. CASE TakeResult \/ JobDone \/ CopyDirectly
  <2>1. /\ pc'[Master] \in {"job_done", "idle"}
        /\ UNCHANGED contextVars
    BY <1>2, <1>7 DEF TakeResult, JobDone, CopyDirectly, ReturnWith, Goto
  <2> QED
    BY <1>1, <2>1 DEF contextVars
<1>8. CASE JobGaveUp
  <2>1. pc'[Master] = "memcpyed" /\ memcpyed'
    BY <1>2, <1>8 DEF JobGaveUp, Goto
  <2> QED
    BY <1>1, <2>1
<1>9. CASE CopyWithJob
  <2>1. pc[Master] = "memcpyed" /\ pc'[Master] = "do_job" /\ UNCHANGED contextVars
    BY <1>2, <1>9 DEF CopyWithJob, Goto
  <2> QED
    BY <1>1, <2>1 DEF contextVars, InBlockOrder
<1>10. CASE JoinThread \/ StartRelease
  <2>1. pc'[Master] \in {"join", "idle"} \/ end_threads'
    <3>1. CASE JoinThread
      <4>1. tid \in Workers /\ pc[Master] = "join"
        BY <3>1 DEF JoinThread, ControlInv, PoolStages, ControlTypeOK, Workers, Participants
      <4> QED
        BY <1>2, <3>1, <4>1 DEF JoinThread
    <3> QED
      BY <1>10, <3>1 DEF StartRelease
  <2>2. pc'[Master] \in {"join", "idle", "init"}
    <3>1. CASE JoinThread
      <4>1. tid \in Workers /\ pc[Master] = "join"
        BY <3>1 DEF JoinThread, ControlInv, PoolStages, ControlTypeOK, Workers, Participants
      <4> QED
        BY <1>2, <3>1, <4>1 DEF JoinThread
    <3> QED
      BY <1>2, <1>10, <3>1 DEF StartRelease, Goto
  <2> QED
    BY <1>1, <2>1, <2>2
<1> QED
  BY <1>3, <1>4, <1>5, <1>6, <1>7, <1>8, <1>9, <1>10 DEF MasterStep

\* Meeting leads from stage to stage of the same job.
LEMMA MeetStage ==
  ASSUME ControlInv, StageInv, NEW p \in Participants, Meet(p)
  PROVE  StageInv'
<1>1. UNCHANGED <<job, memcpyed, end_threads, output_bytes, dest>>
  BY MeetFrame DEF contextVars, jobVars, bufferVars
<1>2. \A t \in Workers : pc'[t] \in {"delta", "delta_wait", "commit", "copy", "add"} => pc'[t] = pc[t]
  BY MeetFrame DEF Body
<1> QED
  BY <1>1, <1>2, MeetFrame DEF StageInv, InPool, BeforePool, InBlockOrder, RunsSerially

\* What a worker may do depends on the kind of job.
LEMMA WorkerStage ==
  ASSUME ControlInv, DataInv, Phases, StageInv, NEW t \in Workers, WorkerStep(t)
  PROVE  StageInv'
<1> USE ParticipantFacts
<1>1. /\ pc'[Master] = pc[Master]
      /\ UNCHANGED <<job, memcpyed, end_threads>>
      /\ \A u \in Workers \ {t} : pc'[u] = pc[u]
  BY WorkerFrame DEF contextVars
<1>2. end_threads \/ pc[Master] \in {"init_wait", "finish", "finish_wait"}
  BY WorkerFrame, WorkingCaller
<1>3. pc \in [Participants -> MasterPcs \cup WorkerPcs]
  BY DEF ControlInv, ControlTypeOK
<1>4. /\ pc'[t] \in {"delta", "delta_wait"} => ~job.compress /\ ~memcpyed
      /\ pc'[t] \in {"commit", "copy"} => InBlockOrder
      /\ pc'[t] = "add" => ~InBlockOrder
  BY <1>3 DEF StageInv, WorkerStep, Begin, Loop, CompressBlock, PlaceBlock, RejectBlock, DeltaGate,
         DeltaWake, DeltaDecode, Check, Fail, Commit, CopyBlock, Sum, Add, Goto
<1> QED
  BY <1>1, <1>2, <1>4 DEF StageInv, InPool, BeforePool, InBlockOrder, RunsSerially

-----------------------------------------------------------------------------
(* Blocks are claimed once *)

\* Nothing is claimed at first.
LEMMA ClaimInit == Init => ClaimInv
  BY ParticipantFacts DEF Init, ClaimInv, Claimed

\* Outside of the meeting points nobody holds a block, and dest is empty
\* before the pool begins.
LEMMA CallerClaims ==
  ASSUME ControlInv, Phases, StageInv, ClaimInv,
         MasterStep \/ StartRelease \/ \E j \in Jobs : StartJob(j)
  PROVE  ClaimInv'
<1> SUFFICES ASSUME InOrder' PROVE \A r \in dest' : r.block \in Nat /\ r.block <= thread_nblock'
  BY CallerFrame DEF ClaimInv, Claimed, Body
<1> USE DEF ClaimInv, InOrder, InBlockOrder, RunsSerially
<1>1. CASE \E j \in Jobs : StartJob(j)
  BY <1>1 DEF StartJob
<1>2. CASE SerialBlock \/ JobGaveUp \/ CopyDirectly
  <2>1. /\ SerialBlock => NThreads = 1 \/ SourceSize(job) \div BlockSize <= 1
        /\ CopyDirectly => memcpyed
    BY DEF SerialBlock, CopyDirectly, StageInv
  <2> QED
    BY <1>2, <2>1 DEF SerialBlock, JobGaveUp, CopyDirectly, contextVars
<1>3. CASE SetNthreads \/ SetSentinels
  <2>1. dest = {} /\ UNCHANGED dest
    BY <1>3, NotEnding
       DEF SetNthreads, SetSentinels, StageInv, BeforePool, contextVars, bufferVars
  <2> QED
    BY <2>1
<1>4. CASE DoJob \/ CreateThread \/ TakeResult \/ JobDone \/ CopyWithJob \/ JoinThread
             \/ StartRelease
  <2>1. UNCHANGED <<job, memcpyed, dest, thread_nblock>>
    BY <1>4 DEF DoJob, CreateThread, TakeResult, JobDone, CopyWithJob, JoinThread, StartRelease,
         contextVars, jobVars, bufferVars
  <2> QED
    BY <2>1
<1> QED
  BY <1>1, <1>2, <1>3, <1>4 DEF MasterStep

\* Meeting changes no claim.
LEMMA MeetClaims ==
  ASSUME ControlInv, ClaimInv, NEW p \in Participants, Meet(p)
  PROVE  ClaimInv'
<1>1. UNCHANGED <<job, memcpyed, thread_nblock, dest, nblock_, tmp2>>
  BY MeetFrame DEF contextVars, jobVars, bufferVars, localVars
<1>2. \A t \in Workers : /\ Claimed(t)' => Claimed(t)
                         /\ pc'[t] \in {"check", "fail", "commit", "copy"} => pc'[t] = pc[t]
  BY MeetFrame DEF Body, Claimed
<1> QED
  BY <1>1, <1>2 DEF ClaimInv, InOrder, InBlockOrder, RunsSerially

\* A worker claims the number after the last that was claimed, puts the
\* block it has at a place of its own, or does neither.
LEMMA WorkerClaims ==
  ASSUME ControlInv, DataInv, Phases, StageInv, ClaimInv, NEW t \in Workers, WorkerStep(t)
  PROVE  ClaimInv'
<1> USE ParticipantFacts
<1> SUFFICES ASSUME InOrder' PROVE ClaimInv'
  BY DEF ClaimInv
<1>1. /\ pc \in [Participants -> MasterPcs \cup WorkerPcs]
      /\ nblock_ \in [Participants -> Nat] /\ tmp2 \in [Participants -> Nat]
      /\ thread_nblock \in Nat \cup {-1}
  BY DEF ControlInv, ControlTypeOK, DataInv, DataTypeOK
<1>2. /\ InOrder /\ InBlockOrder
      /\ pc[t] \notin {"delta", "delta_wait", "add"}
  BY WorkerFrame DEF contextVars, InOrder, InBlockOrder, RunsSerially, StageInv
<1>3. \A u \in Workers \ {t} :
        pc'[u] = pc[u] /\ nblock_'[u] = nblock_[u] /\ tmp2'[u] = tmp2[u]
  BY WorkerFrame
<1> USE <1>1, <1>2, <1>3 DEF ClaimInv, Claimed
<1>4. ASSUME UNCHANGED <<thread_nblock, dest>>,
             Claimed(t)' => Claimed(t) /\ nblock_'[t] = nblock_[t],
             pc'[t] # "copy",
             pc'[t] \in {"check", "fail", "commit"} => tmp2'[t] = nblock_'[t]
      PROVE  ClaimInv'
  BY <1>4
<1>5. ASSUME UNCHANGED dest, thread_nblock' = thread_nblock + 1,
             nblock_'[t] = thread_nblock',
             pc'[t] = "loop" \/ (pc'[t] = "copy" /\ pc[t] = "commit" /\ tmp2'[t] = tmp2[t])
      PROVE  ClaimInv'
  BY <1>5
<1>6. CASE Begin(t) /\ end_threads
  BY <1>4, <1>6 DEF Begin, Goto, bufferVars
<1>7. CASE Begin(t) /\ ~end_threads
  BY <1>5, <1>7 DEF Begin, ClaimNext, Goto, bufferVars
<1>8. CASE Loop(t) \/ CompressBlock(t) \/ Fail(t)
  BY <1>4, <1>8 DEF Loop, CompressBlock, Fail, Goto, jobVars, bufferVars, localVars
<1>9. CASE Check(t)
  BY <1>4, <1>9 DEF Check, Goto, jobVars, bufferVars
<1>10. CASE Sum(t)
  BY <1>4, <1>10 DEF Sum, Forget, Goto, jobVars, bufferVars
<1>11. CASE Commit(t) /\ NoRoom(t)
  BY <1>4, <1>11 DEF Commit, Goto
<1>12. CASE Commit(t) /\ ~NoRoom(t)
  BY <1>5, <1>12 DEF Commit, ClaimNext, Goto
<1>13. CASE CopyBlock(t)
  <2>1. /\ pc[t] = "copy" /\ pc'[t] = "loop"
        /\ UNCHANGED <<thread_nblock, nblock_, tmp2>>
    BY <1>13 DEF CopyBlock, Goto, jobVars, localVars
  <2>2. \A r \in dest' : r \in dest \/ r.block = tmp2[t]
    BY <1>13 DEF CopyBlock, Write, Packed, Region
  <2> QED
    BY <2>1, <2>2
<1>14. ~(PlaceBlock(t) \/ RejectBlock(t) \/ DeltaGate(t) \/ DeltaWake(t) \/ DeltaDecode(t) \/ Add(t))
  BY DEF PlaceBlock, RejectBlock, DeltaGate, DeltaWake, DeltaDecode, Add, InBlockOrder
<1> QED
  BY <1>6, <1>7, <1>8, <1>9, <1>10, <1>11, <1>12, <1>13, <1>14 DEF WorkerStep

-----------------------------------------------------------------------------
(* Places are apart *)

\* Nothing has a place at first.
LEMMA PlaceInit == Init => PlaceInv
  BY ParticipantFacts DEF Init, PlaceInv, Reserved

\* Outside of the meeting points dest stays as it is or is empty.
LEMMA CallerPlaces ==
  ASSUME ControlInv, DataInv, Phases, StageInv, PlaceInv,
         MasterStep \/ StartRelease \/ \E j \in Jobs : StartJob(j)
  PROVE  PlaceInv'
<1>1. \A t \in Workers : pc'[t] \notin {"check", "commit", "copy"}
  BY CallerFrame DEF Body
<1>2. Reserved' = dest' /\ dest \subseteq Reserved
  BY <1>1 DEF Reserved
<1> USE DEF InOrder, InBlockOrder, RunsSerially
<1>7. output_bytes \in Int /\ job \in Jobs
  BY DEF DataInv, DataTypeOK
<1>6. pc'[Master] \notin {"init", "init_wait", "finish", "finish_wait"} \/ SetSentinels \/ StartRelease
  BY CallerTarget
<1>3. CASE \E j \in Jobs : StartJob(j)
  <2>1. dest' = {}
    BY <1>3 DEF StartJob
  <2> QED
    BY <1>1, <1>2, <1>3, <1>6, <2>1 DEF StartJob, SetSentinels, PlaceInv, StartRelease
<1>4. CASE SerialBlock \/ JobGaveUp \/ CopyDirectly \/ CopyWithJob
  <2>1. /\ SerialBlock => NThreads = 1 \/ SourceSize(job) \div BlockSize <= 1
        /\ CopyDirectly \/ CopyWithJob => memcpyed
    BY DEF SerialBlock, CopyDirectly, CopyWithJob, StageInv
  <2>2. ~InOrder'
    BY <1>4, <2>1 DEF SerialBlock, JobGaveUp, CopyDirectly, CopyWithJob, contextVars
  <2> QED
    BY <2>2 DEF PlaceInv
<1>5. CASE DoJob \/ SetNthreads \/ CreateThread \/ SetSentinels \/ TakeResult \/ JobDone
             \/ JoinThread \/ StartRelease
  <2>1. UNCHANGED <<job, memcpyed, dest, output_bytes>>
    BY <1>5 DEF DoJob, SetNthreads, CreateThread, SetSentinels, TakeResult, JobDone, JoinThread,
         StartRelease, contextVars, jobVars, bufferVars
  <2>2. SetSentinels => output_bytes = FirstOutput(job) \/ ~InOrder
    BY NotEnding DEF SetSentinels, StageInv, BeforePool
  <2>3. StartRelease => end_threads'
    BY DEF StartRelease
  <2>4. output_bytes = FirstOutput(job) => output_bytes >= FirstOutput(job)
    BY <1>7
  <2> QED
    BY <1>1, <1>2, <1>6, <2>1, <2>2, <2>3, <2>4 DEF PlaceInv, Disjoint
<1> QED
  BY <1>3, <1>4, <1>5 DEF MasterStep

\* Meeting reserves nothing.
LEMMA MeetPlaces ==
  ASSUME ControlInv, PlaceInv, NEW p \in Participants, Meet(p)
  PROVE  PlaceInv'
<1>1. UNCHANGED <<job, memcpyed, output_bytes, dest, nblock_, tmp2, ntdest, cbytes>>
  BY MeetFrame DEF contextVars, jobVars, bufferVars, localVars
<1>2. \A t \in Workers : /\ pc'[t] = "copy" <=> pc[t] = "copy"
                         /\ pc'[t] \in {"check", "commit"} => pc'[t] = pc[t]
  BY MeetFrame DEF Body
<1>3. Reserved' = Reserved
  BY <1>1, <1>2 DEF Reserved, Packed, Region
<1>4. /\ pc'[Master] \in {"init", "init_wait", "finish", "finish_wait"} =>
           pc[Master] \in {"init", "init_wait", "finish", "finish_wait"}
      /\ UNCHANGED end_threads
  BY MeetFrame DEF contextVars
<1> QED
  BY <1>1, <1>2, <1>3, <1>4 DEF PlaceInv, InOrder, InBlockOrder, RunsSerially, Disjoint

\* A worker reserves the place from output_bytes on, when the block fits.
LEMMA WorkerPlaces ==
  ASSUME ControlInv, DataInv, Phases, StageInv, ClaimInv, PlaceInv,
         NEW t \in Workers, WorkerStep(t)
  PROVE  PlaceInv'
<1> USE ParticipantFacts
<1> SUFFICES ASSUME InOrder' PROVE PlaceInv'
  BY DEF PlaceInv
<1>1. /\ pc \in [Participants -> MasterPcs \cup WorkerPcs]
      /\ nblock_ \in [Participants -> Nat] /\ tmp2 \in [Participants -> Nat]
      /\ ntdest \in [Participants -> Int] /\ cbytes \in [Participants -> Int]
      /\ output_bytes \in Int /\ job \in Jobs
      /\ pc[t] \in OnBlock => nblock_[t] \in Blocks(job)
  BY DEF ControlInv, ControlTypeOK, DataInv, DataTypeOK
<1>2. /\ InOrder /\ InBlockOrder /\ UNCHANGED <<job, end_threads>> /\ pc'[Master] = pc[Master]
      /\ pc[t] \notin {"delta", "delta_wait", "add"}
  BY WorkerFrame DEF contextVars, InOrder, InBlockOrder, RunsSerially, StageInv
<1>3. \A u \in Workers \ {t} :
        /\ pc'[u] = pc[u] /\ nblock_'[u] = nblock_[u] /\ tmp2'[u] = tmp2[u]
        /\ ntdest'[u] = ntdest[u] /\ cbytes'[u] = cbytes[u]
  BY WorkerFrame
<1>4. ASSUME Reserved' \subseteq Reserved, UNCHANGED output_bytes,
             pc'[t] \in {"check", "commit"} => cbytes'[t] = job.csize[nblock_'[t]],
             pc'[t] = "commit" => cbytes'[t] >= 0
      PROVE  PlaceInv'
  BY <1>2, <1>3, <1>4 DEF PlaceInv, Disjoint
<1>5. ASSUME UNCHANGED dest, pc[t] # "copy", pc'[t] # "copy"
      PROVE  Reserved' = Reserved
  BY <1>2, <1>3, <1>5 DEF Reserved, Packed, Region
<1>6. CASE Begin(t)
  BY <1>1, <1>4, <1>5, <1>6 DEF Begin, ClaimNext, Goto, bufferVars
<1>7. CASE Loop(t)
  BY <1>1, <1>4, <1>5, <1>7 DEF Loop, Goto, bufferVars, jobVars
<1>8. CASE CompressBlock(t)
  <2>1. cbytes'[t] = job.csize[nblock_'[t]] /\ pc'[t] = "check" /\ pc[t] = "block"
    BY <1>1, <1>8 DEF CompressBlock, Goto
  <2> QED
    BY <1>4, <1>5, <1>8, <2>1 DEF CompressBlock, bufferVars, jobVars
<1>9. CASE Check(t)
  <2>1. /\ pc'[t] = "commit" => cbytes[t] >= 0
        /\ pc'[t] # "check" /\ pc'[t] # "copy" /\ pc[t] = "check"
        /\ UNCHANGED <<nblock_, cbytes>>
    BY <1>1, <1>2, <1>9 DEF Check, Goto
  <2>2. cbytes[t] = job.csize[nblock_[t]]
    BY <1>2, <2>1 DEF PlaceInv
  <2> QED
    BY <1>4, <1>5, <1>9, <2>1, <2>2 DEF Check, bufferVars, jobVars
<1>10. CASE Fail(t) \/ Sum(t)
  BY <1>1, <1>2, <1>4, <1>5, <1>10 DEF Fail, Sum, Goto, bufferVars, jobVars
<1>11. CASE Commit(t) /\ NoRoom(t)
  BY <1>1, <1>4, <1>5, <1>11 DEF Commit, Goto
<1>12. CASE Commit(t) /\ ~NoRoom(t)
  <2> DEFINE new == Packed(job, tmp2[t], output_bytes)
  <2>1. /\ pc[t] = "commit" /\ pc'[t] = "copy"
        /\ tmp2' = tmp2 /\ ntdest'[t] = output_bytes /\ UNCHANGED <<dest, cbytes>>
        /\ output_bytes' = output_bytes + cbytes[t]
    BY <1>1, <1>12 DEF Commit, ClaimNext, Goto
  <2>8. cbytes[t] # 0 /\ output_bytes + cbytes[t] <= job.destsize
    <3>1. output_bytes \in Int /\ cbytes[t] \in Int /\ job.destsize \in Int
      BY <1>1, JobFacts
    <3> QED
      BY <1>12, <3>1 DEF NoRoom
  <2>2. cbytes[t] > 0 /\ job.csize[tmp2[t]] = cbytes[t]
    <3>1. cbytes[t] >= 0 /\ cbytes[t] = job.csize[nblock_[t]]
      BY <1>2, <2>1 DEF PlaceInv
    <3>2. tmp2[t] = nblock_[t]
      BY <1>2, <2>1 DEF ClaimInv
    <3> QED
      BY <1>1, <2>8, <3>1, <3>2
  <2>3. Reserved' = Reserved \cup {new}
    BY <1>2, <1>3, <2>1 DEF Reserved, Packed, Region
  <2>4. /\ new.at = output_bytes /\ new.len = cbytes[t]
        /\ new.at + new.len = output_bytes'
    BY <2>1, <2>2 DEF Packed, Region
  <2>5. \A r \in Reserved : Disjoint(r, new) /\ Disjoint(new, r)
    BY <1>2, <2>4 DEF PlaceInv, Disjoint
  <2>6. \A r, s \in Reserved' : r # s => Disjoint(r, s)
    BY <1>2, <2>3, <2>5 DEF PlaceInv
  <2>7. output_bytes >= FirstOutput(job)
    BY <1>2, <2>1, WorkingCaller DEF PlaceInv, Body
  <2>9. FirstOutput(job) \in Int /\ job.destsize \in Int /\ cbytes[t] \in Int
    BY <1>1, JobFacts
  <2>10. \A r \in Reserved' : /\ r.at \in Int /\ r.len \in Int
                               /\ r.at >= FirstOutput(job)
                               /\ r.at + r.len <= output_bytes'
                               /\ r.at + r.len <= job.destsize
    <3>1. ASSUME NEW r \in Reserved
          PROVE  /\ r.at \in Int /\ r.len \in Int
                 /\ r.at >= FirstOutput(job)
                 /\ r.at + r.len <= output_bytes'
                 /\ r.at + r.len <= job.destsize
      <4>1. /\ r.at \in Int /\ r.len \in Int
            /\ r.at >= FirstOutput(job)
            /\ r.at + r.len <= output_bytes
            /\ r.at + r.len <= job.destsize
        BY <1>2 DEF PlaceInv
      <4> QED
        BY <1>1, <2>1, <2>2, <2>9, <4>1
    <3> QED
      BY <1>1, <2>1, <2>2, <2>3, <2>4, <2>7, <2>8, <2>9, <3>1
  <2>11. output_bytes' >= FirstOutput(job)
    BY <1>1, <2>1, <2>2, <2>7, <2>9
  <2>12. \A u \in Workers :
           /\ pc'[u] \in {"check", "commit"} => cbytes'[u] = job.csize[nblock_'[u]]
           /\ pc'[u] = "commit" => cbytes'[u] >= 0
    BY <1>2, <1>3, <2>1 DEF PlaceInv
  <2> QED
    BY <1>2, <2>6, <2>10, <2>11, <2>12 DEF PlaceInv
<1>13. CASE CopyBlock(t)
  <2>1. /\ pc[t] = "copy" /\ pc'[t] = "loop"
        /\ UNCHANGED <<output_bytes, tmp2, ntdest>>
        /\ dest' \subseteq dest \cup {Packed(job, tmp2[t], ntdest[t])}
    BY <1>1, <1>13 DEF CopyBlock, Goto, jobVars, localVars, Write
  <2>2. Reserved' \subseteq Reserved
    BY <1>2, <1>3, <2>1 DEF Reserved
  <2> QED
    BY <1>4, <2>1, <2>2
<1>14. ~(PlaceBlock(t) \/ RejectBlock(t) \/ DeltaGate(t) \/ DeltaWake(t) \/ DeltaDecode(t) \/ Add(t))
  BY <1>2 DEF PlaceBlock, RejectBlock, DeltaGate, DeltaWake, DeltaDecode, Add, InBlockOrder
<1> QED
  BY <1>6, <1>7, <1>8, <1>9, <1>10, <1>11, <1>12, <1>13, <1>14 DEF WorkerStep

-----------------------------------------------------------------------------
(* The reference of the delta filter *)

\* The first block and another one do not overlap in a decompressed buffer.
LEMMA FirstBlockApart ==
  ASSUME NEW j \in Jobs, NEW b \in Blocks(j), b # 0, NEW form
  PROVE  Disjoint(Plain(j, 0), Region(b, b * BlockSize, BlockLen(j, b), form))
<1>1. /\ BlockSize \in Nat /\ b \in Nat /\ b >= 1 /\ IsJob(j)
      /\ BlockLen(j, 0) \in Nat
  BY JobFacts, JobsAssumption, BlockSizeAssumption DEF Blocks, BlockLen, IsJob
<1>2. BlockLen(j, 0) <= BlockSize
  BY <1>1 DEF BlockLen, IsJob
<1>3. b * BlockSize >= BlockSize
  BY <1>1
<1> QED
  BY <1>1, <1>2, <1>3 DEF Disjoint, Plain, Region

\* A write leaves whole what it does not overlap.
LEMMA WriteKeeps ==
  ASSUME NEW buf, NEW r, NEW s \in buf, Disjoint(s, r)
  PROVE  s \in Write(buf, r)
  BY DEF Write, Disjoint

\* Once there, the first block stays while others are decoded.
LEMMA FirstBlockStays ==
  ASSUME NEW j \in Jobs, NEW b \in Blocks(j), NEW form, NEW buf,
         Plain(j, 0) \in buf, b = 0 => form = "raw"
  PROVE  Plain(j, 0) \in Write(buf, Region(b, b * BlockSize, BlockLen(j, b), form))
<1>1. CASE b = 0
  BY <1>1 DEF Write, Plain
<1>2. CASE b # 0
  <2>1. Disjoint(Plain(j, 0), Region(b, b * BlockSize, BlockLen(j, b), form))
    BY <1>2, FirstBlockApart
  <2> QED
    BY <2>1, WriteKeeps
<1> QED
  BY <1>1, <1>2

\* Nothing is in dest, and nobody waits.
LEMMA DeltaInit == Init => DeltaInv
  BY ParticipantFacts DEF Init, DeltaInv, ReferenceFirst, InPool

\* What the caller's thread writes itself is decoded in order, and the flag
\* is set before the pool begins.
LEMMA CallerDelta ==
  ASSUME ControlInv, Phases, StageInv, DeltaInv,
         MasterStep \/ StartRelease \/ \E j \in Jobs : StartJob(j)
  PROVE  DeltaInv'
<1> USE ParticipantFacts
<1>1. \A t \in Workers : pc'[t] \notin {"delta", "delta_wait"}
  BY CallerFrame DEF Body
<1>2. pc \in [Participants -> MasterPcs \cup WorkerPcs]
  BY DEF ControlInv, ControlTypeOK
<1> USE DEF DeltaInv, ReferenceFirst, InPool
<1>3. CASE \E j \in Jobs : StartJob(j)
  <2>1. dest' = {} /\ pc'[Master] \in {"memcpyed", "do_job"}
    BY <1>2, <1>3 DEF StartJob, Goto
  <2> QED
    BY <1>1, <2>1
<1>4. CASE DoJob
  <2>1. dref_not_init' /\ dest' = dest
    BY <1>4 DEF DoJob, bufferVars
  <2> QED
    BY <1>1, <2>1
<1>5. CASE SerialBlock
  <2>1. \A r \in dest' : r \in dest \/ r.form \in {"raw", "packed"}
    BY <1>5 DEF SerialBlock, Write, Plain, Stored, Packed, Region
  <2>2. pc'[Master] \in {"serial", "job_done"}
    BY <1>2, <1>5 DEF SerialBlock, Goto
  <2> QED
    BY <1>1, <2>1, <2>2
<1>6. CASE SetNthreads \/ CreateThread \/ SetSentinels
  <2>1. /\ pc[Master] \in InPool /\ ~end_threads
        /\ UNCHANGED <<job, dref_not_init, dest>>
    BY <1>6, NotEnding DEF SetNthreads, CreateThread, SetSentinels, InPool,
         contextVars, deltaVars, bufferVars
  <2> QED
    BY <1>1, <2>1
<1>7. CASE CopyDirectly
  <2>1. \A r \in dest' : r \in dest \/ r.form = "raw"
    BY <1>7 DEF CopyDirectly, Plain, Stored, Region
  <2>2. pc'[Master] = "idle"
    BY <1>2, <1>7 DEF CopyDirectly, ReturnWith, Goto
  <2> QED
    BY <1>1, <2>1, <2>2
<1>8. CASE TakeResult \/ JobDone \/ JobGaveUp \/ CopyWithJob
  <2>1. pc'[Master] \in {"job_done", "idle", "memcpyed", "do_job"} /\ dest' = dest
    BY <1>2, <1>8 DEF TakeResult, JobDone, JobGaveUp, CopyWithJob, ReturnWith, Goto, bufferVars
  <2> QED
    BY <1>1, <2>1
<1>9. CASE StartRelease
  BY <1>1, <1>9 DEF StartRelease, bufferVars
<1>10. CASE JoinThread
  <2>1. tid \in Workers /\ pc[Master] = "join"
    BY <1>10 DEF JoinThread, ControlInv, PoolStages, ControlTypeOK, Workers, Participants
  <2>2. pc'[Master] \in {"idle", "join"} /\ dest' = dest
    BY <1>2, <1>10, <2>1 DEF JoinThread, bufferVars
  <2> QED
    BY <1>1, <2>2
<1> QED
  BY <1>3, <1>4, <1>5, <1>6, <1>7, <1>8, <1>9, <1>10 DEF MasterStep

\* Meeting decodes nothing.
LEMMA MeetDelta ==
  ASSUME ControlInv, DeltaInv, NEW p \in Participants, Meet(p)
  PROVE  DeltaInv'
<1>1. UNCHANGED <<job, end_threads, dref_not_init, delta_asleep, dest>>
  BY MeetFrame DEF contextVars, deltaVars, bufferVars
<1>2. \A t \in Workers : pc'[t] \in {"delta", "delta_wait"} => pc'[t] = pc[t]
  BY MeetFrame DEF Body
<1>3. pc'[Master] \in InPool => pc[Master] \in InPool
  BY MeetFrame DEF InPool
<1> QED
  BY <1>1, <1>2, <1>3 DEF DeltaInv, ReferenceFirst

\* A worker decodes with a reference only behind the one who announced it.
LEMMA WorkerDelta ==
  ASSUME ControlInv, DataInv, Phases, StageInv, DeltaInv, NEW t \in Workers, WorkerStep(t)
  PROVE  DeltaInv'
<1> USE ParticipantFacts
<1>1. /\ UNCHANGED <<job, memcpyed, end_threads>> /\ pc'[Master] = pc[Master]
      /\ \A u \in Workers \ {t} : pc'[u] = pc[u]
      /\ job \in Jobs
      /\ pc \in [Participants -> MasterPcs \cup WorkerPcs]
  BY WorkerFrame DEF contextVars, DataInv, DataTypeOK, ControlInv, ControlTypeOK
<1>2. pc[t] \in OnBlock => nblock_[t] \in Blocks(job)
  BY DEF DataInv, DataTypeOK
<1> USE DEF DeltaInv, ReferenceFirst
<1>3. ASSUME \A r \in dest' : r.form # "garbage",
             ~job.compress /\ Plain(job, 0) \in dest => Plain(job, 0) \in dest',
             UNCHANGED deltaVars, pc'[t] \notin {"delta", "delta_wait"}
      PROVE  DeltaInv'
  BY <1>1, <1>3 DEF deltaVars
<1>4. CASE Begin(t) \/ Loop(t) \/ CompressBlock(t) \/ RejectBlock(t) \/ Check(t) \/ Fail(t)
             \/ Commit(t) \/ Sum(t) \/ Add(t)
  <2>1. UNCHANGED <<deltaVars, dest>>
    BY <1>4 DEF Begin, Loop, CompressBlock, RejectBlock, Check, Fail, Commit, Sum, Add, bufferVars
  <2>2. pc'[t] \notin {"delta", "delta_wait"}
    BY <1>1, <1>4 DEF Begin, Loop, CompressBlock, RejectBlock, Check, Fail, Commit, Sum, Add, Goto
  <2> QED
    BY <1>3, <2>1, <2>2
<1>5. CASE PlaceBlock(t)
  <2>1. nblock_[t] \in Blocks(job)
    BY <1>2, <1>5 DEF PlaceBlock, OnBlock
  <2>2. ~job.compress => dest' = Write(dest, Plain(job, nblock_[t]))
    BY <1>5 DEF PlaceBlock
  <2>3. ~job.compress /\ Plain(job, 0) \in dest => Plain(job, 0) \in dest'
    BY <1>1, <2>1, <2>2, FirstBlockStays DEF Plain
  <2>4. \A r \in dest' : r \in dest \/ r.form = "raw"
    BY <1>5 DEF PlaceBlock, Write, Stored, Plain, Region
  <2>5. pc'[t] = "check" /\ UNCHANGED deltaVars
    BY <1>1, <1>5 DEF PlaceBlock, Goto
  <2> QED
    BY <1>3, <2>3, <2>4, <2>5
<1>6. CASE CopyBlock(t)
  <2>1. \A r \in dest' : r \in dest \/ r.form = "packed"
    BY <1>6 DEF CopyBlock, Write, Packed, Region
  <2>2. pc'[t] = "loop" /\ UNCHANGED deltaVars
    BY <1>1, <1>6 DEF CopyBlock, Goto
  <2>3. job.compress
    BY <1>6 DEF CopyBlock, StageInv, InBlockOrder
  <2> QED
    BY <1>3, <2>1, <2>2, <2>3
<1>7. CASE DeltaGate(t)
  <2>1. /\ pc[t] = "block" /\ ~job.compress /\ ~memcpyed /\ nblock_[t] \in Blocks(job)
    BY <1>2, <1>7 DEF DeltaGate, OnBlock
  <2>2. CASE dref_not_init /\ nblock_[t] # 0
    <3>1. /\ delta_asleep' = delta_asleep \cup {t} /\ pc'[t] = "delta_wait"
          /\ UNCHANGED <<dref_not_init, dest>>
      BY <1>1, <1>7, <2>2 DEF DeltaGate, MustWait, Goto
    <3> QED
      BY <1>1, <3>1
  <2>3. CASE dref_not_init /\ nblock_[t] = 0
    <3>1. /\ dest' = Write(dest, Plain(job, 0)) /\ dref_not_init' = FALSE
          /\ delta_asleep' = {} /\ pc'[t] = "check"
      BY <1>1, <1>7, <2>3 DEF DeltaGate, MustWait, Goto
    <3>2. Plain(job, 0) \in dest'
      BY <3>1 DEF Write
    <3>3. \A r \in dest' : r \in dest \/ r.form = "raw"
      BY <3>1 DEF Write, Plain, Region
    <3> QED
      BY <1>1, <3>1, <3>2, <3>3
  <2>4. CASE ~dref_not_init
    <3>1. UNCHANGED <<deltaVars, dest>>
      BY <1>7, <2>4 DEF DeltaGate, MustWait
    <3>2. pc'[t] # "delta_wait"
      BY <1>1, <1>7, <2>4 DEF DeltaGate, MustWait, Goto
    <3> QED
      BY <1>1, <2>4, <3>1, <3>2 DEF deltaVars
  <2> QED
    BY <2>2, <2>3, <2>4
<1>8. CASE DeltaWake(t)
  <2>1. UNCHANGED <<deltaVars, dest>> /\ ~dref_not_init
    BY <1>8 DEF DeltaWake, bufferVars
  <2> QED
    BY <1>1, <2>1 DEF deltaVars
<1>9. CASE DeltaDecode(t)
  <2>1. pc[t] = "delta" /\ ~dref_not_init /\ ~job.compress
    BY <1>9 DEF DeltaDecode, StageInv
  <2>2. pc[Master] \in InPool /\ ~end_threads
    BY <2>1, WorkingCaller DEF Body, InPool
  <2>3. Plain(job, 0) \in dest
    BY <2>1, <2>2
  <2>4. nblock_[t] \in Blocks(job)
    BY <1>2, <2>1 DEF OnBlock
  <2>5. dest' = Write(dest, Region(nblock_[t], nblock_[t] * BlockSize,
                                   BlockLen(job, nblock_[t]), "raw"))
    BY <1>9, <2>3 DEF DeltaDecode
  <2>6. Plain(job, 0) \in dest'
    BY <1>1, <2>3, <2>4, <2>5, FirstBlockStays
  <2>7. \A r \in dest' : r \in dest \/ r.form = "raw"
    BY <2>5 DEF Write, Region
  <2>8. pc'[t] = "check" /\ UNCHANGED deltaVars
    BY <1>1, <1>9 DEF DeltaDecode, Goto
  <2> QED
    BY <1>3, <2>6, <2>7, <2>8
<1> QED
  BY <1>4, <1>5, <1>6, <1>7, <1>8, <1>9 DEF WorkerStep

-----------------------------------------------------------------------------
(* The theorems *)

PlacesInv == StageInv /\ ClaimInv /\ PlaceInv /\ DeltaInv

\* Stages, claims, places and the reference hold together in every state.
LEMMA PlacesCorrect == Spec => []PlacesInv
<1>1. Init => PlacesInv
  BY StageInit, ClaimInit, PlaceInit, DeltaInit DEF PlacesInv
<1>2. ControlInv /\ BarrierPhases /\ DataInv /\ PlacesInv /\ [Next]_vars => PlacesInv'
  <2> SUFFICES ASSUME ControlInv, BarrierPhases, DataInv, PlacesInv, [Next]_vars
               PROVE  PlacesInv'
    OBVIOUS
  <2>1. CASE UNCHANGED vars
    BY <2>1 DEF vars, contextVars, deltaVars, jobVars, bufferVars, localVars, PlacesInv,
                StageInv, ClaimInv, Claimed, PlaceInv, Reserved, DeltaInv, ReferenceFirst,
                InOrder, InBlockOrder, RunsSerially
  <2>2. CASE MasterStep \/ StartRelease \/ \E j \in Jobs : StartJob(j)
    BY <2>2, CallerStage, CallerClaims, CallerPlaces, CallerDelta DEF PlacesInv, BarrierPhases
  <2>3. ASSUME NEW p \in Participants, Meet(p) PROVE PlacesInv'
    BY <2>3, MeetStage, MeetClaims, MeetPlaces, MeetDelta DEF PlacesInv
  <2>4. ASSUME NEW t \in Workers, WorkerStep(t) PROVE PlacesInv'
    BY <2>4, WorkerStage, WorkerClaims, WorkerPlaces, WorkerDelta DEF PlacesInv, BarrierPhases
  <2> QED
    BY <2>1, <2>2, <2>3, <2>4 DEF Next
<1> QED
  BY <1>1, <1>2, ControlCorrect, BarrierCorrect, DataCorrect, PTL DEF Spec

\* For every number of threads: no two workers hold the same block, and none
\* holds one that is in dest or on its way there (blosc.c:2009-2021).
THEOREM ClaimsAreUnique == Spec => []BlocksClaimedOnce
<1>1. PlacesInv => BlocksClaimedOnce
  <2> SUFFICES ASSUME ClaimInv, InOrder, NEW t \in Workers, Holding(t)
               PROVE  /\ \A u \in Workers \ {t} : Holding(u) => nblock_[u] # nblock_[t]
                      /\ \A r \in dest : r.block # nblock_[t]
                      /\ \A u \in Workers : pc[u] = "copy" => tmp2[u] # nblock_[t]
    BY DEF PlacesInv, BlocksClaimedOnce, InOrder
  <2>1. \A u \in Workers : Holding(u) => Claimed(u)
    BY DEF Holding, Claimed
  <2> QED
    BY <2>1 DEF ClaimInv
<1> QED
  BY <1>1, PlacesCorrect, PTL

\* For every number of threads, all sizes and orders: the blocks of a chunk
\* have places apart from each other, behind the header and inside of dest,
\* which t_blosc claims with the mutex and fills without (blosc.c:2009-2024).
THEOREM PlacesAreApart == Spec => []PlacesApart
<1>1. ControlInv /\ BarrierPhases /\ PlacesInv => PlacesApart
  <2> SUFFICES ASSUME ControlInv, Phases, StageInv, PlaceInv, InBlockOrder,
                      NEW t \in Workers, pc[t] \in Body
               PROVE  /\ \A r, s \in Reserved : r # s => Disjoint(r, s)
                      /\ \A r \in Reserved : /\ r.at >= FirstOutput(job)
                                             /\ r.at + r.len <= output_bytes
                                             /\ r.at + r.len <= job.destsize
    BY DEF PlacesInv, BarrierPhases, PlacesApart
  <2>1. InOrder
    BY WorkingCaller DEF StageInv, InPool, InOrder
  <2> QED
    BY <2>1 DEF PlaceInv
<1> QED
  BY <1>1, PlacesCorrect, ControlCorrect, BarrierCorrect, PTL

\* For every number of threads: no block is decoded with the delta filter
\* before the first one is there (pipeline_d, blosc.c:753-824).
THEOREM ReferenceIsFirst == Spec => []ReferenceFirst
<1>1. PlacesInv => ReferenceFirst
  BY DEF PlacesInv, DeltaInv
<1> QED
  BY <1>1, PlacesCorrect, PTL
-----------------------------------------------------------------------------
(* Sums *)

\* What holds at 0 and goes on holding, holds up to n.
LEMMA UpTo ==
  ASSUME NEW n \in Nat, NEW S, 0 \in S, \A i \in 0 .. n - 1 : i \in S => i + 1 \in S
  PROVE  n \in S
<1> DEFINE bad == {i \in 0 .. n : i \notin S}
           R == {p \in Nat \X Nat : p[1] < p[2]}
<1>1. SUFFICES ASSUME n \notin S PROVE FALSE
  OBVIOUS
<1>2. bad \subseteq Nat /\ n \in bad
  BY <1>1
<1>3. IsWellFoundedOn(R, Nat)
  BY NatLessThanWellFounded DEF OpToRel
<1> HIDE DEF bad
<1>4. \E m \in bad : \A i \in bad : ~(<<i, m>> \in R)
  <2> HIDE DEF R
  <2> QED
    BY <1>2, <1>3, WFMin
<1>5. PICK m \in bad : \A i \in bad : ~(i < m)
  BY <1>2, <1>4
<1>6. m # 0 /\ m \in 0 .. n /\ m \notin S
  BY DEF bad
<1>7. m - 1 \in 0 .. n - 1 /\ m - 1 + 1 = m /\ m - 1 \in 0 .. n /\ m - 1 < m
  BY <1>6
<1>8. m - 1 \in S
  <2>1. m - 1 \notin bad
    BY <1>5, <1>7
  <2> QED
    BY <1>7, <2>1 DEF bad
<1> QED
  BY <1>6, <1>7, <1>8

\* The equation of the function in SumOver
IsSum(s, f, S, n) ==
  s = [k \in 0 .. n |-> IF k = 0 THEN 0 ELSE s[k - 1] + (IF k - 1 \in S THEN f[k - 1] ELSE 0)]

LEMMA SumExists ==
  ASSUME NEW f, NEW S, NEW n \in Nat
  PROVE  \E s : IsSum(s, f, S, n)
<1> DEFINE T == {m \in 0 .. n : \E s : IsSum(s, f, S, m)}
           Next1(s, k) == s[k - 1] + (IF k - 1 \in S THEN f[k - 1] ELSE 0)
<1>1. 0 \in T
  <2>1. IsSum([k \in 0 .. 0 |-> 0], f, S, 0)
    BY DEF IsSum
  <2> QED
    BY <2>1
<1>2. ASSUME NEW m \in 0 .. n - 1, m \in T PROVE m + 1 \in T
  <2>1. PICK s : IsSum(s, f, S, m)
    BY <1>2
  <2> DEFINE h == [k \in 0 .. m + 1 |-> IF k = m + 1 THEN Next1(s, m + 1) ELSE s[k]]
  <2>2. m \in Nat /\ m + 1 \in 0 .. n
    OBVIOUS
  <2>3. ASSUME NEW k \in 0 .. m + 1 PROVE h[k] = IF k = 0 THEN 0 ELSE Next1(h, k)
    <3>1. CASE k = 0
      BY <2>1, <2>2, <3>1 DEF IsSum
    <3>2. CASE k = m + 1
      <4>1. h[m] = s[m] /\ h[m + 1] = Next1(s, m + 1) /\ m + 1 - 1 = m /\ k # 0
        BY <2>2, <3>2
      <4> QED
        BY <3>2, <4>1
    <3>3. CASE k \in 1 .. m
      <4>1. k - 1 \in 0 .. m + 1 /\ k - 1 # m + 1 /\ k # m + 1 /\ k # 0 /\ k \in 0 .. m
        BY <2>2, <3>3
      <4>2. h[k] = s[k] /\ h[k - 1] = s[k - 1]
        BY <4>1
      <4>3. s[k] = Next1(s, k)
        BY <2>1, <4>1 DEF IsSum
      <4> QED
        BY <4>1, <4>2, <4>3
    <3> QED
      BY <2>2, <3>1, <3>2, <3>3
  <2>4. IsSum(h, f, S, m + 1)
    <3>1. h = [k \in 0 .. m + 1 |-> h[k]]
      OBVIOUS
    <3> HIDE DEF h
    <3> QED
      BY <2>3, <3>1 DEF IsSum
  <2> HIDE DEF h
  <2> QED
    BY <2>2, <2>4
<1> HIDE DEF T
<1>3. n \in T
  BY <1>1, <1>2, UpTo
<1> QED
  BY <1>3 DEF T

\* SumOver adds up step by step.
SumsUp(s, f, S, n) ==
  /\ s \in [0 .. n -> Int]
  /\ SumOver(f, S, n) = s[n] /\ s[0] = 0
  /\ \A k \in 0 .. n - 1 : s[k + 1] = s[k] + (IF k \in S THEN f[k] ELSE 0)

LEMMA SumSteps ==
  ASSUME NEW f, NEW S, NEW n \in Nat, \A k \in 0 .. n - 1 : k \in S => f[k] \in Int
  PROVE  \E s : SumsUp(s, f, S, n)
<1> DEFINE s == CHOOSE g : IsSum(g, f, S, n)
<1>1. IsSum(s, f, S, n)
  BY SumExists
<1>2. SumOver(f, S, n) = s[n]
  BY DEF SumOver, IsSum
<1> HIDE DEF s
<1>3. /\ DOMAIN s = 0 .. n /\ s = [k \in 0 .. n |-> s[k]] /\ s[0] = 0
  BY <1>1 DEF IsSum
<1>4. ASSUME NEW k \in 0 .. n - 1 PROVE s[k + 1] = s[k] + (IF k \in S THEN f[k] ELSE 0)
  <2>1. k + 1 \in 0 .. n /\ k + 1 # 0 /\ k + 1 - 1 = k
    OBVIOUS
  <2> QED
    BY <1>1, <2>1 DEF IsSum
<1> DEFINE T == {k \in 0 .. n : s[k] \in Int}
<1>5. \A m \in 0 .. n : s[m] \in Int
  <2> TAKE m \in 0 .. n
  <2>1. 0 \in T
    BY <1>3
  <2>2. ASSUME NEW i \in 0 .. m - 1, i \in T PROVE i + 1 \in T
    <3>1. i \in 0 .. n - 1 /\ i + 1 \in 0 .. n /\ s[i] \in Int
      BY <2>2
    <3>2. s[i + 1] = s[i] + (IF i \in S THEN f[i] ELSE 0)
      BY <1>4, <3>1
    <3> QED
      BY <3>1, <3>2
  <2> HIDE DEF T
  <2>3. m \in T
    BY <2>1, <2>2, UpTo
  <2> QED
    BY <2>3 DEF T
<1>6. s \in [0 .. n -> Int]
  BY <1>3, <1>5
<1> QED
  BY <1>2, <1>3, <1>4, <1>6 DEF SumsUp

\* From step to step, whatever relates two sums goes on up to the last one.
LEMMA SumNone ==
  ASSUME NEW f, NEW n \in Nat
  PROVE  SumOver(f, {}, n) = 0
<1>1a. PICK s : SumsUp(s, f, {}, n)
  BY SumSteps
<1>1. /\ s \in [0 .. n -> Int] /\ SumOver(f, {}, n) = s[n] /\ s[0] = 0
      /\ \A k \in 0 .. n - 1 : s[k + 1] = s[k] + (IF k \in {} THEN f[k] ELSE 0)
  BY <1>1a DEF SumsUp
<1> DEFINE T == {k \in 0 .. n : s[k] = 0}
<1>2. 0 \in T
  BY <1>1
<1>3. ASSUME NEW i \in 0 .. n - 1, i \in T PROVE i + 1 \in T
  BY <1>1, <1>3
<1> HIDE DEF T
<1>4. n \in T
  BY <1>2, <1>3, UpTo
<1> QED
  BY <1>1, <1>4 DEF T

\* One member more
LEMMA SumAdd ==
  ASSUME NEW f, NEW S, NEW n \in Nat, NEW b \in 0 .. n - 1, b \notin S, f[b] \in Int,
         \A k \in 0 .. n - 1 : k \in S => f[k] \in Int
  PROVE  SumOver(f, S \cup {b}, n) = SumOver(f, S, n) + f[b]
<1>1a. PICK s : SumsUp(s, f, S, n)
  BY SumSteps
<1>1. /\ s \in [0 .. n -> Int] /\ SumOver(f, S, n) = s[n] /\ s[0] = 0
      /\ \A k \in 0 .. n - 1 : s[k + 1] = s[k] + (IF k \in S THEN f[k] ELSE 0)
  BY <1>1a DEF SumsUp
<1> DEFINE U == S \cup {b}
<1>2. \A k \in 0 .. n - 1 : k \in U => f[k] \in Int
  OBVIOUS
<1>3. \A k : k \in U <=> k \in S \/ k = b
  OBVIOUS
<1> HIDE DEF U
<1>4a. PICK u : SumsUp(u, f, U, n)
  BY <1>2, SumSteps
<1>4. /\ u \in [0 .. n -> Int] /\ SumOver(f, U, n) = u[n] /\ u[0] = 0
      /\ \A k \in 0 .. n - 1 : u[k + 1] = u[k] + (IF k \in U THEN f[k] ELSE 0)
  BY <1>4a DEF SumsUp
<1> DEFINE T == {k \in 0 .. n : u[k] = s[k] + (IF k > b THEN f[b] ELSE 0)}
<1>5. 0 \in T
  BY <1>1, <1>4
<1>6. ASSUME NEW i \in 0 .. n - 1, i \in T PROVE i + 1 \in T
  <2>1. /\ i + 1 \in 0 .. n /\ i \in 0 .. n /\ s[i] \in Int /\ u[i] \in Int
        /\ u[i] = s[i] + (IF i > b THEN f[b] ELSE 0)
    BY <1>1, <1>4, <1>6
  <2>2. /\ s[i + 1] = s[i] + (IF i \in S THEN f[i] ELSE 0)
        /\ u[i + 1] = u[i] + (IF i \in U THEN f[i] ELSE 0)
    BY <1>1, <1>4
  <2>3. CASE i < b
    <3>1. u[i] = s[i] /\ (i \in U <=> i \in S) /\ ~(i + 1 > b)
      BY <1>3, <2>1, <2>3
    <3>2. u[i + 1] = s[i + 1]
      BY <2>2, <3>1
    <3>3. s[i + 1] \in Int
      BY <1>1, <2>1
    <3> QED
      BY <2>1, <3>1, <3>2, <3>3
  <2>4. CASE i = b
    <3>1. u[i] = s[i] /\ i \in U /\ i \notin S /\ i + 1 > b
      BY <1>3, <2>1, <2>4
    <3>2. u[i + 1] = s[i] + f[b] /\ s[i + 1] = s[i] + 0
      BY <2>2, <2>4, <3>1
    <3> QED
      BY <2>1, <3>1, <3>2
  <2>5. CASE i > b
    <3>1. u[i] = s[i] + f[b] /\ (i \in U <=> i \in S) /\ i + 1 > b
      BY <1>3, <2>1, <2>5
    <3>2. PICK x \in Int : x = IF i \in S THEN f[i] ELSE 0
      OBVIOUS
    <3>3. u[i + 1] = s[i] + f[b] + x /\ s[i + 1] = s[i] + x
      BY <2>2, <3>1, <3>2
    <3>4. u[i + 1] = s[i + 1] + f[b]
      BY <2>1, <3>2, <3>3
    <3> QED
      BY <2>1, <3>1, <3>4
  <2>6. i < b \/ i = b \/ i > b
    OBVIOUS
  <2> QED
    BY <2>3, <2>4, <2>5, <2>6
<1> HIDE DEF T
<1>7. n \in T
  BY <1>5, <1>6, UpTo
<1>8. u[n] = s[n] + f[b]
  BY <1>7 DEF T
<1> QED
  BY <1>1, <1>4, <1>8 DEF U

\* More members, none of them negative
LEMMA SumGrows ==
  ASSUME NEW f, NEW S, NEW U, NEW n \in Nat, S \subseteq U,
         \A k \in 0 .. n - 1 : k \in U => f[k] \in Int /\ f[k] >= 0
  PROVE  SumOver(f, S, n) <= SumOver(f, U, n) /\ SumOver(f, S, n) >= 0
<1>1a. PICK s : SumsUp(s, f, S, n)
  BY SumSteps
<1>1. /\ s \in [0 .. n -> Int] /\ SumOver(f, S, n) = s[n] /\ s[0] = 0
      /\ \A k \in 0 .. n - 1 : s[k + 1] = s[k] + (IF k \in S THEN f[k] ELSE 0)
  BY <1>1a DEF SumsUp
<1>2a. PICK u : SumsUp(u, f, U, n)
  BY SumSteps
<1>2. /\ u \in [0 .. n -> Int] /\ SumOver(f, U, n) = u[n] /\ u[0] = 0
      /\ \A k \in 0 .. n - 1 : u[k + 1] = u[k] + (IF k \in U THEN f[k] ELSE 0)
  BY <1>2a DEF SumsUp
<1> DEFINE T == {k \in 0 .. n : s[k] <= u[k] /\ s[k] >= 0}
<1>3. 0 \in T
  BY <1>1, <1>2
<1>4. ASSUME NEW i \in 0 .. n - 1, i \in T PROVE i + 1 \in T
  <2>1. /\ i + 1 \in 0 .. n /\ i \in 0 .. n /\ s[i] \in Int /\ u[i] \in Int
        /\ s[i] <= u[i] /\ s[i] >= 0
    BY <1>1, <1>2, <1>4
  <2>2. PICK x \in Int : x = IF i \in S THEN f[i] ELSE 0
    OBVIOUS
  <2>3. PICK y \in Int : y = IF i \in U THEN f[i] ELSE 0
    OBVIOUS
  <2>4. x >= 0 /\ x <= y
    BY <2>2, <2>3
  <2>5. s[i + 1] = s[i] + x /\ u[i + 1] = u[i] + y
    BY <1>1, <1>2, <2>2, <2>3
  <2> QED
    BY <2>1, <2>4, <2>5
<1> HIDE DEF T
<1>5. n \in T
  BY <1>3, <1>4, UpTo
<1> QED
  BY <1>1, <1>2, <1>5 DEF T

\* Differences of what follows each other
LEMMA SumTelescopes ==
  ASSUME NEW f, NEW g, NEW S, NEW n \in Nat, \A k \in 0 .. n : g[k] \in Int,
         \A k \in 0 .. n - 1 : k \in S /\ f[k] = g[k + 1] - g[k]
  PROVE  SumOver(f, S, n) = g[n] - g[0]
<1>1. \A k \in 0 .. n - 1 : k + 1 \in 0 .. n /\ k \in 0 .. n /\ f[k] \in Int
  OBVIOUS
<1>2a. PICK s : SumsUp(s, f, S, n)
  BY <1>1, SumSteps
<1>2. /\ s \in [0 .. n -> Int] /\ SumOver(f, S, n) = s[n] /\ s[0] = 0
      /\ \A k \in 0 .. n - 1 : s[k + 1] = s[k] + (IF k \in S THEN f[k] ELSE 0)
  BY <1>2a DEF SumsUp
<1> DEFINE T == {k \in 0 .. n : s[k] = g[k] - g[0]}
<1>3. 0 \in T
  BY <1>2
<1>4. ASSUME NEW i \in 0 .. n - 1, i \in T PROVE i + 1 \in T
  <2>1. /\ i + 1 \in 0 .. n /\ i \in 0 .. n /\ s[i] \in Int
        /\ s[i] = g[i] - g[0] /\ g[i] \in Int /\ g[i + 1] \in Int /\ g[0] \in Int
    BY <1>4
  <2>2. s[i + 1] = s[i] + f[i] /\ f[i] = g[i + 1] - g[i]
    BY <1>2
  <2> QED
    BY <2>1, <2>2
<1> HIDE DEF T
<1>5. n \in T
  BY <1>3, <1>4, UpTo
<1> QED
  BY <1>2, <1>5 DEF T

-----------------------------------------------------------------------------
(* Where a job is *)

\* A call is being served.
Called == pc[Master] # "idle" /\ ~end_threads

\* The caller's thread is on its way to the workers, ...
Awaited == /\ ~end_threads
           /\ \/ pc[Master] \in {"do_job", "set_nthreads", "create", "sentinels", "init"}
              \/ pc[Master] = "init_wait" /\ Master \in asleep

\* ... or has met them, and has not taken their result yet.
Started == /\ ~end_threads
           /\ \/ pc[Master] \in {"finish", "finish_wait", "result"}
              \/ pc[Master] = "init_wait" /\ Master \notin asleep

\* A worker has still to begin, or has done what it can in this job.
NotYet(t) == pc[t] = "begin" \/ (pc[t] = "init_wait" /\ t \notin asleep)
Finished(t) == ~NotYet(t) /\ pc[t] \notin Body

\* What the workers start from
StartOutput == IF ~job.compress THEN 0 ELSE IF memcpyed THEN MAX_OVERHEAD ELSE FirstOutput(job)

FlagInv ==
  Called =>
    /\ memcpyed => job.memcpyed \/ (job.compress /\ Caller!Tight(job))
    /\ ~memcpyed => ~job.memcpyed
    /\ memcpyed /\ pc[Master] # "memcpyed" =>
         job.compress /\ SourceSize(job) + MAX_OVERHEAD <= job.destsize

ReadyInv ==
  Awaited =>
    /\ output_bytes = StartOutput
    /\ InBlockOrder => dest = {}
    /\ pc[Master] \in {"init", "init_wait"} => thread_giveup_code = 1 /\ thread_nblock = -1

\* Why somebody gave up
GiveUpInv ==
  Started /\ thread_giveup_code <= 0 =>
    IF job.compress
    THEN /\ InBlockOrder
         /\ thread_giveup_code < 0 => Caller!Failed(job)
         /\ thread_giveup_code = 0 => Caller!Tight(job)
    ELSE job.bad # {} /\ thread_giveup_code < 0

(* Compression: the blocks that have a place *)
Taken == {r.block : r \in Reserved}

PackInv ==
  Started /\ InOrder =>
    /\ \A t \in Workers : pc[t] \in Body => tblock[t] = NBlocks(job)
    /\ \A t \in Workers : pc[t] = "fail" => cbytes[t] = job.csize[nblock_[t]] /\ cbytes[t] < 0
    /\ \A r \in Reserved : /\ r.block \in Blocks(job) /\ job.csize[r.block] > 0
                           /\ r = Packed(job, r.block, bstarts[r.block])
    /\ output_bytes = Caller!SizeWith(job, Taken)
    /\ Taken # {} => output_bytes <= job.destsize
    /\ thread_giveup_code > 0 =>
         /\ \A b \in Blocks(job) : b <= thread_nblock =>
              b \in Taken \/ \E t \in Workers : Claimed(t) /\ nblock_[t] = b
         /\ \A t \in Workers : pc[t] = "sum" \/ Finished(t) => thread_nblock >= NBlocks(job)

(* Blocks in ranges: where they start and end, and what they become *)
Final(b) == IF job.compress THEN Stored(job, b) ELSE Plain(job, b)
Offset(b) == IF b >= NBlocks(job) THEN SourceSize(job) ELSE b * BlockSize
From(t) == t * TBlocks
To(t) == IF (t + 1) * TBlocks > NBlocks(job) THEN NBlocks(job) ELSE (t + 1) * TBlocks
Part == [t \in Workers |-> Offset(To(t)) - Offset(From(t))]

\* Block b is in its place, and is none that could not be read.
Delivered(b) == Final(b) \in dest /\ (~job.compress => b \notin job.bad)

\* A worker between the ends of its range
OnRange(t) ==
  /\ tblock[t] = To(t) /\ nblock_[t] >= From(t)
  /\ nblock_[t] <= To(t) \/ nblock_[t] = From(t)
  /\ pc[t] \in OnBlock => nblock_[t] < To(t)
  /\ ntbytes[t] = Offset(nblock_[t]) - Offset(From(t))
  /\ \A b \in Blocks(job) : From(t) <= b /\ b < nblock_[t] => Delivered(b)
  /\ pc[t] \in {"delta_wait", "delta"} =>
       cbytes[t] = BlockLen(job, nblock_[t]) /\ nblock_[t] \notin job.bad
  /\ pc[t] \in {"check", "fail"} =>
       \/ cbytes[t] = BlockLen(job, nblock_[t]) /\ Delivered(nblock_[t])
       \/ cbytes[t] < 0 /\ ~job.compress /\ job.bad # {}
  /\ pc[t] = "fail" => cbytes[t] < 0
  /\ pc[t] \in {"sum", "add"} /\ thread_giveup_code > 0 => nblock_[t] >= To(t)

RangeInv ==
  Started /\ ~InBlockOrder =>
    /\ \A t \in Workers : pc[t] \in Body => OnRange(t)
    /\ thread_giveup_code > 0 =>
         /\ \A t \in Workers : Finished(t) =>
              \A b \in Blocks(job) : From(t) <= b /\ b < To(t) => Delivered(b)
         /\ output_bytes = StartOutput + SumOver(Part, {t \in Workers : Finished(t)}, NThreads)

(* In the thread of the caller *)
SerialInv ==
  pc[Master] = "serial" =>
    LET b == nblock_[Master]
        at == ntbytes[Master]
    IN /\ b < NBlocks(job)
       /\ InBlockOrder =>
            /\ at = Caller!SizeWith(job, 0 .. b - 1)
            /\ b > 0 => at <= job.destsize
            /\ \A r \in dest : r.at \in Int /\ r.len \in Int /\ r.at + r.len <= at
            /\ \A i \in 0 .. b - 1 :
                 /\ job.csize[i] > 0 /\ Packed(job, i, bstarts[i]) \in dest
                 /\ bstarts[i] >= FirstOutput(job)
       /\ ~InBlockOrder =>
            /\ at = StartOutput + Offset(b)
            /\ \A i \in 0 .. b - 1 : Delivered(i)

\* What a job comes to
ResultInv ==
  pc[Master] = "job_done" =>
    LET n == ntbytes[Master]
    IN IF InBlockOrder
       THEN /\ n < 0 => Caller!Failed(job)
            /\ n = 0 => Caller!Tight(job)
            /\ n > 0 => /\ ~Caller!Failed(job) /\ ~Caller!Tight(job)
                        /\ n = Caller!PackedSize(job)
                        /\ Readable(job, memcpyed, bstarts, dest, n) = Blocks(job)
       ELSE \/ /\ n = StartOutput + SourceSize(job)
               /\ \A b \in Blocks(job) : Delivered(b)
            \/ ~job.compress /\ job.bad # {} /\ n < 0

CallInv == FlagInv /\ ReadyInv /\ GiveUpInv /\ PackInv /\ RangeInv /\ SerialInv /\ ResultInv
-----------------------------------------------------------------------------
(* From place to place *)

\* Meeting leads from Awaited to Started when the last participant arrives,
\* and then nobody has begun; it changes nobody's part of the job.
LEMMA MeetStarts ==
  ASSUME ControlInv, Phases, NEW p \in Participants, Meet(p)
  PROVE  /\ Called' = Called
         /\ Awaited' => Awaited
         /\ pc'[Master] \in {"init", "init_wait"} => pc[Master] \in {"init", "init_wait"}
         /\ Started' => \/ Started /\ \A t \in Workers : Finished(t)' = Finished(t)
                        \/ /\ Awaited /\ pc[Master] \in {"init", "init_wait"}
                           /\ \A t \in Workers : NotYet(t)'
<1> USE ParticipantFacts, NThreadsAssumption
<1>1. end_threads' = end_threads /\ end_threads \in BOOLEAN
  BY MeetFrame DEF contextVars, ControlInv, ControlTypeOK
<1>2. pc \in [Participants -> MasterPcs \cup WorkerPcs]
  BY DEF ControlInv, ControlTypeOK
<1>3. Called' = Called
  BY <1>1, MeetFrame DEF Called
<1>4. CASE WaitInit(p) /\ InitMissing
  <2>1. /\ asleep' = asleep \cup {p} /\ pc[p] = "init" /\ pc'[p] = "init_wait"
        /\ \A q \in Participants \ {p} : pc'[q] = pc[q]
    BY <1>2, <1>4 DEF WaitInit, Goto
  <2>2. \A t \in Workers : Finished(t)' = Finished(t)
    BY <2>1 DEF Finished, NotYet, Body
  <2>3. Started' => Started
    BY <1>1, <2>1 DEF Started
  <2>4. Awaited' => Awaited
    BY <1>1, <2>1 DEF Awaited
  <2> QED
    BY <1>3, <2>1, <2>2, <2>3, <2>4
<1>5. CASE WaitInit(p) /\ ~InitMissing
  <2>1. /\ asleep' = {} /\ count_threads = NThreads /\ pc[p] = "init" /\ pc'[p] = AfterInit(p)
        /\ \A q \in Participants \ {p} : pc'[q] = pc[q]
    BY <1>2, <1>5 DEF WaitInit, InitMissing, Goto, ControlInv, ControlTypeOK
  <2>2. Gathering
    BY <2>1 DEF Phases, Gathering, Working, Leaving, NoPool, MasterOutside, Body
  <2>3. SleepIn("init_wait") \in SUBSET (Participants \ {p})
    BY <2>1 DEF SleepIn, ControlInv, ControlTypeOK
  <2>4. SleepIn("init_wait") = Participants \ {p}
    BY <2>1, <2>2, <2>3, AllOthers DEF Gathering
  <2>5. \A q \in Participants \ {p} : q \in asleep /\ pc[q] = "init_wait"
    BY <2>4 DEF SleepIn
  <2>6. pc[Master] \in {"init", "init_wait"}
    BY <2>1, <2>5
  <2>7. Awaited \/ end_threads
    BY <2>1, <2>5 DEF Awaited
  <2>8. ~end_threads => ~Awaited'
    BY <1>1, <2>1, <2>5 DEF Awaited, AfterInit
  <2>9. \A t \in Workers : NotYet(t)'
    BY <2>1, <2>5 DEF NotYet, AfterInit
  <2> QED
    BY <1>1, <1>3, <2>6, <2>7, <2>8, <2>9 DEF Started, Awaited
<1>6. CASE WakeInit(p)
  <2>1. /\ pc[p] = "init_wait" /\ p \notin asleep /\ pc'[p] = AfterInit(p) /\ asleep' = asleep
        /\ \A q \in Participants \ {p} : pc'[q] = pc[q]
    BY <1>2, <1>6 DEF WakeInit, Goto, barrierVars
  <2>2. \A t \in Workers : Finished(t)' = Finished(t)
    BY <2>1 DEF Finished, NotYet, Body, AfterInit
  <2>3. Started' => Started
    BY <1>1, <2>1 DEF Started, AfterInit
  <2>4. Awaited' => Awaited
    BY <1>1, <2>1 DEF Awaited, AfterInit
  <2>5. pc'[Master] \in {"init", "init_wait"} => pc[Master] \in {"init", "init_wait"}
    BY <2>1 DEF AfterInit
  <2> QED
    BY <1>3, <2>2, <2>3, <2>4, <2>5
<1>7. CASE WaitFinish(p) \/ WakeFinish(p)
  <2>1. /\ pc[p] \in {"finish", "finish_wait"} /\ pc'[p] \in {"finish_wait", AfterFinish(p)}
        /\ \A q \in Participants \ {p} : pc'[q] = pc[q]
    BY <1>2, <1>7 DEF WaitFinish, WakeFinish, Goto
  <2>2. \A q \in Participants \ {p} : pc[q] = "init_wait" => (q \in asleep' <=> q \in asleep)
    <3>1. CASE asleep' = asleep
      BY <3>1
    <3>2. CASE WaitFinish(p)
      <4>1. Working
        BY <3>2 DEF WaitFinish, Phases, Gathering, Working, Leaving, NoPool, MasterOutside, Body
      <4>2. \A q \in Participants : pc[q] = "init_wait" => q \notin asleep
        BY <4>1 DEF Working, SleepIn
      <4> QED
        BY <3>2, <4>2 DEF WaitFinish
    <3> QED
      BY <1>7, <3>1, <3>2 DEF WakeFinish, barrierVars
  <2>3. \A t \in Workers : Finished(t)' = Finished(t)
    BY <2>1, <2>2 DEF Finished, NotYet, Body, AfterFinish
  <2>4. Started' => Started
    BY <1>1, <2>1, <2>2 DEF Started, AfterFinish
  <2>5. Awaited' => Awaited
    BY <1>1, <2>1, <2>2 DEF Awaited, AfterFinish
  <2>6. pc'[Master] \in {"init", "init_wait"} => pc[Master] \in {"init", "init_wait"}
    BY <2>1 DEF AfterFinish
  <2> QED
    BY <1>3, <2>3, <2>4, <2>5, <2>6
<1> QED
  BY <1>4, <1>5, <1>6, <1>7 DEF Meet

\* The caller's own steps are taken before or behind what the workers do.
LEMMA CallerStarts ==
  ASSUME ControlInv, Phases, MasterStep \/ StartRelease \/ \E j \in Jobs : StartJob(j)
  PROVE  /\ ~Started'
         /\ Started => TakeResult
<1> USE ParticipantFacts
<1>1. pc \in [Participants -> MasterPcs \cup WorkerPcs]
  BY DEF ControlInv, ControlTypeOK
<1>2. Started => TakeResult
  BY DEF Started, MasterStep, DoJob, SerialBlock, SetNthreads, CreateThread, SetSentinels,
         JobGaveUp, JobDone, CopyWithJob, CopyDirectly, JoinThread, StartRelease, StartJob
<1>3. SetSentinels \/ StartRelease => pc'[Master] = "init"
  BY <1>1 DEF SetSentinels, StartRelease, Goto
<1>4. pc'[Master] # "result"
  <2>1. CASE CreateThread \/ JoinThread
    <3>1. tid \in Workers /\ pc[Master] \in {"create", "join"}
      BY <2>1 DEF CreateThread, JoinThread, ControlInv, PoolStages, ControlTypeOK, Workers,
           Participants
    <3> QED
      BY <1>1, <2>1, <3>1 DEF CreateThread, JoinThread
  <2>2. ASSUME NEW l \in {"do_job", "serial", "job_done", "set_nthreads", "create", "sentinels",
                          "memcpyed", "idle", "init"}, Goto(Master, l)
        PROVE  pc'[Master] # "result"
    BY <1>1, <2>2 DEF Goto
  <2> QED
    BY <2>1, <2>2 DEF MasterStep, DoJob, SerialBlock, SetNthreads, TakeResult, JobGaveUp, JobDone,
         CopyWithJob, CopyDirectly, ReturnWith, StartJob, SetSentinels, StartRelease
<1> QED
  BY <1>2, <1>3, <1>4, CallerTarget DEF Started

\* Where a step of a worker belongs, unless the pool is being released
LEMMA WorkerStarts ==
  ASSUME ControlInv, DataInv, Phases, NEW t \in Workers, WorkerStep(t), ~end_threads
  PROVE  /\ Started /\ Started' /\ ~Awaited /\ ~Awaited' /\ Called
         /\ pc[t] = "begin" \/ pc[t] \in Body
         /\ \A u \in Workers \ {t} : Finished(u)' = Finished(u)
         /\ ~Finished(t) /\ (Finished(t)' <=> pc'[t] \notin Body)
<1> USE ParticipantFacts
<1>1. /\ pc[t] \in Body \cup {"begin"}
      /\ pc'[t] \in Body \cup {"finish", "exited"}
      /\ pc'[Master] = pc[Master]
      /\ UNCHANGED <<end_threads, asleep>>
      /\ \A u \in Workers \ {t} : pc'[u] = pc[u]
  BY WorkerFrame DEF contextVars, barrierVars
<1>2. Working
  BY <1>1 DEF Phases, Gathering, Leaving, NoPool, Body
<1>3. pc[Master] = "init_wait" => Master \notin asleep
  BY <1>2 DEF Working, SleepIn
<1>4. /\ pc[Master] \in {"init_wait", "finish", "finish_wait"}
  BY <1>2 DEF Working
<1>5. Started /\ Started' /\ ~Awaited /\ ~Awaited' /\ Called
  BY <1>1, <1>3, <1>4 DEF Started, Awaited, Called
<1>6. \A u \in Workers \ {t} : Finished(u)' = Finished(u)
  BY <1>1 DEF Finished, NotYet
<1>7. ~Finished(t) /\ (Finished(t)' <=> pc'[t] \notin Body)
  BY <1>1 DEF Finished, NotYet, Body
<1> QED
  BY <1>1, <1>5, <1>6, <1>7

\* When the caller takes the result every worker has finished.
LEMMA AllFinished ==
  ASSUME ControlInv, Phases, TakeResult
  PROVE  Started /\ \A t \in Workers : Finished(t) /\ pc[t] \notin Body
<1> USE ParticipantFacts
<1>1. ~end_threads /\ pc[Master] = "result"
  BY NotEnding DEF TakeResult
<1>2. Gathering
  BY <1>1 DEF Phases, Working, Leaving, NoPool
<1> QED
  BY <1>1, <1>2 DEF Gathering, Started, Finished, NotYet, Body
-----------------------------------------------------------------------------
(* What ChunkCall says of a request, in the words of this module *)
With(j, S) == FirstOutput(j) + SumOver(j.csize, S, NBlocks(j))
Small(j) == {b \in Blocks(j) : j.csize[b] > 0}

LEMMA CallTerms ==
  ASSUME NEW j
  PROVE  /\ \A S : Caller!SizeWith(j, S) = With(j, S)
         /\ Caller!PackedSize(j) = With(j, Blocks(j))
         /\ Caller!Failed(j) <=> \E b \in Blocks(j) : j.csize[b] < 0
         /\ Caller!Tight(j) <=> \/ \E b \in Blocks(j) : j.csize[b] = 0
                                \/ With(j, Small(j)) > j.destsize
<1>1. /\ Caller!FirstOutput(j) = FirstOutput(j) /\ Caller!NBlocks(j) = NBlocks(j)
      /\ Caller!Blocks(j) = Blocks(j)
  BY DEF Caller!FirstOutput, FirstOutput, Caller!NBlocks, NBlocks, Caller!Blocks, Blocks
<1>2. \A S : Caller!SumOver(j.csize, S, NBlocks(j)) = SumOver(j.csize, S, NBlocks(j))
  BY DEF Caller!SumOver, SumOver
<1>3. \A S : Caller!SizeWith(j, S) = With(j, S)
  BY <1>1, <1>2 DEF Caller!SizeWith, With
<1>4. Caller!Shrunk(j) = Small(j)
  BY <1>1 DEF Caller!Shrunk, Small
<1> QED
  BY <1>1, <1>3, <1>4 DEF Caller!PackedSize, Caller!Failed, Caller!Tight

\* The sizes of blocks that shrink, one by one and all together
LEMMA WithFacts ==
  ASSUME NEW j \in Jobs
  PROVE  /\ With(j, {}) = FirstOutput(j)
         /\ \A S \in SUBSET Blocks(j), b \in Blocks(j) : b \notin S =>
              With(j, S \cup {b}) = With(j, S) + j.csize[b]
         /\ \A S, U \in SUBSET Small(j) : S \subseteq U =>
              /\ With(j, S) \in Int /\ With(j, U) \in Int
              /\ With(j, S) <= With(j, U) /\ With(j, S) >= FirstOutput(j)
<1>1. /\ NBlocks(j) \in Nat /\ FirstOutput(j) \in Nat /\ Blocks(j) = 0 .. NBlocks(j) - 1
      /\ \A b \in Blocks(j) : j.csize[b] \in Int
  BY JobFacts DEF Blocks
<1>2. With(j, {}) = FirstOutput(j)
  <2>1. SumOver(j.csize, {}, NBlocks(j)) = 0
    BY <1>1, SumNone
  <2> QED
    BY <1>1, <2>1 DEF With
<1>3. ASSUME NEW S \in SUBSET Blocks(j)
      PROVE  SumOver(j.csize, S, NBlocks(j)) \in Int
  <2>1. PICK s : SumsUp(s, j.csize, S, NBlocks(j))
    BY <1>1, SumSteps
  <2> QED
    BY <1>1, <2>1 DEF SumsUp
<1>4. ASSUME NEW S \in SUBSET Blocks(j), NEW b \in Blocks(j), b \notin S
      PROVE  With(j, S \cup {b}) = With(j, S) + j.csize[b]
  <2>1. SumOver(j.csize, S \cup {b}, NBlocks(j)) = SumOver(j.csize, S, NBlocks(j)) + j.csize[b]
    BY <1>1, <1>4, SumAdd
  <2> QED
    BY <1>1, <1>3, <2>1 DEF With
<1>5. ASSUME NEW S \in SUBSET Small(j), NEW U \in SUBSET Small(j), S \subseteq U
      PROVE  /\ With(j, S) \in Int /\ With(j, U) \in Int
             /\ With(j, S) <= With(j, U) /\ With(j, S) >= FirstOutput(j)
  <2>1. \A k \in 0 .. NBlocks(j) - 1 : k \in U => j.csize[k] \in Int /\ j.csize[k] >= 0
    BY <1>1 DEF Small
  <2>2. /\ SumOver(j.csize, S, NBlocks(j)) <= SumOver(j.csize, U, NBlocks(j))
        /\ SumOver(j.csize, S, NBlocks(j)) >= 0
    BY <1>1, <1>5, <2>1, SumGrows
  <2>3. S \in SUBSET Blocks(j) /\ U \in SUBSET Blocks(j)
    BY DEF Small
  <2> QED
    BY <1>1, <1>3, <2>2, <2>3 DEF With
<1> QED
  BY <1>2, <1>4, <1>5

\* A block without room behind blocks that shrink: not all of them fit.
LEMMA NoRoomIsTight ==
  ASSUME NEW j \in Jobs, NEW S \in SUBSET Small(j), NEW b \in Blocks(j), b \notin S,
         \/ j.csize[b] = 0
         \/ With(j, S) + j.csize[b] > j.destsize,
         S # {} => With(j, S) <= j.destsize
  PROVE  Caller!Tight(j)
<1>1. /\ FirstOutput(j) \in Nat /\ j.destsize \in Nat /\ j.csize[b] \in Int
      /\ S \in SUBSET Blocks(j)
  BY JobFacts DEF Small
<1>2. CASE j.csize[b] = 0
  BY <1>2, CallTerms
<1>3. CASE j.csize[b] > 0 /\ With(j, S) + j.csize[b] > j.destsize
  <2>1. b \in Small(j) /\ S \cup {b} \in SUBSET Small(j) /\ Small(j) \in SUBSET Small(j)
    BY <1>3 DEF Small
  <2>2. With(j, S \cup {b}) = With(j, S) + j.csize[b]
    BY <1>1, WithFacts
  <2>3. /\ With(j, S \cup {b}) \in Int /\ With(j, Small(j)) \in Int
        /\ With(j, S \cup {b}) <= With(j, Small(j))
    BY <2>1, WithFacts
  <2>4. With(j, Small(j)) > j.destsize
    BY <1>1, <1>3, <2>2, <2>3
  <2> QED
    BY <2>4, CallTerms
<1>4. CASE j.csize[b] < 0 /\ With(j, S) + j.csize[b] > j.destsize
  <2>1. With(j, S) \in Int /\ With(j, Small(j)) \in Int /\ With(j, Small(j)) >= FirstOutput(j)
    BY WithFacts
  <2>2. With(j, S) > j.destsize
    BY <1>1, <1>4, <2>1
  <2>3. S = {}
    BY <1>1, <2>1, <2>2
  <2>4. With(j, Small(j)) > j.destsize
    BY <1>1, <2>1, <2>2, <2>3, WithFacts
  <2> QED
    BY <2>4, CallTerms
<1> QED
  BY <1>1, <1>2, <1>3, <1>4

-----------------------------------------------------------------------------
(* The flag and what the workers start from *)

\* The flag goes up with the request or because its blocks do not fit.
LEMMA CallerFlag ==
  ASSUME ControlInv, DataInv, StageInv, FlagInv, ResultInv,
         MasterStep \/ StartRelease \/ \E j \in Jobs : StartJob(j)
  PROVE  FlagInv'
<1> USE ParticipantFacts DEF FlagInv, Called
<1>1. pc \in [Participants -> MasterPcs \cup WorkerPcs] /\ memcpyed \in BOOLEAN
  BY DEF ControlInv, ControlTypeOK, DataInv, DataTypeOK
<1>2. ASSUME NEW j \in Jobs, StartJob(j) PROVE FlagInv'
  <2>1. /\ job' = j /\ memcpyed' = j.memcpyed
        /\ j.memcpyed => pc'[Master] = "memcpyed"
    BY <1>1, <1>2 DEF StartJob, Goto
  <2> QED
    BY <2>1, JobFacts
<1>3. CASE JobGaveUp
  <2>1. /\ pc[Master] = "job_done" /\ ~end_threads /\ job.compress
        /\ ntbytes[Master] = 0 /\ ~memcpyed /\ InBlockOrder
    BY <1>3, NotEnding DEF JobGaveUp, InBlockOrder
  <2>2. Caller!Tight(job)
    BY <2>1 DEF ResultInv
  <2>3. memcpyed' /\ pc'[Master] = "memcpyed" /\ job' = job
    BY <1>1, <1>3 DEF JobGaveUp, Goto
  <2> QED
    BY <2>1, <2>2, <2>3
<1>4. CASE CopyWithJob
  <2>1. /\ pc[Master] = "memcpyed" /\ ~end_threads /\ UNCHANGED contextVars
        /\ job.compress /\ SourceSize(job) + MAX_OVERHEAD <= job.destsize
    BY <1>4, NotEnding DEF CopyWithJob
  <2> QED
    BY <2>1 DEF contextVars
<1>5. CASE DoJob \/ SerialBlock \/ SetNthreads \/ CreateThread \/ SetSentinels \/ TakeResult
  <2>1. /\ pc[Master] \notin {"idle", "memcpyed"} /\ ~end_threads
        /\ UNCHANGED <<job, memcpyed, end_threads>>
    BY <1>5, NotEnding DEF DoJob, SerialBlock, SetNthreads, CreateThread, SetSentinels, TakeResult,
         contextVars
  <2> QED
    BY <2>1
<1>6. CASE JobDone \/ CopyDirectly \/ StartRelease \/ JoinThread
  <2>1. pc'[Master] = "idle" \/ end_threads'
    BY <1>1, <1>6 DEF JobDone, CopyDirectly, ReturnWith, StartRelease, JoinThread, Goto,
         ControlInv, PoolStages
  <2> QED
    BY <2>1
<1> QED
  BY <1>2, <1>3, <1>4, <1>5, <1>6 DEF MasterStep

\* On its way to the workers the caller's thread prepares what they read.
LEMMA CallerReady ==
  ASSUME ControlInv, DataInv, Phases, StageInv, FlagInv, ReadyInv,
         MasterStep \/ StartRelease \/ \E j \in Jobs : StartJob(j)
  PROVE  ReadyInv'
<1> USE ParticipantFacts DEF ReadyInv, Awaited
<1>1. pc \in [Participants -> MasterPcs \cup WorkerPcs] /\ memcpyed \in BOOLEAN
  BY DEF ControlInv, ControlTypeOK, DataInv, DataTypeOK
<1>2. pc'[Master] \notin {"init", "init_wait"} \/ SetSentinels \/ StartRelease
  BY CallerTarget
<1>3. ASSUME NEW j \in Jobs, StartJob(j) PROVE ReadyInv'
  <2>1. /\ job' = j /\ memcpyed' = j.memcpyed /\ output_bytes' = FirstOutput(j) /\ dest' = {}
        /\ pc'[Master] = IF j.memcpyed THEN "memcpyed" ELSE "do_job"
    BY <1>1, <1>3 DEF StartJob, Goto
  <2>2. Awaited' => output_bytes' = StartOutput'
    BY <2>1 DEF StartOutput, FirstOutput
  <2> QED
    BY <2>1, <2>2
<1>4. CASE CopyWithJob
  <2>1. /\ pc[Master] = "memcpyed" /\ UNCHANGED contextVars /\ pc'[Master] = "do_job"
        /\ job.compress /\ output_bytes' = MAX_OVERHEAD /\ memcpyed
    BY <1>1, <1>4 DEF CopyWithJob, Goto, StageInv
  <2> QED
    BY <2>1 DEF contextVars, StartOutput, InBlockOrder
<1>5. CASE DoJob \/ SetNthreads \/ CreateThread \/ SetSentinels
  <2>1. /\ pc[Master] \in {"do_job", "set_nthreads", "create", "sentinels"} /\ ~end_threads
        /\ UNCHANGED <<job, memcpyed, end_threads, output_bytes, dest>>
    BY <1>5, NotEnding DEF DoJob, SetNthreads, CreateThread, SetSentinels, contextVars, jobVars,
         bufferVars
  <2>2. SetSentinels => thread_giveup_code' = 1 /\ thread_nblock' = -1
    BY DEF SetSentinels, Sentinels
  <2>3. pc'[Master] \in {"init", "init_wait"} => SetSentinels
    BY <1>2, <2>1 DEF StartRelease
  <2> QED
    BY <2>1, <2>2, <2>3 DEF StartOutput, InBlockOrder
<1>6. CASE SerialBlock \/ TakeResult \/ JobGaveUp \/ JobDone \/ CopyDirectly
  <2>1. pc'[Master] \in {"serial", "job_done", "memcpyed", "idle"}
    BY <1>1, <1>6 DEF SerialBlock, TakeResult, JobGaveUp, JobDone, CopyDirectly, ReturnWith, Goto
  <2> QED
    BY <2>1
<1>7. CASE StartRelease
  BY <1>7 DEF StartRelease
<1>8. CASE JoinThread
  BY <1>8 DEF JoinThread, ControlInv, PoolStages
<1> QED
  BY <1>3, <1>4, <1>5, <1>6, <1>7, <1>8 DEF MasterStep
-----------------------------------------------------------------------------
(* Compression: every block gets a place *)

\* A write that overlaps nothing but itself
LEMMA WriteBeside ==
  ASSUME NEW buf, NEW new, \A r \in buf : r # new => Disjoint(r, new)
  PROVE  \A r : r \in Write(buf, new) <=> r \in buf \/ r = new
<1> TAKE r
<1>1. r \in Write(buf, new) <=> (r \in buf /\ Disjoint(r, new)) \/ r = new
  BY DEF Write, Disjoint
<1>2. CASE r = new
  BY <1>1, <1>2
<1>3. CASE r # new
  BY <1>1, <1>3
<1> QED
  BY <1>2, <1>3

\* When the workers begin, no block has a place.
LEMMA MeetPack ==
  ASSUME ControlInv, Phases, DataInv, ReadyInv, PackInv, NEW p \in Participants, Meet(p)
  PROVE  PackInv'
<1> SUFFICES ASSUME Started', InOrder' PROVE PackInv'
  BY DEF PackInv
<1>1. UNCHANGED <<job, memcpyed, output_bytes, thread_giveup_code, thread_nblock, bstarts,
                  dest, nblock_, tblock, cbytes, ntdest, tmp2>>
  BY MeetFrame DEF contextVars, jobVars, bufferVars, localVars
<1>2. /\ InOrder /\ InBlockOrder /\ StartOutput = FirstOutput(job)
  BY <1>1 DEF InOrder, InBlockOrder, RunsSerially, StartOutput
<1>3. \A t \in Workers : pc[t] \in Body \/ pc'[t] \in Body => pc'[t] = pc[t]
  BY MeetFrame
<1>4. CASE Started /\ \A t \in Workers : Finished(t)' = Finished(t)
  <2>1. \A t \in Workers : /\ pc'[t] \in Body => pc[t] \in Body
                           /\ pc'[t] = "fail" => pc[t] = "fail"
                           /\ Claimed(t)' = Claimed(t)
                           /\ pc'[t] = "sum" => pc[t] = "sum"
                           /\ pc'[t] = "copy" <=> pc[t] = "copy"
    BY <1>3 DEF Body, Claimed
  <2>2. Reserved' = Reserved /\ Taken' = Taken
    BY <1>1, <2>1 DEF Reserved, Taken
  <2> QED
    BY <1>1, <1>2, <1>4, <2>1, <2>2 DEF PackInv
<1>5. CASE Awaited /\ pc[Master] \in {"init", "init_wait"} /\ \A t \in Workers : NotYet(t)'
  <2>1. /\ dest = {} /\ output_bytes = FirstOutput(job)
        /\ thread_giveup_code = 1 /\ thread_nblock = -1
    BY <1>2, <1>5 DEF ReadyInv
  <2>2. \A t \in Workers : /\ pc'[t] \notin Body /\ pc'[t] \notin {"fail", "copy", "sum"}
                           /\ ~Finished(t)'
    BY <1>5 DEF NotYet, Finished, Body
  <2>3. Reserved' = {} /\ Taken' = {}
    BY <1>1, <2>1, <2>2 DEF Reserved, Taken
  <2>4. output_bytes' = Caller!SizeWith(job, {})
    BY <1>1, <2>1, CallTerms, WithFacts DEF DataInv, DataTypeOK
  <2>5. ~\E b \in Blocks(job) : b <= -1
    BY JobFacts DEF Blocks, DataInv, DataTypeOK
  <2> QED
    BY <1>1, <2>1, <2>2, <2>3, <2>4, <2>5 DEF PackInv
<1> QED
  BY <1>4, <1>5, MeetStarts

\* Every block below thread_nblock has a place or is in the hands of a
\* worker, and the places are as long together as output_bytes says.
LEMMA WorkerPack ==
  ASSUME ControlInv, DataInv, Phases, StageInv, ClaimInv, PlaceInv, PackInv,
         NEW t \in Workers, WorkerStep(t)
  PROVE  PackInv'
<1> USE ParticipantFacts
<1> SUFFICES ASSUME Started', InOrder' PROVE PackInv'
  BY DEF PackInv
<1>1. UNCHANGED <<job, memcpyed, end_threads>> /\ ~end_threads
  BY WorkerFrame DEF contextVars, Started
<1>2. Started /\ InOrder /\ InBlockOrder
  BY <1>1, WorkerStarts DEF InOrder, InBlockOrder, RunsSerially
<1>3. /\ pc \in [Participants -> MasterPcs \cup WorkerPcs]
      /\ nblock_ \in [Participants -> Nat] /\ tmp2 \in [Participants -> Nat]
      /\ ntdest \in [Participants -> Int] /\ cbytes \in [Participants -> Int]
      /\ tblock \in [Participants -> Int] /\ bstarts \in [Blocks(job) -> Int]
      /\ thread_nblock \in Nat \cup {-1} /\ thread_giveup_code \in Int /\ output_bytes \in Int
      /\ job \in Jobs /\ NBlocks(job) \in Nat
  BY JobFacts DEF ControlInv, ControlTypeOK, DataInv, DataTypeOK
<1>4. \A u \in Workers \ {t} :
        /\ pc'[u] = pc[u] /\ nblock_'[u] = nblock_[u] /\ tmp2'[u] = tmp2[u]
        /\ ntdest'[u] = ntdest[u] /\ cbytes'[u] = cbytes[u] /\ tblock'[u] = tblock[u]
        /\ Finished(u)' = Finished(u) /\ Claimed(u)' = Claimed(u)
  BY <1>1, WorkerFrame, WorkerStarts DEF Claimed
<1>5. ~Finished(t) /\ (Finished(t)' <=> pc'[t] \notin Body)
  BY <1>1, WorkerStarts
<1> DEFINE
      Holds == \A r \in Reserved : /\ r.block \in Blocks(job) /\ job.csize[r.block] > 0
                                   /\ r = Packed(job, r.block, bstarts[r.block])
      Own(u) == /\ pc[u] \in Body => tblock[u] = NBlocks(job)
                /\ pc[u] = "fail" => cbytes[u] = job.csize[nblock_[u]] /\ cbytes[u] < 0
      Sized == /\ output_bytes = Caller!SizeWith(job, Taken)
               /\ Taken # {} => output_bytes <= job.destsize
      Covered == \A b \in Blocks(job) : b <= thread_nblock =>
                   b \in Taken \/ \E u \in Workers : Claimed(u) /\ nblock_[u] = b
      Behind(u) == pc[u] = "sum" \/ Finished(u) => thread_nblock >= NBlocks(job)
<1>6. /\ Holds /\ Sized /\ \A u \in Workers : Own(u)
      /\ thread_giveup_code > 0 => Covered /\ \A u \in Workers : Behind(u)
  BY <1>2 DEF PackInv
<1>7. ASSUME Holds', Sized', Own(t)', thread_giveup_code' > 0 => Covered',
             thread_giveup_code' > 0 => \A u \in Workers : Behind(u)'
      PROVE  PackInv'
  <2>1. \A u \in Workers \ {t} : Own(u)'
    BY <1>1, <1>4, <1>6
  <2> QED
    BY <1>7, <2>1 DEF PackInv
<1>8. ASSUME Reserved' = Reserved, UNCHANGED <<bstarts, output_bytes>>
      PROVE  Holds' /\ Sized' /\ Taken' = Taken
  <2>1. Taken' = Taken
    BY <1>8 DEF Taken
  <2> QED
    BY <1>1, <1>6, <1>8, <2>1
<1>9. ASSUME UNCHANGED thread_nblock, UNCHANGED thread_giveup_code, thread_giveup_code' > 0,
             pc'[t] \in {"sum", "finish"} => pc[t] = "sum" \/ thread_nblock >= NBlocks(job),
             pc'[t] \in Body \cup {"finish"}
      PROVE  \A u \in Workers : Behind(u)'
  <2>1. Behind(t)'
    BY <1>1, <1>5, <1>6, <1>9 DEF Body
  <2> QED
    BY <1>1, <1>4, <1>6, <1>9, <2>1
<1>10. ASSUME Taken' = Taken, UNCHANGED <<thread_nblock, thread_giveup_code>>,
              thread_giveup_code' > 0,
              Claimed(t) => (Claimed(t)' /\ nblock_'[t] = nblock_[t]) \/ nblock_[t] >= NBlocks(job)
       PROVE  Covered'
  <2> SUFFICES ASSUME NEW b \in Blocks(job), b <= thread_nblock
               PROVE  b \in Taken \/ \E u \in Workers : Claimed(u)' /\ nblock_'[u] = b
    BY <1>1, <1>10
  <2>1. b < NBlocks(job) /\ b \in Nat
    BY <1>3 DEF Blocks
  <2>2. b \in Taken \/ \E u \in Workers : Claimed(u) /\ nblock_[u] = b
    BY <1>6, <1>10
  <2> QED
    BY <1>3, <1>4, <1>10, <2>1, <2>2
<1> HIDE DEF Holds, Sized, Covered
<1>11. CASE Begin(t)
  <2>1. /\ pc[t] = "begin" /\ pc'[t] = "loop" /\ tblock'[t] = NBlocks(job)
        /\ thread_nblock' = thread_nblock + 1 /\ nblock_'[t] = thread_nblock + 1
        /\ UNCHANGED <<output_bytes, thread_giveup_code, bstarts, dest, ntdest, tmp2>>
    BY <1>1, <1>2, <1>3, <1>11 DEF Begin, ClaimNext, Goto, bufferVars
  <2>2. Reserved' = Reserved
    BY <1>1, <1>4, <2>1 DEF Reserved
  <2>3. Covered' \/ ~(thread_giveup_code' > 0)
    <3> SUFFICES ASSUME thread_giveup_code > 0, NEW b \in Blocks(job), b <= thread_nblock'
                 PROVE  b \in Taken' \/ \E u \in Workers : Claimed(u)' /\ nblock_'[u] = b
      BY <1>1, <2>1 DEF Covered
    <3>1. Taken' = Taken /\ b \in Nat
      BY <1>3, <2>2 DEF Taken, Blocks
    <3>2. CASE b = thread_nblock + 1
      BY <2>1, <3>2 DEF Claimed
    <3>3. CASE b <= thread_nblock
      <4>1. b \in Taken \/ \E u \in Workers : Claimed(u) /\ nblock_[u] = b
        BY <1>6, <3>3 DEF Covered
      <4>2. ~Claimed(t)
        BY <2>1 DEF Claimed
      <4> QED
        BY <1>4, <3>1, <4>1, <4>2
    <3> QED
      BY <1>3, <2>1, <3>1, <3>2, <3>3
  <2>4. thread_giveup_code' > 0 => \A u \in Workers : Behind(u)'
    <3>1. Behind(t)'
      BY <1>5, <2>1 DEF Body
    <3> QED
      BY <1>1, <1>3, <1>4, <1>6, <2>1, <3>1
  <2>5. Own(t)'
    BY <1>1, <2>1
  <2> QED
    BY <1>7, <1>8, <2>1, <2>2, <2>3, <2>4, <2>5
<1>12. CASE Loop(t)
  <2>1. /\ pc[t] = "loop" /\ pc'[t] \in {"block", "sum"} /\ tblock[t] = NBlocks(job)
        /\ pc'[t] = "sum" /\ thread_giveup_code > 0 => nblock_[t] >= NBlocks(job)
        /\ UNCHANGED <<output_bytes, thread_giveup_code, thread_nblock, bstarts, dest, ntdest,
                       tmp2, nblock_, tblock>>
    BY <1>3, <1>6, <1>12 DEF Loop, MoreBlocks, Goto, jobVars, bufferVars, localVars, Body
  <2>2. Reserved' = Reserved
    BY <1>1, <1>4, <2>1 DEF Reserved
  <2>3. nblock_[t] <= thread_nblock
    BY <1>2, <2>1 DEF ClaimInv, Claimed
  <2>4. thread_giveup_code' > 0 => Covered' /\ \A u \in Workers : Behind(u)'
    BY <1>3, <1>8, <1>9, <1>10, <2>1, <2>2, <2>3 DEF Claimed, Body
  <2>5. Own(t)'
    BY <1>1, <2>1
  <2> QED
    BY <1>7, <1>8, <2>1, <2>2, <2>4, <2>5
<1>13. CASE CompressBlock(t)
  <2>1. /\ pc[t] = "block" /\ pc'[t] = "check" /\ tblock[t] = NBlocks(job)
        /\ UNCHANGED <<output_bytes, thread_giveup_code, thread_nblock, bstarts, dest, ntdest,
                       nblock_, tblock>>
    BY <1>3, <1>6, <1>13 DEF CompressBlock, Goto, jobVars, bufferVars, Body
  <2>2. Reserved' = Reserved
    BY <1>1, <1>4, <2>1 DEF Reserved
  <2>4. thread_giveup_code' > 0 => Covered' /\ \A u \in Workers : Behind(u)'
    BY <1>8, <1>9, <1>10, <2>1, <2>2 DEF Claimed, Body
  <2>5. Own(t)'
    BY <1>1, <2>1
  <2> QED
    BY <1>7, <1>8, <2>1, <2>2, <2>4, <2>5
<1>14. CASE Check(t)
  <2>1. /\ pc[t] = "check" /\ pc'[t] \in {"sum", "fail", "commit"} /\ tblock[t] = NBlocks(job)
        /\ pc'[t] = "sum" => ~(thread_giveup_code > 0)
        /\ pc'[t] = "fail" => cbytes[t] < 0
        /\ UNCHANGED <<output_bytes, thread_giveup_code, thread_nblock, bstarts, dest, ntdest,
                       nblock_, tblock, tmp2, cbytes>>
    BY <1>2, <1>3, <1>6, <1>14 DEF Check, Goto, jobVars, bufferVars, Body
  <2>2. Reserved' = Reserved
    BY <1>1, <1>4, <2>1 DEF Reserved
  <2>3. cbytes[t] = job.csize[nblock_[t]]
    BY <1>2, <2>1 DEF PlaceInv
  <2>4. thread_giveup_code' > 0 => Covered' /\ \A u \in Workers : Behind(u)'
    BY <1>8, <1>9, <1>10, <2>1, <2>2 DEF Claimed, Body
  <2>5. Own(t)'
    BY <1>1, <2>1, <2>3
  <2> QED
    BY <1>7, <1>8, <2>1, <2>2, <2>4, <2>5
<1>15. CASE Fail(t)
  <2>1. /\ pc[t] = "fail" /\ pc'[t] = "sum" /\ tblock[t] = NBlocks(job)
        /\ ~(thread_giveup_code' > 0)
        /\ UNCHANGED <<output_bytes, bstarts, dest, ntdest, tblock, tmp2>>
    BY <1>3, <1>6, <1>15 DEF Fail, Goto, bufferVars, localVars, Body
  <2>2. Reserved' = Reserved
    BY <1>1, <1>4, <2>1 DEF Reserved
  <2>5. Own(t)'
    BY <1>1, <2>1
  <2> QED
    BY <1>7, <1>8, <2>1, <2>2, <2>5
<1>16. CASE Commit(t)
  <2>1. /\ pc[t] = "commit" /\ nblock_[t] \in Blocks(job) /\ tblock[t] = NBlocks(job)
        /\ tmp2[t] = nblock_[t]
        /\ cbytes[t] = job.csize[nblock_[t]]
        /\ bstarts' = [bstarts EXCEPT ![nblock_[t]] = output_bytes]
        /\ UNCHANGED <<dest, tblock, tmp2>>
    BY <1>2, <1>6, <1>16 DEF Commit, DataInv, DataTypeOK, OnBlock, Body, ClaimInv, PlaceInv
  <2>2. \A r \in Reserved : r.block # nblock_[t]
    BY <1>2, <2>1 DEF ClaimInv, Claimed, Reserved, Packed, Region
  <2>3. nblock_[t] \notin Taken
    BY <2>2 DEF Taken
  <2>4. \A r \in Reserved : /\ r.block \in Blocks(job) /\ job.csize[r.block] > 0
                            /\ r = Packed(job, r.block, bstarts'[r.block])
    BY <1>3, <1>6, <2>1, <2>2 DEF Holds
  <2>5. CASE NoRoom(t)
    <3>1. /\ pc'[t] = "sum" /\ thread_giveup_code' = 0
          /\ UNCHANGED <<output_bytes, thread_nblock, nblock_>>
      BY <1>3, <1>16, <2>5 DEF Commit, Goto
    <3>2. Reserved' = Reserved
      BY <1>1, <1>4, <2>1, <3>1 DEF Reserved
    <3>3. Holds'
      BY <1>1, <2>4, <3>2 DEF Holds
    <3>4. Sized'
      <4>1. Taken' = Taken
        BY <3>2 DEF Taken
      <4> QED
        BY <1>1, <1>6, <3>1, <4>1 DEF Sized
    <3>5. Own(t)'
      BY <1>1, <2>1, <3>1
    <3> QED
      BY <1>7, <3>1, <3>3, <3>4, <3>5
  <2>6. CASE ~NoRoom(t)
    <3> DEFINE b == nblock_[t]
               new == Packed(job, b, output_bytes)
    <3>1. /\ pc'[t] = "copy" /\ UNCHANGED <<thread_giveup_code, cbytes>>
          /\ output_bytes' = output_bytes + cbytes[t]
          /\ output_bytes + cbytes[t] <= job.destsize /\ cbytes[t] # 0
          /\ thread_nblock' = thread_nblock + 1 /\ nblock_'[t] = thread_nblock + 1
          /\ ntdest'[t] = output_bytes
      <4>1. job.destsize \in Int
        BY <1>3, JobFacts
      <4> QED
        BY <1>3, <1>16, <2>6, <4>1 DEF Commit, ClaimNext, NoRoom, Goto
    <3>2. cbytes[t] > 0
      <4>1. cbytes[t] >= 0 /\ cbytes[t] \in Int
        BY <1>2, <1>3, <2>1 DEF PlaceInv
      <4> QED
        BY <3>1, <4>1
    <3>3. Reserved' = Reserved \cup {new}
      BY <1>1, <1>4, <2>1, <3>1 DEF Reserved
    <3>4. Holds'
      <4>1. new.block = b /\ bstarts'[b] = output_bytes
        BY <1>3, <2>1 DEF Packed, Region
      <4> QED
        BY <1>1, <2>1, <2>4, <3>2, <3>3, <4>1 DEF Holds
    <3>5. Taken' = Taken \cup {b}
      <4>1. new.block = b
        BY DEF Packed, Region
      <4> HIDE DEF new
      <4> QED
        BY <3>3, <4>1 DEF Taken
    <3>6. Sized'
      <4>1. Taken \in SUBSET Blocks(job)
        BY <1>6 DEF Holds, Taken
      <4>2. With(job, Taken \cup {b}) = With(job, Taken) + job.csize[b]
        BY <1>3, <2>1, <2>3, <4>1, WithFacts
      <4> HIDE DEF b
      <4>3. output_bytes' = Caller!SizeWith(job, Taken')
        BY <1>6, <2>1, <3>1, <3>5, <4>2, CallTerms DEF Sized, b
      <4> QED
        BY <1>1, <3>1, <4>3 DEF Sized
    <3>7. thread_giveup_code' > 0 => Covered'
      <4> SUFFICES ASSUME thread_giveup_code > 0, NEW c \in Blocks(job), c <= thread_nblock'
                   PROVE  c \in Taken' \/ \E u \in Workers : Claimed(u)' /\ nblock_'[u] = c
        BY <1>1, <3>1 DEF Covered
      <4>1. c \in Nat
        BY <1>3 DEF Blocks
      <4>2. CASE c = thread_nblock + 1
        BY <3>1, <4>2 DEF Claimed
      <4>3. CASE c <= thread_nblock
        <5>1. c \in Taken \/ \E u \in Workers : Claimed(u) /\ nblock_[u] = c
          BY <1>6, <4>3 DEF Covered
        <5> QED
          BY <1>4, <3>5, <5>1
      <4> QED
        BY <1>3, <3>1, <4>1, <4>2, <4>3
    <3>8. thread_giveup_code' > 0 => \A u \in Workers : Behind(u)'
      <4>1. Behind(t)'
        BY <1>5, <3>1 DEF Body
      <4> QED
        BY <1>1, <1>3, <1>4, <1>6, <3>1, <4>1
    <3>9. Own(t)'
      BY <1>1, <2>1, <3>1
    <3> QED
      BY <1>7, <3>4, <3>6, <3>7, <3>8, <3>9
  <2> QED
    BY <2>5, <2>6
<1>17. CASE CopyBlock(t)
  <2> DEFINE new == Packed(job, tmp2[t], ntdest[t])
  <2>1. /\ pc[t] = "copy" /\ pc'[t] = "loop" /\ tblock[t] = NBlocks(job)
        /\ dest' = Write(dest, new)
        /\ UNCHANGED <<output_bytes, thread_giveup_code, thread_nblock, bstarts, ntdest,
                       nblock_, tblock, tmp2>>
    BY <1>3, <1>6, <1>17 DEF CopyBlock, Goto, jobVars, localVars, Body
  <2>2. new \in Reserved /\ dest \subseteq Reserved
    BY <2>1 DEF Reserved
  <2>3. \A r \in dest : r # new => Disjoint(r, new)
    BY <1>2, <2>2 DEF PlaceInv
  <2>4. \A r : r \in dest' <=> r \in dest \/ r = new
    BY <2>1, <2>3, WriteBeside
  <2>5. Reserved' = Reserved
    BY <1>1, <1>4, <2>1, <2>4 DEF Reserved
  <2>6. thread_giveup_code' > 0 => Covered' /\ \A u \in Workers : Behind(u)'
    BY <1>8, <1>9, <1>10, <2>1, <2>5 DEF Claimed, Body
  <2>7. Own(t)'
    BY <1>1, <2>1
  <2> QED
    BY <1>7, <1>8, <2>1, <2>5, <2>6, <2>7
<1>18. CASE Sum(t)
  <2>1. /\ pc[t] = "sum" /\ pc'[t] = "finish"
        /\ UNCHANGED <<output_bytes, thread_giveup_code, thread_nblock, bstarts, dest>>
    BY <1>2, <1>3, <1>18 DEF Sum, Goto, jobVars, bufferVars
  <2>2. Reserved' = Reserved
    BY <1>1, <1>4, <2>1 DEF Reserved
  <2>3. ~Claimed(t)
    BY <2>1 DEF Claimed
  <2>4. thread_giveup_code' > 0 => Covered' /\ \A u \in Workers : Behind(u)'
    BY <1>8, <1>9, <1>10, <2>1, <2>2, <2>3
  <2>5. Own(t)'
    BY <2>1 DEF Body
  <2> QED
    BY <1>7, <1>8, <2>1, <2>2, <2>4, <2>5
<1>19. ~(PlaceBlock(t) \/ RejectBlock(t) \/ DeltaGate(t) \/ DeltaWake(t) \/ DeltaDecode(t) \/ Add(t))
  BY <1>2 DEF PlaceBlock, RejectBlock, DeltaGate, DeltaWake, DeltaDecode, Add, InBlockOrder, StageInv
<1> QED
  BY <1>11, <1>12, <1>13, <1>14, <1>15, <1>16, <1>17, <1>18, <1>19 DEF WorkerStep
-----------------------------------------------------------------------------
(* Why a job is given up *)

\* A job that the workers have met for runs in the pool.
LEMMA StartedInPool ==
  ASSUME StageInv, Started
  PROVE  ~RunsSerially /\ (InBlockOrder => InOrder)
  BY DEF StageInv, Started, InPool, InOrder

\* The workers begin with thread_giveup_code = 1.
LEMMA MeetGiveUp ==
  ASSUME ControlInv, Phases, ReadyInv, GiveUpInv, NEW p \in Participants, Meet(p)
  PROVE  GiveUpInv'
<1>1. UNCHANGED <<job, memcpyed, thread_giveup_code>>
  BY MeetFrame DEF contextVars, jobVars
<1>2. Started' => Started \/ thread_giveup_code = 1
  BY MeetStarts DEF ReadyInv
<1> QED
  BY <1>1, <1>2 DEF GiveUpInv, InBlockOrder

\* Only a block that failed, or that has no room, makes a worker give up.
LEMMA WorkerGiveUp ==
  ASSUME ControlInv, DataInv, Phases, StageInv, ClaimInv, PlaceInv, GiveUpInv, PackInv, RangeInv,
         NEW t \in Workers, WorkerStep(t)
  PROVE  GiveUpInv'
<1> USE ParticipantFacts
<1> SUFFICES ASSUME Started' PROVE GiveUpInv'
  BY DEF GiveUpInv
<1>1. UNCHANGED <<job, memcpyed, end_threads>> /\ ~end_threads
  BY WorkerFrame DEF contextVars, Started
<1>2. Started /\ ~RunsSerially /\ (InBlockOrder => InOrder)
  BY <1>1, WorkerStarts, StartedInPool
<1>3. /\ job \in Jobs /\ cbytes[t] \in Int /\ output_bytes \in Int /\ job.destsize \in Nat
      /\ pc[t] \in OnBlock => nblock_[t] \in Blocks(job)
  BY JobFacts DEF DataInv, DataTypeOK
<1>4. CASE UNCHANGED thread_giveup_code
  BY <1>1, <1>2, <1>4 DEF GiveUpInv, InBlockOrder
<1>5. CASE Fail(t)
  <2>1. pc[t] = "fail" /\ thread_giveup_code' = cbytes[t] /\ nblock_[t] \in Blocks(job)
    BY <1>3, <1>5 DEF Fail, OnBlock
  <2>2. CASE InBlockOrder
    <3>1. job.csize[nblock_[t]] < 0 /\ cbytes[t] < 0
      BY <1>2, <2>1, <2>2 DEF PackInv
    <3>2. Caller!Failed(job)
      BY <2>1, <3>1, CallTerms
    <3> QED
      BY <1>1, <1>3, <2>1, <2>2, <3>1, <3>2 DEF GiveUpInv, InBlockOrder
  <2>3. CASE ~InBlockOrder
    <3>1. OnRange(t)
      BY <1>2, <2>1, <2>3 DEF RangeInv, Body
    <3>2. cbytes[t] < 0 /\ BlockLen(job, nblock_[t]) \in Nat
      BY <1>3, <2>1, <3>1, JobFacts DEF OnRange
    <3>3. ~job.compress /\ job.bad # {}
      BY <1>3, <2>1, <3>1, <3>2 DEF OnRange
    <3> QED
      BY <1>1, <1>3, <2>1, <3>2, <3>3 DEF GiveUpInv
  <2> QED
    BY <2>2, <2>3
<1>6. CASE Commit(t) /\ NoRoom(t)
  <2>1. /\ pc[t] = "commit" /\ thread_giveup_code' = 0 /\ nblock_[t] \in Blocks(job)
        /\ cbytes[t] = 0 \/ output_bytes + cbytes[t] > job.destsize
    BY <1>3, <1>6 DEF Commit, NoRoom, OnBlock
  <2>2. InBlockOrder /\ InOrder
    BY <1>2, <2>1 DEF StageInv
  <2>3. /\ cbytes[t] = job.csize[nblock_[t]]
        /\ \A r \in Reserved : r.block # nblock_[t]
    BY <2>1, <2>2 DEF PlaceInv, ClaimInv, Claimed, Reserved, Packed, Region
  <2>4. nblock_[t] \notin Taken
    BY <2>3 DEF Taken
  <2>5. /\ Taken \in SUBSET Small(job)
        /\ output_bytes = Caller!SizeWith(job, Taken)
        /\ Taken # {} => output_bytes <= job.destsize
    BY <1>2, <2>2 DEF PackInv, Taken, Small
  <2>6. output_bytes = With(job, Taken)
    BY <2>5, CallTerms
  <2>7. Caller!Tight(job)
    BY <1>3, <2>1, <2>3, <2>4, <2>5, <2>6, NoRoomIsTight
  <2> QED
    BY <1>1, <2>1, <2>2, <2>7 DEF GiveUpInv, InBlockOrder
<1> QED
  BY <1>4, <1>5, <1>6
     DEF WorkerStep, Begin, Loop, CompressBlock, PlaceBlock, RejectBlock, DeltaGate,
         DeltaWake, DeltaDecode, Check, Commit, CopyBlock, Sum, Add, jobVars

-----------------------------------------------------------------------------
(* Ranges of blocks *)

\* Where blocks begin
LEMMA MultiplesApart ==
  ASSUME NEW n \in Nat, NEW size \in Nat \ {0}, NEW b \in Nat, NEW c \in Nat, b < c
  PROVE  b * size + size <= c * size
<1>1. PICK d \in Nat : c = b + 1 + d
  <2>1. c - b - 1 \in Nat /\ c = b + 1 + (c - b - 1)
    OBVIOUS
  <2> QED
    BY <2>1
<1>2. c * size = b * size + size + d * size
  BY <1>1
<1>3. d * size \in Nat /\ b * size \in Nat
  OBVIOUS
<1> QED
  BY <1>2, <1>3

\* A block is where it begins, and the next one begins where it ends.
LEMMA BlockOffsets ==
  ASSUME job \in Jobs
  PROVE  /\ \A b \in Nat : Offset(b) \in Nat
         /\ \A b \in Blocks(job) : /\ Offset(b) = b * BlockSize
                                   /\ Offset(b + 1) = Offset(b) + BlockLen(job, b)
         /\ \A b \in Nat : b >= NBlocks(job) => Offset(b) = SourceSize(job)
         /\ Offset(0) = 0
<1>1. /\ IsJob(job) /\ BlockSize \in Nat \ {0} /\ NBlocks(job) \in Nat /\ SourceSize(job) \in Nat
  BY JobsAssumption, BlockSizeAssumption, JobFacts
<1>2. job.left \in 0 .. BlockSize - 1 /\ job.nfull \in Nat
  BY <1>1 DEF IsJob
<1>3. /\ NBlocks(job) = IF job.left > 0 THEN job.nfull + 1 ELSE job.nfull
      /\ SourceSize(job) = job.nfull * BlockSize + job.left
  BY DEF NBlocks, SourceSize
<1>4. \A b \in Nat : b * BlockSize \in Nat
  BY <1>1
<1>5. \A b \in Nat : Offset(b) \in Nat
  BY <1>1, <1>4 DEF Offset
<1>6. \A b \in Nat : b >= NBlocks(job) => Offset(b) = SourceSize(job)
  BY <1>1 DEF Offset
<1>7. ASSUME NEW b \in Blocks(job)
      PROVE  /\ Offset(b) = b * BlockSize
             /\ Offset(b + 1) = Offset(b) + BlockLen(job, b)
  <2>1. b \in Nat /\ b < NBlocks(job) /\ b + 1 \in Nat
    BY <1>1 DEF Blocks
  <2>2. Offset(b) = b * BlockSize
    BY <1>1, <2>1 DEF Offset
  <2>3. (b + 1) * BlockSize = b * BlockSize + BlockSize
    BY <1>1, <2>1
  <2>4. CASE b + 1 < NBlocks(job)
    <3>1. Offset(b + 1) = (b + 1) * BlockSize
      BY <1>1, <2>1, <2>4 DEF Offset
    <3>2. BlockLen(job, b) = BlockSize
      BY <1>1, <1>2, <1>3, <2>1, <2>4 DEF BlockLen
    <3> QED
      BY <2>2, <2>3, <3>1, <3>2
  <2>5. CASE b + 1 >= NBlocks(job)
    <3>1. Offset(b + 1) = SourceSize(job) /\ b + 1 = NBlocks(job)
      BY <1>1, <1>6, <2>1, <2>5
    <3>2. CASE job.left > 0
      <4>1. b = job.nfull
        BY <1>2, <1>3, <2>1, <3>1, <3>2
      <4> QED
        BY <1>3, <2>2, <3>1, <3>2, <4>1 DEF BlockLen
    <3>3. CASE job.left = 0
      <4>1. job.nfull = b + 1 /\ BlockLen(job, b) = BlockSize
        BY <1>2, <1>3, <2>1, <3>1, <3>3 DEF BlockLen
      <4>2. SourceSize(job) = (b + 1) * BlockSize
        BY <1>2, <1>3, <1>4, <2>1, <3>3, <4>1
      <4> QED
        BY <2>2, <2>3, <3>1, <4>1, <4>2
    <3> QED
      BY <1>2, <3>2, <3>3
  <2> QED
    BY <1>1, <2>1, <2>2, <2>4, <2>5
<1>8. Offset(0) = 0
  <2>1. CASE NBlocks(job) = 0
    <3>1. job.nfull = 0 /\ job.left = 0
      BY <1>2, <1>3, <2>1
    <3>2. SourceSize(job) = 0
      BY <1>1, <1>3, <3>1
    <3> QED
      BY <1>6, <2>1, <3>2
  <2>2. CASE NBlocks(job) > 0
    BY <1>1, <2>2 DEF Offset
  <2> QED
    BY <1>1, <2>1, <2>2
<1> QED
  BY <1>5, <1>6, <1>7, <1>8

\* What different blocks become does not overlap.
LEMMA FinalApart ==
  ASSUME job \in Jobs, NEW b \in Blocks(job), NEW c \in Blocks(job), b # c
  PROVE  Disjoint(Final(b), Final(c))
<1>1. /\ BlockSize \in Nat \ {0} /\ IsJob(job) /\ b \in Nat /\ c \in Nat
      /\ BlockLen(job, b) \in Nat /\ BlockLen(job, c) \in Nat
  BY JobFacts, JobsAssumption, BlockSizeAssumption DEF Blocks
<1>2. BlockLen(job, b) <= BlockSize /\ BlockLen(job, c) <= BlockSize
  BY <1>1 DEF BlockLen, IsJob
<1>3. b * BlockSize \in Nat /\ c * BlockSize \in Nat
  BY <1>1
<1>4. \/ b * BlockSize + BlockSize <= c * BlockSize
      \/ c * BlockSize + BlockSize <= b * BlockSize
  BY <1>1, MultiplesApart
<1>5. PICK d \in Nat : /\ Final(b).at = d + b * BlockSize /\ Final(b).len = BlockLen(job, b)
                       /\ Final(c).at = d + c * BlockSize /\ Final(c).len = BlockLen(job, c)
  <2>1. CASE job.compress
    BY <2>1 DEF Final, Stored, Region, MAX_OVERHEAD
  <2>2. CASE ~job.compress
    <3>1. /\ Final(b).at = b * BlockSize /\ Final(b).len = BlockLen(job, b)
          /\ Final(c).at = c * BlockSize /\ Final(c).len = BlockLen(job, c)
      BY <2>2 DEF Final, Plain, Region
    <3> QED
      BY <1>3, <3>1
  <2> QED
    BY <2>1, <2>2
<1>6. \/ d + b * BlockSize + BlockLen(job, b) <= d + c * BlockSize
      \/ d + c * BlockSize + BlockLen(job, c) <= d + b * BlockSize
  BY <1>1, <1>2, <1>3, <1>4
<1> QED
  BY <1>5, <1>6 DEF Disjoint

\* A block that was delivered stays so when another one is written, and the
\* one that is written is there.
LEMMA DeliveryStays ==
  ASSUME job \in Jobs, UNCHANGED job, NEW c \in Blocks(job),
         dest' = Write(dest, Final(c)), ~job.compress => c \notin job.bad
  PROVE  \A b \in Blocks(job) : Delivered(b) \/ b = c => Delivered(b)'
<1> SUFFICES ASSUME NEW b \in Blocks(job), Delivered(b) \/ b = c
             PROVE  Delivered(b)'
  OBVIOUS
<1>1. Final(b)' = Final(b)
  BY DEF Final, Stored, Plain, BlockLen
<1>2. CASE b = c
  BY <1>1, <1>2 DEF Delivered, Write
<1>3. CASE b # c
  <2>1. Final(b) \in dest /\ (~job.compress => b \notin job.bad)
    BY <1>3 DEF Delivered
  <2>2. Disjoint(Final(b), Final(c))
    BY <1>3, FinalApart
  <2>3. Final(b) \in dest'
    BY <2>1, <2>2, WriteKeeps
  <2> QED
    BY <1>1, <2>1, <2>3 DEF Delivered
<1> QED
  BY <1>2, <1>3
-----------------------------------------------------------------------------
\* A quotient that is rounded up is enough, and quotients find their range.
LEMMA RoundedUp ==
  ASSUME NEW n \in Nat \ {0}, NEW m \in Nat
  PROVE  /\ (m + n - 1) \div n \in Nat
         /\ n * ((m + n - 1) \div n) >= m
<1> DEFINE x == m + n - 1
<1>1. x \in Nat
  OBVIOUS
<1>2. x \div n \in Nat
  BY <1>1
<1> DEFINE q == x \div n
<1>3. x < (q + 1) * n
  BY <1>1
<1> HIDE DEF q
<1>4. q \in Nat /\ (q + 1) * n = n * q + n /\ n * q \in Nat
  BY <1>2 DEF q
<1>5. n * q >= m
  BY <1>3, <1>4
<1> QED
  BY <1>4, <1>5 DEF q

LEMMA RangeOf ==
  ASSUME NEW n \in Nat, NEW b \in Nat, NEW size \in Nat, b < n * size
  PROVE  \E t \in 0 .. n - 1 : t * size <= b /\ b < (t + 1) * size
<1>1. size # 0
  <2>1. CASE size = 0
    <3>1. n * size = 0
      BY <2>1
    <3> QED
      BY <3>1
  <2> QED
    BY <2>1
<1> DEFINE t == b \div size
<1>2. size \in Nat \ {0}
  BY <1>1
<1>3. t \in Nat /\ t * size <= b /\ b < (t + 1) * size
  BY <1>2
<1> HIDE DEF t
<1>4. t < n
  <2>1. CASE t >= n
    <3>1. PICK d \in Nat : t = n + d
      <4>1. t - n \in Nat /\ t = n + (t - n)
        BY <1>3, <2>1
      <4> QED
        BY <4>1
    <3>2. t * size = n * size + d * size /\ n * size \in Nat /\ d * size \in Nat
      BY <3>1
    <3> QED
      BY <1>3, <3>2
  <2> QED
    BY <1>3, <2>1
<1> QED
  BY <1>3, <1>4

\* The ranges of the workers follow each other and cover all blocks.
LEMMA RangeFacts ==
  ASSUME job \in Jobs, NThreads > 0
  PROVE  /\ TBlocks \in Nat
         /\ \A t \in 0 .. NThreads : From(t) \in Nat
         /\ \A t \in Workers : /\ To(t) \in Nat /\ To(t) <= NBlocks(job)
                               /\ Offset(To(t)) = Offset(From(t + 1))
                               /\ From(t) >= To(t) => Offset(From(t)) = Offset(To(t))
         /\ Offset(From(0)) = 0
         /\ Offset(From(NThreads)) = SourceSize(job)
         /\ \A b \in Blocks(job) : \E t \in Workers : From(t) <= b /\ b < To(t)
<1>1. NThreads \in Nat \ {0} /\ NBlocks(job) \in Nat /\ BlockSize \in Nat
  BY NThreadsAssumption, JobFacts, BlockSizeAssumption
<1>2. TBlocks \in Nat /\ NThreads * TBlocks >= NBlocks(job)
  BY <1>1, RoundedUp DEF TBlocks
<1>3. \A t \in Nat : From(t) \in Nat /\ From(t) = t * TBlocks
  BY <1>2 DEF From
<1>4. \A t \in Workers : t \in Nat /\ t + 1 \in Nat /\ t \in 0 .. NThreads
  BY <1>1 DEF Workers
<1>5. ASSUME NEW t \in Workers
      PROVE  /\ To(t) \in Nat /\ To(t) <= NBlocks(job)
             /\ Offset(To(t)) = Offset(From(t + 1))
             /\ From(t) >= To(t) => Offset(From(t)) = Offset(To(t))
             /\ To(t) = IF From(t + 1) > NBlocks(job) THEN NBlocks(job) ELSE From(t + 1)
  <2>1. To(t) = IF From(t + 1) > NBlocks(job) THEN NBlocks(job) ELSE From(t + 1)
    BY DEF To, From
  <2>2. From(t + 1) \in Nat /\ From(t) \in Nat
    BY <1>3, <1>4
  <2>3. From(t + 1) = From(t) + TBlocks
    <3>1. (t + 1) * TBlocks = t * TBlocks + TBlocks
      BY <1>2, <1>4
    <3> QED
      BY <1>3, <1>4, <3>1
  <2>4. Offset(To(t)) = Offset(From(t + 1))
    <3>1. CASE From(t + 1) > NBlocks(job)
      BY <1>1, <2>1, <2>2, <3>1, BlockOffsets
    <3>2. CASE ~(From(t + 1) > NBlocks(job))
      BY <2>1, <3>2
    <3> QED
      BY <3>1, <3>2
  <2>5. From(t) >= To(t) => Offset(From(t)) = Offset(To(t))
    <3>1. CASE From(t + 1) > NBlocks(job)
      BY <1>1, <2>1, <2>2, <3>1, BlockOffsets
    <3>2. CASE ~(From(t + 1) > NBlocks(job)) /\ From(t) >= To(t)
      <4>1. From(t) = To(t)
        BY <1>2, <2>1, <2>2, <2>3, <3>2
      <4> QED
        BY <4>1
    <3> QED
      BY <3>1, <3>2
  <2> QED
    BY <1>1, <2>1, <2>2, <2>4, <2>5
<1>6. Offset(From(0)) = 0
  <2>1. From(0) = 0
    BY <1>2 DEF From
  <2> QED
    BY <2>1, BlockOffsets
<1>7. Offset(From(NThreads)) = SourceSize(job)
  <2>1. From(NThreads) \in Nat /\ From(NThreads) >= NBlocks(job)
    BY <1>1, <1>2, <1>3
  <2> QED
    BY <2>1, BlockOffsets
<1>8. ASSUME NEW b \in Blocks(job)
      PROVE  \E t \in Workers : From(t) <= b /\ b < To(t)
  <2>1. b \in Nat /\ b < NBlocks(job)
    BY <1>1 DEF Blocks
  <2>2. NThreads * TBlocks \in Nat
    BY <1>1, <1>2
  <2>3. b < NThreads * TBlocks
    BY <1>1, <1>2, <2>1, <2>2
  <2>4. PICK t \in 0 .. NThreads - 1 : t * TBlocks <= b /\ b < (t + 1) * TBlocks
    BY <1>1, <1>2, <2>1, <2>3, RangeOf
  <2>5. t \in Workers
    BY DEF Workers
  <2>6. b < To(t) /\ From(t) <= b
    BY <1>1, <1>3, <1>4, <1>5, <2>1, <2>4, <2>5
  <2> QED
    BY <2>5, <2>6
<1> QED
  BY <1>2, <1>3, <1>5, <1>6, <1>7, <1>8

\* When the workers begin, nothing is done.
LEMMA MeetRange ==
  ASSUME ControlInv, Phases, ReadyInv, RangeInv, DataInv, NEW p \in Participants, Meet(p)
  PROVE  RangeInv'
<1> SUFFICES ASSUME Started', ~InBlockOrder' PROVE RangeInv'
  BY DEF RangeInv
<1>1. UNCHANGED <<job, memcpyed, output_bytes, thread_giveup_code, dest, nblock_, tblock,
                  ntbytes, cbytes>>
  BY MeetFrame DEF contextVars, jobVars, bufferVars, localVars
<1>2. /\ ~InBlockOrder /\ StartOutput' = StartOutput /\ Part' = Part
      /\ \A b : Delivered(b)' = Delivered(b)
      /\ \A t \in Workers : From(t)' = From(t) /\ To(t)' = To(t)
  BY <1>1 DEF InBlockOrder, StartOutput, Part, Offset, From, To, TBlocks, Delivered, Final
<1>3. \A t \in Workers : pc[t] \in Body \/ pc'[t] \in Body => pc'[t] = pc[t]
  BY MeetFrame
<1>4. CASE Started /\ \A t \in Workers : Finished(t)' = Finished(t)
  <2>1. \A t \in Workers : pc'[t] \in Body => pc[t] \in Body /\ OnRange(t)
    BY <1>2, <1>3, <1>4 DEF RangeInv
  <2>2. \A t \in Workers : pc'[t] \in Body => OnRange(t)'
    BY <1>1, <1>2, <1>3, <2>1 DEF OnRange, Offset
  <2>3. {t \in Workers : Finished(t)}' = {t \in Workers : Finished(t)}
    BY <1>4
  <2> QED
    BY <1>1, <1>2, <1>4, <2>2, <2>3 DEF RangeInv
<1>5. CASE Awaited /\ pc[Master] \in {"init", "init_wait"} /\ \A t \in Workers : NotYet(t)'
  <2>1. output_bytes = StartOutput
    BY <1>5 DEF ReadyInv
  <2>2. \A t \in Workers : pc'[t] \notin Body /\ ~Finished(t)'
    BY <1>5 DEF NotYet, Finished, Body
  <2>3. {t \in Workers : Finished(t)}' = {}
    BY <2>2
  <2>4. SumOver(Part, {}, NThreads) = 0
    BY SumNone, NThreadsAssumption
  <2>5. StartOutput \in Nat
    BY JobFacts DEF StartOutput, MAX_OVERHEAD, DataInv, DataTypeOK
  <2>6. output_bytes' = StartOutput' + SumOver(Part', {t \in Workers : Finished(t)}', NThreads)
    BY <1>1, <1>2, <2>1, <2>3, <2>4, <2>5
  <2> QED
    BY <2>2, <2>6 DEF RangeInv
<1> QED
  BY <1>4, <1>5, MeetStarts

\* A worker delivers the blocks of its range one by one, and adds their
\* length when it is done.
LEMMA WorkerRange ==
  ASSUME NThreads > 0, ControlInv, DataInv, Phases, StageInv, DeltaInv, FlagInv, RangeInv,
         NEW t \in Workers, WorkerStep(t)
  PROVE  RangeInv'
<1> USE ParticipantFacts
<1> SUFFICES ASSUME Started', ~InBlockOrder' PROVE RangeInv'
  BY DEF RangeInv
<1>1. UNCHANGED <<job, memcpyed, end_threads>> /\ ~end_threads
  BY WorkerFrame DEF contextVars, Started
<1>2. Started /\ ~InBlockOrder /\ Called
  BY <1>1, WorkerStarts DEF InBlockOrder
<1>3. /\ pc \in [Participants -> MasterPcs \cup WorkerPcs]
      /\ nblock_ \in [Participants -> Nat] /\ cbytes \in [Participants -> Int]
      /\ ntbytes \in [Participants -> Int] /\ tblock \in [Participants -> Int]
      /\ thread_giveup_code \in Int /\ output_bytes \in Int
      /\ job \in Jobs /\ memcpyed \in BOOLEAN
      /\ \A u \in Workers : pc[u] \in OnBlock => nblock_[u] \in Blocks(job)
  BY DEF ControlInv, ControlTypeOK, DataInv, DataTypeOK
<1>4. \A u \in Workers \ {t} :
        /\ pc'[u] = pc[u] /\ nblock_'[u] = nblock_[u] /\ cbytes'[u] = cbytes[u]
        /\ tblock'[u] = tblock[u] /\ ntbytes'[u] = ntbytes[u] /\ Finished(u)' = Finished(u)
  BY <1>1, WorkerFrame, WorkerStarts
<1>5. ~Finished(t) /\ (Finished(t)' <=> pc'[t] \notin Body)
  BY <1>1, WorkerStarts
<1>6. /\ StartOutput' = StartOutput /\ Part' = Part
      /\ \A u \in Workers : From(u)' = From(u) /\ To(u)' = To(u)
      /\ \A b : Offset(b)' = Offset(b)
  BY <1>1 DEF InBlockOrder, StartOutput, Part, Offset, From, To, TBlocks
<1>7. memcpyed => job.compress
  <2>1. pc[Master] # "memcpyed"
    BY <1>2 DEF Started
  <2> QED
    BY <1>2, <2>1 DEF FlagInv
<1> DEFINE
      Kept == \A b \in Blocks(job) : Delivered(b) => Delivered(b)'
      Done == /\ \A u \in Workers : Finished(u) =>
                   \A b \in Blocks(job) : From(u) <= b /\ b < To(u) => Delivered(b)
              /\ output_bytes =
                   StartOutput + SumOver(Part, {u \in Workers : Finished(u)}, NThreads)
<1>8. /\ \A u \in Workers : pc[u] \in Body => OnRange(u)
      /\ thread_giveup_code > 0 => Done
  BY <1>2 DEF RangeInv
<1>9. ASSUME Kept, thread_giveup_code' > 0 => thread_giveup_code > 0,
             NEW u \in Workers \ {t}, pc'[u] \in Body
      PROVE  OnRange(u)'
  <2>1. pc[u] \in Body /\ OnRange(u)
    BY <1>4, <1>8, <1>9
  <2> PICK c : c = nblock_[u]
    OBVIOUS
  <2>2. pc[u] \in {"check", "fail"} => (Delivered(c) => Delivered(c)')
    BY <1>3, <1>9 DEF OnBlock
  <2>3. pc[u] \in {"check", "fail"} =>
          \/ cbytes'[u] = BlockLen(job, c) /\ Delivered(c)'
          \/ cbytes'[u] < 0 /\ ~job.compress /\ job.bad # {}
    BY <1>4, <2>1, <2>2 DEF OnRange
  <2>4. \A b \in Blocks(job) : From(u) <= b /\ b < nblock_[u] => Delivered(b)'
    BY <1>9, <2>1 DEF OnRange
  <2>6. /\ tblock'[u] = To(u) /\ nblock_'[u] >= From(u)
        /\ nblock_'[u] <= To(u) \/ nblock_'[u] = From(u)
        /\ pc'[u] \in OnBlock => nblock_'[u] < To(u)
        /\ ntbytes'[u] = Offset(nblock_'[u]) - Offset(From(u))
        /\ pc'[u] \in {"delta_wait", "delta"} =>
             cbytes'[u] = BlockLen(job, nblock_'[u]) /\ nblock_'[u] \notin job.bad
        /\ pc'[u] = "fail" => cbytes'[u] < 0
        /\ pc'[u] \in {"sum", "add"} /\ thread_giveup_code' > 0 => nblock_'[u] >= To(u)
    BY <1>4, <1>9, <2>1 DEF OnRange
  <2>7. nblock_'[u] = c /\ pc'[u] = pc[u]
    BY <1>4
  <2> QED
    BY <1>1, <1>4, <1>6, <2>3, <2>4, <2>6, <2>7 DEF OnRange
<1>10. ASSUME Kept, thread_giveup_code' > 0 => thread_giveup_code > 0,
              pc'[t] \in Body => OnRange(t)', thread_giveup_code' > 0 => Done'
       PROVE  RangeInv'
  <2>1. \A u \in Workers : pc'[u] \in Body => OnRange(u)'
    BY <1>9, <1>10
  <2> QED
    BY <1>10, <2>1 DEF RangeInv
<1>11. ASSUME Kept, UNCHANGED output_bytes, thread_giveup_code > 0, pc'[t] \in Body
       PROVE  Done'
  <2>1. {u \in Workers : Finished(u)}' = {u \in Workers : Finished(u)}
    BY <1>4, <1>5, <1>11
  <2>2. \A u \in Workers : Finished(u)' =>
          \A b \in Blocks(job) : From(u) <= b /\ b < To(u) => Delivered(b)'
    BY <1>4, <1>5, <1>8, <1>11
  <2> QED
    BY <1>1, <1>6, <1>8, <1>11, <2>1, <2>2
<1>12. ASSUME UNCHANGED dest PROVE Kept
  BY <1>1, <1>12 DEF Delivered, Final
<1>13. ASSUME NEW c \in Blocks(job), dest' = Write(dest, Final(c)),
              ~job.compress => c \notin job.bad
       PROVE  Kept /\ Delivered(c)'
  BY <1>1, <1>3, <1>13, DeliveryStays
<1> HIDE DEF Kept, Done
<1>14. CASE Begin(t)
  <2>1. /\ pc[t] = "begin" /\ pc'[t] = "loop" /\ nblock_'[t] = From(t) /\ tblock'[t] = To(t)
        /\ ntbytes'[t] = 0
        /\ UNCHANGED <<output_bytes, thread_giveup_code, dest>>
    BY <1>1, <1>2, <1>3, <1>14 DEF Begin, Goto, bufferVars, From, To
  <2>2. /\ From(t) \in Nat /\ Offset(From(t)) \in Nat /\ t \in 0 .. NThreads
    <3>1. t \in 0 .. NThreads
      BY NThreadsAssumption DEF Workers
    <3> QED
      BY <1>3, <3>1, RangeFacts, BlockOffsets
  <2>3. OnRange(t)'
    <3>1. \A b \in Blocks(job) : ~(From(t) <= b /\ b < From(t))
      BY <1>3, <2>2, JobFacts DEF Blocks
    <3> QED
      BY <1>1, <1>6, <2>1, <2>2, <3>1 DEF OnRange, OnBlock
  <2> QED
    BY <1>10, <1>11, <1>12, <2>1, <2>3 DEF Body
<1>15. CASE Loop(t)
  <2>1. /\ pc[t] = "loop" /\ pc'[t] \in {"block", "sum"}
        /\ pc'[t] = "block" => nblock_[t] < tblock[t]
        /\ pc'[t] = "sum" /\ thread_giveup_code > 0 => ~(nblock_[t] < tblock[t])
        /\ UNCHANGED <<output_bytes, thread_giveup_code, dest, nblock_, tblock, ntbytes, cbytes>>
    BY <1>3, <1>15 DEF Loop, MoreBlocks, Goto, jobVars, bufferVars, localVars
  <2>2. OnRange(t) /\ nblock_[t] \in Nat /\ tblock[t] \in Int
    BY <1>3, <1>8, <2>1 DEF Body
  <2>3. \A b \in Blocks(job) : Delivered(b) => Delivered(b)'
    BY <1>12, <2>1 DEF Kept
  <2>4. /\ tblock[t] = To(t) /\ nblock_[t] >= From(t)
        /\ nblock_[t] <= To(t) \/ nblock_[t] = From(t)
        /\ ntbytes[t] = Offset(nblock_[t]) - Offset(From(t))
        /\ \A b \in Blocks(job) : From(t) <= b /\ b < nblock_[t] => Delivered(b)'
    BY <2>2, <2>3 DEF OnRange
  <2>5. /\ pc'[t] \in OnBlock => nblock_[t] < To(t)
        /\ pc'[t] \in {"sum", "add"} /\ thread_giveup_code' > 0 => nblock_[t] >= To(t)
        /\ pc'[t] \notin {"delta_wait", "delta", "check", "fail"}
    BY <2>1, <2>2, <2>4 DEF OnBlock
  <2>6. OnRange(t)'
    BY <1>1, <1>6, <2>1, <2>4, <2>5 DEF OnRange
  <2> QED
    BY <1>10, <1>11, <1>12, <2>1, <2>6 DEF Body
<1>16. ASSUME pc[t] = "block", Kept, pc'[t] \in {"check", "delta_wait", "delta"},
              UNCHANGED <<output_bytes, thread_giveup_code, nblock_, tblock, ntbytes>>,
              pc'[t] \in {"delta_wait", "delta"} =>
                cbytes'[t] = BlockLen(job, nblock_[t]) /\ nblock_[t] \notin job.bad,
              pc'[t] = "check" =>
                \/ cbytes'[t] = BlockLen(job, nblock_[t]) /\ Delivered(nblock_[t])'
                \/ cbytes'[t] < 0 /\ ~job.compress /\ job.bad # {}
       PROVE  RangeInv'
  <2>1. OnRange(t) /\ nblock_[t] \in Nat
    BY <1>3, <1>8, <1>16 DEF Body
  <2>2. pc[t] \in OnBlock
    BY <1>16 DEF OnBlock
  <2>3. \A b \in Blocks(job) : Delivered(b) => Delivered(b)'
    BY <1>16 DEF Kept
  <2>4. pc'[t] = "check" =>
          \/ cbytes'[t] = BlockLen(job, nblock_[t])' /\ Delivered(nblock_[t])'
          \/ cbytes'[t] < 0 /\ ~job.compress /\ job.bad # {}
    <3>1. BlockLen(job, nblock_[t])' = BlockLen(job, nblock_[t])
      BY <1>1, <1>16
    <3> QED
      BY <1>16, <3>1
  <2>5. /\ tblock'[t] = To(t) /\ nblock_'[t] >= From(t)
        /\ nblock_'[t] <= To(t) \/ nblock_'[t] = From(t)
        /\ nblock_'[t] < To(t)
        /\ ntbytes'[t] = Offset(nblock_'[t]) - Offset(From(t))
        /\ \A b \in Blocks(job) : From(t) <= b /\ b < nblock_'[t] => Delivered(b)'
    BY <1>16, <2>1, <2>2, <2>3 DEF OnRange
  <2>6. pc'[t] \notin {"fail", "sum", "add"}
    BY <1>16
  <2>7. nblock_'[t] = nblock_[t]
    BY <1>16
  <2>8. OnRange(t)'
    BY <1>1, <1>6, <1>16, <2>4, <2>5, <2>6, <2>7 DEF OnRange
  <2> QED
    BY <1>10, <1>11, <1>16, <2>8 DEF Body
<1>17. CASE PlaceBlock(t)
  <2> PICK b : b = nblock_[t]
    OBVIOUS
  <2>1. /\ pc[t] = "block" /\ pc'[t] = "check" /\ cbytes'[t] = BlockLen(job, b)
        /\ memcpyed \/ b \notin job.bad
        /\ dest' = Write(dest, Final(b))
        /\ UNCHANGED <<output_bytes, thread_giveup_code, nblock_, tblock, ntbytes>>
    BY <1>3, <1>17 DEF PlaceBlock, Goto, jobVars, Final
  <2>2. b \in Blocks(job) /\ (~job.compress => b \notin job.bad)
    BY <1>3, <1>7, <2>1 DEF OnBlock
  <2>3. Kept /\ Delivered(b)'
    BY <1>13, <2>1, <2>2
  <2>4. Delivered(nblock_[t])'
    BY <2>1, <2>3
  <2> QED
    BY <1>16, <2>1, <2>3, <2>4
<1>18. CASE RejectBlock(t)
  <2>1. /\ pc[t] = "block" /\ pc'[t] = "check" /\ cbytes'[t] = -2
        /\ ~job.compress /\ job.bad # {}
        /\ UNCHANGED <<output_bytes, thread_giveup_code, nblock_, tblock, ntbytes, dest>>
    BY <1>3, <1>18 DEF RejectBlock, Goto, jobVars, bufferVars
  <2> QED
    BY <1>12, <1>16, <2>1
<1>19. CASE DeltaGate(t)
  <2> PICK b : b = nblock_[t]
    OBVIOUS
  <2>1. /\ pc[t] = "block" /\ cbytes'[t] = BlockLen(job, b)
        /\ ~job.compress /\ b \notin job.bad
        /\ UNCHANGED <<job, output_bytes, thread_giveup_code, nblock_, tblock, ntbytes>>
    BY <1>3, <1>19 DEF DeltaGate, jobVars, contextVars
  <2>2. b \in Blocks(job)
    BY <1>3, <2>1 DEF OnBlock
  <2>3. CASE dref_not_init /\ b # 0
    <3>1. pc'[t] = "delta_wait" /\ UNCHANGED dest
      BY <1>3, <1>19, <2>3 DEF DeltaGate, MustWait, Goto
    <3> QED
      BY <1>12, <1>16, <2>1, <3>1
  <2>4. CASE dref_not_init /\ b = 0
    <3>1. pc'[t] = "check" /\ dest' = Write(dest, Final(b))
      BY <1>3, <1>19, <2>1, <2>4 DEF DeltaGate, MustWait, Goto, Final
    <3>2. Kept /\ Delivered(b)'
      BY <1>13, <2>1, <2>2, <3>1
    <3>3. Delivered(nblock_[t])'
      BY <2>1, <3>2
    <3> QED
      BY <1>16, <2>1, <3>1, <3>2, <3>3
  <2>5. CASE ~dref_not_init /\ b # 0
    <3>1. pc'[t] = "delta" /\ UNCHANGED dest
      BY <1>3, <1>19, <2>5 DEF DeltaGate, MustWait, Goto
    <3> QED
      BY <1>12, <1>16, <2>1, <3>1
  <2>6. CASE ~dref_not_init /\ b = 0
    <3>1. pc'[t] = "check" /\ UNCHANGED dest
      BY <1>3, <1>19, <2>6 DEF DeltaGate, MustWait, Goto
    <3>2. pc[Master] \in InPool
      BY <1>2 DEF Started, InPool
    <3>3. Plain(job, 0) \in dest
      BY <1>1, <2>1, <2>6, <3>2 DEF DeltaInv
    <3>4. Delivered(b)
      BY <2>1, <2>6, <3>3 DEF Delivered, Final
    <3>5. Kept
      BY <1>12, <3>1
    <3>6. Delivered(b)'
      BY <2>2, <3>4, <3>5 DEF Kept
    <3>7. Delivered(nblock_[t])'
      BY <2>1, <3>6
    <3> QED
      BY <1>16, <2>1, <3>1, <3>5, <3>7
  <2> QED
    BY <2>3, <2>4, <2>5, <2>6
<1>20. CASE DeltaWake(t)
  <2>1. /\ pc[t] = "delta_wait" /\ pc'[t] = "delta"
        /\ UNCHANGED <<output_bytes, thread_giveup_code, dest, nblock_, tblock, ntbytes, cbytes>>
    BY <1>3, <1>20 DEF DeltaWake, Goto, jobVars, bufferVars, localVars
  <2>2. OnRange(t) /\ pc[t] \in OnBlock
    BY <1>8, <2>1 DEF Body, OnBlock
  <2>3. \A b \in Blocks(job) : Delivered(b) => Delivered(b)'
    BY <1>12, <2>1 DEF Kept
  <2>4. OnRange(t)'
    BY <1>1, <1>6, <2>1, <2>2, <2>3 DEF OnRange
  <2> QED
    BY <1>10, <1>11, <1>12, <2>1, <2>4 DEF Body
<1>21. CASE DeltaDecode(t)
  <2> PICK b : b = nblock_[t]
    OBVIOUS
  <2>1. /\ pc[t] = "delta" /\ pc'[t] = "check"
        /\ UNCHANGED <<job, output_bytes, thread_giveup_code, nblock_, tblock, ntbytes, cbytes>>
    BY <1>3, <1>21 DEF DeltaDecode, Goto, jobVars, localVars, contextVars
  <2>2. OnRange(t) /\ pc[t] \in OnBlock /\ b \in Blocks(job) /\ b \in Nat
    BY <1>3, <1>8, <2>1 DEF Body, OnBlock
  <2>3. cbytes[t] = BlockLen(job, b) /\ b \notin job.bad
    BY <2>1, <2>2 DEF OnRange
  <2>4. ~job.compress /\ ~memcpyed /\ ~dref_not_init
    BY <2>1 DEF StageInv, DeltaInv
  <2>5. Plain(job, 0) \in dest
    BY <1>1, <1>2, <2>4 DEF DeltaInv, Started, InPool
  <2>6. dest' = Write(dest, Final(b))
    BY <1>21, <2>4, <2>5 DEF DeltaDecode, Final, Plain
  <2>7. Kept /\ Delivered(b)'
    BY <1>13, <2>2, <2>3, <2>6
  <2>8. \A c \in Blocks(job) : Delivered(c) => Delivered(c)'
    BY <2>7 DEF Kept
  <2>9. nblock_'[t] = b
    BY <2>1
  <2>10. OnRange(t)'
    <3>1. /\ tblock'[t] = To(t) /\ b >= From(t)
          /\ b <= To(t) \/ b = From(t)
          /\ b < To(t)
          /\ ntbytes'[t] = Offset(b) - Offset(From(t))
          /\ \A c \in Blocks(job) : From(t) <= c /\ c < b => Delivered(c)'
          /\ cbytes'[t] = BlockLen(job, b)
      BY <2>1, <2>2, <2>3, <2>8 DEF OnRange
    <3> QED
      BY <1>1, <1>6, <2>1, <2>7, <2>9, <3>1 DEF OnRange
  <2> QED
    BY <1>10, <1>11, <2>1, <2>7, <2>10 DEF Body
<1>22. CASE Check(t)
  <2> DEFINE b == nblock_[t]
  <2>1. /\ pc[t] = "check" /\ pc'[t] \in {"sum", "fail", "loop"}
        /\ pc'[t] = "sum" => ~(thread_giveup_code > 0)
        /\ pc'[t] = "fail" => cbytes[t] < 0
        /\ pc'[t] = "loop" => /\ cbytes[t] >= 0 /\ nblock_'[t] = b + 1
                              /\ ntbytes'[t] = ntbytes[t] + cbytes[t]
        /\ pc'[t] # "loop" => UNCHANGED <<nblock_, ntbytes>>
        /\ UNCHANGED <<output_bytes, thread_giveup_code, tblock, cbytes, dest>>
    BY <1>2, <1>3, <1>22 DEF Check, Goto, jobVars, bufferVars
  <2>2. OnRange(t) /\ pc[t] \in OnBlock /\ b \in Blocks(job) /\ b \in Nat
    BY <1>3, <1>8, <2>1 DEF Body, OnBlock
  <2>3. \A c \in Blocks(job) : Delivered(c) => Delivered(c)'
    BY <1>12, <2>1 DEF Kept
  <2>4. /\ tblock[t] = To(t) /\ b >= From(t) /\ b < To(t)
        /\ ntbytes[t] = Offset(b) - Offset(From(t))
        /\ \A c \in Blocks(job) : From(t) <= c /\ c < b => Delivered(c)
        /\ \/ cbytes[t] = BlockLen(job, b) /\ Delivered(b)
           \/ cbytes[t] < 0 /\ ~job.compress /\ job.bad # {}
    BY <2>1, <2>2 DEF OnRange
  <2>5. CASE pc'[t] = "loop"
    <3>1. cbytes[t] = BlockLen(job, b) /\ Delivered(b)
      BY <1>3, <2>1, <2>4, <2>5
    <3>2. t \in 0 .. NThreads
      BY NThreadsAssumption DEF Workers
    <3>3. /\ From(t) \in Nat /\ To(t) \in Nat /\ Offset(b) \in Nat /\ Offset(From(t)) \in Nat
          /\ BlockLen(job, b) \in Nat
          /\ Offset(b + 1) = Offset(b) + BlockLen(job, b)
      BY <1>3, <2>2, <3>2, RangeFacts, BlockOffsets, JobFacts
    <3> HIDE DEF b
    <3>4. b + 1 >= From(t) /\ b + 1 <= To(t)
      BY <2>2, <2>4, <3>3
    <3>5. ntbytes'[t] = Offset(b + 1) - Offset(From(t))
      BY <2>1, <2>4, <2>5, <3>1, <3>3
    <3>6. ASSUME NEW c \in Blocks(job), From(t) <= c, c < b + 1 PROVE Delivered(c)'
      <4>1. c \in Nat
        BY <1>3, JobFacts DEF Blocks
      <4>2. c < b \/ c = b
        BY <2>2, <3>6, <4>1
      <4> QED
        BY <2>3, <2>4, <3>1, <3>6, <4>2
    <3>7. nblock_'[t] = b + 1
      BY <2>1, <2>5
    <3>8. OnRange(t)'
      BY <1>1, <1>6, <2>1, <2>4, <2>5, <3>4, <3>5, <3>6, <3>7 DEF OnRange, OnBlock
    <3> QED
      BY <1>10, <1>11, <1>12, <2>1, <3>8 DEF Body
  <2>6. CASE pc'[t] # "loop"
    <3>1. nblock_'[t] = b /\ ntbytes'[t] = ntbytes[t]
      BY <2>1, <2>6
    <3> HIDE DEF b
    <3>2. OnRange(t)'
      BY <1>1, <1>6, <2>1, <2>2, <2>3, <2>4, <2>6, <3>1 DEF OnRange, OnBlock
    <3> QED
      BY <1>10, <1>11, <1>12, <2>1, <3>2 DEF Body
  <2> QED
    BY <2>5, <2>6
<1>23. CASE Fail(t)
  <2>1. /\ pc[t] = "fail" /\ pc'[t] = "sum" /\ thread_giveup_code' = cbytes[t]
        /\ UNCHANGED <<output_bytes, dest, nblock_, tblock, ntbytes, cbytes>>
    BY <1>3, <1>23 DEF Fail, Goto, bufferVars, localVars
  <2>2. OnRange(t)
    BY <1>8, <2>1 DEF Body
  <2>3. cbytes[t] < 0 /\ cbytes[t] \in Int
    BY <1>3, <2>1, <2>2 DEF OnRange
  <2>4. ~(thread_giveup_code' > 0)
    BY <2>1, <2>3
  <2>5. \A b \in Blocks(job) : Delivered(b) => Delivered(b)'
    BY <1>12, <2>1 DEF Kept
  <2>6. OnRange(t)'
    BY <1>1, <1>6, <2>1, <2>2, <2>4, <2>5 DEF OnRange, OnBlock
  <2> QED
    BY <1>10, <1>12, <2>1, <2>4, <2>6
<1>24. CASE Sum(t) /\ thread_giveup_code > 0
  <2>1. /\ pc[t] = "sum" /\ pc'[t] = "add"
        /\ UNCHANGED <<output_bytes, thread_giveup_code, dest, nblock_, tblock, ntbytes, cbytes>>
    BY <1>2, <1>3, <1>24 DEF Sum, Goto, jobVars, bufferVars, localVars
  <2>2. OnRange(t)
    BY <1>8, <2>1 DEF Body
  <2>3. \A b \in Blocks(job) : Delivered(b) => Delivered(b)'
    BY <1>12, <2>1 DEF Kept
  <2>4. OnRange(t)'
    BY <1>1, <1>6, <2>1, <2>2, <2>3 DEF OnRange, OnBlock
  <2> QED
    BY <1>10, <1>11, <1>12, <2>1, <2>4 DEF Body
<1>25. CASE Sum(t) /\ ~(thread_giveup_code > 0)
  <2>1. /\ pc[t] = "sum" /\ pc'[t] = "finish" /\ UNCHANGED <<thread_giveup_code, dest>>
    BY <1>2, <1>3, <1>25 DEF Sum, Goto, jobVars, bufferVars
  <2> QED
    BY <1>10, <1>12, <1>25, <2>1 DEF Body
<1>26. CASE Add(t)
  <2>1. /\ pc[t] = "add" /\ pc'[t] = "finish" /\ UNCHANGED <<thread_giveup_code, dest>>
        /\ output_bytes' = output_bytes + ntbytes[t]
    BY <1>3, <1>26 DEF Add, Goto, bufferVars
  <2>2. Kept
    BY <1>12, <2>1
  <2>3. ASSUME thread_giveup_code > 0 PROVE Done'
    <3>1. /\ OnRange(t) /\ Done /\ nblock_[t] \in Nat
      BY <1>3, <1>8, <2>1, <2>3 DEF Body
    <3>2. nblock_[t] >= To(t) /\ (nblock_[t] <= To(t) \/ nblock_[t] = From(t))
      BY <2>1, <2>3, <3>1 DEF OnRange
    <3>3. t \in 0 .. NThreads - 1 /\ t \in 0 .. NThreads
      BY NThreadsAssumption DEF Workers
    <3>4. /\ From(t) \in Nat /\ To(t) \in Nat
          /\ From(t) >= To(t) => Offset(From(t)) = Offset(To(t))
      BY <1>3, <3>3, RangeFacts
    <3>5. Offset(nblock_[t]) = Offset(To(t))
      <4>1. CASE nblock_[t] <= To(t)
        <5>1. nblock_[t] = To(t)
          BY <3>1, <3>2, <3>4, <4>1
        <5> QED
          BY <5>1
      <4>2. CASE nblock_[t] = From(t)
        BY <3>2, <3>4, <4>2
      <4> QED
        BY <3>2, <4>1, <4>2
    <3>6. ntbytes[t] = Part[t]
      BY <3>1, <3>5 DEF OnRange, Part
    <3>7. \A k \in 0 .. NThreads - 1 : Part[k] \in Int
      <4>1. \A k \in Workers : k \in 0 .. NThreads
        BY NThreadsAssumption DEF Workers
      <4>2. \A k \in Workers : Offset(From(k)) \in Nat /\ Offset(To(k)) \in Nat
        BY <1>3, <4>1, RangeFacts, BlockOffsets
      <4> QED
        BY <4>2 DEF Part, Workers
    <3> DEFINE S == {u \in Workers : Finished(u)}
    <3>8. S' = S \cup {t} /\ t \notin S
      BY <1>4, <1>5, <2>1 DEF Body
    <3>9. SumOver(Part, S \cup {t}, NThreads) = SumOver(Part, S, NThreads) + Part[t]
      BY <3>3, <3>7, <3>8, NThreadsAssumption, SumAdd
    <3>10. SumOver(Part, S, NThreads) \in Int /\ StartOutput \in Nat
      <4>1. PICK s : SumsUp(s, Part, S, NThreads)
        BY <3>7, NThreadsAssumption, SumSteps
      <4>2. SumOver(Part, S, NThreads) \in Int
        BY <4>1, NThreadsAssumption DEF SumsUp
      <4> QED
        BY <1>3, <4>2, JobFacts DEF StartOutput, MAX_OVERHEAD
    <3> HIDE DEF S
    <3>11. output_bytes = StartOutput + SumOver(Part, S, NThreads)
      BY <3>1 DEF Done, S
    <3>12. output_bytes' = StartOutput + SumOver(Part, S', NThreads)
      <4>1. Part[t] \in Int
        BY <3>3, <3>7
      <4> QED
        BY <2>1, <3>6, <3>8, <3>9, <3>10, <3>11, <4>1
    <3>13. \A b \in Blocks(job) : From(t) <= b /\ b < To(t) => Delivered(b)'
      <4> SUFFICES ASSUME NEW b \in Blocks(job), From(t) <= b, b < To(t) PROVE Delivered(b)'
        OBVIOUS
      <4>1. b \in Nat
        BY <1>3, JobFacts DEF Blocks
      <4>2. b < nblock_[t]
        BY <3>1, <3>2, <3>4, <4>1
      <4> QED
        BY <2>2, <3>1, <4>2 DEF OnRange, Kept
    <3>14. \A u \in Workers : Finished(u)' =>
             \A b \in Blocks(job) : From(u) <= b /\ b < To(u) => Delivered(b)'
      BY <1>4, <2>2, <3>1, <3>13 DEF Done, Kept
    <3>15. output_bytes' = StartOutput' + SumOver(Part', {u \in Workers : Finished(u)}', NThreads)
      BY <1>6, <3>12 DEF S
    <3> QED
      BY <1>1, <1>6, <3>14, <3>15 DEF Done
  <2> QED
    BY <1>10, <2>1, <2>2, <2>3 DEF Body
<1>27. ~(CompressBlock(t) \/ Commit(t) \/ CopyBlock(t))
  BY <1>2 DEF CompressBlock, Commit, CopyBlock, StageInv
<1> QED
  BY <1>14, <1>15, <1>17, <1>18, <1>19, <1>20, <1>21, <1>22, <1>23, <1>24, <1>25, <1>26, <1>27
     DEF WorkerStep
-----------------------------------------------------------------------------
(* In the thread of the caller *)

\* Where the blocks of a chunk that was compressed are found again
LEMMA AllReadable ==
  ASSUME job \in Jobs, InBlockOrder, NEW starts, NEW buf, NEW n \in Int,
         \A b \in Blocks(job) :
           /\ Packed(job, b, starts[b]) \in buf
           /\ starts[b] >= FirstOutput(job)
           /\ starts[b] + job.csize[b] <= n
  PROVE  Readable(job, memcpyed, starts, buf, n) = Blocks(job)
  BY DEF Readable, InBlockOrder

\* A chunk whose blocks all shrink and fit is no failure.
LEMMA AllFit ==
  ASSUME NEW j \in Jobs, \A b \in Blocks(j) : j.csize[b] > 0, With(j, Blocks(j)) <= j.destsize
  PROVE  ~Caller!Failed(j) /\ ~Caller!Tight(j) /\ Caller!PackedSize(j) = With(j, Blocks(j))
<1>1. \A b \in Blocks(j) : j.csize[b] \in Int /\ ~(j.csize[b] < 0) /\ j.csize[b] # 0
  BY JobFacts
<1>2. Small(j) = Blocks(j)
  BY DEF Small
<1>3. With(j, Small(j)) \in Int /\ j.destsize \in Int
  BY WithFacts, JobFacts
<1>4. ~(With(j, Small(j)) > j.destsize)
  BY <1>2, <1>3
<1> QED
  BY <1>1, <1>4, CallTerms

\* One block more of a chunk that is compressed in the caller's thread
LEMMA SerialPack ==
  ASSUME DataInv, FlagInv, SerialInv, SerialBlock, InBlockOrder, ControlInv
  PROVE  SerialInv' /\ ResultInv'
<1> USE ParticipantFacts
<1>1. /\ job \in Jobs /\ job.destsize \in Nat /\ FirstOutput(job) \in Nat
      /\ NBlocks(job) \in Nat /\ Blocks(job) = 0 .. NBlocks(job) - 1
      /\ \A i \in Blocks(job) : job.csize[i] \in Int
      /\ pc \in [Participants -> MasterPcs \cup WorkerPcs]
      /\ nblock_ \in [Participants -> Nat] /\ ntbytes \in [Participants -> Int]
      /\ bstarts \in [Blocks(job) -> Int]
  BY JobFacts DEF DataInv, DataTypeOK, ControlInv, ControlTypeOK, Blocks
<1> PICK b : b = nblock_[Master]
  OBVIOUS
<1> PICK at : at = ntbytes[Master]
  OBVIOUS
<1>2. /\ pc[Master] = "serial" /\ b < NBlocks(job) /\ b \in Nat /\ at \in Int /\ b \in Blocks(job)
      /\ job.compress /\ ~memcpyed
  BY <1>1 DEF SerialBlock, InBlockOrder
<1>3. UNCHANGED <<job, memcpyed, end_threads>> /\ InBlockOrder'
  BY DEF SerialBlock, contextVars, InBlockOrder
<1>4. /\ at = With(job, 0 .. b - 1)
      /\ b > 0 => at <= job.destsize
      /\ \A r \in dest : r.at \in Int /\ r.len \in Int /\ r.at + r.len <= at
      /\ \A i \in 0 .. b - 1 :
           /\ job.csize[i] > 0 /\ Packed(job, i, bstarts[i]) \in dest
           /\ bstarts[i] >= FirstOutput(job)
  BY <1>2, CallTerms DEF SerialInv
<1>5. /\ 0 .. b - 1 \in SUBSET Small(job) /\ b \notin 0 .. b - 1
      /\ 0 .. b = (0 .. b - 1) \cup {b}
      /\ 0 .. b - 1 # {} => b > 0
  BY <1>1, <1>2, <1>4 DEF Small
<1> DEFINE tight == at + job.csize[b] > job.destsize
           c == IF tight THEN 0 ELSE job.csize[b]
<1>6. /\ bstarts' = [bstarts EXCEPT ![b] = at]
      /\ dest' = IF c <= 0 THEN dest ELSE Write(dest, Packed(job, b, at))
      /\ c <= 0 => /\ ntbytes' = [ntbytes EXCEPT ![Master] = c]
                   /\ Goto(Master, "job_done")
      /\ ~(c <= 0) =>
           /\ ntbytes' = [ntbytes EXCEPT ![Master] = at + c]
           /\ nblock_' = [nblock_ EXCEPT ![Master] = b + 1]
           /\ Goto(Master, IF b + 1 = NBlocks(job) THEN "job_done" ELSE "serial")
  BY <1>2 DEF SerialBlock
<1>7. c \in Int /\ job.csize[b] \in Int
  BY <1>1, <1>2
<1>8. CASE c <= 0
  <2>1. pc'[Master] = "job_done" /\ ntbytes'[Master] = c
    BY <1>1, <1>6, <1>8 DEF Goto
  <2>2. c < 0 => Caller!Failed(job)
    BY <1>1, <1>2, CallTerms
  <2>3. c = 0 => Caller!Tight(job)
    <3> SUFFICES ASSUME c = 0 PROVE Caller!Tight(job)
      OBVIOUS
    <3>1. job.csize[b] = 0 \/ at + job.csize[b] > job.destsize
      OBVIOUS
    <3>2. \/ job.csize[b] = 0
          \/ With(job, 0 .. b - 1) + job.csize[b] > job.destsize
      BY <1>4, <3>1
    <3>3. 0 .. b - 1 # {} => With(job, 0 .. b - 1) <= job.destsize
      BY <1>4, <1>5
    <3> HIDE DEF c
    <3> QED
      BY <1>1, <1>2, <1>5, <3>2, <3>3, NoRoomIsTight
  <2> HIDE DEF c
  <2> QED
    BY <1>3, <1>7, <1>8, <2>1, <2>2, <2>3 DEF SerialInv, ResultInv
<1>9. CASE ~(c <= 0)
  <2>1. /\ c = job.csize[b] /\ c > 0 /\ at + job.csize[b] <= job.destsize
    BY <1>1, <1>2, <1>7, <1>9
  <2>2. /\ dest' = Write(dest, Packed(job, b, at))
        /\ ntbytes'[Master] = at + job.csize[b] /\ nblock_'[Master] = b + 1
        /\ pc'[Master] = IF b + 1 = NBlocks(job) THEN "job_done" ELSE "serial"
    BY <1>1, <1>6, <1>9, <2>1 DEF Goto
  <2> HIDE DEF c
  <2> DEFINE new == Packed(job, b, at)
  <2>3. new.at = at /\ new.len = job.csize[b]
    BY DEF Packed, Region
  <2> HIDE DEF new
  <2>4. \A r \in dest : Disjoint(r, new)
    BY <1>4, <2>3 DEF Disjoint
  <2>5. \A r : r \in dest' <=> r \in dest \/ r = new
    BY <2>2, <2>4, WriteBeside DEF new
  <2>6. at + job.csize[b] = With(job, 0 .. b)
    <3>1. 0 .. b - 1 \in SUBSET Blocks(job)
      BY <1>5 DEF Small
    <3>2. With(job, (0 .. b - 1) \cup {b}) = With(job, 0 .. b - 1) + job.csize[b]
      BY <1>1, <1>2, <1>5, <3>1, WithFacts
    <3> QED
      BY <1>4, <1>5, <3>2
  <2>7. \A r \in dest' : r.at \in Int /\ r.len \in Int /\ r.at + r.len <= at + job.csize[b]
    <3> TAKE r \in dest'
    <3>1. CASE r \in dest
      BY SMTT(60), <1>2, <1>4, <1>7, <2>1, <3>1
    <3>2. CASE r = new
      BY <1>2, <1>7, <2>3, <3>2
    <3> QED
      BY <2>5, <3>1, <3>2
  <2>8. at >= FirstOutput(job)
    <3>1. With(job, 0 .. b - 1) >= FirstOutput(job)
      BY <1>1, <1>5, WithFacts
    <3> QED
      BY <1>4, <3>1
  <2>9. \A i \in 0 .. b :
           /\ job.csize[i] > 0 /\ Packed(job, i, bstarts'[i]) \in dest'
           /\ bstarts'[i] >= FirstOutput(job)
    <3> TAKE i \in 0 .. b
    <3>1. CASE i = b
      <4>1. bstarts'[b] = at
        BY <1>1, <1>2, <1>6
      <4> QED
        BY <2>1, <2>5, <2>8, <3>1, <4>1 DEF new
    <3>2. CASE i # b
      <4>1. i \in 0 .. b - 1 /\ bstarts'[i] = bstarts[i]
        BY <1>1, <1>2, <1>6, <3>2
      <4> QED
        BY <1>4, <2>5, <4>1
    <3> QED
      BY <3>1, <3>2
  <2>10. CASE b + 1 = NBlocks(job)
    <3>1. Blocks(job) = 0 .. b
      BY <1>1, <1>2, <2>10
    <3>2. ~Caller!Failed(job) /\ ~Caller!Tight(job) /\ Caller!PackedSize(job) = at + job.csize[b]
      BY <1>1, <2>1, <2>6, <2>9, <3>1, AllFit
    <3>3. \A i \in Blocks(job) : bstarts'[i] + job.csize[i] <= at + job.csize[b]
      <4> TAKE i \in Blocks(job)
      <4>1. Packed(job, i, bstarts'[i]) \in dest'
        BY <2>9, <3>1
      <4>2. /\ Packed(job, i, bstarts'[i]).at = bstarts'[i]
            /\ Packed(job, i, bstarts'[i]).len = job.csize[i]
        BY DEF Packed, Region
      <4> QED
        BY <2>7, <4>1, <4>2
    <3>4. at + job.csize[b] \in Int
      BY <1>2, <1>7
    <3>5. Readable(job, memcpyed, bstarts', dest', at + job.csize[b]) = Blocks(job)
      BY <1>1, <2>9, <3>1, <3>3, <3>4, AllReadable
    <3>6. pc'[Master] = "job_done"
      BY <2>2, <2>10
    <3>7. at + job.csize[b] > 0
      BY <1>1, <1>2, <1>7, <2>1, <2>8
    <3> QED
      BY <1>3, <2>2, <3>2, <3>4, <3>5, <3>6, <3>7 DEF SerialInv, ResultInv
  <2>11. CASE b + 1 # NBlocks(job)
    <3>1. b + 1 < NBlocks(job) /\ b + 1 - 1 = b /\ pc'[Master] = "serial"
      BY <1>1, <1>2, <2>2, <2>11
    <3>2. at + job.csize[b] = Caller!SizeWith(job, 0 .. b)
      BY <2>6, CallTerms
    <3>3. ResultInv'
      BY <3>1 DEF ResultInv
    <3>4. nblock_'[Master] = b + 1 /\ nblock_'[Master] - 1 = b /\ job' = job
      <4>1. nblock_'[Master] = b + 1
        BY <2>2
      <4>2. nblock_'[Master] - 1 = b
        BY <1>2, <4>1
      <4>3. job' = job
        BY <1>3
      <4> QED
        BY <4>1, <4>2, <4>3
    <3>5. (nblock_[Master] < NBlocks(job))'
      BY <2>2, <3>1, <3>4
    <3>6. (ntbytes[Master] = Caller!SizeWith(job, 0 .. nblock_[Master] - 1))'
      BY <2>2, <3>2, <3>4
    <3>7. (nblock_[Master] > 0 => ntbytes[Master] <= job.destsize)'
      BY <2>1, <2>2, <3>4
    <3>8. (\A r \in dest : r.at \in Int /\ r.len \in Int /\ r.at + r.len <= ntbytes[Master])'
      BY <2>2, <2>7
    <3>9. (\A i \in 0 .. nblock_[Master] - 1 :
             /\ job.csize[i] > 0 /\ Packed(job, i, bstarts[i]) \in dest
             /\ bstarts[i] >= FirstOutput(job))'
      BY <2>9, <3>4
    <3> QED
      BY <1>3, <3>3, <3>5, <3>6, <3>7, <3>8, <3>9 DEF SerialInv
  <2> QED
    BY <2>10, <2>11
<1> QED
  BY <1>8, <1>9

\* One block more that the caller's thread copies or decompresses
LEMMA SerialPlace ==
  ASSUME DataInv, FlagInv, SerialInv, SerialBlock, ~InBlockOrder, ControlInv
  PROVE  SerialInv' /\ ResultInv'
<1> USE ParticipantFacts
<1>1. /\ job \in Jobs /\ NBlocks(job) \in Nat /\ Blocks(job) = 0 .. NBlocks(job) - 1
      /\ \A i \in Blocks(job) : BlockLen(job, i) \in Nat
      /\ pc \in [Participants -> MasterPcs \cup WorkerPcs]
      /\ nblock_ \in [Participants -> Nat] /\ ntbytes \in [Participants -> Int]
  BY JobFacts DEF DataInv, DataTypeOK, ControlInv, ControlTypeOK, Blocks
<1> PICK b : b = nblock_[Master]
  OBVIOUS
<1> PICK at : at = ntbytes[Master]
  OBVIOUS
<1>2. /\ pc[Master] = "serial" /\ b < NBlocks(job) /\ b \in Nat /\ at \in Int /\ b \in Blocks(job)
  BY <1>1 DEF SerialBlock
<1>3. UNCHANGED <<job, memcpyed, end_threads>> /\ ~InBlockOrder'
  BY DEF SerialBlock, contextVars, InBlockOrder
<1>4. /\ at = StartOutput + Offset(b)
      /\ \A i \in 0 .. b - 1 : Delivered(i)
  BY <1>2 DEF SerialInv
<1>5. job.compress <=> memcpyed
  <2>1. ~end_threads
    BY <1>2, NotEnding
  <2>2. Called /\ memcpyed \in BOOLEAN
    BY <1>2, <2>1 DEF Called, DataInv, DataTypeOK
  <2> QED
    BY <1>2, <2>2 DEF FlagInv, InBlockOrder
<1>6. StartOutput' = StartOutput /\ \A i : Offset(i)' = Offset(i)
  BY <1>3 DEF StartOutput, Offset
<1>7. CASE ~job.compress /\ b \in job.bad
  <2>1. pc'[Master] = "job_done" /\ ntbytes'[Master] = -2
    BY <1>1, <1>7 DEF SerialBlock, Goto
  <2>2. ~job.compress /\ job.bad # {}
    BY <1>7
  <2> QED
    BY <1>3, <2>1, <2>2 DEF SerialInv, ResultInv
<1>8. CASE ~(~job.compress /\ b \in job.bad)
  <2>1. BlockLen(job, b) > 0
    <3>1. IsJob(job) /\ BlockSize \in Nat \ {0}
      BY <1>1, JobsAssumption, BlockSizeAssumption
    <3> QED
      BY <3>1 DEF IsJob, BlockLen
  <2>2. /\ dest' = Write(dest, Final(b))
        /\ ntbytes'[Master] = at + BlockLen(job, b) /\ nblock_'[Master] = b + 1
        /\ pc'[Master] = IF b + 1 = NBlocks(job) THEN "job_done" ELSE "serial"
    <3>1. ~(BlockLen(job, b) <= 0)
      BY <1>1, <1>2, <2>1
    <3> QED
      BY <1>1, <1>5, <1>8, <3>1 DEF SerialBlock, Goto, Final
  <2>3. \A i \in Blocks(job) : Delivered(i) \/ i = b => Delivered(i)'
    BY <1>1, <1>2, <1>3, <1>8, <2>2, DeliveryStays
  <2>4. \A i \in 0 .. b : Delivered(i)'
    BY <1>1, <1>2, <1>4, <2>3
  <2>5. at + BlockLen(job, b) = StartOutput + Offset(b + 1)
    <3>1. Offset(b + 1) = Offset(b) + BlockLen(job, b) /\ Offset(b) \in Nat /\ StartOutput \in Nat
      BY <1>1, <1>2, BlockOffsets, JobFacts DEF StartOutput, MAX_OVERHEAD
    <3> QED
      BY <1>1, <1>2, <1>4, <3>1
  <2>6. CASE b + 1 = NBlocks(job)
    <3>1. Offset(b + 1) = SourceSize(job) /\ Blocks(job) = 0 .. b /\ pc'[Master] = "job_done"
      BY <1>1, <1>2, <2>2, <2>6, BlockOffsets
    <3> QED
      BY <1>3, <1>6, <2>2, <2>4, <2>5, <3>1 DEF SerialInv, ResultInv
  <2>7. CASE b + 1 # NBlocks(job)
    <3>1. b + 1 < NBlocks(job) /\ b + 1 - 1 = b /\ pc'[Master] = "serial"
      BY <1>1, <1>2, <2>2, <2>7
    <3>2. ResultInv'
      BY <3>1 DEF ResultInv
    <3>3. nblock_'[Master] = b + 1 /\ nblock_'[Master] - 1 = b /\ job' = job
      <4>1. nblock_'[Master] = b + 1
        BY <2>2
      <4>2. nblock_'[Master] - 1 = b
        BY <1>2, <4>1
      <4>3. job' = job
        BY <1>3
      <4> QED
        BY <4>1, <4>2, <4>3
    <3>4. (nblock_[Master] < NBlocks(job))'
      BY <3>1, <3>3
    <3>5. (ntbytes[Master] = StartOutput + Offset(nblock_[Master]))'
      BY <1>3, <2>2, <2>5, <3>3 DEF StartOutput, Offset
    <3>6. (\A i \in 0 .. nblock_[Master] - 1 : Delivered(i))'
      <4>1. 0 .. nblock_'[Master] - 1 = 0 .. b
        BY <3>3
      <4> QED
        BY <2>4, <4>1 DEF Delivered
    <3> QED
      BY <1>3, <3>2, <3>4, <3>5, <3>6 DEF SerialInv
  <2> QED
    BY <2>6, <2>7
<1> QED
  BY <1>7, <1>8

\* A chunk that is being compressed has blocks: an empty source is copied.
LEMMA NotEmpty ==
  ASSUME DataInv, FlagInv, Called, InBlockOrder
  PROVE  NBlocks(job) \in Nat /\ NBlocks(job) > 0 /\ 0 \in Blocks(job)
<1>1. job \in Jobs /\ NBlocks(job) \in Nat /\ IsJob(job)
  BY JobFacts, JobsAssumption DEF DataInv, DataTypeOK
<1>2. job.compress /\ ~job.memcpyed
  BY DEF FlagInv, InBlockOrder
<1>3. NBlocks(job) # 0
  BY <1>1, <1>2 DEF IsJob
<1> QED
  BY <1>1, <1>3 DEF Blocks

\* A job in the caller's thread begins with its first block, if there is one.
LEMMA SerialBegins ==
  ASSUME ControlInv, DataInv, FlagInv, ReadyInv, DoJob
  PROVE  SerialInv' /\ ResultInv'
<1> USE ParticipantFacts
<1>1. /\ job \in Jobs /\ NBlocks(job) \in Nat /\ Blocks(job) = 0 .. NBlocks(job) - 1
      /\ pc \in [Participants -> MasterPcs \cup WorkerPcs]
      /\ nblock_ \in [Participants -> Nat] /\ ntbytes \in [Participants -> Int]
      /\ FirstOutput(job) \in Nat /\ StartOutput \in Nat
  BY JobFacts DEF DataInv, DataTypeOK, ControlInv, ControlTypeOK, Blocks, StartOutput,
       MAX_OVERHEAD
<1>2. pc[Master] = "do_job" /\ ~end_threads /\ Called /\ Awaited
  BY NotEnding DEF DoJob, Called, Awaited
<1>3. output_bytes = StartOutput /\ (InBlockOrder => dest = {})
  BY <1>2 DEF ReadyInv
<1>4. /\ UNCHANGED <<job, memcpyed, end_threads, bstarts, dest>>
      /\ InBlockOrder' = InBlockOrder /\ StartOutput' = StartOutput
  BY DEF DoJob, contextVars, bufferVars, InBlockOrder, StartOutput
<1>5. CASE ~RunsSerially
  BY <1>1, <1>5 DEF DoJob, Goto, SerialInv, ResultInv
<1>6. CASE RunsSerially /\ NBlocks(job) # 0
  <2>1. /\ pc'[Master] = "serial" /\ nblock_'[Master] = 0 /\ ntbytes'[Master] = StartOutput
        /\ 0 .. nblock_'[Master] - 1 = {}
    BY <1>1, <1>3, <1>6 DEF DoJob, Goto
  <2>2. ResultInv'
    BY <2>1 DEF ResultInv
  <2>3. InBlockOrder => StartOutput = FirstOutput(job)
    BY DEF InBlockOrder, StartOutput
  <2>4. (nblock_[Master] < NBlocks(job))'
    BY <1>1, <1>4, <1>6, <2>1
  <2>5. InBlockOrder => (ntbytes[Master] = Caller!SizeWith(job, 0 .. nblock_[Master] - 1))'
    <3>1. Caller!SizeWith(job, {}) = FirstOutput(job)
      BY <1>1, CallTerms, WithFacts
    <3> QED
      BY <1>4, <2>1, <2>3, <3>1
  <2>6. InBlockOrder => dest' = {}
    BY <1>3, <1>4
  <2>7. (ntbytes[Master] = StartOutput + Offset(nblock_[Master]))'
    <3>1. Offset(0) = 0
      BY <1>1, BlockOffsets
    <3>2. (Offset(nblock_[Master]))' = 0
      BY <1>4, <2>1, <3>1 DEF Offset
    <3> QED
      BY <1>1, <1>4, <2>1, <3>2
  <2> QED
    BY <1>4, <2>1, <2>2, <2>4, <2>5, <2>6, <2>7 DEF SerialInv
<1>7. CASE RunsSerially /\ NBlocks(job) = 0
  <2>1. pc'[Master] = "job_done" /\ ntbytes'[Master] = StartOutput
    BY <1>1, <1>3, <1>7 DEF DoJob, Goto
  <2>2. ~InBlockOrder /\ Blocks(job) = {}
    BY <1>1, <1>2, <1>7, NotEmpty
  <2>3. SourceSize(job) = 0
    BY <1>1, <1>7, BlockOffsets DEF Offset
  <2>4. (ntbytes[Master] = StartOutput + SourceSize(job))'
    BY <1>1, <1>4, <2>1, <2>3
  <2> QED
    BY <1>4, <2>1, <2>2, <2>4 DEF SerialInv, ResultInv
<1> QED
  BY <1>5, <1>6, <1>7

\* What the workers made of a job that compresses
LEMMA PoolPacked ==
  ASSUME NThreads > 0, ControlInv, DataInv, Phases, FlagInv, StageInv, PlaceInv, GiveUpInv,
         PackInv, TakeResult, InBlockOrder
  PROVE  ResultInv'
<1> USE ParticipantFacts
<1>1. /\ job \in Jobs /\ NBlocks(job) \in Nat /\ Blocks(job) = 0 .. NBlocks(job) - 1
      /\ FirstOutput(job) \in Nat /\ \A b \in Blocks(job) : job.csize[b] \in Int
      /\ thread_giveup_code \in Int /\ output_bytes \in Int /\ thread_nblock \in Int
      /\ pc \in [Participants -> MasterPcs \cup WorkerPcs] /\ ntbytes \in [Participants -> Int]
      /\ bstarts \in [Blocks(job) -> Int]
  BY SMTT(60), JobFacts DEF DataInv, DataTypeOK, ControlInv, ControlTypeOK, Blocks
<1>2. Started /\ \A t \in Workers : Finished(t) /\ pc[t] \notin Body
  BY AllFinished
<1>3. InOrder /\ Called
  BY <1>2, StartedInPool DEF Called, TakeResult, Started
<1>4. UNCHANGED <<job, memcpyed, end_threads, bstarts, dest>> /\ InBlockOrder'
  BY DEF TakeResult, contextVars, bufferVars, InBlockOrder
<1>5. ntbytes'[Master] = IF thread_giveup_code <= 0 THEN thread_giveup_code ELSE output_bytes
  BY <1>1 DEF TakeResult
<1>6. CASE thread_giveup_code <= 0
  <2>1. /\ thread_giveup_code < 0 => Caller!Failed(job)
        /\ thread_giveup_code = 0 => Caller!Tight(job)
    BY <1>2, <1>6 DEF GiveUpInv, InBlockOrder
  <2>2. ~(thread_giveup_code > 0) /\ ntbytes'[Master] = thread_giveup_code
    BY <1>1, <1>5, <1>6
  <2> QED
    BY <1>4, <2>1, <2>2 DEF ResultInv
<1>7. CASE ~(thread_giveup_code <= 0)
  <2>1. thread_giveup_code > 0 /\ ntbytes'[Master] = output_bytes
    BY <1>1, <1>5, <1>7
  <2>2. 0 \in Workers
    BY NThreadsAssumption DEF Workers
  <2>3. thread_nblock >= NBlocks(job)
    BY <1>2, <1>3, <2>1, <2>2 DEF PackInv
  <2>4. \A t \in Workers : ~Claimed(t) /\ pc[t] # "copy"
    BY <1>2 DEF Claimed, Body
  <2>5. Reserved = dest
    BY <2>4 DEF Reserved
  <2>6. \A b \in Blocks(job) : b \in Taken
    <3> TAKE b \in Blocks(job)
    <3>1. b <= thread_nblock
      BY <1>1, <2>3
    <3> QED
      BY <1>2, <1>3, <2>1, <2>4, <3>1 DEF PackInv
  <2>7. \A r \in dest : /\ r.block \in Blocks(job) /\ job.csize[r.block] > 0
                        /\ r = Packed(job, r.block, bstarts[r.block])
                        /\ r.at >= FirstOutput(job) /\ r.at + r.len <= output_bytes
    BY <1>2, <1>3, <2>5 DEF PackInv, PlaceInv
  <2>8. Taken = Blocks(job)
    BY <2>5, <2>6, <2>7 DEF Taken
  <2>9. ASSUME NEW b \in Blocks(job)
        PROVE  /\ job.csize[b] > 0 /\ Packed(job, b, bstarts[b]) \in dest
               /\ bstarts[b] >= FirstOutput(job) /\ bstarts[b] + job.csize[b] <= output_bytes
    <3>1. PICK r \in dest : r.block = b
      BY <2>5, <2>6 DEF Taken
    <3>2. job.csize[b] > 0 /\ r = Packed(job, b, bstarts[b])
      BY <2>7, <3>1
    <3>3. r.at = bstarts[b] /\ r.len = job.csize[b]
      BY <3>2 DEF Packed, Region
    <3> QED
      BY <2>7, <3>2, <3>3
  <2>10. output_bytes = With(job, Blocks(job)) /\ output_bytes <= job.destsize
    <3>1. Blocks(job) # {}
      BY <1>3, NotEmpty
    <3>2. output_bytes = Caller!SizeWith(job, Taken) /\ (Taken # {} => output_bytes <= job.destsize)
      BY <1>2, <1>3 DEF PackInv
    <3> QED
      BY <2>8, <3>1, <3>2, CallTerms
  <2>11. ~Caller!Failed(job) /\ ~Caller!Tight(job) /\ Caller!PackedSize(job) = output_bytes
    BY <1>1, <2>9, <2>10, AllFit
  <2>12. Readable(job, memcpyed, bstarts, dest, output_bytes) = Blocks(job)
    BY <1>1, <2>9, AllReadable
  <2>13. output_bytes > 0
    <3>1. 0 \in Blocks(job)
      BY <1>3, NotEmpty
    <3>2. /\ job.csize[0] > 0 /\ bstarts[0] >= FirstOutput(job)
          /\ bstarts[0] + job.csize[0] <= output_bytes
      BY <2>9, <3>1
    <3>3. job.csize[0] \in Int /\ bstarts[0] \in Int
      BY <1>1, <3>1
    <3> QED
      BY <1>1, <3>2, <3>3
  <2>14. ~(output_bytes < 0) /\ output_bytes # 0
    BY <1>1, <2>13
  <2> QED
    BY <1>4, <2>1, <2>11, <2>12, <2>14 DEF ResultInv
<1> QED
  BY <1>6, <1>7

\* What they made of a job that copies or decompresses
LEMMA PoolPlaced ==
  ASSUME NThreads > 0, ControlInv, DataInv, Phases, StageInv, GiveUpInv, RangeInv,
         TakeResult, ~InBlockOrder
  PROVE  ResultInv'
<1> USE ParticipantFacts
<1>1. /\ job \in Jobs /\ SourceSize(job) \in Nat /\ StartOutput \in Nat
      /\ thread_giveup_code \in Int /\ output_bytes \in Int
      /\ pc \in [Participants -> MasterPcs \cup WorkerPcs] /\ ntbytes \in [Participants -> Int]
  BY JobFacts DEF DataInv, DataTypeOK, ControlInv, ControlTypeOK, StartOutput, MAX_OVERHEAD
<1>2. Started /\ \A t \in Workers : Finished(t) /\ pc[t] \notin Body
  BY AllFinished
<1>3. /\ UNCHANGED <<job, memcpyed, end_threads, bstarts, dest>> /\ ~InBlockOrder'
      /\ StartOutput' = StartOutput
  BY DEF TakeResult, contextVars, bufferVars, InBlockOrder, StartOutput
<1>4. ntbytes'[Master] = IF thread_giveup_code <= 0 THEN thread_giveup_code ELSE output_bytes
  BY <1>1 DEF TakeResult
<1>5. CASE thread_giveup_code <= 0
  <2>1. ~job.compress /\ job.bad # {} /\ thread_giveup_code < 0
    BY <1>2, <1>5 DEF GiveUpInv, InBlockOrder
  <2> QED
    BY <1>3, <1>4, <1>5, <2>1 DEF ResultInv
<1>6. CASE ~(thread_giveup_code <= 0)
  <2>1. thread_giveup_code > 0 /\ ntbytes'[Master] = output_bytes
    BY <1>1, <1>4, <1>6
  <2>2. /\ \A t \in Workers : \A b \in Blocks(job) : From(t) <= b /\ b < To(t) => Delivered(b)
        /\ output_bytes = StartOutput + SumOver(Part, {t \in Workers : Finished(t)}, NThreads)
    BY <1>2, <2>1 DEF RangeInv
  <2>3. \A b \in Blocks(job) : Delivered(b)
    BY <1>1, <2>2, RangeFacts
  <2>4. {t \in Workers : Finished(t)} = Workers
    BY <1>2
  <2> DEFINE begin == [k \in 0 .. NThreads |-> Offset(From(k))]
  <2>5. /\ \A k \in 0 .. NThreads : begin[k] \in Int
        /\ \A k \in 0 .. NThreads - 1 :
             k \in Workers /\ Part[k] = begin[k + 1] - begin[k]
        /\ begin[NThreads] = SourceSize(job) /\ begin[0] = 0
    <3>1. \A k \in 0 .. NThreads : begin[k] = Offset(From(k)) /\ Offset(From(k)) \in Int
      BY <1>1, RangeFacts, BlockOffsets
    <3>2. 0 \in 0 .. NThreads /\ NThreads \in 0 .. NThreads
      BY NThreadsAssumption
    <3>3. ASSUME NEW k \in 0 .. NThreads - 1
          PROVE  k \in Workers /\ Part[k] = begin[k + 1] - begin[k]
      <4>1. k \in Workers /\ k \in 0 .. NThreads /\ k + 1 \in 0 .. NThreads
        BY NThreadsAssumption DEF Workers
      <4>2. Offset(To(k)) = Offset(From(k + 1))
        BY <1>1, <4>1, RangeFacts
      <4>3. Part[k] = Offset(To(k)) - Offset(From(k))
        BY <4>1 DEF Part
      <4> QED
        BY <3>1, <4>1, <4>2, <4>3
    <3>4. begin[NThreads] = SourceSize(job) /\ begin[0] = 0
      BY <1>1, <3>1, <3>2, RangeFacts
    <3> QED
      BY <3>1, <3>3, <3>4
  <2> HIDE DEF begin
  <2>6. SumOver(Part, Workers, NThreads) = SourceSize(job)
    <3>1. SumOver(Part, Workers, NThreads) = begin[NThreads] - begin[0]
      BY <2>5, NThreadsAssumption, SumTelescopes
    <3> QED
      BY <1>1, <2>5, <3>1
  <2>7. (ntbytes[Master] = StartOutput + SourceSize(job))'
    BY <1>3, <2>1, <2>2, <2>4, <2>6
  <2>8. (\A b \in Blocks(job) : Delivered(b))'
    BY <1>3, <2>3 DEF Delivered, Final
  <2> QED
    BY <1>3, <2>7, <2>8 DEF ResultInv
<1> QED
  BY <1>5, <1>6

\* The result of a job, step by step of the caller's thread
LEMMA CallerResult ==
  ASSUME NThreads > 0, ControlInv, DataInv, Phases, PlacesInv, CallInv,
         MasterStep \/ StartRelease \/ \E j \in Jobs : StartJob(j)
  PROVE  SerialInv' /\ ResultInv'
<1> USE ParticipantFacts
<1>1. pc \in [Participants -> MasterPcs \cup WorkerPcs]
  BY DEF ControlInv, ControlTypeOK
<1>2. CASE DoJob
  BY <1>2, SerialBegins DEF CallInv
<1>3. CASE SerialBlock
  BY <1>3, SerialPack, SerialPlace DEF CallInv
<1>4. CASE TakeResult
  <2>1. pc'[Master] = "job_done"
    BY <1>1, <1>4 DEF TakeResult, Goto
  <2> QED
    BY <1>4, <2>1, PoolPacked, PoolPlaced DEF CallInv, PlacesInv, SerialInv
<1>5. CASE CreateThread \/ JoinThread
  <2>1. tid \in Workers /\ pc[Master] \in {"create", "join"}
    BY <1>5 DEF CreateThread, JoinThread, ControlInv, PoolStages, ControlTypeOK, Workers,
         Participants
  <2>2. pc'[Master] \notin {"serial", "job_done"}
    BY <1>1, <1>5, <2>1 DEF CreateThread, JoinThread
  <2> QED
    BY <2>2 DEF SerialInv, ResultInv
<1>6. ASSUME NEW l \in {"do_job", "set_nthreads", "create", "sentinels", "init", "memcpyed",
                        "idle"}, Goto(Master, l)
      PROVE  SerialInv' /\ ResultInv'
  BY <1>1, <1>6 DEF Goto, SerialInv, ResultInv
<1> QED
  BY <1>2, <1>3, <1>4, <1>5, <1>6
     DEF MasterStep, SetNthreads, SetSentinels, JobGaveUp, JobDone, CopyWithJob, CopyDirectly,
         ReturnWith, StartJob, StartRelease

\* The caller's thread keeps all of it: its own steps are outside of the pool.
LEMMA CallerCall ==
  ASSUME NThreads > 0, ControlInv, DataInv, Phases, PlacesInv, CallInv,
         MasterStep \/ StartRelease \/ \E j \in Jobs : StartJob(j)
  PROVE  CallInv'
<1>1. FlagInv' /\ ReadyInv'
  BY CallerFlag, CallerReady DEF CallInv, PlacesInv
<1>2. GiveUpInv' /\ PackInv' /\ RangeInv'
  BY CallerStarts DEF GiveUpInv, PackInv, RangeInv
<1> QED
  BY <1>1, <1>2, CallerResult DEF CallInv

\* So does a meeting, ...
LEMMA MeetCall ==
  ASSUME ControlInv, DataInv, Phases, CallInv, NEW p \in Participants, Meet(p)
  PROVE  CallInv'
<1>1. /\ UNCHANGED <<contextVars, jobVars, bufferVars, localVars>>
      /\ \/ pc'[Master] = pc[Master]
         \/ /\ pc[Master] \in {"init", "init_wait", "finish", "finish_wait"}
            /\ pc'[Master] \notin {"memcpyed", "serial", "job_done"}
  BY MeetFrame
<1>2. UNCHANGED <<job, memcpyed, end_threads, output_bytes, thread_giveup_code, thread_nblock,
                  bstarts, dest, nblock_, ntbytes>>
  BY <1>1 DEF contextVars, jobVars, bufferVars, localVars
<1>3. /\ Called' = Called /\ (Awaited' => Awaited)
      /\ pc'[Master] \in {"init", "init_wait"} => pc[Master] \in {"init", "init_wait"}
  BY MeetStarts
<1>4. FlagInv'
  BY <1>1, <1>2, <1>3 DEF CallInv, FlagInv
<1>5. ReadyInv'
  BY <1>2, <1>3 DEF CallInv, ReadyInv, StartOutput, InBlockOrder
<1>6. GiveUpInv' /\ PackInv' /\ RangeInv'
  BY MeetGiveUp, MeetPack, MeetRange DEF CallInv
<1>7. SerialInv'
  BY <1>1, <1>2 DEF CallInv, SerialInv, InBlockOrder, StartOutput, Offset, Delivered, Final
<1>8. ResultInv'
  BY <1>1, <1>2 DEF CallInv, ResultInv, InBlockOrder, StartOutput, Delivered, Final
<1> QED
  BY <1>4, <1>5, <1>6, <1>7, <1>8 DEF CallInv

\* ... and a step of a worker, who works only while the caller waits.
LEMMA WorkerCall ==
  ASSUME NThreads > 0, ControlInv, DataInv, Phases, PlacesInv, CallInv,
         NEW t \in Workers, WorkerStep(t)
  PROVE  CallInv'
<1> USE ParticipantFacts
<1>1. pc'[Master] = pc[Master] /\ UNCHANGED <<job, memcpyed, end_threads, asleep>>
  BY WorkerFrame DEF contextVars, barrierVars
<1>2. pc[Master] \notin {"do_job", "set_nthreads", "create", "sentinels", "init", "serial",
                         "job_done"}
  BY WorkerFrame DEF Phases, Gathering, Working, Leaving, NoPool, Body, MasterOutside
<1>3. FlagInv'
  BY <1>1 DEF CallInv, FlagInv, Called
<1>4. ~Awaited'
  <2>1. CASE end_threads
    BY <1>1, <2>1 DEF Awaited
  <2>2. CASE ~end_threads
    BY <2>2, WorkerStarts
  <2> QED
    BY <2>1, <2>2
<1>5. ReadyInv' /\ SerialInv' /\ ResultInv'
  BY <1>1, <1>2, <1>4 DEF ReadyInv, SerialInv, ResultInv
<1>6. GiveUpInv' /\ PackInv' /\ RangeInv'
  BY WorkerGiveUp, WorkerPack, WorkerRange DEF CallInv, PlacesInv
<1> QED
  BY <1>3, <1>5, <1>6 DEF CallInv

\* At first there is no call.
LEMMA CallBegins == Init => CallInv
<1> SUFFICES ASSUME Init PROVE CallInv
  OBVIOUS
<1>1. pc[Master] = "idle"
  BY ParticipantFacts DEF Init
<1> QED
  BY <1>1 DEF CallInv, FlagInv, ReadyInv, GiveUpInv, PackInv, RangeInv, SerialInv, ResultInv,
       Called, Awaited, Started

\* What a call rests on holds in every state, if there are threads.
LEMMA CallCorrect == NThreads > 0 => (Spec => []CallInv)
<1> SUFFICES ASSUME NThreads > 0 PROVE Spec => []CallInv
  OBVIOUS
<1>1. ControlInv /\ BarrierPhases /\ DataInv /\ PlacesInv /\ CallInv /\ [Next]_vars => CallInv'
  <2> SUFFICES ASSUME ControlInv, BarrierPhases, DataInv, PlacesInv, CallInv, [Next]_vars
               PROVE  CallInv'
    OBVIOUS
  <2>1. CASE UNCHANGED vars
    <3>1. UNCHANGED <<job, memcpyed, end_threads, output_bytes, thread_giveup_code,
                      thread_nblock, asleep, bstarts, dest, pc, nblock_, tblock, ntbytes,
                      cbytes, ntdest, tmp2>>
      BY <2>1 DEF vars, contextVars, barrierVars, deltaVars, jobVars, bufferVars, localVars
    <3>2. FlagInv' /\ ReadyInv' /\ GiveUpInv'
      BY <3>1 DEF CallInv, FlagInv, ReadyInv, GiveUpInv, Called, Awaited, Started, InBlockOrder,
           StartOutput
    <3>3. PackInv'
      BY <3>1 DEF CallInv, PackInv, Started, InOrder, InBlockOrder, RunsSerially, Taken,
           Reserved, Claimed, Finished, NotYet
    <3>4. RangeInv'
      BY <3>1 DEF CallInv, RangeInv, Started, InBlockOrder, OnRange, From, To, TBlocks, Offset,
           Delivered, Final, Finished, NotYet, StartOutput, Part
    <3>5. SerialInv' /\ ResultInv'
      BY <3>1 DEF CallInv, SerialInv, ResultInv, InBlockOrder, StartOutput, Offset, Delivered,
           Final
    <3> QED
      BY <3>2, <3>3, <3>4, <3>5 DEF CallInv
  <2>2. CASE MasterStep \/ StartRelease \/ \E j \in Jobs : StartJob(j)
    BY <2>2, CallerCall DEF BarrierPhases
  <2>3. ASSUME NEW p \in Participants, Meet(p) PROVE CallInv'
    BY <2>3, MeetCall DEF BarrierPhases
  <2>4. ASSUME NEW t \in Workers, WorkerStep(t) PROVE CallInv'
    BY <2>4, WorkerCall DEF BarrierPhases
  <2> QED
    BY <2>1, <2>2, <2>3, <2>4 DEF Next
<1> QED
  BY <1>1, CallBegins, ControlCorrect, BarrierCorrect, DataCorrect, PlacesCorrect, PTL DEF Spec
-----------------------------------------------------------------------------
(* The promise of ChunkCall *)

\* The outcomes of a request, and what makes them possible
LEMMA OutcomeFacts ==
  ASSUME NEW j \in Jobs
  PROVE  /\ j.compress /\ (j.memcpyed \/ Caller!Tight(j)) =>
              IF SourceSize(j) + MAX_OVERHEAD <= j.destsize
              THEN [code |-> SourceSize(j) + MAX_OVERHEAD, readable |-> Blocks(j)]
                     \in Caller!Outcomes(j)
              ELSE [code |-> 0, readable |-> {}] \in Caller!Outcomes(j)
         /\ j.compress /\ ~j.memcpyed /\ Caller!Failed(j) =>
              [code |-> -1, readable |-> {}] \in Caller!Outcomes(j)
         /\ j.compress /\ ~j.memcpyed /\ ~Caller!Failed(j) /\ ~Caller!Tight(j) =>
              [code |-> Caller!PackedSize(j), readable |-> Blocks(j)] \in Caller!Outcomes(j)
         /\ ~j.compress /\ (j.bad = {} \/ j.memcpyed) =>
              [code |-> SourceSize(j), readable |-> Blocks(j)] \in Caller!Outcomes(j)
         /\ ~j.compress /\ ~(j.bad = {} \/ j.memcpyed) =>
              [code |-> -1, readable |-> {}] \in Caller!Outcomes(j)
<1>1. /\ Caller!Blocks(j) = Blocks(j) /\ Caller!SourceSize(j) = SourceSize(j)
      /\ Caller!MAX_OVERHEAD = MAX_OVERHEAD
  BY DEF Caller!NBlocks, NBlocks, Caller!Blocks, Blocks, Caller!SourceSize, SourceSize,
         Caller!MAX_OVERHEAD, MAX_OVERHEAD
<1>2. /\ \A n : Caller!Whole(j, n) = [code |-> n, readable |-> Blocks(j)]
      /\ \A n : Caller!Nothing(n) = [code |-> n, readable |-> {}]
  BY <1>1 DEF Caller!Whole, Caller!Nothing
<1>3. Caller!Copied(j) = IF SourceSize(j) + MAX_OVERHEAD <= j.destsize
                         THEN [code |-> SourceSize(j) + MAX_OVERHEAD, readable |-> Blocks(j)]
                         ELSE [code |-> 0, readable |-> {}]
  BY <1>1, <1>2 DEF Caller!Copied
<1>4. j.compress => Caller!Outcomes(j) = Caller!CompressOutcomes(j)
  BY DEF Caller!Outcomes
<1>5. ~j.compress => Caller!Outcomes(j) = Caller!DecompressOutcomes(j)
  BY DEF Caller!Outcomes
<1>6. j.memcpyed \/ Caller!Tight(j) => Caller!Copied(j) \in Caller!CompressOutcomes(j)
  BY DEF Caller!CompressOutcomes
<1>7. ~j.memcpyed /\ Caller!Failed(j) => Caller!Nothing(-1) \in Caller!CompressOutcomes(j)
  BY DEF Caller!CompressOutcomes
<1>8. ~j.memcpyed /\ ~Caller!Failed(j) /\ ~Caller!Tight(j) =>
        Caller!Whole(j, Caller!PackedSize(j)) \in Caller!CompressOutcomes(j)
  BY DEF Caller!CompressOutcomes
<1>9. /\ j.bad = {} \/ j.memcpyed =>
           Caller!Whole(j, SourceSize(j)) \in Caller!DecompressOutcomes(j)
      /\ ~(j.bad = {} \/ j.memcpyed) => Caller!Nothing(-1) \in Caller!DecompressOutcomes(j)
  BY <1>1 DEF Caller!DecompressOutcomes
<1>10. CASE j.compress
  BY <1>2, <1>3, <1>4, <1>6, <1>7, <1>8, <1>10
<1>11. CASE ~j.compress
  BY <1>2, <1>5, <1>9, <1>11
<1> QED
  BY <1>10, <1>11

\* A request without bytes has no blocks.
LEMMA NoBytes ==
  ASSUME NEW j \in Jobs
  PROVE  SourceSize(j) \in Nat /\ (SourceSize(j) = 0 => Blocks(j) = {})
<1>1. j.nfull \in Nat /\ j.left \in Nat /\ BlockSize \in Nat \ {0} /\ SourceSize(j) \in Nat
  BY JobFacts, JobsAssumption, BlockSizeAssumption DEF IsJob
<1>2. j.nfull # 0 => j.nfull * BlockSize >= BlockSize
  BY <1>1, MultiplesApart
<1>3. SourceSize(j) = j.nfull * BlockSize + j.left /\ j.nfull * BlockSize \in Nat
  BY <1>1 DEF SourceSize
<1>4. SourceSize(j) = 0 => j.nfull = 0 /\ j.left = 0
  BY <1>1, <1>2, <1>3
<1> QED
  BY <1>1, <1>4 DEF Blocks, NBlocks

\* What is returned behind a job is an outcome of the request.
LEMMA JobPromised ==
  ASSUME ControlInv, DataInv, FlagInv, ResultInv, JobDone
  PROVE  ret' \in Caller!Outcomes(job)
<1>1. /\ job \in Jobs /\ memcpyed \in BOOLEAN /\ ntbytes[Master] \in Int
      /\ IsJob(job) /\ SourceSize(job) \in Nat
  BY ParticipantFacts, JobFacts, JobsAssumption DEF DataInv, DataTypeOK
<1> PICK n : n = ntbytes[Master]
  OBVIOUS
<1>2. pc[Master] = "job_done" /\ ~end_threads /\ Called
  BY NotEnding DEF JobDone, Called
<1>3. /\ n \in Int /\ ~(job.compress /\ n = 0 /\ ~memcpyed)
      /\ n < 0 => ret' = [code |-> -1, readable |-> {}]
      /\ n = 0 => ret' = [code |-> 0, readable |-> {}]
      /\ n > 0 => ret' = [code |-> n, readable |-> Readable(job, memcpyed, bstarts, dest, n)]
  BY <1>1 DEF JobDone, ReturnWith
<1>4. CASE InBlockOrder
  <2>1. job.compress /\ ~memcpyed /\ ~job.memcpyed
    BY <1>2, <1>4 DEF InBlockOrder, FlagInv
  <2>2. /\ n < 0 => Caller!Failed(job)
        /\ n > 0 => /\ ~Caller!Failed(job) /\ ~Caller!Tight(job)
                    /\ n = Caller!PackedSize(job)
                    /\ Readable(job, memcpyed, bstarts, dest, n) = Blocks(job)
    BY <1>2, <1>4 DEF ResultInv
  <2>3. n < 0 \/ n > 0
    BY <1>3, <2>1
  <2> QED
    BY <1>1, <1>3, <2>1, <2>2, <2>3, OutcomeFacts
<1>5. CASE ~InBlockOrder /\ ~(/\ n = StartOutput + SourceSize(job)
                              /\ \A b \in Blocks(job) : Delivered(b))
  <2>1. ~job.compress /\ job.bad # {} /\ n < 0
    BY <1>2, <1>5 DEF ResultInv
  <2>2. ~job.memcpyed
    BY <1>1, <1>2, <2>1 DEF FlagInv
  <2> QED
    BY <1>1, <1>3, <2>1, <2>2, OutcomeFacts
<1>6. CASE /\ ~InBlockOrder /\ n = StartOutput + SourceSize(job)
           /\ \A b \in Blocks(job) : Delivered(b)
  <2>1. CASE job.compress
    <3>1. memcpyed /\ n = SourceSize(job) + MAX_OVERHEAD
      BY <1>1, <1>6, <2>1 DEF InBlockOrder, StartOutput, MAX_OVERHEAD
    <3>2. /\ job.memcpyed \/ Caller!Tight(job)
          /\ SourceSize(job) + MAX_OVERHEAD <= job.destsize
      BY <1>2, <3>1 DEF FlagInv
    <3>3. Readable(job, memcpyed, bstarts, dest, n) = Blocks(job)
      BY <1>6, <2>1, <3>1 DEF Readable, Delivered, Final
    <3>4. n > 0
      BY <1>1, <3>1 DEF MAX_OVERHEAD
    <3> QED
      BY <1>1, <1>3, <2>1, <3>1, <3>2, <3>3, <3>4, OutcomeFacts
  <2>2. CASE ~job.compress
    <3>1. n = SourceSize(job)
      BY <1>1, <1>6, <2>2 DEF StartOutput
    <3>2. job.bad = {}
      BY <1>1, <1>6, <2>2 DEF Delivered, IsJob
    <3>3. Readable(job, memcpyed, bstarts, dest, n) = Blocks(job)
      BY <1>6, <2>2 DEF Readable, Delivered, Final
    <3>4. ret' = [code |-> SourceSize(job), readable |-> Blocks(job)]
      <4>1. CASE n = 0
        BY <1>1, <1>3, <3>1, <4>1, NoBytes
      <4>2. CASE n > 0
        BY <1>3, <3>1, <3>3, <4>2
      <4> QED
        BY <1>1, <3>1, <4>1, <4>2
    <3> QED
      BY <1>1, <2>2, <3>2, <3>4, OutcomeFacts
  <2> QED
    BY <2>1, <2>2
<1> QED
  BY <1>4, <1>5, <1>6

\* So is what is returned for a chunk that is copied at once.
LEMMA CopyPromised ==
  ASSUME ControlInv, DataInv, StageInv, FlagInv, CopyDirectly
  PROVE  ret' \in Caller!Outcomes(job)
<1>1. /\ job \in Jobs /\ SourceSize(job) \in Nat /\ job.destsize \in Nat
  BY JobFacts DEF DataInv, DataTypeOK
<1>2. pc[Master] = "memcpyed" /\ ~end_threads /\ Called /\ memcpyed
  BY NotEnding DEF CopyDirectly, Called, StageInv
<1>3. job.memcpyed \/ (job.compress /\ Caller!Tight(job))
  BY <1>2 DEF FlagInv
<1>4. CASE ~job.compress
  <2>1. dest' = {Plain(job, b) : b \in Blocks(job)}
    BY <1>4 DEF CopyDirectly
  <2>2. Readable(job, memcpyed, bstarts, dest', SourceSize(job)) = Blocks(job)
    BY <1>4, <2>1 DEF Readable
  <2>3. ret' = [code |-> SourceSize(job), readable |-> Blocks(job)]
    <3>1. ret' = [code |-> SourceSize(job),
                  readable |-> IF SourceSize(job) > 0
                               THEN Readable(job, memcpyed, bstarts, dest', SourceSize(job))
                               ELSE {}]
      BY <1>4 DEF CopyDirectly, ReturnWith
    <3>2. SourceSize(job) > 0 \/ SourceSize(job) = 0
      BY <1>1
    <3> QED
      BY <1>1, <2>2, <3>1, <3>2, NoBytes
  <2> QED
    BY <1>1, <1>3, <1>4, <2>3, OutcomeFacts
<1>5. CASE job.compress /\ SourceSize(job) + MAX_OVERHEAD <= job.destsize
  <2>1. dest' = {Stored(job, b) : b \in Blocks(job)}
    BY <1>5 DEF CopyDirectly
  <2>2. Readable(job, memcpyed, bstarts, dest', SourceSize(job) + MAX_OVERHEAD) = Blocks(job)
    BY <1>2, <1>5, <2>1 DEF Readable
  <2>3. SourceSize(job) + MAX_OVERHEAD > 0
    BY <1>1 DEF MAX_OVERHEAD
  <2>4. ret' = [code |-> SourceSize(job) + MAX_OVERHEAD, readable |-> Blocks(job)]
    BY <1>5, <2>2, <2>3 DEF CopyDirectly, ReturnWith
  <2> QED
    BY <1>1, <1>3, <1>5, <2>4, OutcomeFacts
<1>6. CASE job.compress /\ ~(SourceSize(job) + MAX_OVERHEAD <= job.destsize)
  <2>1. ret' = [code |-> 0, readable |-> {}]
    BY <1>6 DEF CopyDirectly, ReturnWith
  <2> QED
    BY <1>1, <1>3, <1>6, <2>1, OutcomeFacts
<1> QED
  BY <1>4, <1>5, <1>6

\* A success is complete, and no longer than dest.
LEMMA OutcomeComplete ==
  ASSUME NEW j \in Jobs, NEW o \in Caller!Outcomes(j), o.code > 0
  PROVE  o.code <= j.destsize /\ o.readable = Blocks(j)
<1>1. /\ IsJob(j) /\ Caller!Blocks(j) = Blocks(j) /\ Caller!SourceSize(j) = SourceSize(j)
      /\ Blocks(j) = Caller!Blocks(j)
  BY JobsAssumption DEF Caller!NBlocks, NBlocks, Caller!Blocks, Blocks, Caller!SourceSize,
       SourceSize
<1>2. CASE ~j.compress
  BY <1>1, <1>2 DEF Caller!Outcomes, Caller!DecompressOutcomes, Caller!Whole, Caller!Nothing,
                    IsJob
<1>3. CASE j.compress
  <2>1. \/ o = Caller!Copied(j)
        \/ o = Caller!Nothing(-1)
        \/ o = Caller!Whole(j, Caller!PackedSize(j)) /\ ~Caller!Failed(j) /\ ~Caller!Tight(j)
    BY <1>3 DEF Caller!Outcomes, Caller!CompressOutcomes
  <2>2. CASE o = Caller!Copied(j)
    BY <1>1, <2>2 DEF Caller!Copied, Caller!Whole, Caller!Nothing
  <2>3. CASE o = Caller!Nothing(-1)
    BY <2>3 DEF Caller!Nothing
  <2>4. CASE o = Caller!Whole(j, Caller!PackedSize(j)) /\ ~Caller!Failed(j) /\ ~Caller!Tight(j)
    <3>1. /\ ~(With(j, Small(j)) > j.destsize)
          /\ \A b \in Blocks(j) : ~(j.csize[b] < 0) /\ j.csize[b] # 0
          /\ Caller!PackedSize(j) = With(j, Blocks(j))
      BY <2>4, CallTerms
    <3>2. Small(j) = Blocks(j)
      BY <3>1, JobFacts DEF Small
    <3>3. With(j, Small(j)) \in Int /\ j.destsize \in Int
      BY WithFacts, JobFacts
    <3> QED
      BY <1>1, <2>4, <3>1, <3>2, <3>3 DEF Caller!Whole
  <2> QED
    BY <2>1, <2>2, <2>3, <2>4
<1> QED
  BY <1>2, <1>3

\* What the caller of the context sees of its state
Served == IF pc[Master] = "idle" \/ end_threads THEN <<>> ELSE <<job>>

\* Between the requests what was returned is complete; in a call it is nothing.
ReturnInv ==
  IF Called THEN ret = [code |-> 0, readable |-> {}]
  ELSE ret.code > 0 => ret.code <= job.destsize /\ ret.readable = Blocks(job)

\* A step of the context is a call, a return, or nothing that its caller sees.
LEMMA StepPromised ==
  ASSUME ControlInv, Phases, DataInv, PlacesInv, CallInv, [Next]_vars
  PROVE  \/ UNCHANGED <<Served, ret>> /\ Called' = Called /\ UNCHANGED job
         \/ /\ Called /\ ~Called' /\ job' = job /\ Served = <<job>> /\ Served' = <<>>
            /\ ret' \in Caller!Outcomes(job)
         \/ \E j \in Jobs : /\ ~Called /\ Called' /\ Served = <<>> /\ Served' = <<j>>
                            /\ ret' = [code |-> 0, readable |-> {}]
<1> USE ParticipantFacts
<1>1. pc \in [Participants -> MasterPcs \cup WorkerPcs] /\ end_threads \in BOOLEAN
  BY DEF ControlInv, ControlTypeOK
<1>2. CASE UNCHANGED vars
  BY <1>2 DEF vars, contextVars, callerVars, Served, Called
<1>3. ASSUME NEW j \in Jobs, StartJob(j)
      PROVE  /\ ~Called /\ Called' /\ Served = <<>> /\ Served' = <<j>>
             /\ ret' = [code |-> 0, readable |-> {}]
  BY <1>1, <1>3 DEF StartJob, Goto, Served, Called
<1>4. CASE JobDone \/ CopyDirectly
  <2>1. /\ pc[Master] # "idle" /\ ~end_threads /\ pc'[Master] = "idle"
        /\ UNCHANGED <<job, end_threads>>
    BY <1>1, <1>4, NotEnding DEF JobDone, CopyDirectly, ReturnWith, Goto, contextVars
  <2>2. ret' \in Caller!Outcomes(job)
    BY <1>4, JobPromised, CopyPromised DEF CallInv, PlacesInv
  <2> QED
    BY <2>1, <2>2 DEF Served, Called
<1>5. CASE StartRelease
  BY <1>1, <1>5 DEF StartRelease, Goto, Served, Called
<1>6. CASE JoinThread
  <2>1. end_threads /\ UNCHANGED <<job, end_threads, ret>>
    BY <1>6 DEF JoinThread, ControlInv, PoolStages
  <2> QED
    BY <2>1 DEF Served, Called
<1>7. CASE CreateThread
  <2>1. tid \in Workers /\ pc[Master] = "create"
    BY <1>7 DEF CreateThread, ControlInv, PoolStages, ControlTypeOK, Workers, Participants
  <2>2. pc'[Master] # "idle" /\ UNCHANGED <<job, end_threads, ret>>
    BY <1>1, <1>7, <2>1 DEF CreateThread
  <2> QED
    BY <2>1, <2>2 DEF Served, Called
<1>8. ASSUME NEW l \in {"do_job", "serial", "job_done", "set_nthreads", "create", "sentinels",
                        "init", "memcpyed"}, Goto(Master, l), pc[Master] # "idle",
             UNCHANGED <<job, end_threads, ret>>
      PROVE  UNCHANGED <<Served, ret>> /\ Called' = Called /\ UNCHANGED job
  BY <1>1, <1>8 DEF Goto, Served, Called
<1>9. ASSUME DoJob \/ SerialBlock \/ SetNthreads \/ SetSentinels \/ TakeResult \/ JobGaveUp
               \/ CopyWithJob
      PROVE  UNCHANGED <<Served, ret>> /\ Called' = Called /\ UNCHANGED job
  <2>1. pc[Master] # "idle" /\ UNCHANGED <<job, end_threads, ret>>
    BY <1>9 DEF DoJob, SerialBlock, SetNthreads, SetSentinels, TakeResult, JobGaveUp,
                CopyWithJob, contextVars, callerVars
  <2>2. PICK l \in {"do_job", "serial", "job_done", "set_nthreads", "create", "sentinels",
                    "init", "memcpyed"} : Goto(Master, l)
    BY <1>9 DEF DoJob, SerialBlock, SetNthreads, SetSentinels, TakeResult, JobGaveUp,
                CopyWithJob
  <2> QED
    BY <1>8, <2>1, <2>2
<1>10. ASSUME NEW p \in Participants, Meet(p)
       PROVE  UNCHANGED <<Served, ret>> /\ Called' = Called /\ UNCHANGED job
  <2>1. UNCHANGED <<job, end_threads, ret>> /\ Called' = Called
    BY <1>10, MeetFrame, MeetStarts DEF contextVars, callerVars
  <2>2. Served = (IF Called THEN <<job>> ELSE <<>>)
    BY DEF Served, Called
  <2>3. Served' = (IF Called' THEN <<job'>> ELSE <<>>)
    BY DEF Served, Called
  <2> QED
    BY <2>1, <2>2, <2>3
<1>11. ASSUME NEW t \in Workers, WorkerStep(t)
       PROVE  UNCHANGED <<Served, ret>> /\ Called' = Called /\ UNCHANGED job
  <2>1. UNCHANGED <<job, end_threads>> /\ pc'[Master] = pc[Master]
    BY <1>11, WorkerFrame DEF contextVars
  <2>2. ret' = ret
    BY <1>11 DEF WorkerStep, Begin, Loop, CompressBlock, PlaceBlock, RejectBlock, DeltaGate,
         DeltaWake, DeltaDecode, Check, Fail, Commit, CopyBlock, Sum, Add, callerVars
  <2> QED
    BY <2>1, <2>2 DEF Served, Called
<1> QED
  BY <1>2, <1>3, <1>4, <1>5, <1>6, <1>7, <1>9, <1>10, <1>11 DEF Next, MasterStep

\* For every number of threads above 0: what blosc_compress_context and
\* blosc_run_decompression_with_context return, and what can be read back
\* from dest, is an outcome of the request alone, whether it was served in
\* the caller's thread or by workers in any order (the safety of Promise).
THEOREM PromiseKept == NThreads > 0 => (Spec => Caller!CallSafety)
<1> SUFFICES ASSUME NThreads > 0 PROVE Spec => Caller!CallSafety
  OBVIOUS
<1>1. Init => Caller!CallInit
  <2>1. Init => pc[Master] = "idle"
    BY ParticipantFacts DEF Init
  <2> QED
    BY <2>1 DEF Init, Caller!CallInit, Caller!Nothing
<1>2. ControlInv /\ BarrierPhases /\ DataInv /\ PlacesInv /\ CallInv /\ [Next]_vars
        => [Caller!CallNext]_(Caller!callVars)
  <2> SUFFICES ASSUME ControlInv, BarrierPhases, DataInv, PlacesInv, CallInv, [Next]_vars
               PROVE  [Caller!CallNext]_(Caller!callVars)
    OBVIOUS
  <2>1. \/ UNCHANGED <<Served, ret>>
        \/ Served = <<job>> /\ Served' = <<>> /\ ret' \in Caller!Outcomes(job)
        \/ \E j \in Jobs : /\ Served = <<>> /\ Served' = <<j>>
                           /\ ret' = [code |-> 0, readable |-> {}]
    BY StepPromised DEF BarrierPhases
  <2>2. CASE UNCHANGED <<Served, ret>>
    BY <2>2 DEF Served, Caller!callVars
  <2>3. CASE Served = <<job>> /\ Served' = <<>> /\ ret' \in Caller!Outcomes(job)
    <3>1. Served # <<>> /\ Served[1] = job
      BY <2>3
    <3> QED
      BY <2>3, <3>1 DEF Served, Caller!CallNext, Caller!Return
  <2>4. ASSUME NEW j \in Jobs, Served = <<>>, Served' = <<j>>,
               ret' = [code |-> 0, readable |-> {}]
        PROVE  Caller!CallNext
    BY <2>4 DEF Served, Caller!CallNext, Caller!Call, Caller!Nothing
  <2> QED
    BY <2>1, <2>2, <2>3, <2>4
<1> QED
  BY <1>1, <1>2, ControlCorrect, BarrierCorrect, DataCorrect, PlacesCorrect, CallCorrect, PTL
     DEF Spec, Caller!CallSafety

\* For every number of threads above 0: a result that is reported as a
\* success is complete and fits in dest, as the assertions at the end of
\* blosc_compress_context and blosc_run_decompression_with_context say.
THEOREM SuccessComplete == NThreads > 0 => (Spec => []SuccessIsComplete)
<1> SUFFICES ASSUME NThreads > 0 PROVE Spec => []SuccessIsComplete
  OBVIOUS
<1>1. Init => ReturnInv
  BY ParticipantFacts DEF Init, ReturnInv, Called
<1>2. ControlInv /\ BarrierPhases /\ DataInv /\ PlacesInv /\ CallInv /\ ReturnInv /\ [Next]_vars
        => ReturnInv'
  <2> SUFFICES ASSUME ControlInv, BarrierPhases, DataInv, PlacesInv, CallInv, ReturnInv,
                      [Next]_vars
               PROVE  ReturnInv'
    OBVIOUS
  <2>1. \/ ret' = ret /\ Called' = Called /\ job' = job
        \/ Called /\ ~Called' /\ job' = job /\ ret' \in Caller!Outcomes(job)
        \/ Called' /\ ret' = [code |-> 0, readable |-> {}]
    BY StepPromised DEF BarrierPhases
  <2>2. CASE ret' = ret /\ Called' = Called /\ job' = job
    BY <2>2 DEF ReturnInv
  <2>3. CASE Called /\ ~Called' /\ job' = job /\ ret' \in Caller!Outcomes(job)
    <3>1. job \in Jobs
      BY DEF DataInv, DataTypeOK
    <3>2. ret'.code > 0 => ret'.code <= job.destsize /\ ret'.readable = Blocks(job)
      BY <2>3, <3>1, OutcomeComplete
    <3> QED
      BY <2>3, <3>2 DEF ReturnInv
  <2>4. CASE Called' /\ ret' = [code |-> 0, readable |-> {}]
    BY <2>4 DEF ReturnInv
  <2> QED
    BY <2>1, <2>2, <2>3, <2>4
<1>3. ReturnInv => SuccessIsComplete
  BY DEF ReturnInv, SuccessIsComplete, Called
<1> QED
  BY <1>1, <1>2, <1>3, ControlCorrect, BarrierCorrect, DataCorrect, PlacesCorrect, CallCorrect,
     PTL DEF Spec
=============================================================================
