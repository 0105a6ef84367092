---------------------------- MODULE SpuriousPool ----------------------------
(* BloscPool on a system whose pthread_cond_wait may return although nobody *)
(* has signalled, as POSIX allows: the waits of WAIT_INIT, WAIT_FINISH and  *)
(* pipeline_d are not in a loop that looks at their condition again.        *)
EXTENDS BloscPool

SpuriousWakeup(p) ==
  /\ \/ p \in asleep /\ asleep' = asleep \ {p} /\ UNCHANGED delta_asleep
     \/ p \in delta_asleep /\ delta_asleep' = delta_asleep \ {p} /\ UNCHANGED asleep
  /\ UNCHANGED <<contextVars, count_threads, dref_not_init, jobVars, bufferVars,
                 localVars, callerVars, pc>>

SpuriousNext == Next \/ \E p \in Participants : SpuriousWakeup(p)

SpuriousSpec == Init /\ [][SpuriousNext]_vars
-----------------------------------------------------------------------------
\* "Wait for all threads to finish": when parallel_blosc is behind
\* WAIT_FINISH and reads the result, no worker is in its round any more.
AllFinished ==
  pc[Master] = "result" => \A t \in Workers : pc[t] \notin Body \cup {"begin"}
=============================================================================
