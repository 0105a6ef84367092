----------------------------- MODULE Win32Signal -----------------------------
(***************************************************************************)
(* Win32Cond for a program that calls pthread_cond_signal too, which       *)
(* blosc.c never does.                                                     *)
(***************************************************************************)
EXTENDS Win32Cond

CONSTANT MaxSlices    \* a natural number that bounds sema

SignalLooks(t) ==
  /\ waiters > 0 /\ Step(t, "inside", "signalling")
  /\ UNCHANGED <<mutex, condVars, last_waiter>>

SignalReleases(t) ==
  /\ sema < MaxSlices /\ Step(t, "signalling", "inside")
  /\ sema' = sema + 1
  /\ UNCHANGED <<mutex, waiters, was_broadcast, continue_broadcast, last_waiter>>

SignalNext == Next \/ \E t \in Threads : SignalLooks(t) \/ SignalReleases(t)

SignalSpec == Init /\ [][SignalNext]_vars
-----------------------------------------------------------------------------
(* "Signal only when there are waiters" (win32/pthread.c:179-181): there   *)
(* are never more slices than threads that wait for one.                   *)
SlicesForWaiters == sema <= Cardinality(At("counted") \cup At("blocked"))
=============================================================================
