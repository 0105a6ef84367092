------------------------------- MODULE CondVar -------------------------------
(***************************************************************************)
(* The condition variable that BloscPool counts on, with its mutex: who    *)
(* waits sleeps until somebody broadcasts, and nobody wakes of himself.    *)
(* Everybody locks and unlocks the mutex, and waits and broadcasts while   *)
(* he has it.                                                              *)
(***************************************************************************)
EXTENDS FiniteSets

CONSTANTS Threads, NoOne

VARIABLES
  owner,     \* of the mutex, or NoOne
  asleep,    \* who waits for a broadcast
  waking     \* who was woken and has not got the mutex back

vars == <<owner, asleep, waking>>

Init == owner = NoOne /\ asleep = {} /\ waking = {}

Lock(t) ==
  /\ owner = NoOne /\ t \notin asleep \cup waking
  /\ owner' = t
  /\ UNCHANGED <<asleep, waking>>

Unlock(t) == owner = t /\ owner' = NoOne /\ UNCHANGED <<asleep, waking>>

Wait(t) ==
  /\ owner = t
  /\ owner' = NoOne /\ asleep' = asleep \cup {t}
  /\ UNCHANGED waking

Broadcast(t) ==
  /\ owner = t
  /\ asleep' = {} /\ waking' = waking \cup asleep
  /\ UNCHANGED owner

Return(t) ==
  /\ owner = NoOne /\ t \in waking
  /\ owner' = t /\ waking' = waking \ {t}
  /\ UNCHANGED asleep

Next == \E t \in Threads : Lock(t) \/ Unlock(t) \/ Wait(t) \/ Broadcast(t) \/ Return(t)

Spec == Init /\ [][Next]_vars
=============================================================================
