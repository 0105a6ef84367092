------------------------------ MODULE Win32Cond ------------------------------
(***************************************************************************)
(* win32/pthread.c: a condition variable made of a counter under a lock, a *)
(* semaphore and an event.  The threads are any program that keeps the     *)
(* rule stated there: the external mutex is held around every call.  Like  *)
(* blosc.c they only broadcast; Win32Signal has pthread_cond_signal.       *)
(*                                                                         *)
(* A thread stops where it may block or where another may come between:    *)
(* each critical section of waiters_lock is a step (nobody blocks in one), *)
(* and so is every wait and release outside of them.                       *)
(***************************************************************************)
EXTENDS Integers, FiniteSets

CONSTANTS Threads, NoOne

ASSUME NoOneAssumption == NoOne \notin Threads
ASSUME ThreadsAssumption == IsFiniteSet(Threads)

VARIABLES
  mutex,               \* the owner of the external mutex, or NoOne
  waiters,
  was_broadcast,
  sema,                \* count of the semaphore
  continue_broadcast,  \* is the event, which resets itself, signalled?
  last_waiter,         \* local of pthread_cond_wait
  pc

condVars == <<waiters, was_broadcast, sema, continue_broadcast>>
vars == <<mutex, condVars, last_waiter, pc>>

At(l) == {t \in Threads : pc[t] = l}
Step(t, from, to) == pc[t] = from /\ pc' = [pc EXCEPT ![t] = to]

Init ==
  /\ mutex = NoOne
  /\ waiters = 0 /\ was_broadcast = FALSE
  /\ sema = 0 /\ continue_broadcast = FALSE
  /\ last_waiter = [t \in Threads |-> FALSE]
  /\ pc = [t \in Threads |-> "outside"]
-----------------------------------------------------------------------------
(* The program around it *)
Lock(t) ==
  /\ mutex = NoOne /\ Step(t, "outside", "inside")
  /\ mutex' = t
  /\ UNCHANGED <<condVars, last_waiter>>

Unlock(t) ==
  /\ Step(t, "inside", "outside")
  /\ mutex' = NoOne
  /\ UNCHANGED <<condVars, last_waiter>>
-----------------------------------------------------------------------------
(* pthread_cond_wait *)
CountForgotten(t) ==
  /\ Step(t, "inside", "counted")
  /\ UNCHANGED <<mutex, condVars, last_waiter>>

CountWaiter(t) ==
  /\ Step(t, "inside", "counted")
  /\ waiters' = waiters + 1
  /\ UNCHANGED <<mutex, was_broadcast, sema, continue_broadcast, last_waiter>>

LeaveMutex(t) ==
  /\ Step(t, "counted", "blocked")
  /\ mutex' = NoOne
  /\ UNCHANGED <<condVars, last_waiter>>

TakeSlice(t) ==
  /\ sema > 0 /\ Step(t, "blocked", "awake")
  /\ sema' = sema - 1
  /\ UNCHANGED <<mutex, waiters, was_broadcast, continue_broadcast, last_waiter>>

AnyWaiter == was_broadcast
NeverLast == was_broadcast /\ waiters = 0   \* the count before its decrease
IsLastWaiter == was_broadcast /\ waiters = 1

UncountWaiter(t) ==
  /\ Step(t, "awake", "uncounted")
  /\ waiters' = waiters - 1
  /\ last_waiter' = [last_waiter EXCEPT ![t] = IsLastWaiter]
  /\ UNCHANGED <<mutex, was_broadcast, sema, continue_broadcast>>

Notify(t) ==
  /\ last_waiter[t] /\ Step(t, "uncounted", "relock")
  /\ continue_broadcast' = TRUE
  /\ UNCHANGED <<mutex, waiters, was_broadcast, sema, last_waiter>>

\* EnterCriticalSection(mutex) and the return; of the locals nothing is left
ReturnFromWait(t) ==
  /\ mutex = NoOne
  /\ \/ Step(t, "relock", "inside")
     \/ ~last_waiter[t] /\ Step(t, "uncounted", "inside")
  /\ mutex' = t
  /\ last_waiter' = [last_waiter EXCEPT ![t] = FALSE]
  /\ UNCHANGED condVars
-----------------------------------------------------------------------------
(* pthread_cond_broadcast *)
\* Without waiters it only clears was_broadcast, which nobody sees set
\* while another has the mutex.
BroadcastToNobody(t) ==
  /\ waiters = 0 /\ pc[t] = "inside"
  /\ was_broadcast' = FALSE
  /\ UNCHANGED <<mutex, waiters, sema, continue_broadcast, last_waiter, pc>>

Broadcast(t) ==
  /\ waiters > 0 /\ Step(t, "inside", "broadcast")
  /\ was_broadcast' = TRUE
  /\ sema' = sema + waiters
  /\ UNCHANGED <<mutex, waiters, continue_broadcast, last_waiter>>

ContinueAtOnce(t) ==
  /\ Step(t, "broadcast", "continued")
  /\ UNCHANGED <<mutex, condVars, last_waiter>>

Continue(t) ==
  /\ continue_broadcast /\ Step(t, "broadcast", "continued")
  /\ continue_broadcast' = FALSE
  /\ UNCHANGED <<mutex, waiters, was_broadcast, sema, last_waiter>>

EndBroadcast(t) ==
  /\ Step(t, "continued", "inside")
  /\ was_broadcast' = FALSE
  /\ UNCHANGED <<mutex, waiters, sema, continue_broadcast, last_waiter>>
-----------------------------------------------------------------------------
\* What a thread does once it called; the program decides the rest.
InCall(t) ==
  \/ LeaveMutex(t) \/ TakeSlice(t) \/ UncountWaiter(t) \/ Notify(t) \/ ReturnFromWait(t)
  \/ Continue(t) \/ EndBroadcast(t)

Next == \E t \in Threads :
  \/ Lock(t) \/ Unlock(t) \/ CountWaiter(t)
  \/ BroadcastToNobody(t) \/ Broadcast(t) \/ InCall(t)

Spec == Init /\ [][Next]_vars

\* The system runs every thread that can go on.
FairSpec == Spec /\ \A t \in Threads : WF_vars(InCall(t))
-----------------------------------------------------------------------------
(* Properties *)

Counted == At("counted") \cup At("blocked") \cup At("awake")

(* Types; waiters counts who is between its two critical sections, and the *)
(* slices of the semaphore are never more than the threads that will take  *)
(* one.                                                                    *)
TypeOK ==
  /\ mutex \in Threads \cup {NoOne}
  /\ pc \in [Threads -> {"outside", "inside", "counted", "blocked", "awake", "uncounted",
                         "relock", "broadcast", "continued", "signalling"}]
  /\ {was_broadcast, continue_broadcast} \subseteq BOOLEAN
  /\ last_waiter \in [Threads -> BOOLEAN]
  /\ sema \in Nat
  /\ waiters = Cardinality(Counted)

(* "each waiter has consumed exactly one slice" (:149-150): when a         *)
(* broadcast goes on, all that waited when it came are awake, nothing is   *)
(* left in the semaphore or the event for who waits next, and no second    *)
(* thread will set the event (:194-221).                                   *)
OneSliceEach ==
  \A t \in At("continued") :
    /\ sema = 0 /\ At("blocked") = {} /\ At("awake") = {}
    /\ ~continue_broadcast /\ At("uncounted") \cap {u \in Threads : last_waiter[u]} = {}

(* A broadcast returns: the last of the waiters tells it to (:208-210).    *)
BroadcastReturns == \A t \in Threads : pc[t] = "broadcast" ~> pc[t] = "inside"

\* The waiters of a broadcast are awake as soon as their slices are there.
Asleep == IF sema > 0 THEN {} ELSE At("blocked")
Waking == (At("blocked") \ Asleep) \cup At("awake") \cup At("uncounted") \cup At("relock")

Condition == INSTANCE CondVar WITH
  owner <- mutex, asleep <- Asleep, waking <- Waking

(* With broadcasts alone it is the condition variable BloscPool counts on: *)
(* a broadcast wakes everybody who waits, and nobody wakes otherwise.      *)
ImplementsCondVar == Condition!Spec
=============================================================================
