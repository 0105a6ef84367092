--------------------------- MODULE Win32CondProofs ---------------------------
(* Proofs about Win32Cond for every finite set of threads: each waiter takes  *)
(* one slice of the semaphore, and what the threads see is the condition      *)
(* variable of CondVar.                                                       *)
EXTENDS Win32Cond, FiniteSetTheorems, TLAPS

-----------------------------------------------------------------------------
(* The invariant *)
Pcs == {"outside", "inside", "counted", "blocked", "awake", "uncounted", "relock", "broadcast",
        "continued"}

\* Who has the external mutex
Owning == {"inside", "counted", "broadcast", "continued"}

\* The last waiter, on the way to set the event
Pending(t) == pc[t] = "uncounted" /\ last_waiter[t]

Typed ==
  /\ pc \in [Threads -> Pcs]
  /\ was_broadcast \in BOOLEAN /\ continue_broadcast \in BOOLEAN
  /\ last_waiter \in [Threads -> BOOLEAN]
  /\ sema \in Nat

OwnerInv ==
  /\ mutex \in Threads \cup {NoOne}
  /\ \A t \in Threads : mutex = t <=> pc[t] \in Owning

WaitersInv == waiters = Cardinality(Counted)

\* A broadcast is going on exactly while its flag is set; as many slices are
\* left then as threads are blocked, and none otherwise.
BroadcastInv ==
  /\ was_broadcast <=> \E t \in Threads : pc[t] \in {"broadcast", "continued"}
  /\ ~was_broadcast => At("awake") = {}
  /\ sema = IF was_broadcast THEN Cardinality(At("blocked")) ELSE 0

\* The event is set once, by the last waiter of a broadcast that waits for
\* it, when nobody is left to be counted.
EventInv ==
  /\ continue_broadcast \/ (\E u \in Threads : Pending(u)) =>
       Counted = {} /\ \E t \in Threads : pc[t] = "broadcast"
  /\ \A u \in Threads : Pending(u) => ~continue_broadcast
  /\ \A u, v \in Threads : Pending(u) /\ Pending(v) => u = v
  /\ \A t \in Threads : pc[t] = "continued" => Counted = {}

CondInv == Typed /\ OwnerInv /\ WaitersInv /\ BroadcastInv /\ EventInv

\* One of the steps of Next
Do(t) ==
  \/ Lock(t) \/ Unlock(t) \/ CountWaiter(t)
  \/ BroadcastToNobody(t) \/ Broadcast(t) \/ InCall(t)

-----------------------------------------------------------------------------
(* How many threads there are at a place *)
LEMMA Sizes ==
  ASSUME NEW S \in SUBSET Threads
  PROVE  /\ IsFiniteSet(S) /\ Cardinality(S) \in Nat
         /\ Cardinality(S) = 0 <=> S = {}
         /\ \A t \in Threads : t \notin S => Cardinality(S \cup {t}) = Cardinality(S) + 1
         /\ \A t \in S : Cardinality(S \ {t}) = Cardinality(S) - 1
         /\ \A t \in S : Cardinality(S) = 1 => S = {t}
<1>1. IsFiniteSet(S)
  BY ThreadsAssumption, FS_Subset
<1>2. Cardinality(S) \in Nat /\ (Cardinality(S) = 0 <=> S = {})
  BY <1>1, FS_CardinalityType, FS_EmptySet
<1>3. ASSUME NEW t \in Threads, t \notin S
      PROVE  Cardinality(S \cup {t}) = Cardinality(S) + 1
  BY <1>1, <1>3, FS_AddElement
<1>4. ASSUME NEW t \in S
      PROVE  Cardinality(S \ {t}) = Cardinality(S) - 1
  BY <1>1, FS_RemoveElement
<1>5. ASSUME NEW t \in S, Cardinality(S) = 1
      PROVE  S = {t}
  <2>1. \E x : S = {x}
    BY <1>1, <1>5, FS_Singleton
  <2> QED
    BY <2>1
<1> QED
  BY <1>1, <1>2, <1>3, <1>4, <1>5

LEMMA Moved ==
  ASSUME pc \in [Threads -> Pcs], NEW t \in Threads, NEW from, NEW to \in Pcs, Step(t, from, to),
         from # to, NEW l
  PROVE  At(l)' = IF l = to THEN At(l) \cup {t} ELSE IF l = from THEN At(l) \ {t} ELSE At(l)
BY DEF At, Step

\* Those of the steps that reach or leave the places of Counted
LEMMA NotMoved ==
  ASSUME pc \in [Threads -> Pcs], NEW t \in Threads, NEW from, NEW to \in Pcs, Step(t, from, to),
         {from, to} \cap {"counted", "blocked", "awake"} = {}
  PROVE  Counted' = Counted /\ At("blocked")' = At("blocked") /\ At("awake")' = At("awake")
BY DEF At, Step, Counted

LEMMA CountedMoves ==
  ASSUME pc \in [Threads -> Pcs], NEW t \in Threads
  PROVE  /\ Step(t, "inside", "counted") =>
              /\ t \notin Counted /\ Counted' = Counted \cup {t}
              /\ At("blocked")' = At("blocked") /\ At("awake")' = At("awake")
         /\ Step(t, "counted", "blocked") =>
              /\ t \notin At("blocked") /\ At("blocked")' = At("blocked") \cup {t}
              /\ Counted' = Counted /\ t \in Counted /\ At("awake")' = At("awake")
         /\ Step(t, "blocked", "awake") =>
              /\ t \in At("blocked") /\ At("blocked")' = At("blocked") \ {t}
              /\ Counted' = Counted /\ t \in Counted
         /\ Step(t, "awake", "uncounted") =>
              /\ t \in At("awake") /\ t \in Counted /\ Counted' = Counted \ {t}
              /\ At("blocked")' = At("blocked") /\ At("awake")' = At("awake") \ {t}
BY DEF At, Step, Counted

LEMMA Subsets == Counted \in SUBSET Threads /\ \A l : At(l) \in SUBSET Threads
BY DEF Counted, At

-----------------------------------------------------------------------------
(* The invariant holds at the start, *)
LEMMA InitOK == Init => CondInv
<1> SUFFICES ASSUME Init
             PROVE  CondInv
  OBVIOUS
<1>1. Counted = {} /\ At("blocked") = {} /\ At("awake") = {}
  BY DEF Init, Counted, At
<1>2. Typed /\ OwnerInv
  BY NoOneAssumption DEF Init, Typed, OwnerInv, Pcs, Owning
<1>3. WaitersInv
  BY <1>1, FS_EmptySet DEF Init, WaitersInv
<1>4. BroadcastInv
  BY <1>1 DEF Init, BroadcastInv
<1>5. EventInv
  BY DEF Init, EventInv, Pending
<1> QED
  BY <1>2, <1>3, <1>4, <1>5 DEF CondInv

(* and every step preserves each of its parts. *)
LEMMA TypedOK ==
  ASSUME CondInv, NEW t \in Threads, Do(t)
  PROVE  Typed'
<1> USE DEF CondInv, Typed, Step, Pcs, condVars
<1>1. CASE Lock(t) \/ Unlock(t) \/ LeaveMutex(t)
  BY <1>1 DEF Lock, Unlock, LeaveMutex
<1>2. CASE CountWaiter(t)
  BY <1>2 DEF CountWaiter
<1>3. CASE TakeSlice(t)
  BY <1>3 DEF TakeSlice
<1>4. CASE UncountWaiter(t)
  BY <1>4 DEF UncountWaiter, IsLastWaiter
<1>5. CASE Notify(t)
  BY <1>5 DEF Notify
<1>6. CASE ReturnFromWait(t)
  BY <1>6 DEF ReturnFromWait
<1>7. CASE BroadcastToNobody(t)
  BY <1>7 DEF BroadcastToNobody
<1>8. CASE Broadcast(t)
  <2>1. waiters \in Nat
    BY Subsets, Sizes DEF WaitersInv
  <2> QED
    BY <1>8, <2>1 DEF Broadcast
<1>9. CASE Continue(t) \/ EndBroadcast(t)
  BY <1>9 DEF Continue, EndBroadcast
<1> QED
  BY <1>1, <1>2, <1>3, <1>4, <1>5, <1>6, <1>7, <1>8, <1>9 DEF Do, InCall

LEMMA OwnerOK ==
  ASSUME CondInv, NEW t \in Threads, Do(t)
  PROVE  OwnerInv'
<1> USE NoOneAssumption DEF CondInv, Typed, OwnerInv, Owning, Step, condVars
<1>1. CASE Lock(t) \/ ReturnFromWait(t)
  BY <1>1 DEF Lock, ReturnFromWait
<1>2. CASE Unlock(t) \/ LeaveMutex(t)
  BY <1>2 DEF Unlock, LeaveMutex
<1>3. CASE CountWaiter(t) \/ Broadcast(t) \/ Continue(t) \/ EndBroadcast(t)
  BY <1>3 DEF CountWaiter, Broadcast, Continue, EndBroadcast
<1>4. CASE TakeSlice(t) \/ UncountWaiter(t) \/ Notify(t)
  BY <1>4 DEF TakeSlice, UncountWaiter, Notify
<1>5. CASE BroadcastToNobody(t)
  BY <1>5 DEF BroadcastToNobody
<1> QED
  BY <1>1, <1>2, <1>3, <1>4, <1>5 DEF Do, InCall

(* The steps that stay clear of the places a broadcast is about, *)
LEMMA Elsewhere ==
  ASSUME CondInv, NEW t \in Threads,
         \/ Lock(t) \/ Unlock(t) \/ Notify(t) \/ ReturnFromWait(t) \/ BroadcastToNobody(t)
         \/ Broadcast(t) \/ Continue(t) \/ EndBroadcast(t)
  PROVE  /\ Counted' = Counted /\ At("blocked")' = At("blocked") /\ At("awake")' = At("awake")
         /\ waiters' = waiters
<1> USE DEF CondInv, Typed, Pcs, condVars
<1>1. CASE Lock(t)
  BY <1>1, NotMoved DEF Lock
<1>2. CASE Unlock(t)
  BY <1>2, NotMoved DEF Unlock
<1>3. CASE Notify(t)
  BY <1>3, NotMoved DEF Notify
<1>4. CASE ReturnFromWait(t)
  BY <1>4, NotMoved DEF ReturnFromWait
<1>5. CASE BroadcastToNobody(t)
  BY <1>5 DEF BroadcastToNobody, Counted, At
<1>6. CASE Broadcast(t)
  BY <1>6, NotMoved DEF Broadcast
<1>7. CASE Continue(t)
  BY <1>7, NotMoved DEF Continue
<1>8. CASE EndBroadcast(t)
  BY <1>8, NotMoved DEF EndBroadcast
<1> QED
  BY <1>1, <1>2, <1>3, <1>4, <1>5, <1>6, <1>7, <1>8

LEMMA WaitersOK ==
  ASSUME CondInv, NEW t \in Threads, Do(t)
  PROVE  WaitersInv'
<1>1. pc \in [Threads -> Pcs] /\ waiters = Cardinality(Counted)
  BY DEF CondInv, Typed, WaitersInv
<1>2. CASE CountWaiter(t)
  <2>1. waiters' = waiters + 1 /\ t \notin Counted /\ Counted' = Counted \cup {t}
    BY <1>1, <1>2, CountedMoves DEF CountWaiter
  <2> QED
    BY <1>1, <2>1, Subsets, Sizes DEF WaitersInv
<1>3. CASE LeaveMutex(t) \/ TakeSlice(t)
  BY <1>1, <1>3, CountedMoves DEF LeaveMutex, TakeSlice, condVars, WaitersInv
<1>4. CASE UncountWaiter(t)
  <2>1. waiters' = waiters - 1 /\ t \in Counted /\ Counted' = Counted \ {t}
    BY <1>1, <1>4, CountedMoves DEF UncountWaiter
  <2> QED
    BY <1>1, <2>1, Subsets, Sizes DEF WaitersInv
<1> QED
  BY <1>1, <1>2, <1>3, <1>4, Elsewhere DEF Do, InCall, WaitersInv

(* who leaves the mutex or comes to it finds no broadcast, *)
LEMMA NoBroadcast ==
  ASSUME CondInv, NEW t \in Threads, pc[t] \in {"inside", "counted"} \/ mutex = NoOne
  PROVE  /\ ~was_broadcast /\ At("awake") = {} /\ sema = 0
         /\ ~continue_broadcast /\ \A u \in Threads : ~Pending(u)
         /\ \A u \in Threads : pc[u] \notin {"broadcast", "continued"}
<1>1. \A u \in Threads : pc[u] \notin {"broadcast", "continued"}
  BY NoOneAssumption DEF CondInv, OwnerInv, Owning
<1> QED
  BY <1>1 DEF CondInv, Typed, BroadcastInv, EventInv

LEMMA BroadcastOK ==
  ASSUME CondInv, NEW t \in Threads, Do(t)
  PROVE  BroadcastInv'
<1>1. pc \in [Threads -> Pcs] /\ sema \in Nat /\ BroadcastInv /\ was_broadcast \in BOOLEAN
  BY DEF CondInv, Typed
<1> DEFINE Going == \E u \in Threads : pc[u] \in {"broadcast", "continued"}
<1>2. CASE Lock(t) \/ Unlock(t) \/ Notify(t) \/ ReturnFromWait(t)
  <2>1. was_broadcast' = was_broadcast /\ sema' = sema
    BY <1>2 DEF Lock, Unlock, Notify, ReturnFromWait, condVars
  <2>2. Going' <=> Going
    BY <1>1, <1>2 DEF Lock, Unlock, Notify, ReturnFromWait, Step, Pcs
  <2> QED
    BY <1>1, <1>2, <2>1, <2>2, Elsewhere DEF BroadcastInv
<1>3. CASE CountWaiter(t)
  <2>1. was_broadcast' = was_broadcast /\ sema' = sema /\ Step(t, "inside", "counted")
    BY <1>3 DEF CountWaiter
  <2>2. Going' <=> Going
    BY <1>1, <2>1 DEF Step, Pcs
  <2> QED
    BY <1>1, <2>1, <2>2, CountedMoves DEF BroadcastInv
<1>4. CASE LeaveMutex(t)
  <2>1. was_broadcast' = was_broadcast /\ sema' = sema /\ Step(t, "counted", "blocked")
    BY <1>4 DEF LeaveMutex, condVars
  <2>2. ~was_broadcast /\ sema = 0 /\ At("awake") = {}
    BY <2>1, NoBroadcast DEF Step
  <2>3. Going' <=> Going
    BY <1>1, <2>1 DEF Step, Pcs
  <2> QED
    BY <1>1, <2>1, <2>2, <2>3, CountedMoves DEF BroadcastInv
<1>5. CASE TakeSlice(t)
  <2>1. was_broadcast' = was_broadcast /\ sema' = sema - 1 /\ sema > 0 /\ Step(t, "blocked", "awake")
    BY <1>5 DEF TakeSlice
  <2>2. t \in At("blocked") /\ At("blocked")' = At("blocked") \ {t}
    BY <1>1, <2>1, CountedMoves
  <2>3. was_broadcast /\ sema = Cardinality(At("blocked"))
    BY <1>1, <2>1 DEF BroadcastInv
  <2>4. Going' <=> Going
    BY <1>1, <2>1 DEF Step, Pcs
  <2>5. Cardinality(At("blocked")') = Cardinality(At("blocked")) - 1
    BY <2>2, Subsets, Sizes
  <2> QED
    BY <1>1, <2>1, <2>3, <2>4, <2>5 DEF BroadcastInv
<1>6. CASE UncountWaiter(t)
  <2>1. was_broadcast' = was_broadcast /\ sema' = sema /\ Step(t, "awake", "uncounted")
    BY <1>6 DEF UncountWaiter
  <2>2. Going' <=> Going
    BY <1>1, <2>1 DEF Step, Pcs
  <2> QED
    BY <1>1, <2>1, <2>2, CountedMoves DEF BroadcastInv
<1>7. CASE BroadcastToNobody(t)
  <2>1. ~was_broadcast
    BY <1>7, NoBroadcast DEF BroadcastToNobody
  <2> QED
    BY <1>1, <1>7, <2>1, Elsewhere DEF BroadcastInv, BroadcastToNobody
<1>8. CASE Broadcast(t)
  <2>1. At("awake") = {} /\ sema = 0 /\ At("counted") = {}
    <3>1. pc[t] = "inside"
      BY <1>8 DEF Broadcast, Step
    <3>2. At("counted") = {}
      BY <3>1 DEF CondInv, OwnerInv, Owning, At
    <3> QED
      BY <3>1, <3>2, NoBroadcast
  <2>2. Counted = At("blocked")
    BY <2>1 DEF Counted
  <2>3. waiters = Cardinality(At("blocked")) /\ waiters \in Nat
    BY <2>2, Subsets, Sizes DEF CondInv, WaitersInv
  <2>4. was_broadcast' /\ sema' = sema + waiters /\ pc'[t] = "broadcast"
    BY <1>1, <1>8 DEF Broadcast, Step
  <2> QED
    BY <1>8, <2>1, <2>3, <2>4, Elsewhere DEF BroadcastInv
<1>9. CASE Continue(t)
  <2>1. was_broadcast' = was_broadcast /\ sema' = sema /\ Step(t, "broadcast", "continued")
    BY <1>9 DEF Continue
  <2>2. Going' <=> Going
    BY <1>1, <2>1 DEF Step, Pcs
  <2> QED
    BY <1>1, <1>9, <2>1, <2>2, Elsewhere DEF BroadcastInv
<1>10. CASE EndBroadcast(t)
  <2>1. Counted = {} /\ \A u \in Threads \ {t} : pc[u] \notin {"broadcast", "continued"}
    BY <1>10 DEF EndBroadcast, Step, CondInv, EventInv, OwnerInv, Owning
  <2>2. At("blocked") = {} /\ At("awake") = {}
    BY <2>1 DEF Counted
  <2>3. sema = 0
    BY <1>1, <2>2, FS_EmptySet DEF BroadcastInv
  <2>4. ~was_broadcast' /\ sema' = 0 /\ ~Going'
    BY <1>1, <1>10, <2>1, <2>3 DEF EndBroadcast, Step, Pcs
  <2> QED
    BY <1>10, <2>2, <2>4, Elsewhere DEF BroadcastInv
<1> QED
  BY <1>2, <1>3, <1>4, <1>5, <1>6, <1>7, <1>8, <1>9, <1>10 DEF Do, InCall

(* and the event stays with the broadcast it was set for. *)
LEMMA EventOK ==
  ASSUME CondInv, NEW t \in Threads, Do(t)
  PROVE  EventInv'
<1>1. pc \in [Threads -> Pcs] /\ last_waiter \in [Threads -> BOOLEAN] /\ continue_broadcast \in BOOLEAN
  BY DEF CondInv, Typed
<1>2. EventInv
  BY DEF CondInv
<1>3. CASE Lock(t) \/ Unlock(t) \/ CountWaiter(t) \/ LeaveMutex(t) \/ BroadcastToNobody(t)
  <2>1. ~continue_broadcast /\ \A u \in Threads : ~Pending(u) /\ pc[u] \notin {"broadcast", "continued"}
    BY <1>3, NoBroadcast DEF Lock, Unlock, CountWaiter, LeaveMutex, BroadcastToNobody, Step
  <2>2. ~continue_broadcast' /\ \A u \in Threads : ~Pending(u)' /\ pc'[u] # "continued"
    BY <1>1, <1>3, <2>1
       DEF Lock, Unlock, CountWaiter, LeaveMutex, BroadcastToNobody, Step, Pcs, condVars, Pending
  <2> QED
    BY <2>2 DEF EventInv
<1>4. CASE ReturnFromWait(t)
  <2>1. ~continue_broadcast /\ \A u \in Threads : ~Pending(u) /\ pc[u] \notin {"broadcast", "continued"}
    BY <1>4, NoBroadcast DEF ReturnFromWait
  <2>2. ~continue_broadcast' /\ \A u \in Threads : ~Pending(u)' /\ pc'[u] # "continued"
    BY <1>1, <1>4, <2>1 DEF ReturnFromWait, Step, Pcs, condVars, Pending
  <2> QED
    BY <2>2 DEF EventInv
<1>5. CASE TakeSlice(t)
  <2>1. /\ continue_broadcast' = continue_broadcast /\ last_waiter' = last_waiter
        /\ Step(t, "blocked", "awake")
    BY <1>5 DEF TakeSlice
  <2>2. Counted' = Counted
    BY <1>1, <2>1, CountedMoves
  <2>3. \A u \in Threads :
          /\ Pending(u)' <=> Pending(u)
          /\ pc'[u] = "broadcast" <=> pc[u] = "broadcast"
          /\ pc'[u] = "continued" <=> pc[u] = "continued"
    BY <1>1, <2>1 DEF Pending, Step, Pcs
  <2> QED
    BY <1>1, <1>2, <2>1, <2>2, <2>3 DEF EventInv
<1>6. CASE UncountWaiter(t)
  <2>1. /\ continue_broadcast' = continue_broadcast /\ Step(t, "awake", "uncounted")
        /\ last_waiter' = [last_waiter EXCEPT ![t] = IsLastWaiter]
    BY <1>6 DEF UncountWaiter
  <2>2. t \in Counted /\ Counted' = Counted \ {t} /\ t \in At("awake")
    BY <1>1, <2>1, CountedMoves
  <2>3. ~continue_broadcast /\ \A u \in Threads : ~Pending(u) /\ pc[u] # "continued"
    BY <1>2, <2>2 DEF EventInv
  <2>4. PICK b \in Threads : pc[b] = "broadcast"
    BY <2>2, <2>3 DEF CondInv, BroadcastInv
  <2>5. pc'[b] = "broadcast" /\ \A u \in Threads : pc'[u] # "continued"
    BY <1>1, <2>1, <2>3, <2>4 DEF Step, Pcs
  <2>6. \A u \in Threads : Pending(u)' => u = t /\ IsLastWaiter
    BY <1>1, <2>1, <2>3 DEF Pending, Step, Pcs
  <2>7. IsLastWaiter => Counted' = {}
    BY <2>2, Subsets, Sizes DEF IsLastWaiter, CondInv, WaitersInv
  <2> QED
    BY <2>1, <2>3, <2>5, <2>6, <2>7 DEF EventInv
<1>7. CASE Notify(t)
  <2>1. Pending(t) /\ continue_broadcast' /\ last_waiter' = last_waiter /\ Step(t, "uncounted", "relock")
    BY <1>7 DEF Notify, Pending, Step
  <2>2. Counted' = Counted
    BY <1>7, Elsewhere
  <2>3. \A u \in Threads : ~Pending(u)'
    BY <1>1, <1>2, <2>1 DEF EventInv, Pending, Step, Pcs
  <2>4. \A u \in Threads :
          /\ pc'[u] = "broadcast" <=> pc[u] = "broadcast"
          /\ pc'[u] = "continued" <=> pc[u] = "continued"
    BY <1>1, <2>1 DEF Step, Pcs
  <2> QED
    BY <1>1, <1>2, <2>1, <2>2, <2>3, <2>4 DEF EventInv
<1>8. CASE Broadcast(t)
  <2>1. ~continue_broadcast /\ \A u \in Threads : ~Pending(u) /\ pc[u] \notin {"broadcast", "continued"}
    BY <1>8, NoBroadcast DEF Broadcast, Step
  <2>2. ~continue_broadcast' /\ \A u \in Threads : ~Pending(u)' /\ pc'[u] # "continued"
    BY <1>1, <1>8, <2>1 DEF Broadcast, Step, Pcs, Pending
  <2> QED
    BY <2>2 DEF EventInv
<1>9. CASE Continue(t)
  <2>1. /\ continue_broadcast /\ ~continue_broadcast' /\ last_waiter' = last_waiter
        /\ Step(t, "broadcast", "continued")
    BY <1>9 DEF Continue
  <2>2. Counted' = {}
    BY <1>2, <1>9, <2>1, Elsewhere DEF EventInv
  <2>3. \A u \in Threads : ~Pending(u)'
    BY <1>1, <1>2, <2>1 DEF EventInv, Pending, Step, Pcs
  <2> QED
    BY <2>1, <2>2, <2>3 DEF EventInv
<1>10. CASE EndBroadcast(t)
  <2>1. \A u \in Threads \ {t} : pc[u] \notin {"broadcast", "continued"}
    BY <1>10 DEF EndBroadcast, Step, CondInv, OwnerInv, Owning
  <2>2. ~continue_broadcast /\ \A u \in Threads : ~Pending(u)
    BY <1>2, <1>10, <2>1 DEF EndBroadcast, Step, EventInv
  <2>3. ~continue_broadcast' /\ \A u \in Threads : ~Pending(u)' /\ pc'[u] # "continued"
    BY <1>1, <1>10, <2>1, <2>2 DEF EndBroadcast, Step, Pcs, Pending
  <2> QED
    BY <2>3 DEF EventInv
<1> QED
  BY <1>3, <1>4, <1>5, <1>6, <1>7, <1>8, <1>9, <1>10 DEF Do, InCall

LEMMA StutterOK == CondInv /\ UNCHANGED vars => CondInv'
BY DEF CondInv, Typed, OwnerInv, WaitersInv, BroadcastInv, EventInv, Pending, Counted, At, vars, condVars

LEMMA NextOK == CondInv /\ [Next]_vars => CondInv'
<1>1. ASSUME CondInv, NEW t \in Threads, Do(t)
      PROVE  CondInv'
  BY <1>1, TypedOK, OwnerOK, WaitersOK, BroadcastOK, EventOK DEF CondInv
<1> QED
  BY <1>1, StutterOK DEF Next, Do

LEMMA CondCorrect == Spec => []CondInv
BY InitOK, NextOK, PTL DEF Spec

-----------------------------------------------------------------------------
(* Types, and waiters is the number of threads between the two critical    *)
(* sections of pthread_cond_wait (win32/pthread.c:117-152), for every      *)
(* finite set of threads.                                                  *)
THEOREM WaitersAreCounted == Spec => []TypeOK
<1>1. CondInv => TypeOK
  BY DEF CondInv, Typed, OwnerInv, WaitersInv, TypeOK, Pcs
<1> QED
  BY <1>1, CondCorrect, PTL

(* However many threads wait: when a broadcast goes on, every one of them  *)
(* took its slice, and nothing is left for who waits next                  *)
(* (win32/pthread.c:129-158, 194-221).                                     *)
THEOREM SlicesAreConsumed == Spec => []OneSliceEach
<1>1. CondInv => OneSliceEach
  <2> SUFFICES ASSUME CondInv, NEW t \in At("continued")
               PROVE  /\ sema = 0 /\ At("blocked") = {} /\ At("awake") = {}
                      /\ ~continue_broadcast
                      /\ At("uncounted") \cap {u \in Threads : last_waiter[u]} = {}
    BY DEF OneSliceEach
  <2>1. t \in Threads /\ pc[t] = "continued"
    BY DEF At
  <2>2. Counted = {}
    BY <2>1 DEF CondInv, EventInv
  <2>3. At("blocked") = {} /\ At("awake") = {}
    BY <2>2 DEF Counted
  <2>4. sema = 0
    BY <2>3, FS_EmptySet DEF CondInv, BroadcastInv
  <2>5. \A u \in Threads : pc[u] # "broadcast"
    BY <2>1 DEF CondInv, OwnerInv, Owning
  <2>6. ~continue_broadcast /\ \A u \in Threads : ~Pending(u)
    BY <2>5 DEF CondInv, EventInv
  <2> QED
    BY <2>3, <2>4, <2>6 DEF Pending, At
<1> QED
  BY <1>1, CondCorrect, PTL

-----------------------------------------------------------------------------
(* The condition variable the threads see: who is blocked sleeps until the *)
(* slices are there.                                                       *)
LEMMA Views ==
  /\ Asleep = {u \in Threads : pc[u] = "blocked" /\ ~(sema > 0)}
  /\ Waking = {u \in Threads : \/ pc[u] \in {"awake", "uncounted", "relock"}
                               \/ pc[u] = "blocked" /\ sema > 0}
  /\ Asleep' = {u \in Threads : pc'[u] = "blocked" /\ ~(sema' > 0)}
  /\ Waking' = {u \in Threads : \/ pc'[u] \in {"awake", "uncounted", "relock"}
                                \/ pc'[u] = "blocked" /\ sema' > 0}
BY DEF Asleep, Waking, At

LEMMA StepMaps ==
  ASSUME CondInv, NEW t \in Threads, Do(t)
  PROVE  [Condition!Next]_<<mutex, Asleep, Waking>>
<1>1. pc \in [Threads -> Pcs] /\ sema \in Nat
  BY DEF CondInv, Typed
<1>2. mutex = t <=> pc[t] \in Owning
  BY DEF CondInv, OwnerInv
<1>3. CASE Lock(t)
  <2>1. mutex = NoOne /\ mutex' = t /\ sema' = sema /\ Step(t, "outside", "inside")
    BY <1>3 DEF Lock, condVars
  <2>2. t \notin Asleep \cup Waking /\ Asleep' = Asleep /\ Waking' = Waking
    BY <1>1, <2>1, Views DEF Step, Pcs
  <2>3. Condition!Lock(t)
    BY <2>1, <2>2 DEF Condition!Lock
  <2> QED
    BY <2>3 DEF Condition!Next
<1>4. CASE Unlock(t)
  <2>1. mutex = t /\ mutex' = NoOne /\ sema' = sema /\ Step(t, "inside", "outside")
    BY <1>2, <1>4 DEF Unlock, condVars, Step, Owning
  <2>2. Asleep' = Asleep /\ Waking' = Waking
    BY <1>1, <2>1, Views DEF Step, Pcs
  <2>3. Condition!Unlock(t)
    BY <2>1, <2>2 DEF Condition!Unlock
  <2> QED
    BY <2>3 DEF Condition!Next
<1>5. CASE LeaveMutex(t)
  <2>1. mutex = t /\ mutex' = NoOne /\ sema' = sema /\ Step(t, "counted", "blocked")
    BY <1>2, <1>5 DEF LeaveMutex, condVars, Step, Owning
  <2>2. sema = 0
    BY <2>1, NoBroadcast DEF Step
  <2>3. Asleep' = Asleep \cup {t} /\ Waking' = Waking
    BY <1>1, <2>1, <2>2, Views DEF Step, Pcs
  <2>4. Condition!Wait(t)
    BY <2>1, <2>3 DEF Condition!Wait
  <2> QED
    BY <2>4 DEF Condition!Next
<1>6. CASE TakeSlice(t)
  <2>1. mutex' = mutex /\ sema > 0 /\ Step(t, "blocked", "awake")
    BY <1>6 DEF TakeSlice
  <2>2. ~(sema' > 0) => \A u \in Threads : pc'[u] # "blocked"
    <3>1. BroadcastInv' /\ sema' \in Nat
      BY BroadcastOK, TypedOK DEF Typed
    <3>2. was_broadcast'
      BY <1>1, <1>6, <2>1 DEF TakeSlice, CondInv, BroadcastInv
    <3>3. sema' = Cardinality(At("blocked")')
      BY <3>1, <3>2 DEF BroadcastInv
    <3>4. At("blocked")' \in SUBSET Threads
      BY DEF At
    <3>5. sema' = 0 => At("blocked")' = {}
      BY <3>3, <3>4, Sizes
    <3> QED
      BY <3>1, <3>5 DEF At
  <2>3. Asleep' = Asleep
    BY <1>1, <2>1, <2>2, Views
  <2>4. Waking' = Waking
    BY <1>1, <2>1, <2>2, Views DEF Step, Pcs
  <2> QED
    BY <2>1, <2>3, <2>4
<1>7. CASE ReturnFromWait(t)
  <2>1. /\ mutex = NoOne /\ mutex' = t /\ sema' = sema
        /\ Step(t, "relock", "inside") \/ Step(t, "uncounted", "inside")
    BY <1>7 DEF ReturnFromWait, condVars
  <2>2. t \in Waking /\ Asleep' = Asleep /\ Waking' = Waking \ {t}
    BY <1>1, <2>1, Views DEF Step, Pcs
  <2>3. Condition!Return(t)
    BY <2>1, <2>2 DEF Condition!Return
  <2> QED
    BY <2>3 DEF Condition!Next
<1>8. CASE Broadcast(t)
  <2>1. /\ mutex = t /\ mutex' = mutex /\ Step(t, "inside", "broadcast")
        /\ sema' = sema + waiters /\ waiters > 0
    BY <1>2, <1>8 DEF Broadcast, Step, Owning
  <2>2. sema = 0
    BY <2>1, NoBroadcast DEF Step
  <2>3. waiters \in Nat
    BY Subsets, Sizes DEF CondInv, WaitersInv
  <2>4. sema' > 0
    BY <2>1, <2>2, <2>3
  <2>5. Asleep' = {} /\ Waking' = Waking \cup Asleep
    BY <1>1, <2>1, <2>2, <2>4, Views DEF Step, Pcs
  <2>6. Condition!Broadcast(t)
    BY <2>1, <2>5 DEF Condition!Broadcast
  <2> QED
    BY <2>6 DEF Condition!Next
<1>9. CASE CountWaiter(t) \/ UncountWaiter(t) \/ Notify(t) \/ BroadcastToNobody(t) \/ Continue(t)
           \/ EndBroadcast(t)
  <2>1. /\ mutex' = mutex /\ sema' = sema
        /\ \/ pc' = pc \/ Step(t, "inside", "counted") \/ Step(t, "awake", "uncounted")
           \/ Step(t, "uncounted", "relock") \/ Step(t, "broadcast", "continued")
           \/ Step(t, "continued", "inside")
    BY <1>9 DEF CountWaiter, UncountWaiter, Notify, BroadcastToNobody, Continue, EndBroadcast
  <2>2. Asleep' = Asleep
    BY <1>1, <2>1, Views DEF Step, Pcs
  <2>3. Waking' = Waking
    BY <1>1, <2>1, Views DEF Step, Pcs
  <2> QED
    BY <2>1, <2>2, <2>3
<1> QED
  BY <1>3, <1>4, <1>5, <1>6, <1>7, <1>8, <1>9 DEF Do, InCall

(* The emulation implements the condition variable the pool of BloscPool   *)
(* counts on: who waits sleeps until a broadcast, a broadcast wakes        *)
(* everybody who sleeps, and nobody wakes of himself                       *)
(* (win32/pthread.c:113-164, 194-221).                                     *)
THEOREM EmulatesCondVar == Spec => ImplementsCondVar
<1>1. Init => Condition!Init
  <2>1. Init => Asleep = {} /\ Waking = {}
    BY Views DEF Init
  <2> QED
    BY <2>1 DEF Init, Condition!Init
<1>2. CondInv /\ [Next]_vars => [Condition!Next]_<<mutex, Asleep, Waking>>
  <2>1. ASSUME CondInv, NEW t \in Threads, Do(t)
        PROVE  [Condition!Next]_<<mutex, Asleep, Waking>>
    BY <2>1, StepMaps
  <2>2. UNCHANGED vars => UNCHANGED <<mutex, Asleep, Waking>>
    BY DEF vars, condVars, Asleep, Waking, At
  <2> QED
    BY <2>1, <2>2 DEF Next, Do
<1> QED
  BY <1>1, <1>2, CondCorrect, PTL DEF Spec, ImplementsCondVar, Condition!Spec, Condition!vars
=============================================================================
