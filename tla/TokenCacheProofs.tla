-------------------------- MODULE TokenCacheProofs --------------------------
(***************************************************************************)
(* The safety of TokenCache for every number of tasks, keys and locks.     *)
(*                                                                         *)
(* LockExclusion and NoLostWakeup are not inductive by themselves: that a  *)
(* woken waiter finds the lock free rests on where tasks stand in the      *)
(* queues, which IInv adds.                                                *)
(***************************************************************************)
EXTENDS TokenCache, Lemmas

\* A task stands in a lock's queue exactly while it waits for, or aborts
\* waiting for, that lock.
QueuesOK ==
  \A l \in LockId, t \in Task :
    Waits(lock[l], t) <=> mine[t] = l /\ pc[t] \in {"waiting", "aborting"}

\* A lock is held by the one task that fetches under it.
HeldBy(l, t) == pc[t] = "fetching" /\ mine[t] = l

HoldersOK ==
  \A l \in LockId :
    /\ lock[l].locked <=> \E t \in Task : HeldBy(l, t)
    /\ \A t, u \in Task : HeldBy(l, t) /\ HeldBy(l, u) => t = u

IInv ==
  /\ TypeOK
  /\ \A l \in LockId : Sound(lock[l])
  /\ QueuesOK
  /\ HoldersOK

\* The initial state: no task, no entry, every lock as new.
LEMMA InitIInv == Init => IInv
<1> SUFFICES ASSUME Init PROVE IInv
  OBVIOUS
<1>1. NewLock \in LockStates(Task) /\ Sound(NewLock) /\ \A u : ~Waits(NewLock, u)
  BY NewLockSound
<1>2. TypeOK
  BY <1>1 DEF Init, TypeOK
<1>3. \A l \in LockId : Sound(lock[l])
  BY <1>1 DEF Init
<1>4. QueuesOK
  BY <1>1 DEF Init, QueuesOK
<1>5. HoldersOK
  BY DEF Init, HoldersOK, HeldBy, NewLock
<1> QED BY <1>2, <1>3, <1>4, <1>5 DEF IInv

\* What the invariant says of a task that is not idle: its lock is a lock, and
\* whether it waits or holds is what its pc says.
LEMMA Standing ==
  ASSUME IInv, NEW t \in Task, pc[t] # "idle"
  PROVE  /\ mine[t] \in LockId
         /\ lock[mine[t]] \in LockStates(Task)
         /\ Sound(lock[mine[t]])
         /\ pc[t] \in {"waiting", "aborting"} <=> Waits(lock[mine[t]], t)
         /\ pc[t] = "fetching" => lock[mine[t]].locked
BY DEF IInv, TypeOK, QueuesOK, HoldersOK, HeldBy

\* A task that takes a lock to fetch under it: the lock is nobody else's.
LEMMA StartsFetching ==
  ASSUME IInv, TypeOK',
         NEW t \in Task, pc[t] # "fetching", NEW l \in LockId, ~lock[l].locked,
         NEW lk \in LockStates(Task), Sound(lk), lk.locked,
         \A u \in Task : Waits(lk, u) <=> Waits(lock[l], u) /\ u # t,
         \A m \in LockId : m # l => ~Waits(lock[m], t),
         lock' = [lock EXCEPT ![l] = lk],
         pc' = [pc EXCEPT ![t] = "fetching"],
         mine' = [mine EXCEPT ![t] = l]
  PROVE  IInv'
<1>1. /\ lock'[l] = lk
      /\ \A m \in LockId : m # l => lock'[m] = lock[m]
      /\ pc'[t] = "fetching" /\ mine'[t] = l
      /\ \A u \in Task : u # t => pc'[u] = pc[u] /\ mine'[u] = mine[u]
  BY DEF IInv, TypeOK
<1>2. \A m \in LockId : Sound(lock'[m])
  BY <1>1 DEF IInv
<1>3. QueuesOK'
  BY <1>1 DEF IInv, QueuesOK
<1>4. HoldersOK'
  <2>1. \A u \in Task : ~HeldBy(l, u)
    BY DEF IInv, HoldersOK
  <2>2. \A m \in LockId, u \in Task :
          HeldBy(m, u)' <=> IF u = t THEN m = l ELSE HeldBy(m, u)
    BY <1>1 DEF HeldBy
  <2>3. \A u \in Task : HeldBy(l, u)' <=> u = t
    BY <2>1, <2>2
  <2>4. \A m \in LockId, u \in Task : m # l => (HeldBy(m, u)' <=> HeldBy(m, u))
    BY <2>2 DEF HeldBy
  <2> HIDE DEF HeldBy
  <2>5. ASSUME NEW m \in LockId
        PROVE  /\ lock'[m].locked <=> \E u \in Task : HeldBy(m, u)'
               /\ \A u, v \in Task : HeldBy(m, u)' /\ HeldBy(m, v)' => u = v
    <3>1. CASE m = l
      BY <1>1, <2>3, <3>1
    <3>2. CASE m # l
      BY <1>1, <2>4, <3>2 DEF IInv, HoldersOK
    <3> QED BY <3>1, <3>2
  <2> QED BY <2>5 DEF HoldersOK
<1> QED BY <1>2, <1>3, <1>4 DEF IInv

\* A task that queues behind a lock that is not free.
LEMMA StartsWaiting ==
  ASSUME IInv, TypeOK',
         NEW t \in Task, pc[t] = "idle", NEW l \in LockId, ~Free(lock[l]),
         lock' = [lock EXCEPT ![l] = Enqueue(@, t)],
         pc' = [pc EXCEPT ![t] = "waiting"],
         mine' = [mine EXCEPT ![t] = l]
  PROVE  IInv'
<1>1. /\ lock'[l] = Enqueue(lock[l], t)
      /\ \A m \in LockId : m # l => lock'[m] = lock[m]
      /\ pc'[t] = "waiting" /\ mine'[t] = l
      /\ \A u \in Task : u # t => pc'[u] = pc[u] /\ mine'[u] = mine[u]
  BY DEF IInv, TypeOK
<1>2. \A m \in LockId : ~Waits(lock[m], t)
  BY DEF IInv, QueuesOK
<1>3. /\ Sound(Enqueue(lock[l], t))
      /\ Enqueue(lock[l], t).locked = lock[l].locked
      /\ \A u : Waits(Enqueue(lock[l], t), u) <=> Waits(lock[l], u) \/ u = t
  BY <1>2, EnqueueSound DEF IInv, TypeOK
<1>4. \A m \in LockId : Sound(lock'[m])
  BY <1>1, <1>3 DEF IInv
<1>5. QueuesOK'
  BY <1>1, <1>2, <1>3 DEF IInv, QueuesOK
<1>6. \A m \in LockId, u \in Task : HeldBy(m, u)' <=> HeldBy(m, u)
  BY <1>1 DEF HeldBy
<1>7. \A m \in LockId : lock'[m].locked = lock[m].locked
  BY <1>1, <1>3
<1>8. HoldersOK'
  BY <1>6, <1>7 DEF IInv, HoldersOK
<1> QED BY <1>4, <1>5, <1>8 DEF IInv

\* A task that ends its call, having left the queue of the lock it waited for
\* and left the lock unheld by it: nobody else's standing changes.
LEMMA EndsSafely ==
  ASSUME IInv, TypeOK',
         NEW t \in Task, pc[t] # "idle", NEW lk \in LockStates(Task), Sound(lk),
         \A u \in Task : Waits(lk, u) <=> Waits(lock[mine[t]], u) /\ u # t,
         lk.locked <=> lock[mine[t]].locked /\ pc[t] # "fetching",
         lock' = [lock EXCEPT ![mine[t]] = lk],
         pc' = [pc EXCEPT ![t] = "idle"],
         mine' = [mine EXCEPT ![t] = NoLock]
  PROVE  IInv'
<1> DEFINE l == mine[t]
<1>1. /\ l \in LockId
      /\ lock'[l] = lk
      /\ \A m \in LockId : m # l => lock'[m] = lock[m]
      /\ pc'[t] = "idle" /\ mine'[t] = NoLock
      /\ \A u \in Task : u # t => pc'[u] = pc[u] /\ mine'[u] = mine[u]
  BY Standing DEF IInv, TypeOK
<1>2. \A m \in LockId : Sound(lock'[m])
  BY <1>1 DEF IInv
<1>3. QueuesOK'
  BY <1>1 DEF IInv, QueuesOK
<1>4. HoldersOK'
  <2>1. \A m \in LockId, u \in Task : HeldBy(m, u)' <=> HeldBy(m, u) /\ u # t
    BY <1>1 DEF HeldBy
  <2>2. \A m \in LockId : m # l => ~HeldBy(m, t)
    BY DEF HeldBy
  <2>3. HeldBy(l, t) <=> pc[t] = "fetching"
    BY DEF HeldBy
  <2> HIDE DEF HeldBy
  <2>4. ASSUME NEW m \in LockId
        PROVE  /\ lock'[m].locked <=> \E u \in Task : HeldBy(m, u)'
               /\ \A u, v \in Task : HeldBy(m, u)' /\ HeldBy(m, v)' => u = v
    <3>1. CASE m = l
      <4>1. pc[t] = "fetching" => \A u \in Task : HeldBy(l, u) => u = t
        BY <1>1, <2>3 DEF IInv, HoldersOK
      <4>2. pc[t] # "fetching" => \A u \in Task : HeldBy(l, u) => u # t
        BY <2>3
      <4> QED BY <1>1, <2>1, <3>1, <4>1, <4>2 DEF IInv, HoldersOK
    <3>2. CASE m # l
      <4>1. \A u \in Task : HeldBy(m, u)' <=> HeldBy(m, u)
        BY <2>1, <2>2, <3>2
      <4> QED BY <1>1, <3>2, <4>1 DEF IInv, HoldersOK
    <3> QED BY <3>1, <3>2
  <2> QED BY <2>4 DEF HoldersOK
<1> QED BY <1>2, <1>3, <1>4 DEF IInv

\* A step that leaves the locks and the standing of every task alone.
LEMMA LocksUntouched ==
  ASSUME IInv, TypeOK', UNCHANGED <<lock, pc, mine>>
  PROVE  IInv'
BY DEF IInv, QueuesOK, HoldersOK, HeldBy

\* Types are kept by every step.
LEMMA StepTypeOK == IInv /\ [Next]_vars => TypeOK'
<1> SUFFICES ASSUME IInv, [Next]_vars PROVE TypeOK'
  OBVIOUS
<1> USE KeyOfAssumption, TtlAssumption, NoneAssumption DEF IInv, Suspended
<1>1. ASSUME NEW t \in Task, NEW r \in Request, Hit(t, r) PROVE TypeOK'
  <2>1. entries[KeyOf[r]].value \in Request
    BY <1>1 DEF Hit, Cached, TypeOK, Entry
  <2>2. [asked |-> r, token |-> entries[KeyOf[r]].value] \in Answer
    BY <2>1 DEF Answer
  <2> QED BY <1>1, <2>2 DEF Hit, TypeOK
<1>2. ASSUME NEW t \in Task, NEW r \in Request, Miss(t, r) PROVE TypeOK'
  <2>1. PICK l \in LockFor(KeyOf[r]) :
          /\ locks' = [locks EXCEPT ![KeyOf[r]] = l]
          /\ mine' = [mine EXCEPT ![t] = l]
          /\ \/ /\ Free(lock[l])
                /\ lock' = [lock EXCEPT ![l] = Take(@)]
                /\ pc' = [pc EXCEPT ![t] = "fetching"]
             \/ /\ ~Free(lock[l])
                /\ lock' = [lock EXCEPT ![l] = Enqueue(@, t)]
                /\ pc' = [pc EXCEPT ![t] = "waiting"]
    BY <1>2 DEF Miss
  <2>2. KeyOf[r] \in Key /\ l \in LockId
    BY DEF LockFor, TypeOK
  <2>3. lock[l] \in LockStates(Task) /\ Sound(lock[l]) /\ ~Waits(lock[l], t)
    BY <1>2, <2>2 DEF TypeOK, QueuesOK, Miss
  <2>4. Free(lock[l]) => Take(lock[l]) \in LockStates(Task)
    BY <2>3, TakeSound
  <2>5. ~Free(lock[l]) => Enqueue(lock[l], t) \in LockStates(Task)
    BY <2>3, EnqueueSound
  <2>6. lock' \in [LockId -> LockStates(Task)]
    BY <2>1, <2>2, <2>4, <2>5 DEF TypeOK
  <2> QED BY <1>2, <2>1, <2>2, <2>6 DEF Miss, TypeOK
<1>3. ASSUME NEW t \in Task, ResumeHit(t) PROVE TypeOK'
  <2> DEFINE lk == Resume(lock[mine[t]], t)
             e == entries[KeyOf[req[t]]]
  <2>1. req[t] \in Request /\ mine[t] \in LockId
    BY <1>3 DEF ResumeHit, TypeOK
  <2>2. e.value \in Request
    BY <1>3, <2>1 DEF ResumeHit, Cached, TypeOK, Entry
  <2>3. [asked |-> req[t], token |-> e.value] \in Answer
    BY <2>1, <2>2 DEF Answer
  <2>4. lk \in LockStates(Task) /\ Sound(lk) /\ lk.locked
    BY <1>3, <2>1, ResumeSound DEF ResumeHit, TypeOK
  <2>5. Release(lk) \in LockStates(Task)
    BY <2>4, ReleaseSound
  <2> QED BY <1>3, <2>1, <2>3, <2>5 DEF ResumeHit, Ends, TypeOK
<1>4. ASSUME NEW t \in Task, ResumeMiss(t) PROVE TypeOK'
  <2>1. req[t] \in Request /\ mine[t] \in LockId
    BY <1>4 DEF ResumeMiss, TypeOK
  <2>2. Resume(lock[mine[t]], t) \in LockStates(Task)
    BY <1>4, <2>1, ResumeSound DEF ResumeMiss, TypeOK
  <2> QED BY <1>4, <2>1, <2>2 DEF ResumeMiss, TypeOK
<1>5. ASSUME NEW t \in Task, NEW ttl \in Ttl, FetchReturns(t, ttl) PROVE TypeOK'
  <2> DEFINE k == KeyOf[req[t]]
             e == [value |-> req[t], expires_at |-> now + ttl]
  <2>1. req[t] \in Request /\ mine[t] \in LockId /\ k \in Key
    BY <1>5 DEF FetchReturns, TypeOK
  <2>2. e \in Entry /\ [asked |-> req[t], token |-> req[t]] \in Answer
    BY <2>1 DEF TypeOK, Entry, Answer
  <2>3. PurgedEntries(k, e) \in [Key -> Entry \cup {NoEntry}]
    BY <2>2 DEF PurgedEntries, TypeOK
  <2>4. PurgedLocks(k) \in [Key -> LockId \cup {NoLock}]
    BY DEF PurgedLocks, TypeOK
  <2>5. Release(lock[mine[t]]) \in LockStates(Task)
    BY <1>5, <2>1, ReleaseSound, Standing DEF FetchReturns
  <2> HIDE DEF k, e
  <2>6. entries' = PurgedEntries(k, e) /\ locks' = PurgedLocks(k)
    BY <1>5 DEF FetchReturns, k, e
  <2> QED BY <1>5, <2>1, <2>2, <2>3, <2>4, <2>5, <2>6 DEF FetchReturns, Ends, TypeOK
<1>6. ASSUME NEW t \in Task, FetchFails(t) PROVE TypeOK'
  <2>1. mine[t] \in LockId /\ Release(lock[mine[t]]) \in LockStates(Task)
    BY <1>6, ReleaseSound, Standing DEF FetchFails
  <2> QED BY <1>6, <2>1 DEF FetchFails, Ends, TypeOK
<1>7. ASSUME NEW t \in Task, Cancel(t) PROVE TypeOK'
  <2>1. mine[t] \in LockId /\ CancelWait(lock[mine[t]], t) \in LockStates(Task)
    BY <1>7, CancelWaitSound, Standing DEF Cancel
  <2> QED BY <1>7, <2>1 DEF Cancel, TypeOK
<1>8. ASSUME NEW t \in Task, Aborts(t) PROVE TypeOK'
  <2>1. mine[t] \in LockId /\ Abort(lock[mine[t]], t) \in LockStates(Task)
    BY <1>8, AbortSound, Standing DEF Aborts
  <2> QED BY <1>8, <2>1 DEF Aborts, Ends, TypeOK
<1>9. CASE Tick
  BY <1>9 DEF Tick, TypeOK
<1>10. CASE UNCHANGED vars
  BY <1>10 DEF vars, TypeOK
<1> QED
  BY <1>1, <1>2, <1>3, <1>4, <1>5, <1>6, <1>7, <1>8, <1>9, <1>10 DEF Next, TaskStep

\* Every step keeps the invariant, action by action.
LEMMA StepIInv == IInv /\ [Next]_vars => IInv'
<1> SUFFICES ASSUME IInv, [Next]_vars PROVE IInv'
  OBVIOUS
<1> TypeOK'
  BY StepTypeOK
<1>1. ASSUME NEW t \in Task, NEW r \in Request, Hit(t, r) PROVE IInv'
  BY <1>1, LocksUntouched DEF Hit
<1>2. ASSUME NEW t \in Task, NEW r \in Request, Miss(t, r) PROVE IInv'
  <2>1. PICK l \in LockFor(KeyOf[r]) :
          /\ mine' = [mine EXCEPT ![t] = l]
          /\ \/ /\ Free(lock[l])
                /\ lock' = [lock EXCEPT ![l] = Take(@)]
                /\ pc' = [pc EXCEPT ![t] = "fetching"]
             \/ /\ ~Free(lock[l])
                /\ lock' = [lock EXCEPT ![l] = Enqueue(@, t)]
                /\ pc' = [pc EXCEPT ![t] = "waiting"]
    BY <1>2 DEF Miss
  <2>2. l \in LockId /\ pc[t] = "idle"
    BY <1>2, KeyOfAssumption DEF LockFor, IInv, TypeOK, Miss
  <2>3. CASE Free(lock[l]) /\ lock' = [lock EXCEPT ![l] = Take(@)]
             /\ pc' = [pc EXCEPT ![t] = "fetching"]
    <3>1. /\ Take(lock[l]) \in LockStates(Task)
          /\ Sound(Take(lock[l]))
          /\ Take(lock[l]).locked
          /\ \A u : Waits(Take(lock[l]), u) <=> Waits(lock[l], u)
      BY <2>2, <2>3, TakeSound DEF IInv, TypeOK
    <3>2. \A m \in LockId : ~Waits(lock[m], t)
      BY <2>2 DEF IInv, QueuesOK
    <3>3. ~lock[l].locked /\ pc[t] # "fetching"
      BY <2>2, <2>3 DEF Free
    <3>4. lock' = [lock EXCEPT ![l] = Take(lock[l])]
      BY <2>3
    <3>5. \A u \in Task : Waits(Take(lock[l]), u) <=> Waits(lock[l], u) /\ u # t
      BY <2>2, <3>1, <3>2
    <3> QED BY <2>1, <2>2, <2>3, <3>1, <3>2, <3>3, <3>4, <3>5, StartsFetching
  <2>4. CASE ~Free(lock[l]) /\ lock' = [lock EXCEPT ![l] = Enqueue(@, t)]
             /\ pc' = [pc EXCEPT ![t] = "waiting"]
    BY <2>1, <2>2, <2>4, StartsWaiting
  <2> QED BY <2>1, <2>3, <2>4
<1>3. ASSUME NEW t \in Task, ResumeHit(t) PROVE IInv'
  <2> DEFINE lk == Resume(lock[mine[t]], t)
  <2>1. /\ mine[t] \in LockId /\ lock[mine[t]] \in LockStates(Task)
        /\ Sound(lock[mine[t]])
        /\ pc[t] # "idle" /\ pc[t] # "fetching"
    BY <1>3, Standing DEF ResumeHit
  <2>2. /\ ~lock[mine[t]].locked
        /\ lk \in LockStates(Task) /\ Sound(lk) /\ lk.locked
        /\ \A u : Waits(lk, u) <=> Waits(lock[mine[t]], u) /\ u # t
    BY <1>3, <2>1, ResumeSound DEF ResumeHit
  <2>3. /\ Release(lk) \in LockStates(Task) /\ Sound(Release(lk)) /\ ~Release(lk).locked
        /\ \A u : Waits(Release(lk), u) <=> Waits(lk, u)
    BY <2>2, ReleaseSound
  <2>4. /\ lock' = [lock EXCEPT ![mine[t]] = Release(lk)]
        /\ pc' = [pc EXCEPT ![t] = "idle"]
        /\ mine' = [mine EXCEPT ![t] = NoLock]
    BY <1>3 DEF ResumeHit, Ends
  <2> HIDE DEF lk
  <2> QED BY <2>1, <2>2, <2>3, <2>4, EndsSafely
<1>4. ASSUME NEW t \in Task, ResumeMiss(t) PROVE IInv'
  <2> DEFINE lk == Resume(lock[mine[t]], t)
  <2>1. /\ mine[t] \in LockId /\ lock[mine[t]] \in LockStates(Task)
        /\ Sound(lock[mine[t]])
        /\ pc[t] # "idle" /\ pc[t] # "fetching"
    BY <1>4, Standing DEF ResumeMiss
  <2>2. /\ ~lock[mine[t]].locked
        /\ lk \in LockStates(Task) /\ Sound(lk) /\ lk.locked
        /\ \A u : Waits(lk, u) <=> Waits(lock[mine[t]], u) /\ u # t
    BY <1>4, <2>1, ResumeSound DEF ResumeMiss
  <2>3. \A m \in LockId : m # mine[t] => ~Waits(lock[m], t)
    BY DEF IInv, QueuesOK
  <2>4. /\ lock' = [lock EXCEPT ![mine[t]] = lk]
        /\ pc' = [pc EXCEPT ![t] = "fetching"]
        /\ mine' = [mine EXCEPT ![t] = mine[t]]
    BY <1>4 DEF ResumeMiss, IInv, TypeOK
  <2> HIDE DEF lk
  <2> QED BY <2>1, <2>2, <2>3, <2>4, StartsFetching
<1>5. ASSUME NEW t \in Task, pc[t] = "fetching",
             lock' = [lock EXCEPT ![mine[t]] = Release(@)],
             pc' = [pc EXCEPT ![t] = "idle"],
             mine' = [mine EXCEPT ![t] = NoLock]
      PROVE  IInv'
  <2> DEFINE lk == Release(lock[mine[t]])
  <2>1. /\ lk \in LockStates(Task) /\ Sound(lk) /\ ~lk.locked
        /\ \A u : Waits(lk, u) <=> Waits(lock[mine[t]], u)
        /\ ~Waits(lock[mine[t]], t)
    BY <1>5, Standing, ReleaseSound
  <2>2. lock' = [lock EXCEPT ![mine[t]] = lk]
    BY <1>5
  <2> HIDE DEF lk
  <2>3. \A u \in Task : Waits(lk, u) <=> Waits(lock[mine[t]], u) /\ u # t
    BY <2>1
  <2>4. pc[t] # "idle"
    BY <1>5
  <2>5. lk.locked <=> lock[mine[t]].locked /\ pc[t] # "fetching"
    BY <1>5, <2>1
  <2> QED BY <1>5, <2>1, <2>2, <2>3, <2>4, <2>5, EndsSafely
<1>6. ASSUME NEW t \in Task, NEW ttl \in Ttl, FetchReturns(t, ttl) PROVE IInv'
  BY <1>5, <1>6 DEF FetchReturns, Ends
<1>7. ASSUME NEW t \in Task, FetchFails(t) PROVE IInv'
  BY <1>5, <1>7 DEF FetchFails, Ends
<1>8. ASSUME NEW t \in Task, Cancel(t) PROVE IInv'
  <2> DEFINE lk == CancelWait(lock[mine[t]], t)
  <2>1. /\ mine[t] \in LockId
        /\ lk \in LockStates(Task) /\ Sound(lk) /\ (lk.locked <=> lock[mine[t]].locked)
        /\ \A u : Waits(lk, u) <=> Waits(lock[mine[t]], u)
    BY <1>8, Standing, CancelWaitSound DEF Cancel
  <2>2. /\ pc[t] = "waiting"
        /\ lock' = [lock EXCEPT ![mine[t]] = lk]
        /\ pc' = [pc EXCEPT ![t] = "aborting"]
        /\ mine' = mine
    BY <1>8 DEF Cancel
  <2> HIDE DEF lk
  <2>3. /\ lock'[mine[t]] = lk
        /\ \A m \in LockId : m # mine[t] => lock'[m] = lock[m]
        /\ pc'[t] = "aborting"
        /\ \A u \in Task : u # t => pc'[u] = pc[u]
    BY <2>1, <2>2 DEF IInv, TypeOK
  <2>4. \A m \in LockId : Sound(lock'[m])
    BY <2>1, <2>3 DEF IInv
  <2>5. QueuesOK'
    BY <2>1, <2>2, <2>3 DEF IInv, QueuesOK
  <2>6. \A m \in LockId, u \in Task : HeldBy(m, u)' <=> HeldBy(m, u)
    BY <2>2, <2>3 DEF HeldBy
  <2>7. \A m \in LockId : lock'[m].locked <=> lock[m].locked
    BY <2>1, <2>3
  <2>8. HoldersOK'
    BY <2>6, <2>7 DEF IInv, HoldersOK
  <2> QED BY <2>4, <2>5, <2>8 DEF IInv
<1>9. ASSUME NEW t \in Task, Aborts(t) PROVE IInv'
  <2> DEFINE lk == Abort(lock[mine[t]], t)
  <2>1. /\ pc[t] # "idle" /\ pc[t] # "fetching"
        /\ lk \in LockStates(Task) /\ Sound(lk) /\ (lk.locked <=> lock[mine[t]].locked)
        /\ \A u : Waits(lk, u) <=> Waits(lock[mine[t]], u) /\ u # t
    BY <1>9, Standing, AbortSound DEF Aborts
  <2>2. /\ lock' = [lock EXCEPT ![mine[t]] = lk]
        /\ pc' = [pc EXCEPT ![t] = "idle"]
        /\ mine' = [mine EXCEPT ![t] = NoLock]
    BY <1>9 DEF Aborts, Ends
  <2> HIDE DEF lk
  <2> QED BY <2>1, <2>2, EndsSafely
<1>10. CASE Tick
  BY <1>10, LocksUntouched DEF Tick
<1>11. CASE UNCHANGED vars
  BY <1>11, LocksUntouched DEF vars
<1> QED
  BY <1>1, <1>2, <1>3, <1>4, <1>6, <1>7, <1>8, <1>9, <1>10, <1>11 DEF Next, TaskStep

THEOREM Invariance == Spec => []IInv
BY InitIInv, StepIInv, PTL DEF Spec

\* Every variable keeps its type, for any tasks, keys, locks and lifetimes.
THEOREM TypeCorrect == Spec => []TypeOK
<1>1. IInv => TypeOK
  BY DEF IInv
<1> QED BY <1>1, Invariance, PTL

\* At most one task ever fetches under a lock object, and its flag is exact.
THEOREM Exclusion == Spec => []LockExclusion
<1>1. IInv => LockExclusion
  BY DEF IInv, HoldersOK, HeldBy, LockExclusion
<1> QED BY <1>1, Invariance, PTL

\* No release, failure or cancellation leaves a queue of waiters asleep.
THEOREM WakeupsAreKept == Spec => []NoLostWakeup
<1>1. IInv => NoLostWakeup
  BY DEF IInv, TypeOK, LockStates, NoLostWakeup, Sound
<1> QED BY <1>1, Invariance, PTL

\* A token never crosses from one key to another, neither in the cache nor on
\* its way to a caller.
THEOREM TokensStayWithTheirKey == Spec => []TokenForOwnKey
<1>1. Init => TokenForOwnKey
  BY DEF Init, TokenForOwnKey
<1>2. TypeOK /\ TokenForOwnKey /\ [Next]_vars => TokenForOwnKey'
  <2> SUFFICES ASSUME TypeOK, TokenForOwnKey, [Next]_vars PROVE TokenForOwnKey'
    OBVIOUS
  <2> USE KeyOfAssumption, NoneAssumption DEF TypeOK, TokenForOwnKey
  <2>1. ASSUME NEW t \in Task, NEW r \in Request, Hit(t, r) PROVE TokenForOwnKey'
    BY <2>1 DEF Hit, Cached
  <2>2. ASSUME NEW t \in Task, NEW r \in Request, Miss(t, r) PROVE TokenForOwnKey'
    BY <2>2 DEF Miss
  <2>3. ASSUME NEW t \in Task, ResumeHit(t) PROVE TokenForOwnKey'
    BY <2>3 DEF ResumeHit, Ends, Cached
  <2>4. ASSUME NEW t \in Task, ResumeMiss(t) PROVE TokenForOwnKey'
    BY <2>4 DEF ResumeMiss
  <2>5. ASSUME NEW t \in Task, NEW ttl \in Ttl, FetchReturns(t, ttl) PROVE TokenForOwnKey'
    BY <2>5 DEF FetchReturns, Ends, PurgedEntries
  <2>6. ASSUME NEW t \in Task, FetchFails(t) PROVE TokenForOwnKey'
    BY <2>6 DEF FetchFails, Ends
  <2>7. ASSUME NEW t \in Task, Cancel(t) PROVE TokenForOwnKey'
    BY <2>7 DEF Cancel
  <2>8. ASSUME NEW t \in Task, Aborts(t) PROVE TokenForOwnKey'
    BY <2>8 DEF Aborts, Ends
  <2>9. CASE Tick
    BY <2>9 DEF Tick
  <2>10. CASE UNCHANGED vars
    BY <2>10 DEF vars
  <2> QED
    BY <2>1, <2>2, <2>3, <2>4, <2>5, <2>6, <2>7, <2>8, <2>9, <2>10 DEF Next, TaskStep
<1> QED BY <1>1, <1>2, TypeCorrect, PTL DEF Spec

\* The purge never takes the lock of a key away from a task that fetches under
\* it: the lock is held, and a held lock is not dropped.
THEOREM FetchesKeepTheirLock == Spec => FetchKeepsItsLock
<1>1. IInv /\ [Next]_vars =>
        [\A t \in Task :
           pc[t] = "fetching" /\ locks[KeyOf[req[t]]] = mine[t]
             => locks'[KeyOf[req[t]]] = mine[t]]_vars
  <2> SUFFICES ASSUME IInv, Next, NEW t \in Task,
                      pc[t] = "fetching", locks[KeyOf[req[t]]] = mine[t]
               PROVE  locks'[KeyOf[req[t]]] = mine[t]
    OBVIOUS
  <2> DEFINE k == KeyOf[req[t]]
  <2>1. /\ k \in Key /\ mine[t] \in LockId
        /\ locks[k] # NoLock /\ lock[locks[k]].locked
    BY Standing, KeyOfAssumption, NoneAssumption DEF IInv, TypeOK
  <2>2. ASSUME NEW u \in Task, NEW r \in Request, Miss(u, r) PROVE locks'[k] = locks[k]
    BY <2>1, <2>2 DEF Miss, LockFor, IInv, TypeOK
  <2>3. ASSUME NEW u \in Task, NEW ttl \in Ttl, FetchReturns(u, ttl)
        PROVE  locks'[k] = locks[k]
    BY <2>1, <2>3 DEF FetchReturns, PurgedLocks, DropsLock
  <2>4. CASE UNCHANGED locks
    BY <2>4
  <2> QED
    BY <2>2, <2>3, <2>4
    DEF Next, TaskStep, Hit, ResumeHit, ResumeMiss, FetchFails, Cancel, Aborts, Tick
<1> QED BY <1>1, Invariance, PTL DEF Spec, FetchKeepsItsLock
=============================================================================
