---------------------------- MODULE AsyncioLock ----------------------------
(***************************************************************************)
(* The states of an asyncio.Lock and what its methods do to them.  The     *)
(* lock itself is CPython's (asyncio/locks.py), not the repository's: it   *)
(* is modelled as far as TokenCache (auth/token_cache.py) and JwksCache    *)
(* (auth/inbound.py) use it, through "async with lock" and lock.locked().  *)
(*                                                                         *)
(* What matters to them is that release() does not hand the lock over: it  *)
(* clears the flag and schedules the first waiter, which takes the lock    *)
(* when the event loop next runs it.  Between the two, locked() is false.  *)
(***************************************************************************)
EXTENDS Naturals, Sequences

(***************************************************************************)
(* A waiter is a task and the future it awaits: pending, woken (its result *)
(* is set, the task is scheduled) or cancelled (the task is scheduled to   *)
(* see its CancelledError).                                                *)
(***************************************************************************)
FutureStates == {"pending", "woken", "cancelled"}

Waiter(Task) == [task : Task, fut : FutureStates]

LockStates(Task) == [locked : BOOLEAN, waiters : Seq(Waiter(Task))]

NewLock == [locked |-> FALSE, waiters |-> <<>>]

Positions(lk, t) == {i \in 1 .. Len(lk.waiters) : lk.waiters[i].task = t}

Waits(lk, t) == Positions(lk, t) # {}

Woken(lk, t) == \E i \in Positions(lk, t) : lk.waiters[i].fut = "woken"

(***************************************************************************)
(* acquire() takes the lock at once only when it is unlocked and nobody    *)
(* who still wants it waits: a woken waiter is not overtaken.              *)
(***************************************************************************)
Free(lk) ==
  /\ ~lk.locked
  /\ \A i \in 1 .. Len(lk.waiters) : lk.waiters[i].fut = "cancelled"

Take(lk) == [locked |-> TRUE, waiters |-> lk.waiters]

Enqueue(lk, t) ==
  [locked |-> lk.locked, waiters |-> Append(lk.waiters, [task |-> t, fut |-> "pending"])]

\* _wake_up_first: only the waiter at the head, only if its future is not done.
WakeFirst(lk) ==
  IF lk.waiters # <<>> /\ lk.waiters[1].fut = "pending"
    THEN [locked |-> lk.locked,
          waiters |-> [lk.waiters EXCEPT ![1] = [task |-> @.task, fut |-> "woken"]]]
    ELSE lk

Release(lk) == WakeFirst([locked |-> FALSE, waiters |-> lk.waiters])

\* The finally of acquire(): the task's future leaves the queue.
Leave(lk, t) ==
  LET p == CHOOSE i \in Positions(lk, t) : TRUE
  IN  [locked  |-> lk.locked,
       waiters |-> [i \in 1 .. Len(lk.waiters) - 1 |->
                      lk.waiters[IF i < p THEN i ELSE i + 1]]]

\* A woken task runs: it leaves the queue and holds the lock.
Resume(lk, t) == Take(Leave(lk, t))

\* task.cancel() on a waiter: a future already woken is not cancelled any more.
CancelWait(lk, t) ==
  [locked  |-> lk.locked,
   waiters |-> [i \in 1 .. Len(lk.waiters) |->
                  IF lk.waiters[i] = [task |-> t, fut |-> "pending"]
                    THEN [task |-> t, fut |-> "cancelled"]
                    ELSE lk.waiters[i]]]

\* The cancelled task runs: it leaves, and passes on a wake-up meant for it.
Abort(lk, t) ==
  LET left == Leave(lk, t)
  IN  IF left.locked THEN left ELSE WakeFirst(left)
=============================================================================
