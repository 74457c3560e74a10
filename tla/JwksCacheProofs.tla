-------------------------- MODULE JwksCacheProofs --------------------------
(***************************************************************************)
(* The safety of JwksCache for every number of requests and keys and every *)
(* interval: one refresh at a time, the rate limit, and what a kid is      *)
(* turned away for.                                                        *)
(*                                                                         *)
(* The rate limit is kept by self._last_refresh, so its proof rests on     *)
(* what that variable stands for while nobody refreshes (LastOK), and this *)
(* in turn on the lock (QueueOK, OneRefreshAtATime).                       *)
(***************************************************************************)
EXTENDS JwksCache, Lemmas

(***************************************************************************)
(* The inductive invariant                                                 *)
(***************************************************************************)

Fetching(t) == pc[t] \in {"fetching", "answered"}

\* A task stands in the lock's queue exactly while it waits.
QueueOK == \A t \in Task : Waits(lock, t) <=> pc[t] = "waiting"

\* The lock is held by the one task that refreshes.
HolderOK ==
  /\ lock.locked <=> \E t \in Task : Fetching(t)
  /\ \A t, u \in Task : Fetching(t) /\ Fetching(u) => t = u

\* A task that refreshes remembers when the latest refresh began; when none does,
\* _last_refresh says so, unless that refresh crashed.
LastOK ==
  /\ \A t \in Task : Fetching(t) => started[t] = last.age /\ last.end = "none"
  /\ (\A t \in Task : ~Fetching(t)) => last.end = "crashed" \/ age = last.age

\* A kid the IdP left out of a response was published after the request.
SeenOK ==
  /\ \A t \in Task : pc[t] = "answered" =>
       \A k \in Published \ body[t] : published[k] <= started[t]
  /\ last.end = "ok" => \A k \in Published \ keys : published[k] <= last.age

IInv == TypeOK /\ Sound(lock) /\ QueueOK /\ HolderOK /\ LastOK /\ SeenOK

(***************************************************************************)
(* Ages                                                                    *)
(***************************************************************************)

\* An age stays one, and ages keep their order.
LEMMA OlderAge ==
  /\ \A a \in Age : Older(a) \in Age
  /\ \A a, b \in Age : a <= b => Older(a) <= Older(b)
  BY IntervalAssumption DEF Age, Older

\* The two ages the initial state uses.
LEMMA AgeBounds == 0 \in Age /\ Interval \in Age /\ \A a \in Age : a \in Nat /\ a <= Interval
  BY IntervalAssumption DEF Age

(***************************************************************************)
(* The initial state                                                       *)
(***************************************************************************)

\* No task, no key, a new lock, and a refresh as long ago as can be told.
LEMMA InitIInv == Init => IInv
<1> SUFFICES ASSUME Init PROVE IInv
  OBVIOUS
<1>1. NewLock \in LockStates(Task) /\ Sound(NewLock) /\ \A u : ~Waits(NewLock, u)
  BY NewLockSound
<1>2. TypeOK
  <2>1. last \in [age : Age, end : {"none", "ok", "failed", "crashed"}]
    BY AgeBounds DEF Init
  <2>2. \A t \in Task : pc[t] = "idle" <=> kid[t] = NoKid
    BY DEF Init
  <2>3. published \in [Kid -> Age \cup {NoKid}]
    BY AgeBounds DEF Init
  <2>4. QED BY <1>1, <2>1, <2>2, <2>3, AgeBounds DEF Init, TypeOK
<1>3. QueueOK
  BY <1>1 DEF Init, QueueOK
<1>4. HolderOK /\ LastOK /\ SeenOK
  BY DEF Init, HolderOK, LastOK, SeenOK, Fetching, NewLock
<1>5. QED BY <1>1, <1>2, <1>3, <1>4 DEF Init, IInv

(***************************************************************************)
(* Steps of the lock: what they have in common                             *)
(***************************************************************************)

\* A task takes the lock and sends its request: the lock is nobody else's.
LEMMA StartsFetching ==
  ASSUME IInv, NEW t \in Task, ~Fetching(t), ~lock.locked, NEW k \in Kid,
         NEW lk \in LockStates(Task), Sound(lk), lk.locked,
         \A u \in Task : Waits(lk, u) <=> Waits(lock, u) /\ u # t,
         lock' = lk, SendsRequest(t, k)
  PROVE  IInv'
<1>1. /\ pc'[t] = "fetching" /\ kid'[t] = k /\ started'[t] = 0
      /\ \A u \in Task : u # t => pc'[u] = pc[u] /\ kid'[u] = kid[u]
      /\ last' = [age |-> 0, end |-> "none"] /\ last'.age = 0 /\ last'.end = "none"
      /\ keys' = keys /\ age' = age /\ body' = body /\ published' = published
  BY DEF IInv, TypeOK, SendsRequest
<1>2. \A u \in Task : ~Fetching(u)
  BY DEF IInv, HolderOK
<1>3. \A u \in Task : Fetching(u)' <=> u = t
  BY <1>1, <1>2 DEF Fetching
<1>4. TypeOK'
  <2>1. last' \in [age : Age, end : {"none", "ok", "failed", "crashed"}]
    BY <1>1, AgeBounds
  <2>2. \A u \in Task : pc'[u] = "idle" <=> kid'[u] = NoKid
    BY <1>1, NoneAssumption DEF IInv, TypeOK
  <2>3. QED
    BY <2>1, <2>2, AgeBounds DEF IInv, TypeOK, SendsRequest, Suspended
<1>5. QueueOK'
  BY <1>1 DEF IInv, QueueOK
<1>6. HolderOK'
  BY <1>3 DEF HolderOK
<1>7. LastOK'
  BY <1>1, <1>3 DEF LastOK
<1>8. SeenOK'
  BY <1>1, <1>2 DEF SeenOK, Fetching
<1>9. QED BY <1>4, <1>5, <1>6, <1>7, <1>8 DEF IInv

\* A call that ends without having refreshed leaves the lock unheld.
LEMMA EndsUnfetched ==
  ASSUME IInv, NEW t \in Task, pc[t] = "waiting", ~lock.locked,
         NEW lk \in LockStates(Task), Sound(lk), ~lk.locked,
         \A u \in Task : Waits(lk, u) <=> Waits(lock, u) /\ u # t,
         lock' = lk, Ends(t, Verdict(keys, kid[t])),
         UNCHANGED <<keys, age, published, last>>
  PROVE  IInv'
<1>1. /\ pc'[t] = "idle" /\ kid'[t] = NoKid
      /\ \A u \in Task : u # t => /\ pc'[u] = pc[u] /\ kid'[u] = kid[u]
                                  /\ started'[u] = started[u] /\ body'[u] = body[u]
  BY DEF IInv, TypeOK, Ends
<1>2. \A u \in Task : ~Fetching(u)
  BY DEF IInv, HolderOK
<1>3. \A u \in Task : ~Fetching(u)'
  BY <1>1, <1>2 DEF Fetching
<1>4. TypeOK'
  <2>1. kid[t] \in Kid
    BY DEF IInv, TypeOK
  <2>2. Verdict(keys, kid[t]) \in [kid : Kid, found : {"key", "unknown", "crashed"}]
    BY <2>1 DEF Verdict
  <2>3. \A u \in Task : pc'[u] = "idle" <=> kid'[u] = NoKid
    BY <1>1 DEF IInv, TypeOK
  <2>4. QED BY <2>2, <2>3, AgeBounds DEF IInv, TypeOK, Ends
<1>5. QueueOK'
  BY <1>1 DEF IInv, QueueOK
<1>6. HolderOK' /\ LastOK'
  BY <1>2, <1>3 DEF IInv, HolderOK, LastOK
<1>7. SeenOK'
  BY <1>3 DEF IInv, SeenOK, Fetching, Published
<1>8. QED BY <1>4, <1>5, <1>6, <1>7 DEF IInv

\* A refresh that ends, however it does, gives the lock back.
LEMMA EndsFetched ==
  ASSUME IInv, NEW t \in Task, Fetching(t), NEW answer, Ends(t, answer),
         lock' = Release(lock), UNCHANGED published,
         answer \in [kid : Kid, found : {"key", "unknown", "crashed"}],
         keys' \subseteq Kid, age' \in Age,
         NEW end \in {"ok", "failed", "crashed"}, last' = [last EXCEPT !.end = end],
         end = "crashed" \/ age' = last.age,
         end = "ok" => \A k \in Published \ keys' : published[k] <= last.age
  PROVE  IInv'
<1>1. /\ pc'[t] = "idle" /\ kid'[t] = NoKid
      /\ \A u \in Task : u # t => /\ pc'[u] = pc[u] /\ kid'[u] = kid[u]
  BY DEF IInv, TypeOK, Ends
<1>2. last'.age = last.age /\ last'.end = end
  BY DEF IInv, TypeOK
<1>3. \A u \in Task : ~Fetching(u)'
  BY <1>1 DEF IInv, HolderOK, Fetching
<1>4. lock.locked
  BY DEF IInv, HolderOK
<1>5. /\ lock' \in LockStates(Task) /\ Sound(lock') /\ ~lock'.locked
      /\ \A u : Waits(lock', u) <=> Waits(lock, u)
  BY <1>4, ReleaseSound DEF IInv, TypeOK
<1>6. TypeOK'
  <2>1. \A u \in Task : pc'[u] = "idle" <=> kid'[u] = NoKid
    BY <1>1 DEF IInv, TypeOK
  <2>2. last' \in [age : Age, end : {"none", "ok", "failed", "crashed"}]
    BY DEF IInv, TypeOK
  <2>3. QED BY <1>5, <2>1, <2>2, AgeBounds DEF IInv, TypeOK, Ends
<1>7. QueueOK'
  BY <1>1, <1>5 DEF IInv, QueueOK, Fetching
<1>8. HolderOK' /\ LastOK'
  BY <1>2, <1>3, <1>5 DEF HolderOK, LastOK
<1>9. SeenOK'
  <2>1. Published' = Published
    BY DEF Published
  <2>2. QED BY <1>2, <1>3, <2>1 DEF SeenOK, Fetching
<1>10. QED BY <1>5, <1>6, <1>7, <1>8, <1>9 DEF IInv

(***************************************************************************)
(* One lemma per action                                                    *)
(***************************************************************************)

\* What key_for's last look returns.
LEMMA VerdictType ==
  ASSUME NEW ks, NEW k \in Kid
  PROVE  Verdict(ks, k) \in [kid : Kid, found : {"key", "unknown", "crashed"}]
  BY DEF Verdict

\* Answering from the cache changes nothing but the answer.
LEMMA KnownKept == ASSUME IInv, NEW t \in Task, NEW k \in Kid, Known(t, k) PROVE IInv'
<1>1. TypeOK'
  BY VerdictType DEF IInv, TypeOK, Known
<1>2. QED
  BY <1>1 DEF IInv, Known, QueueOK, HolderOK, LastOK, SeenOK, Fetching, Published

\* Taking a free lock and releasing it within a step leaves it free.
LEMMA UnknownLimitedKept ==
  ASSUME IInv, NEW t \in Task, NEW k \in Kid, UnknownLimited(t, k) PROVE IInv'
<1>1. /\ Take(lock) \in LockStates(Task) /\ Sound(Take(lock)) /\ Take(lock).locked
      /\ \A u : Waits(Take(lock), u) <=> Waits(lock, u)
  BY TakeSound DEF IInv, TypeOK, UnknownLimited
<1>2. /\ lock' \in LockStates(Task) /\ Sound(lock') /\ ~lock'.locked
      /\ \A u : Waits(lock', u) <=> Waits(Take(lock), u)
  BY <1>1, ReleaseSound DEF UnknownLimited
<1>3. TypeOK'
  BY <1>2, VerdictType DEF IInv, TypeOK, UnknownLimited
<1>4. ~lock.locked
  BY DEF UnknownLimited, Free
<1>5. QED
  BY <1>1, <1>2, <1>3, <1>4
     DEF IInv, UnknownLimited, QueueOK, HolderOK, LastOK, SeenOK, Fetching, Published

\* The fast path of the lock, then the request.
LEMMA UnknownFetchKept ==
  ASSUME IInv, NEW t \in Task, NEW k \in Kid, UnknownFetch(t, k) PROVE IInv'
<1>1. /\ Take(lock) \in LockStates(Task) /\ Sound(Take(lock)) /\ Take(lock).locked
      /\ \A u : Waits(Take(lock), u) <=> Waits(lock, u)
  BY TakeSound DEF IInv, TypeOK, UnknownFetch
<1>2. ~lock.locked /\ ~Fetching(t) /\ ~Waits(lock, t)
  BY DEF IInv, QueueOK, UnknownFetch, Free, Fetching
<1>3. QED BY <1>1, <1>2, StartsFetching DEF UnknownFetch

\* Queueing behind another task's refresh.
LEMMA UnknownWaitKept ==
  ASSUME IInv, NEW t \in Task, NEW k \in Kid, UnknownWait(t, k) PROVE IInv'
<1>1. ~Waits(lock, t)
  BY DEF IInv, QueueOK, UnknownWait
<1>2. /\ lock' \in LockStates(Task) /\ Sound(lock') /\ lock'.locked = lock.locked
      /\ \A u : Waits(lock', u) <=> Waits(lock, u) \/ u = t
  BY <1>1, EnqueueSound DEF IInv, TypeOK, UnknownWait
<1>3. /\ pc'[t] = "waiting" /\ kid'[t] = k
      /\ \A u \in Task : u # t => pc'[u] = pc[u] /\ kid'[u] = kid[u]
  BY DEF IInv, TypeOK, UnknownWait
<1>4. \A u \in Task : Fetching(u)' <=> Fetching(u)
  BY <1>3 DEF Fetching, UnknownWait
<1>5. TypeOK'
  <2>1. \A u \in Task : pc'[u] = "idle" <=> kid'[u] = NoKid
    BY <1>3, NoneAssumption DEF IInv, TypeOK
  <2>2. QED BY <1>2, <2>1 DEF IInv, TypeOK, UnknownWait, Suspended
<1>6. QueueOK'
  BY <1>2, <1>3 DEF IInv, QueueOK
<1>7. HolderOK' /\ LastOK'
  BY <1>2, <1>4 DEF IInv, HolderOK, LastOK, UnknownWait
<1>8. SeenOK'
  BY <1>3 DEF IInv, SeenOK, UnknownWait, Published
<1>9. QED BY <1>2, <1>5, <1>6, <1>7, <1>8 DEF IInv

\* A woken waiter that finds the refresh it waited for already done.
LEMMA ResumeLimitedKept == ASSUME IInv, NEW t \in Task, ResumeLimited(t) PROVE IInv'
<1> DEFINE taken == Resume(lock, t)
<1>1. /\ ~lock.locked /\ taken \in LockStates(Task) /\ Sound(taken) /\ taken.locked
      /\ \A u : Waits(taken, u) <=> Waits(lock, u) /\ u # t
  BY ResumeSound DEF IInv, TypeOK, ResumeLimited
<1> HIDE DEF taken
<1>2. /\ Release(taken) \in LockStates(Task) /\ Sound(Release(taken))
      /\ ~Release(taken).locked
      /\ \A u : Waits(Release(taken), u) <=> Waits(taken, u)
  BY <1>1, ReleaseSound
<1>3. lock' = Release(taken)
  BY DEF ResumeLimited, taken
<1>4. QED BY <1>1, <1>2, <1>3, EndsUnfetched DEF ResumeLimited

\* A woken waiter that refreshes after all.
LEMMA ResumeFetchKept == ASSUME IInv, NEW t \in Task, ResumeFetch(t) PROVE IInv'
<1>1. /\ ~lock.locked /\ lock' \in LockStates(Task) /\ Sound(lock') /\ lock'.locked
      /\ \A u : Waits(lock', u) <=> Waits(lock, u) /\ u # t
  BY ResumeSound DEF IInv, TypeOK, ResumeFetch
<1>2. ~Fetching(t) /\ kid[t] \in Kid
  BY DEF IInv, TypeOK, ResumeFetch, Fetching
<1>3. QED BY <1>1, <1>2, StartsFetching DEF ResumeFetch

\* A refresh that went well dates from before its request, hence from before its
\* response: the kids it lacks are younger.
LEMMA RefreshKept == ASSUME IInv, NEW t \in Task, Refresh(t) PROVE IInv'
<1>1. Fetching(t) /\ kid[t] \in Kid /\ body[t] \subseteq Kid /\ started[t] \in Age
  BY DEF IInv, TypeOK, Refresh, Fetching
<1>2. started[t] = last.age
  BY <1>1 DEF IInv, LastOK
<1>3. \A k \in Published \ keys' : published[k] <= last.age
  BY <1>2 DEF IInv, SeenOK, Refresh
<1>4. keys' \subseteq Kid /\ age' = last.age
  BY <1>1, <1>2 DEF IInv, TypeOK, Refresh, RefreshedAge
<1>5. QED BY <1>1, <1>2, <1>3, <1>4, VerdictType, EndsFetched DEF Refresh

\* A failed refresh counts as one.
LEMMA RefreshFailsKept == ASSUME IInv, NEW t \in Task, RefreshFails(t) PROVE IInv'
<1>1. Fetching(t) /\ kid[t] \in Kid /\ started[t] \in Age
  BY DEF IInv, TypeOK, RefreshFails, Fetching
<1>2. age' = started[t] /\ started[t] = last.age /\ keys' \subseteq Kid
  BY <1>1 DEF IInv, TypeOK, LastOK, RefreshFails, RefreshedAge
<1>3. QED BY <1>1, <1>2, VerdictType, EndsFetched DEF RefreshFails

\* One that crashed does not, and may leave some of its keys behind.
LEMMA RefreshCrashesKept == ASSUME IInv, NEW t \in Task, RefreshCrashes(t) PROVE IInv'
<1>1. Fetching(t) /\ kid[t] \in Kid /\ keys' \subseteq Kid /\ age' \in Age
  BY DEF IInv, TypeOK, RefreshCrashes, Fetching
<1>2. [kid |-> kid[t], found |-> "crashed"]
        \in [kid : Kid, found : {"key", "unknown", "crashed"}]
  BY <1>1
<1>3. QED BY <1>1, <1>2, EndsFetched DEF RefreshCrashes

\* A response has every kid published at this moment.
LEMMA IdpAnswersKept == ASSUME IInv, NEW t \in Task, IdpAnswers(t) PROVE IInv'
<1>1. /\ pc'[t] = "answered" /\ body'[t] = Published
      /\ \A u \in Task : u # t => pc'[u] = pc[u] /\ body'[u] = body[u]
      /\ Published' = Published
  BY DEF IInv, TypeOK, IdpAnswers, Published
<1>2. \A u \in Task : Fetching(u)' <=> Fetching(u)
  BY <1>1 DEF Fetching, IdpAnswers
<1>3. TypeOK'
  <2>1. Published \subseteq Kid
    BY DEF Published
  <2>2. \A u \in Task : pc'[u] = "idle" <=> kid'[u] = NoKid
    BY <1>1 DEF IInv, TypeOK, IdpAnswers
  <2>3. QED BY <2>1, <2>2 DEF IInv, TypeOK, IdpAnswers, Suspended
<1>4. QueueOK'
  BY <1>1 DEF IInv, QueueOK, IdpAnswers
<1>5. HolderOK' /\ LastOK'
  BY <1>2 DEF IInv, HolderOK, LastOK, IdpAnswers
<1>6. SeenOK'
  BY <1>1 DEF IInv, SeenOK, IdpAnswers
<1>7. QED BY <1>3, <1>4, <1>5, <1>6 DEF IInv, IdpAnswers

\* A kid published now has the least age there is.
LEMMA RotateKept == ASSUME IInv, NEW k \in Kid, Rotate(k) PROVE IInv'
<1>1. \A j \in Published' : j \in Kid /\ (published'[j] = 0 \/
        (j \in Published /\ published'[j] = published[j]))
  BY DEF IInv, TypeOK, Rotate, Published
<1>2. TypeOK'
  BY AgeBounds DEF IInv, TypeOK, Rotate
<1>3. last.age \in Nat /\ \A t \in Task : started[t] \in Nat
  BY AgeBounds DEF IInv, TypeOK
<1>4. SeenOK'
  BY <1>1, <1>3 DEF IInv, SeenOK, Rotate
<1>5. QED
  BY <1>2, <1>4 DEF IInv, Rotate, QueueOK, HolderOK, LastOK, Fetching

\* Everything gets older alike.
LEMMA TickKept == ASSUME IInv, Tick PROVE IInv'
<1>1. /\ last'.age = Older(last.age) /\ last'.end = last.end /\ age' = Older(age)
      /\ last' \in [age : Age, end : {"none", "ok", "failed", "crashed"}]
  BY OlderAge DEF IInv, TypeOK, Tick
<1>2. \A t \in Task : Fetching(t) => started'[t] = Older(started[t])
  BY DEF Tick, Fetching
<1>3. \A k \in Published' : k \in Published /\ published[k] \in Age
                            /\ published'[k] = Older(published[k])
  BY DEF IInv, TypeOK, Tick, Published
<1>4. TypeOK'
  <2>1. started' \in [Task -> Age] /\ published' \in [Kid -> Age \cup {NoKid}]
    BY OlderAge DEF IInv, TypeOK, Tick
  <2>2. QED BY <1>1, <2>1, OlderAge DEF IInv, TypeOK, Tick
<1>5. LastOK'
  BY <1>1, <1>2 DEF IInv, LastOK, Tick, Fetching
<1>6. SeenOK'
  <2>1. ASSUME NEW t \in Task, pc[t] = "answered", NEW k \in Published' \ body[t]
        PROVE  published'[k] <= started'[t]
    BY <1>2, <1>3, <2>1, OlderAge DEF IInv, TypeOK, SeenOK, Fetching
  <2>2. ASSUME last.end = "ok", NEW k \in Published' \ keys
        PROVE  published'[k] <= last'.age
    BY <1>1, <1>3, <2>2, OlderAge DEF IInv, TypeOK, SeenOK
  <2>3. QED BY <1>1, <2>1, <2>2 DEF SeenOK, Tick
<1>7. QED BY <1>4, <1>5, <1>6 DEF IInv, Tick, QueueOK, HolderOK, Fetching

(***************************************************************************)
(* Theorems                                                                *)
(***************************************************************************)

\* Every step keeps the invariant.
LEMMA NextIInv == IInv /\ [Next]_vars => IInv'
<1>1. SUFFICES ASSUME IInv, [Next]_vars PROVE IInv'
  OBVIOUS
<1>2. CASE UNCHANGED vars
  BY <1>1, <1>2
     DEF vars, IInv, TypeOK, QueueOK, HolderOK, LastOK, SeenOK, Fetching, Published
<1>3. CASE Next
  BY <1>1, <1>3, KnownKept, UnknownLimitedKept, UnknownFetchKept, UnknownWaitKept,
     ResumeLimitedKept, ResumeFetchKept, RefreshKept, RefreshFailsKept,
     RefreshCrashesKept, IdpAnswersKept, RotateKept, TickKept DEF Next
<1>4. QED BY <1>1, <1>2, <1>3

\* The invariant holds throughout, for any number of requests and kids.
THEOREM Invariance == Spec => []IInv
<1>1. QED BY InitIInv, NextIInv, PTL DEF Spec

\* The types hold, and an idle task remembers no kid.
THEOREM TypeCorrect == Spec => []TypeOK
<1>1. IInv => TypeOK
  BY DEF IInv
<1>2. QED BY <1>1, Invariance, PTL

\* At most one JWKS request is under way, and the lock is held exactly meanwhile
\* (inbound.py:76-100).
THEOREM Exclusion == Spec => []OneRefreshAtATime
<1>1. IInv => OneRefreshAtATime
  BY DEF IInv, HolderOK, OneRefreshAtATime, Fetching
<1>2. QED BY <1>1, Invariance, PTL

\* A request to the IdP is sent by two actions only.
LEMMA OnlyFetchesSend ==
  ASSUME IInv, [Next]_vars, NEW t \in Task, pc[t] # "fetching", pc'[t] = "fetching"
  PROVE  ResumeFetch(t) \/ \E k \in Kid : UnknownFetch(t, k)
<1>1. PICK u \in Task :
        \/ \E k \in Kid : UnknownFetch(u, k) \/ UnknownWait(u, k)
        \/ ResumeLimited(u) \/ ResumeFetch(u)
        \/ Refresh(u) \/ RefreshFails(u) \/ RefreshCrashes(u) \/ IdpAnswers(u)
  BY DEF Next, vars, Known, UnknownLimited, Rotate, Tick
<1>2. CASE ResumeFetch(u) \/ \E k \in Kid : UnknownFetch(u, k)
  BY <1>2 DEF IInv, TypeOK, UnknownFetch, ResumeFetch, SendsRequest
<1>3. CASE \E k \in Kid : UnknownWait(u, k)
  BY <1>3 DEF IInv, TypeOK, UnknownWait
<1>4. CASE ResumeLimited(u) \/ Refresh(u) \/ RefreshFails(u) \/ RefreshCrashes(u)
  <2>1. pc' = [pc EXCEPT ![u] = "idle"]
    BY <1>4 DEF ResumeLimited, Refresh, RefreshFails, RefreshCrashes, Ends
  <2>2. QED BY <2>1 DEF IInv, TypeOK
<1>5. CASE IdpAnswers(u)
  BY <1>5 DEF IInv, TypeOK, IdpAnswers
<1>6. QED BY <1>1, <1>2, <1>3, <1>4, <1>5

\* Refreshes start an interval apart, a crash excepted (inbound.py:78, :94, :100).
THEOREM RateLimitKept == Spec => RateLimitUnlessCrashed
<1>1. ASSUME IInv, [Next]_vars, NEW t \in Task, pc[t] # "fetching", pc'[t] = "fetching"
      PROVE  last.age = Interval \/ last.end = "crashed"
  <2>1. ResumeFetch(t) \/ \E k \in Kid : UnknownFetch(t, k)
    BY <1>1, OnlyFetchesSend
  <2>2. age = Interval
    <3>1. ~RateLimited
      BY <2>1 DEF UnknownFetch, ResumeFetch
    <3>2. age \in Age
      BY <1>1 DEF IInv, TypeOK
    <3>3. QED BY <3>1, <3>2, AgeBounds, IntervalAssumption DEF RateLimited
  <2>3. ~lock.locked
    <3>1. CASE ResumeFetch(t)
      BY <1>1, <3>1, ResumeSound DEF IInv, TypeOK, ResumeFetch
    <3>2. CASE \E k \in Kid : UnknownFetch(t, k)
      BY <3>2 DEF UnknownFetch, Free
    <3>3. QED BY <2>1, <3>1, <3>2
  <2>4. QED BY <1>1, <2>2, <2>3 DEF IInv, HolderOK, LastOK
<1>2. IInv /\ [Next]_vars =>
        [\A t \in Task : pc[t] # "fetching" /\ pc'[t] = "fetching"
           => last.age = Interval \/ last.end = "crashed"]_vars
  BY <1>1
<1>3. QED BY <1>2, Invariance, PTL DEF Spec, RateLimitUnlessCrashed

\* A kid turned away unasked is one the IdP has published for less than Interval,
\* when the last refresh went well (inbound.py:77-78, :100).
THEOREM TurnedAwayOnlyWhileNew == Spec => UnknownOnlyWhileNew
<1>1. ASSUME IInv, NEW t \in Task, NEW k \in Published \ keys, last.end = "ok",
             RateLimited, ~lock.locked
      PROVE  published[k] < Interval
  <2>1. age = last.age
    BY <1>1 DEF IInv, HolderOK, LastOK
  <2>2. published[k] <= last.age
    BY <1>1 DEF IInv, SeenOK
  <2>3. published[k] \in Age /\ age \in Age
    BY <1>1 DEF IInv, TypeOK, Published
  <2>4. QED BY <1>1, <2>1, <2>2, <2>3, AgeBounds, IntervalAssumption DEF RateLimited
<1>2. ASSUME IInv, NEW t \in Task, NEW k \in Published \ keys,
             UnknownLimited(t, k) \/ (ResumeLimited(t) /\ kid[t] = k)
      PROVE  last.end # "ok" \/ published[k] < Interval
  <2>1. RateLimited
    BY <1>2 DEF UnknownLimited, ResumeLimited
  <2>2. ~lock.locked
    BY <1>2, ResumeSound DEF IInv, TypeOK, UnknownLimited, ResumeLimited, Free
  <2>3. QED BY <1>1, <1>2, <2>1, <2>2
<1>3. IInv /\ [Next]_vars =>
        [\A t \in Task, k \in Published \ keys :
           UnknownLimited(t, k) \/ (ResumeLimited(t) /\ kid[t] = k)
             => last.end # "ok" \/ published[k] < Interval]_vars
  BY <1>2
<1>4. QED BY <1>3, Invariance, PTL DEF Spec, UnknownOnlyWhileNew

(***************************************************************************)
(* The cache implements the service                                        *)
(***************************************************************************)

\* A step of the cache that ends a call answers it, or fails it, for the service.
LEMMA EndingAnswers ==
  ASSUME TypeOK, NEW t \in Task, pc[t] # "idle", NEW learnt \in SUBSET Kid,
         keys' = keys \cup learnt, NEW answer, Ends(t, answer),
         answer = Verdict(keys', kid[t]) \/ answer = [kid |-> kid[t], found |-> "crashed"]
  PROVE  Keys!Answers(t) \/ Keys!Crashes(t)
<1>1. kid[t] # NoKid
  BY DEF TypeOK
<1>2. Keys!Learns
  BY DEF Keys!Learns
<1>3. QED BY <1>1, <1>2 DEF Ends, Verdict, Keys!Answers, Keys!Crashes, Keys!Found

\* A call that has not ended has no answer.
Unanswered == \A t \in Task : pc[t] # "idle" => got[t] = NoAnswer

LEMMA UnansweredInvariance == Spec => []Unanswered
<1>1. Init => Unanswered
  BY DEF Init, Unanswered
<1>2. ASSUME TypeOK, Unanswered, [Next]_vars PROVE Unanswered'
  <2>1. ASSUME NEW t \in Task, NEW k \in Kid, Known(t, k) \/ UnknownLimited(t, k)
        PROVE  Unanswered'
    BY <1>2, <2>1 DEF TypeOK, Unanswered, Known, UnknownLimited
  <2>2. ASSUME NEW t \in Task, NEW k \in Kid, UnknownFetch(t, k) \/ UnknownWait(t, k)
        PROVE  Unanswered'
    BY <1>2, <2>2 DEF TypeOK, Unanswered, UnknownFetch, UnknownWait, SendsRequest
  <2>3. ASSUME NEW t \in Task, ResumeFetch(t)
        PROVE  Unanswered'
    BY <1>2, <2>3 DEF TypeOK, Unanswered, ResumeFetch, SendsRequest
  <2>4. ASSUME NEW t \in Task, NEW answer, Ends(t, answer)
        PROVE  Unanswered'
    BY <1>2, <2>4 DEF TypeOK, Unanswered, Ends
  <2>5. ASSUME NEW t \in Task, IdpAnswers(t)
        PROVE  Unanswered'
    BY <1>2, <2>5 DEF TypeOK, Unanswered, IdpAnswers
  <2>6. ASSUME UNCHANGED <<pc, got>>
        PROVE  Unanswered'
    BY <1>2, <2>6 DEF Unanswered
  <2>7. QED
    BY <1>2, <2>1, <2>2, <2>3, <2>4, <2>5, <2>6
    DEF Next, ResumeLimited, Refresh, RefreshFails, RefreshCrashes, Rotate, Tick, vars
<1>3. IInv => TypeOK
  BY DEF IInv
<1>4. QED BY <1>1, <1>2, <1>3, Invariance, PTL DEF Spec

\* What the cache does besides.
IdpOrTime ==
  (\E t \in Task : IdpAnswers(t)) \/ (\E k \in Kid : Rotate(k)) \/ Tick \/ UNCHANGED vars

\* Every step of the cache is a step of the service or none at all: the wait for
\* the lock, the request and the IdP are the cache's own affair.
LEMMA StepImplements ==
  ASSUME TypeOK, Unanswered, [Next]_vars
  PROVE  [Keys!KeysNext]_Keys!keyVars
<1>1. ASSUME NEW t \in Task, NEW k \in Kid, Known(t, k) \/ UnknownLimited(t, k)
      PROVE  Keys!AnswersAtOnce(t, k)
  BY <1>1 DEF TypeOK, Known, UnknownLimited, Verdict, Keys!AnswersAtOnce, Keys!Found
<1>2. ASSUME NEW t \in Task, NEW k \in Kid, UnknownFetch(t, k) \/ UnknownWait(t, k)
      PROVE  Keys!Asks(t, k)
  BY <1>2 DEF TypeOK, UnknownFetch, UnknownWait, SendsRequest, Keys!Asks
<1>3. ASSUME NEW t \in Task, ResumeLimited(t) \/ RefreshFails(t)
      PROVE  Keys!Answers(t) \/ Keys!Crashes(t)
  <2>1. keys' = keys \cup {} /\ pc[t] # "idle" /\ Ends(t, Verdict(keys', kid[t]))
    BY <1>3 DEF ResumeLimited, RefreshFails
  <2>2. {} \in SUBSET Kid
    OBVIOUS
  <2>3. QED BY <2>1, <2>2, EndingAnswers
<1>4. ASSUME NEW t \in Task, Refresh(t)
      PROVE  Keys!Answers(t) \/ Keys!Crashes(t)
  <2>1. body[t] \in SUBSET Kid
    BY DEF TypeOK
  <2>2. keys' = keys \cup body[t] /\ pc[t] # "idle" /\ Ends(t, Verdict(keys', kid[t]))
    BY <1>4 DEF Refresh
  <2>3. QED BY <2>1, <2>2, EndingAnswers
<1>5. ASSUME NEW t \in Task, RefreshCrashes(t)
      PROVE  Keys!Answers(t) \/ Keys!Crashes(t)
  <2>1. PICK before \in SUBSET body[t] : keys' = keys \cup before
    BY <1>5 DEF RefreshCrashes
  <2>2. before \in SUBSET Kid
    BY <2>1 DEF TypeOK
  <2>3. pc[t] # "idle" /\ Ends(t, [kid |-> kid[t], found |-> "crashed"])
    BY <1>5 DEF RefreshCrashes
  <2>4. QED BY <2>1, <2>2, <2>3, EndingAnswers
<1>6. ASSUME NEW t \in Task, ResumeFetch(t)
      PROVE  UNCHANGED <<keys, kid, got>>
  BY <1>6 DEF TypeOK, Unanswered, ResumeFetch, SendsRequest
<1>7. ASSUME IdpOrTime
      PROVE  UNCHANGED <<keys, kid, got>>
  BY <1>7 DEF IdpOrTime, IdpAnswers, Rotate, Tick, vars
<1>8. QED
  BY <1>1, <1>2, <1>3, <1>4, <1>5, <1>6, <1>7
  DEF Next, IdpOrTime, Keys!KeysNext, Keys!keyVars

\* JwksCache keeps what KeyService promises (inbound.py:68-100).
THEOREM CacheImplementsService == Spec => ImplementsKeyService
<1>1. Init => Keys!KeysInit
  BY DEF Init, Keys!KeysInit
<1>2. IInv => TypeOK
  BY DEF IInv
<1>3. QED
  BY <1>1, <1>2, StepImplements, Invariance, UnansweredInvariance, PTL
  DEF Spec, ImplementsKeyService, Keys!KeysSpec
=============================================================================
