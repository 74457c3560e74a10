----------------------------- MODULE TokenCache -----------------------------
(***************************************************************************)
(* TokenCache (auth/token_cache.py): the cache of outbound access tokens,  *)
(* one entry and one asyncio.Lock per key, shared by all the tool calls of *)
(* the server.                                                             *)
(*                                                                         *)
(* The program is one asyncio event loop, so an action runs from one       *)
(* suspension to the next: get_or_fetch suspends where it waits for a lock *)
(* (token_cache.py:49) and where it awaits the fetch (:53), nowhere else.  *)
(* Tasks are the concurrent calls of get_or_fetch; a request is what the   *)
(* call's fetch closure mints a token for, and KeyOf its cache key.        *)
(***************************************************************************)
EXTENDS AsyncioLock

CONSTANTS
  Task,       \* concurrent callers of get_or_fetch
  Request,    \* what a fetch can ask the IdP for
  Key,        \* cache keys
  KeyOf,      \* the key a caller derives from its request
  LockId,     \* identities of Lock objects; enough that a new one always exists
  Ttl,        \* the lifetimes a fetch may return, expiry leeway already taken off
  MaxNow,     \* bound: the clock stops here
  NoLock, NoEntry, NoRequest, NoAnswer

ASSUME KeyOfAssumption == KeyOf \in [Request -> Key]
ASSUME TtlAssumption == Ttl \subseteq Nat /\ MaxNow \in Nat
ASSUME NoneAssumption ==
  NoLock \notin LockId /\ NoRequest \notin Request

VARIABLES
  now,        \* time.monotonic()
  entries,    \* self._entries
  locks,      \* self._locks
  lock,       \* the Lock objects themselves
  pc,         \* where each task is suspended
  req,        \* the request a suspended task is about
  mine,       \* the Lock object a suspended task waits for or holds
  got         \* what the task's last call returned, and what it had asked for

vars == <<now, entries, locks, lock, pc, req, mine, got>>

\* A token is known by the request it was minted for.
Entry == [value : Request, expires_at : Nat]

Answer == [asked : Request, token : Request]

ASSUME NotARecordAssumption == NoEntry \notin Entry /\ NoAnswer \notin Answer

Suspended == {"waiting", "aborting", "fetching"}

Init ==
  /\ now = 0
  /\ entries = [k \in Key |-> NoEntry]
  /\ locks = [k \in Key |-> NoLock]
  /\ lock = [l \in LockId |-> NewLock]
  /\ pc = [t \in Task |-> "idle"]
  /\ req = [t \in Task |-> NoRequest]
  /\ mine = [t \in Task |-> NoLock]
  /\ got = [t \in Task |-> NoAnswer]

(***************************************************************************)
(* Helpers                                                                 *)
(***************************************************************************)

\* cached is not None and cached.expires_at > time.monotonic()
Cached(k) == entries[k] # NoEntry /\ entries[k].expires_at > now

Expired(k) == entries[k] # NoEntry /\ entries[k].expires_at <= now

\* A Lock object that nothing refers to: what Lock() returns.
Unused(l) ==
  /\ \A k \in Key : locks[k] # l
  /\ \A t \in Task : mine[t] # l

\* _lock_for: the registered lock, or a new one.
LockFor(k) ==
  IF locks[k] # NoLock THEN {locks[k]} ELSE {l \in LockId : Unused(l)}

\* Wrong on purpose: the purge drops locks that are held.
DropsHeldLock(j) == Expired(j) /\ locks[j] # NoLock

\* _purge_expired(exclude): drops a key's entry, and its lock unless it is held.
PurgedEntries(k, entry) ==
  [j \in Key |-> IF j = k THEN entry ELSE IF Expired(j) THEN NoEntry ELSE entries[j]]

DropsLock(j) == Expired(j) /\ locks[j] # NoLock /\ ~lock[locks[j]].locked

PurgedLocks(k) == [j \in Key |-> IF j # k /\ DropsLock(j) THEN NoLock ELSE locks[j]]

\* Wrong on purpose: the call goes on referring to its lock.
EndsHolding(t, answer) ==
  /\ pc' = [pc EXCEPT ![t] = "idle"]
  /\ req' = [req EXCEPT ![t] = NoRequest]
  /\ got' = [got EXCEPT ![t] = answer]
  /\ UNCHANGED mine

\* The suspended call of task t ends, with an answer or with an exception.
Ends(t, answer) ==
  /\ pc' = [pc EXCEPT ![t] = "idle"]
  /\ req' = [req EXCEPT ![t] = NoRequest]
  /\ mine' = [mine EXCEPT ![t] = NoLock]
  /\ got' = [got EXCEPT ![t] = answer]

(***************************************************************************)
(* Actions                                                                 *)
(***************************************************************************)

\* Wrong on purpose: any live entry will do.
HitAnyKey(t, r) ==
  /\ pc[t] = "idle"
  /\ \E k \in Key :
       /\ Cached(k)
       /\ got' = [got EXCEPT ![t] = [asked |-> r, token |-> entries[k].value]]
  /\ UNCHANGED <<now, entries, locks, lock, pc, req, mine>>

\* The unlocked fast path finds a live entry: get_or_fetch never suspends.
Hit(t, r) ==
  /\ pc[t] = "idle"
  /\ Cached(KeyOf[r])
  /\ got' = [got EXCEPT ![t] = [asked |-> r, token |-> entries[KeyOf[r]].value]]
  /\ UNCHANGED <<now, entries, locks, lock, pc, req, mine>>

\* No live entry: the task takes the key's lock and starts to fetch in the same
\* step (the second look at the entry finds what the first found), or queues.
Miss(t, r) ==
  /\ pc[t] = "idle"
  /\ ~Cached(KeyOf[r])
  /\ \E l \in LockFor(KeyOf[r]) :
       /\ locks' = [locks EXCEPT ![KeyOf[r]] = l]
       /\ mine' = [mine EXCEPT ![t] = l]
       /\ \/ /\ Free(lock[l])
             /\ lock' = [lock EXCEPT ![l] = Take(@)]
             /\ pc' = [pc EXCEPT ![t] = "fetching"]
          \/ /\ ~Free(lock[l])
             /\ lock' = [lock EXCEPT ![l] = Enqueue(@, t)]
             /\ pc' = [pc EXCEPT ![t] = "waiting"]
  /\ req' = [req EXCEPT ![t] = r]
  /\ got' = [got EXCEPT ![t] = NoAnswer]
  /\ UNCHANGED <<now, entries>>

\* A woken waiter runs and finds the entry its predecessor stored.
ResumeHit(t) ==
  /\ pc[t] = "waiting"
  /\ Woken(lock[mine[t]], t)
  /\ Cached(KeyOf[req[t]])
  /\ lock' = [lock EXCEPT ![mine[t]] = Release(Resume(@, t))]
  /\ Ends(t, [asked |-> req[t], token |-> entries[KeyOf[req[t]]].value])
  /\ UNCHANGED <<now, entries, locks>>

\* A woken waiter runs and finds none: it fetches in turn.
ResumeMiss(t) ==
  /\ pc[t] = "waiting"
  /\ Woken(lock[mine[t]], t)
  /\ ~Cached(KeyOf[req[t]])
  /\ lock' = [lock EXCEPT ![mine[t]] = Resume(@, t)]
  /\ pc' = [pc EXCEPT ![t] = "fetching"]
  /\ UNCHANGED <<now, entries, locks, req, mine, got>>

\* The IdP answers: store, purge, release.
FetchReturns(t, ttl) ==
  /\ pc[t] = "fetching"
  /\ LET k == KeyOf[req[t]]
     IN  /\ entries' = PurgedEntries(k, [value |-> req[t], expires_at |-> now + ttl])
         /\ locks' = PurgedLocks(k)
  /\ lock' = [lock EXCEPT ![mine[t]] = Release(@)]
  /\ Ends(t, [asked |-> req[t], token |-> req[t]])
  /\ UNCHANGED now

\* Wrong on purpose: a fetch that raises keeps the lock.
FetchFailsLocked(t) ==
  /\ pc[t] = "fetching"
  /\ Ends(t, NoAnswer)
  /\ UNCHANGED <<now, entries, locks, lock>>

\* The fetch raises (OutboundError, httpx.RequestError) or is cancelled.
FetchFails(t) ==
  /\ pc[t] = "fetching"
  /\ lock' = [lock EXCEPT ![mine[t]] = Release(@)]
  /\ Ends(t, NoAnswer)
  /\ UNCHANGED <<now, entries, locks>>

\* The client cancels a call that waits for the lock; the task has yet to see it.
Cancel(t) ==
  /\ pc[t] = "waiting"
  /\ lock' = [lock EXCEPT ![mine[t]] = CancelWait(@, t)]
  /\ pc' = [pc EXCEPT ![t] = "aborting"]
  /\ UNCHANGED <<now, entries, locks, req, mine, got>>

\* Wrong on purpose: a cancelled waiter keeps a wake-up to itself.
AbortsSilently(t) ==
  /\ pc[t] = "aborting"
  /\ lock' = [lock EXCEPT ![mine[t]] = Leave(@, t)]
  /\ Ends(t, NoAnswer)
  /\ UNCHANGED <<now, entries, locks>>

\* The cancelled task runs.
Aborts(t) ==
  /\ pc[t] = "aborting"
  /\ lock' = [lock EXCEPT ![mine[t]] = Abort(@, t)]
  /\ Ends(t, NoAnswer)
  /\ UNCHANGED <<now, entries, locks>>

Tick ==
  /\ now < MaxNow
  /\ now' = now + 1
  /\ UNCHANGED <<entries, locks, lock, pc, req, mine, got>>

TaskStep(t) ==
  \/ \E r \in Request : Hit(t, r)
  \/ \E r \in Request : Miss(t, r)
  \/ ResumeHit(t)
  \/ ResumeMiss(t)
  \/ \E ttl \in Ttl : FetchReturns(t, ttl)
  \/ FetchFails(t)
  \/ Cancel(t)
  \/ Aborts(t)

Next == Tick \/ \E t \in Task : TaskStep(t)

Spec == Init /\ [][Next]_vars

(***************************************************************************)
(* Fairness: the event loop runs every scheduled task, and every fetch     *)
(* ends, because the httpx client it awaits has a timeout (app.py).        *)
(***************************************************************************)
Progress(t) ==
  \/ ResumeHit(t)
  \/ ResumeMiss(t)
  \/ \E ttl \in Ttl : FetchReturns(t, ttl)
  \/ FetchFails(t)
  \/ Aborts(t)

FairSpec == Spec /\ \A t \in Task : WF_vars(Progress(t))

(***************************************************************************)
(* Properties                                                              *)
(***************************************************************************)

\* Types, and that an idle task refers to no lock and no request.
TypeOK ==
  /\ now \in Nat
  /\ entries \in [Key -> Entry \cup {NoEntry}]
  /\ locks \in [Key -> LockId \cup {NoLock}]
  /\ lock \in [LockId -> LockStates(Task)]
  /\ pc \in [Task -> {"idle"} \cup Suspended]
  /\ req \in [Task -> Request \cup {NoRequest}]
  /\ mine \in [Task -> LockId \cup {NoLock}]
  /\ got \in [Task -> Answer \cup {NoAnswer}]
  /\ \A t \in Task :
       IF pc[t] = "idle" THEN req[t] = NoRequest /\ mine[t] = NoLock
                         ELSE req[t] \in Request /\ mine[t] \in LockId

\* At most one task fetches under a lock object, and the lock's flag says so:
\* a release, a failure and a cancellation each give back exactly what was taken
\* (the async with block, token_cache.py:49-58).
LockExclusion ==
  \A l \in LockId :
    LET holders == {t \in Task : pc[t] = "fetching" /\ mine[t] = l}
    IN  /\ lock[l].locked <=> holders # {}
        /\ \A t, u \in holders : t = u

\* A free lock that someone waits for always has a task scheduled to take it or
\* to pass it on: no cancellation or failure leaves the queue of a key asleep.
NoLostWakeup ==
  \A l \in LockId :
    ~lock[l].locked /\ lock[l].waiters # <<>> => lock[l].waiters[1].fut # "pending"

\* A token reaches only callers with the key it was fetched under, whichever of
\* the three return statements (lines 47, 52, 58) hands it over.
TokenForOwnKey ==
  /\ \A k \in Key : entries[k] # NoEntry => KeyOf[entries[k].value] = k
  /\ \A t \in Task : got[t] # NoAnswer => KeyOf[got[t].token] = KeyOf[got[t].asked]

\* While a task fetches under a key's registered lock, that lock stays the
\* registered one, so that later callers of the key queue behind the fetch
\* (the guard of the purge and its comment, lines 74-77).
FetchKeepsItsLock ==
  [][\A t \in Task :
       pc[t] = "fetching" /\ locks[KeyOf[req[t]]] = mine[t]
         => locks'[KeyOf[req[t]]] = mine[t]]_vars

\* Every call that misses the cache ends: it is never left waiting for a lock
\* whose holder failed, was cancelled, or lost its place in the dict of locks.
EveryCallEnds == \A t \in Task : pc[t] # "idle" ~> pc[t] = "idle"

\* What the module docstring promises (lines 6-8): concurrent calls for one key
\* trigger one IdP request.  The code does not keep it, see the README.
SingleFlight ==
  \A t, u \in Task :
    pc[t] = "fetching" /\ pc[u] = "fetching" /\ KeyOf[req[t]] = KeyOf[req[u]] => t = u

\* What _purge_expired's docstring promises (lines 62-65): a key that no call is
\* about keeps its lock only as long as it has an entry.  The code does not.
NoOrphanLock ==
  \A k \in Key :
    locks[k] # NoLock =>
      \/ entries[k] # NoEntry
      \/ \E t \in Task : mine[t] = locks[k]
=============================================================================
