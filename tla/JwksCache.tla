----------------------------- MODULE JwksCache -----------------------------
(***************************************************************************)
(* JwksCache (auth/inbound.py): the IdP's signing keys by kid, refreshed   *)
(* when a token names an unknown one, at most once per interval.           *)
(*                                                                         *)
(* As in TokenCache an action runs from one suspension to the next: a task *)
(* suspends where it waits for the lock (inbound.py:76) and where it       *)
(* awaits the HTTP request (:89).                                          *)
(*                                                                         *)
(* The code reads the clock only to compare its distance to _last_refresh  *)
(* with the interval, so times are kept as ages: the time gone by since,   *)
(* counted up to Interval.  An age of Interval also stands for -infinity.  *)
(***************************************************************************)
EXTENDS AsyncioLock

CONSTANTS
  Task,       \* requests being authenticated
  Kid,        \* key identifiers: published, forged or retired
  Interval,   \* _JWKS_REFRESH_INTERVAL_S
  NoKid, NoAnswer

ASSUME IntervalAssumption == Interval \in Nat \ {0}
ASSUME NoneAssumption == NoKid \notin Kid

Age == 0 .. Interval

Older(a) == IF a < Interval THEN a + 1 ELSE a

VARIABLES
  keys,       \* self._keys, as the set of kids it holds
  age,        \* age of self._last_refresh
  lock,       \* self._lock
  pc,         \* where each task is suspended
  kid,        \* the kid a suspended task asks for
  started,    \* age of the "now" a fetching task read before its request (:77)
  body,       \* the kids in the response the IdP made for a task
  got,        \* what the task's last call of key_for came to
  published,  \* the IdP: age of each kid it publishes, NoKid when it does not
  last        \* the latest refresh: age of its start, and how it ended

vars == <<keys, age, lock, pc, kid, started, body, got, published, last>>

Suspended == {"waiting", "fetching", "answered"}

Published == {k \in Kid : published[k] # NoKid}

Init ==
  /\ keys = {}
  /\ age = Interval
  /\ lock = NewLock
  /\ pc = [t \in Task |-> "idle"]
  /\ kid = [t \in Task |-> NoKid]
  /\ started = [t \in Task |-> 0]
  /\ body = [t \in Task |-> {}]
  /\ got = [t \in Task |-> NoAnswer]
  /\ published \in [Kid -> {Interval, NoKid}]
  /\ last = [age |-> Interval, end |-> "none"]

(***************************************************************************)
(* Helpers                                                                 *)
(***************************************************************************)

\* Wrong on purpose: a cache that was never refreshed counts as fresh.
AlwaysLimited == age <= Interval

\* now - self._last_refresh < _JWKS_REFRESH_INTERVAL_S
RateLimited == age < Interval

\* key_for's last look: self._keys.get(kid).
Verdict(ks, k) == [kid |-> k, found |-> IF k \in ks THEN "key" ELSE "unknown"]

\* Wrong on purpose: the call leaves its kid behind.
EndsAsking(t, answer) ==
  /\ pc' = [pc EXCEPT ![t] = "idle"]
  /\ started' = [started EXCEPT ![t] = 0]
  /\ body' = [body EXCEPT ![t] = {}]
  /\ got' = [got EXCEPT ![t] = answer]
  /\ UNCHANGED kid

Ends(t, answer) ==
  /\ pc' = [pc EXCEPT ![t] = "idle"]
  /\ kid' = [kid EXCEPT ![t] = NoKid]
  /\ started' = [started EXCEPT ![t] = 0]
  /\ body' = [body EXCEPT ![t] = {}]
  /\ got' = [got EXCEPT ![t] = answer]

\* The task reads the clock, sends the request and suspends.
SendsRequest(t, k) ==
  /\ pc' = [pc EXCEPT ![t] = "fetching"]
  /\ kid' = [kid EXCEPT ![t] = k]
  /\ started' = [started EXCEPT ![t] = 0]
  /\ got' = [got EXCEPT ![t] = NoAnswer]
  /\ last' = [age |-> 0, end |-> "none"]
  /\ UNCHANGED <<keys, age, body, published>>

(***************************************************************************)
(* Actions of the cache                                                    *)
(***************************************************************************)

\* The kid is known.
Known(t, k) ==
  /\ pc[t] = "idle"
  /\ k \in keys
  /\ got' = [got EXCEPT ![t] = Verdict(keys, k)]
  /\ UNCHANGED <<keys, age, lock, pc, kid, started, body, published, last>>

\* It is not, and the last refresh is too recent to try again: the lock is taken
\* and released within the step.
UnknownLimited(t, k) ==
  /\ pc[t] = "idle"
  /\ k \notin keys
  /\ Free(lock)
  /\ RateLimited
  /\ lock' = Release(Take(lock))
  /\ got' = [got EXCEPT ![t] = Verdict(keys, k)]
  /\ UNCHANGED <<keys, age, pc, kid, started, body, published, last>>

\* Wrong on purpose: the refresh does not take the lock.
UnknownFetchUnlocked(t, k) ==
  /\ pc[t] = "idle"
  /\ k \notin keys
  /\ ~RateLimited
  /\ SendsRequest(t, k)
  /\ UNCHANGED lock

\* It is not, and the task refreshes.
UnknownFetch(t, k) ==
  /\ pc[t] = "idle"
  /\ k \notin keys
  /\ Free(lock)
  /\ ~RateLimited
  /\ lock' = Take(lock)
  /\ SendsRequest(t, k)

\* It is not, and another task holds the lock.
UnknownWait(t, k) ==
  /\ pc[t] = "idle"
  /\ k \notin keys
  /\ ~Free(lock)
  /\ lock' = Enqueue(lock, t)
  /\ pc' = [pc EXCEPT ![t] = "waiting"]
  /\ kid' = [kid EXCEPT ![t] = k]
  /\ got' = [got EXCEPT ![t] = NoAnswer]
  /\ UNCHANGED <<keys, age, started, body, published, last>>

\* A woken waiter runs: usually the refresh it waited for has just happened.
ResumeLimited(t) ==
  /\ pc[t] = "waiting"
  /\ Woken(lock, t)
  /\ RateLimited
  /\ lock' = Release(Resume(lock, t))
  /\ Ends(t, Verdict(keys, kid[t]))
  /\ UNCHANGED <<keys, age, published, last>>

ResumeFetch(t) ==
  /\ pc[t] = "waiting"
  /\ Woken(lock, t)
  /\ ~RateLimited
  /\ lock' = Resume(lock, t)
  /\ SendsRequest(t, kid[t])

\* Wrong on purpose: the refresh counts from when its response arrived.
AgeFromResponse(t) == 0

\* _last_refresh becomes the time read before the request, not that of the response.
RefreshedAge(t) == started[t]

\* Wrong on purpose: the response replaces the keys.
RefreshReplaces(t) ==
  /\ pc[t] = "answered"
  /\ keys' = body[t]
  /\ age' = started[t]
  /\ lock' = Release(lock)
  /\ last' = [last EXCEPT !.end = "ok"]
  /\ Ends(t, Verdict(keys', kid[t]))
  /\ UNCHANGED published

\* A well-formed key set arrives.
Refresh(t) ==
  /\ pc[t] = "answered"
  /\ keys' = keys \cup body[t]
  /\ age' = RefreshedAge(t)
  /\ lock' = Release(lock)
  /\ last' = [last EXCEPT !.end = "ok"]
  /\ Ends(t, Verdict(keys', kid[t]))
  /\ UNCHANGED published

\* Wrong on purpose: a refresh that failed does not count.
RefreshFailsUncounted(t) ==
  /\ pc[t] \in {"fetching", "answered"}
  /\ lock' = Release(lock)
  /\ last' = [last EXCEPT !.end = "failed"]
  /\ Ends(t, Verdict(keys, kid[t]))
  /\ UNCHANGED <<keys, age, published>>

\* httpx.HTTPError: no connection, a timeout, an error status.
RefreshFails(t) ==
  /\ pc[t] \in {"fetching", "answered"}
  /\ age' = RefreshedAge(t)
  /\ lock' = Release(lock)
  /\ last' = [last EXCEPT !.end = "failed"]
  /\ Ends(t, Verdict(keys, kid[t]))
  /\ UNCHANGED <<keys, published>>

\* Wrong on purpose: the exception leaves the lock held.
RefreshCrashesLocked(t) ==
  /\ pc[t] = "answered"
  /\ last' = [last EXCEPT !.end = "crashed"]
  /\ Ends(t, [kid |-> kid[t], found |-> "crashed"])
  /\ UNCHANGED <<keys, age, lock, published>>

\* A 200 whose body is not a key set: json(), get or the loop over it raises an
\* exception that is no httpx.HTTPError, after storing the keys before the fault.
\* What the client itself raises so, closed by a shutdown or cancelled, comes to the
\* same as an answer none of whose keys is stored.
RefreshCrashes(t) ==
  /\ pc[t] = "answered"
  /\ \E before \in SUBSET body[t] : keys' = keys \cup before
  /\ lock' = Release(lock)
  /\ last' = [last EXCEPT !.end = "crashed"]
  /\ Ends(t, [kid |-> kid[t], found |-> "crashed"])
  /\ UNCHANGED <<age, published>>

(***************************************************************************)
(* Actions of the IdP and of time                                          *)
(***************************************************************************)

IdpAnswers(t) ==
  /\ pc[t] = "fetching"
  /\ pc' = [pc EXCEPT ![t] = "answered"]
  /\ body' = [body EXCEPT ![t] = Published]
  /\ UNCHANGED <<keys, age, lock, kid, started, got, published, last>>

\* The IdP publishes a key, or retires one.
Rotate(k) ==
  /\ published' = [published EXCEPT ![k] = IF @ = NoKid THEN 0 ELSE NoKid]
  /\ UNCHANGED <<keys, age, lock, pc, kid, started, body, got, last>>

Tick ==
  /\ age' = Older(age)
  /\ started' = [t \in Task |-> IF pc[t] \in {"fetching", "answered"}
                                  THEN Older(started[t]) ELSE started[t]]
  /\ published' = [k \in Kid |-> IF published[k] = NoKid THEN NoKid
                                                         ELSE Older(published[k])]
  /\ last' = [last EXCEPT !.age = Older(@)]
  /\ UNCHANGED <<keys, lock, pc, kid, body, got>>

Next ==
  \/ \E t \in Task, k \in Kid : Known(t, k)
  \/ \E t \in Task, k \in Kid : UnknownLimited(t, k)
  \/ \E t \in Task, k \in Kid : UnknownFetch(t, k)
  \/ \E t \in Task, k \in Kid : UnknownWait(t, k)
  \/ \E t \in Task : ResumeLimited(t)
  \/ \E t \in Task : ResumeFetch(t)
  \/ \E t \in Task : Refresh(t)
  \/ \E t \in Task : RefreshFails(t)
  \/ \E t \in Task : RefreshCrashes(t)
  \/ \E t \in Task : IdpAnswers(t)
  \/ \E k \in Kid : Rotate(k)
  \/ Tick

Spec == Init /\ [][Next]_vars

(***************************************************************************)
(* Fairness: the event loop runs scheduled tasks and the HTTP client's     *)
(* timeout ends every request; time passes; and, for Recovers only, an IdP *)
(* asked again and again answers well once.                                *)
(***************************************************************************)
Progress(t) ==
  \/ ResumeLimited(t)
  \/ ResumeFetch(t)
  \/ Refresh(t)
  \/ RefreshFails(t)
  \/ RefreshCrashes(t)

FairSpec ==
  /\ Spec
  /\ \A t \in Task : WF_vars(Progress(t))
  /\ WF_vars(Tick)
  /\ \A t \in Task : SF_vars(IdpAnswers(t)) /\ SF_vars(Refresh(t))

(***************************************************************************)
(* Properties                                                              *)
(***************************************************************************)

\* Types; the idle task remembers nothing of its last call but the answer.
TypeOK ==
  /\ keys \subseteq Kid
  /\ age \in Age
  /\ lock \in LockStates(Task)
  /\ pc \in [Task -> {"idle"} \cup Suspended]
  /\ kid \in [Task -> Kid \cup {NoKid}]
  /\ started \in [Task -> Age]
  /\ body \in [Task -> SUBSET Kid]
  /\ got \in [Task -> [kid : Kid, found : {"key", "unknown", "crashed"}] \cup {NoAnswer}]
  /\ published \in [Kid -> Age \cup {NoKid}]
  /\ last \in [age : Age, end : {"none", "ok", "failed", "crashed"}]
  /\ \A t \in Task : pc[t] = "idle" <=> kid[t] = NoKid

\* At most one request to the JWKS endpoint is under way, and the lock is held
\* exactly while one is: a failure or a crash in the async with block (:76-100)
\* does not keep it.
OneRefreshAtATime ==
  LET fetching == {t \in Task : pc[t] \in {"fetching", "answered"}}
  IN  /\ lock.locked <=> fetching # {}
      /\ \A t, u \in fetching : t = u

\* Two refreshes start at least Interval apart, whatever the kids asked for and
\* however the earlier one went, unless its body crashed the code (:78, :94, :100).
RateLimitUnlessCrashed ==
  [][\A t \in Task :
       pc[t] # "fetching" /\ pc'[t] = "fetching"
         => last.age = Interval \/ last.end = "crashed"]_vars

\* A kid is turned away unasked only while it is new: when the last refresh went
\* well, the IdP has published it for less than Interval, or not at all.  This
\* is what taking _last_refresh from before the request is for.
UnknownOnlyWhileNew ==
  [][\A t \in Task, k \in Published \ keys :
       UnknownLimited(t, k) \/ (ResumeLimited(t) /\ kid[t] = k)
         => last.end # "ok" \/ published[k] < Interval]_vars

\* Every call of key_for ends.
EveryCallEnds == \A t \in Task : pc[t] # "idle" ~> pc[t] = "idle"

\* A kid that stays published and is asked for again and again becomes known: no
\* mix of rate limit, slow responses and failures shuts it out for good.
Asked(k) ==
  \E t \in Task : UnknownLimited(t, k) \/ UnknownFetch(t, k) \/ UnknownWait(t, k)

Recovers ==
  \A k \in Kid :
    <>[](k \in Published) /\ []<><<Asked(k)>>_vars => <>(k \in keys)

\* The cache, with its lock, its clock and its rate limit, is the service that the
\* verifier relies on: every answer is about the kid asked for, out of the keys known
\* when it is given, and no key is forgotten (:68-73, :96-100).
Keys == INSTANCE KeyService WITH known <- keys, asked <- kid

ImplementsKeyService == Keys!KeysSpec

\* What JwksCache's docstring promises (:53-55): refreshes are limited to one per
\* interval.  The code does not keep it when a body is malformed, see the README.
RateLimit ==
  [][\A t \in Task :
       pc[t] # "fetching" /\ pc'[t] = "fetching" => last.age = Interval]_vars
=============================================================================
