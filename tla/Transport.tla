----------------------------- MODULE Transport -----------------------------
(***************************************************************************)
(* HttpTransport.execute and GraphQlTransport.execute (transports/http.py, *)
(* transports/graphql.py), whose retry loops are the same, with            *)
(* wait_for_retry (transports/common.py), and the upstream they call.      *)
(*                                                                         *)
(* Calls share nothing here, so each task has its own copy of every        *)
(* variable.  The upstream is external: it may apply a request and its     *)
(* answer may be lost, late, or an error status from a proxy.  httpx, too,  *)
(* is external: its timeout bounds each network operation of an attempt    *)
(* (connect, write, each read), not the attempt.  Time counts in ticks;    *)
(* the event loop is never late, so time stands still while a timeout or   *)
(* the end of a sleep is due.                                              *)
(***************************************************************************)
EXTENDS Integers

CONSTANTS
  Task,
  Timeout,     \* timeout_ms: how long a network operation lasts at most
  Operations,  \* bound: the network operations of an attempt
  MaxTotal,    \* max_total_ms, which config always sets (models.py:180)
  RetryAfter,  \* the Retry-After values an upstream sends
  RetryCap,    \* RETRY_AFTER_CAP_S
  NoCall

ASSUME TimeAssumption ==
  /\ Timeout \in Nat \ {0} /\ Operations \in Nat \ {0} /\ MaxTotal \in Nat \ {0}
  /\ RetryAfter \subseteq Nat /\ RetryCap \in Nat

MAX_ATTEMPTS == 3

Effect == {"read_only", "idempotent_write", "action"}

ASSUME NoCallAssumption == NoCall \notin Effect

\* A response status, as far as the loop tells statuses apart.
Status == {"ok", "failure", "unavailable", "limited"}

VARIABLES
  effect,    \* operation.effect of the task's call
  stage,     \* idle, sent (an attempt is in flight) or sleeping
  attempt,   \* index of the attempt
  spent,     \* time.monotonic() - started
  operation, \* network operations the attempt in flight has completed
  clock,     \* time the operation has taken, or time left to sleep
  answered,  \* whether the upstream has dealt with the attempt in flight
  applied    \* how often the upstream has applied the task's request

vars == <<effect, stage, attempt, spent, operation, clock, answered, applied>>

Init ==
  /\ effect = [t \in Task |-> NoCall]
  /\ stage = [t \in Task |-> "idle"]
  /\ attempt = [t \in Task |-> 0]
  /\ spent = [t \in Task |-> 0]
  /\ operation = [t \in Task |-> 0]
  /\ clock = [t \in Task |-> 0]
  /\ answered = [t \in Task |-> FALSE]
  /\ applied = [t \in Task |-> 0]

(***************************************************************************)
(* Helpers                                                                 *)
(***************************************************************************)

\* Wrong on purpose: everything is sent again.
RetryableAlways(e) == TRUE

\* _retryable: an action is never sent twice.
Retryable(e) == e \in {"read_only", "idempotent_write"}

Attempts(e) == IF Retryable(e) THEN MAX_ATTEMPTS ELSE 1

\* Wrong on purpose: one attempt too many.
LastAttemptLate(t) == attempt[t] = Attempts(effect[t])

LastAttempt(t) == attempt[t] = Attempts(effect[t]) - 1

RetryableStatus(s) == s \in {"unavailable", "limited"}

Least(a, b) == IF a < b THEN a ELSE b

\* retry_delay_s: Retry-After counts on a 429 only; anything else is jitter of up
\* to 2^n backoff units, which is n + 1 for the attempts (0 and 1) a retry follows.
Delays(s, n) ==
  0 .. n + 1 \cup (IF s = "limited" THEN {Least(r, RetryCap) : r \in RetryAfter} ELSE {})

\* Wrong on purpose: asks only whether the budget is spent already.
NotYetSpent(t, delay) == spent[t] < MaxTotal

\* wait_for_retry's gate: the sleep and the attempt it buys fit in the budget.
Affordable(t, delay) == delay + Timeout <= MaxTotal - spent[t]

\* execute returns the mapped response or raises: the caller gets its result.
Ends(t) ==
  /\ stage' = [stage EXCEPT ![t] = "idle"]
  /\ effect' = [effect EXCEPT ![t] = NoCall]
  /\ applied' = [applied EXCEPT ![t] = 0]
  /\ attempt' = [attempt EXCEPT ![t] = 0]
  /\ spent' = [spent EXCEPT ![t] = 0]
  /\ operation' = [operation EXCEPT ![t] = 0]
  /\ clock' = [clock EXCEPT ![t] = 0]
  /\ answered' = [answered EXCEPT ![t] = FALSE]

\* The attempt is over: sleep before the next one, or end when there is none.
RetriesOrEnds(t, s) ==
  \E delay \in Delays(s, attempt[t]) :
    IF Affordable(t, delay)
      THEN /\ stage' = [stage EXCEPT ![t] = "sleeping"]
           /\ operation' = [operation EXCEPT ![t] = 0]
           /\ clock' = [clock EXCEPT ![t] = delay]
           /\ answered' = [answered EXCEPT ![t] = FALSE]
           /\ UNCHANGED <<effect, attempt, spent, applied>>
      ELSE Ends(t)

(***************************************************************************)
(* Actions                                                                 *)
(***************************************************************************)

\* The credential is there and the request is built: the first attempt goes out,
\* whatever the budget.
Start(t, e) ==
  /\ stage[t] = "idle"
  /\ effect' = [effect EXCEPT ![t] = e]
  /\ stage' = [stage EXCEPT ![t] = "sent"]
  /\ UNCHANGED <<attempt, spent, operation, clock, answered, applied>>

\* The upstream receives the attempt and applies the request.
Applies(t) ==
  /\ stage[t] = "sent"
  /\ ~answered[t]
  /\ answered' = [answered EXCEPT ![t] = TRUE]
  /\ applied' = [applied EXCEPT ![t] = @ + 1]
  /\ UNCHANGED <<effect, stage, attempt, spent, operation, clock>>

\* A network operation of the attempt completes: the next has a timeout of its own.
Proceeds(t) ==
  /\ stage[t] = "sent"
  /\ operation[t] < Operations - 1
  /\ operation' = [operation EXCEPT ![t] = @ + 1]
  /\ clock' = [clock EXCEPT ![t] = 0]
  /\ UNCHANGED <<effect, stage, attempt, spent, answered, applied>>

\* A response arrives.  Only a success proves that the request was applied.
Responds(t, s) ==
  /\ stage[t] = "sent"
  /\ s = "ok" => answered[t]
  /\ IF RetryableStatus(s) /\ ~LastAttempt(t)
       THEN RetriesOrEnds(t, s)
       ELSE Ends(t)

\* httpx.TimeoutException
TimesOut(t) ==
  /\ stage[t] = "sent"
  /\ clock[t] = Timeout
  /\ IF LastAttempt(t) THEN Ends(t) ELSE RetriesOrEnds(t, "none")

\* Any other httpx.RequestError is not retried.
Breaks(t) ==
  /\ stage[t] = "sent"
  /\ Ends(t)

\* The client cancels the call.
Cancelled(t) ==
  /\ stage[t] # "idle"
  /\ Ends(t)

\* Wrong on purpose: the attempts are not counted.
WakesUncounted(t) ==
  /\ stage[t] = "sleeping"
  /\ clock[t] = 0
  /\ stage' = [stage EXCEPT ![t] = "sent"]
  /\ UNCHANGED <<effect, attempt, spent, operation, clock, answered, applied>>

\* asyncio.sleep returns: the same request goes out again, credential and all.
Wakes(t) ==
  /\ stage[t] = "sleeping"
  /\ clock[t] = 0
  /\ stage' = [stage EXCEPT ![t] = "sent"]
  /\ attempt' = [attempt EXCEPT ![t] = @ + 1]
  /\ UNCHANGED <<effect, spent, operation, clock, answered, applied>>

Due(t) ==
  \/ stage[t] = "sent" /\ clock[t] = Timeout
  \/ stage[t] = "sleeping" /\ clock[t] = 0

Tick ==
  /\ \E t \in Task : stage[t] # "idle"
  /\ \A t \in Task : ~Due(t)
  /\ clock' = [t \in Task |-> CASE stage[t] = "sent" -> clock[t] + 1
                                [] stage[t] = "sleeping" -> clock[t] - 1
                                [] OTHER -> clock[t]]
  /\ spent' = [t \in Task |-> IF stage[t] = "idle" THEN spent[t] ELSE spent[t] + 1]
  /\ UNCHANGED <<effect, stage, attempt, operation, answered, applied>>

TaskStep(t) ==
  \/ \E e \in Effect : Start(t, e)
  \/ Applies(t)
  \/ Proceeds(t)
  \/ \E s \in Status : Responds(t, s)
  \/ TimesOut(t)
  \/ Breaks(t)
  \/ Cancelled(t)
  \/ Wakes(t)

Next == Tick \/ \E t \in Task : TaskStep(t)

Spec == Init /\ [][Next]_vars

\* Time passes, a timeout that is due fires and a sleep that is over ends.
FairSpec ==
  /\ Spec
  /\ WF_vars(Tick)
  /\ \A t \in Task : WF_vars(TimesOut(t)) /\ WF_vars(Wakes(t))

(***************************************************************************)
(* Properties                                                              *)
(***************************************************************************)

\* Types; an attempt number beyond the effect's allowance is a type error too.
TypeOK ==
  /\ effect \in [Task -> Effect \cup {NoCall}]
  /\ stage \in [Task -> {"idle", "sent", "sleeping"}]
  /\ attempt \in [Task -> 0 .. MAX_ATTEMPTS - 1]
  /\ spent \in [Task -> Nat]
  /\ operation \in [Task -> 0 .. Operations - 1]
  /\ clock \in [Task -> Nat]
  /\ answered \in [Task -> BOOLEAN]
  /\ applied \in [Task -> Nat]
  /\ \A t \in Task : stage[t] # "idle" <=> effect[t] \in Effect

\* A call of an operation that is not repeatable is applied at most once, however
\* its answer got lost: the comment of _retryable, http.py:199.
ActionAppliedAtMostOnce ==
  \A t \in Task : effect[t] = "action" => applied[t] <= 1

\* Past the first attempt, a call outlives max_total_ms by no more than what its
\* last attempt lasts beyond one timeout: the delay and the attempt it buys fit in
\* what is left of the budget together (common.py:87-93).
BudgetBoundsRetries ==
  \A t \in Task :
    stage[t] = "sleeping" \/ attempt[t] > 0
      => spent[t] <= MaxTotal + (Operations - 1) * Timeout

\* Every call ends.
EveryCallEnds == \A t \in Task : stage[t] # "idle" ~> stage[t] = "idle"
=============================================================================
