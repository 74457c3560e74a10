-------------------------- MODULE TransportProofs --------------------------
(***************************************************************************)
(* Proofs about Transport: its types, and that neither the attempts nor    *)
(* the time of a call exceed what the operation and the budget allow; and  *)
(* about Expiry, which adds the life of the credential to that: how long a *)
(* token may be over when it goes out.                                     *)
(***************************************************************************)
EXTENDS Expiry, TLAPS

(***************************************************************************)
(* The inductive invariant                                                 *)
(***************************************************************************)

\* A call is sent no more often than its effect allows, each time applied at most
\* once, and nothing of it outlives it.
Counted(t) ==
  /\ stage[t] = "idle" =>
       attempt[t] = 0 /\ applied[t] = 0 /\ clock[t] = 0 /\ operation[t] = 0 /\ ~answered[t]
  /\ stage[t] # "idle" => attempt[t] < Attempts(effect[t])
  /\ stage[t] = "sleeping" => attempt[t] + 1 < Attempts(effect[t])
  /\ applied[t] <= attempt[t] + (IF stage[t] = "sleeping" \/ answered[t] THEN 1 ELSE 0)

\* A sleep leaves room in the budget for the timeout of the attempt it precedes,
\* and a retry uses a timeout for each network operation at most.
Funded(t) ==
  /\ stage[t] = "sleeping" => spent[t] + clock[t] + Timeout <= MaxTotal
  /\ stage[t] = "sent" => clock[t] <= Timeout
  /\ stage[t] = "sent" /\ attempt[t] > 0 =>
       spent[t] + Timeout <= MaxTotal + operation[t] * Timeout + clock[t]

IInv == TypeOK /\ \A t \in Task : Counted(t) /\ Funded(t)

\* What a step about task t does to the state of a task u: nothing.
Same(u) ==
  /\ effect'[u] = effect[u] /\ stage'[u] = stage[u] /\ attempt'[u] = attempt[u]
  /\ spent'[u] = spent[u] /\ operation'[u] = operation[u] /\ clock'[u] = clock[u]
  /\ answered'[u] = answered[u] /\ applied'[u] = applied[u]

Kept(t) ==
  /\ TypeOK'
  /\ Counted(t)' /\ Funded(t)'
  /\ \A u \in Task : u # t => Same(u)

(***************************************************************************)
(* Lemmas                                                                  *)
(***************************************************************************)

\* One more network operation is one more timeout.
LEMMA OneMore == \A n, k \in Nat : (n + 1) * k = n * k + k
  OBVIOUS

\* More network operations are no fewer timeouts.
LEMMA NoFewer == \A n, m, k \in Nat : n <= m => n * k <= m * k
<1>1. SUFFICES ASSUME NEW n \in Nat, NEW m \in Nat, NEW k \in Nat, n <= m
               PROVE  n * k <= m * k
  OBVIOUS
<1>2. PICK d \in Nat : m = n + d
  <2>1. m - n \in Nat /\ m = n + (m - n)
    BY <1>1
  <2>2. QED BY <2>1
<1>3. m * k = n * k + d * k
  BY <1>2
<1>4. n * k \in Nat /\ d * k \in Nat
  OBVIOUS
<1>5. QED BY <1>3, <1>4

\* Every effect allows from one to MAX_ATTEMPTS attempts.
LEMMA AttemptsBounded ==
  \A e : Attempts(e) \in 1 .. MAX_ATTEMPTS /\ (e = "action" => Attempts(e) = 1)
  BY DEF Attempts, Retryable, MAX_ATTEMPTS

\* Every delay is a number.
LEMMA DelaysAreTimes == ASSUME NEW s, NEW n \in Nat PROVE Delays(s, n) \subseteq Nat
  BY TimeAssumption DEF Delays, Least

\* The initial state satisfies the invariant.
LEMMA InitIInv == Init => IInv
<1>1. SUFFICES ASSUME Init PROVE IInv
  OBVIOUS
<1>2. TypeOK
  <2>1. 0 \in 0 .. MAX_ATTEMPTS - 1 /\ 0 \in 0 .. Operations - 1
    BY TimeAssumption DEF MAX_ATTEMPTS
  <2>2. QED BY <1>1, <2>1, NoCallAssumption DEF Init, TypeOK
<1>3. ASSUME NEW t \in Task PROVE Counted(t) /\ Funded(t)
  BY <1>1 DEF Init, Counted, Funded
<1>4. QED BY <1>2, <1>3 DEF IInv

(***************************************************************************)
(* One lemma per action                                                    *)
(***************************************************************************)

\* A call that ends leaves nothing behind and touches no other.
LEMMA EndsKept == ASSUME TypeOK, NEW t \in Task, Ends(t) PROVE Kept(t)
<1>1. TypeOK'
  <2>1. 0 \in 0 .. MAX_ATTEMPTS - 1 /\ 0 \in 0 .. Operations - 1
    BY TimeAssumption DEF MAX_ATTEMPTS
  <2>2. QED BY <2>1, NoCallAssumption DEF TypeOK, Ends
<1>2. Counted(t)'
  BY DEF TypeOK, Ends, Counted
<1>3. Funded(t)'
  BY DEF TypeOK, Ends, Funded
<1>4. ASSUME NEW u \in Task, u # t PROVE Same(u)
  BY <1>4 DEF TypeOK, Ends, Same
<1>5. QED BY <1>1, <1>2, <1>3, <1>4 DEF Kept

\* A first attempt is within what any effect allows.
LEMMA StartKept ==
  ASSUME IInv, NEW t \in Task, NEW e \in Effect, Start(t, e) PROVE Kept(t)
<1>1. TypeOK /\ Counted(t)
  BY DEF IInv
<1>2. TypeOK'
  BY <1>1 DEF TypeOK, Start
<1>3. Counted(t)'
  BY <1>1, AttemptsBounded DEF TypeOK, Start, Counted
<1>4. Funded(t)'
  BY <1>1, TimeAssumption DEF TypeOK, Start, Funded, Counted
<1>5. ASSUME NEW u \in Task, u # t PROVE Same(u)
  BY <1>1, <1>5 DEF TypeOK, Start, Same
<1>6. QED BY <1>2, <1>3, <1>4, <1>5 DEF Kept

\* The upstream applies an attempt in flight once.
LEMMA AppliesKept == ASSUME IInv, NEW t \in Task, Applies(t) PROVE Kept(t)
<1>1. TypeOK /\ Counted(t) /\ Funded(t)
  BY DEF IInv
<1>2. TypeOK'
  BY <1>1 DEF TypeOK, Applies
<1>3. Counted(t)'
  BY <1>1 DEF TypeOK, Applies, Counted
<1>4. Funded(t)'
  BY <1>1 DEF TypeOK, Applies, Funded
<1>5. ASSUME NEW u \in Task, u # t PROVE Same(u)
  BY <1>1, <1>5 DEF TypeOK, Applies, Same
<1>6. QED BY <1>2, <1>3, <1>4, <1>5 DEF Kept

\* The time of a network operation that ends is at most a timeout.
LEMMA ProceedsKept == ASSUME IInv, NEW t \in Task, Proceeds(t) PROVE Kept(t)
<1>1. TypeOK /\ Counted(t) /\ Funded(t)
  BY DEF IInv
<1>2. TypeOK'
  BY <1>1, TimeAssumption DEF TypeOK, Proceeds
<1>3. Counted(t)'
  BY <1>1 DEF TypeOK, Proceeds, Counted
<1>4. Funded(t)'
  <2>1. operation'[t] = operation[t] + 1 /\ clock'[t] = 0
    BY <1>1 DEF TypeOK, Proceeds
  <2>2. operation'[t] * Timeout = operation[t] * Timeout + Timeout
    BY <1>1, <2>1, OneMore, TimeAssumption DEF TypeOK
  <2>3. operation[t] * Timeout \in Nat
    BY <1>1, TimeAssumption DEF TypeOK
  <2>4. QED BY <1>1, <2>1, <2>2, <2>3, TimeAssumption DEF TypeOK, Proceeds, Funded
<1>5. ASSUME NEW u \in Task, u # t PROVE Same(u)
  BY <1>1, <1>5 DEF TypeOK, Proceeds, Same
<1>6. QED BY <1>2, <1>3, <1>4, <1>5 DEF Kept

\* Only a retry that the budget can pay for sleeps.
LEMMA RetriesOrEndsKept ==
  ASSUME IInv, NEW t \in Task, NEW s, stage[t] = "sent", ~LastAttempt(t),
         RetriesOrEnds(t, s)
  PROVE  Kept(t)
<1>1. TypeOK /\ Counted(t) /\ Funded(t)
  BY DEF IInv
<1>2. PICK delay \in Delays(s, attempt[t]) :
        IF Affordable(t, delay)
          THEN /\ stage' = [stage EXCEPT ![t] = "sleeping"]
               /\ operation' = [operation EXCEPT ![t] = 0]
               /\ clock' = [clock EXCEPT ![t] = delay]
               /\ answered' = [answered EXCEPT ![t] = FALSE]
               /\ UNCHANGED <<effect, attempt, spent, applied>>
          ELSE Ends(t)
  BY DEF RetriesOrEnds
<1>3. CASE ~Affordable(t, delay)
  BY <1>1, <1>2, <1>3, EndsKept
<1>4. CASE Affordable(t, delay)
  <2>1. delay \in Nat
    <3>1. attempt[t] \in Nat
      BY <1>1 DEF TypeOK, MAX_ATTEMPTS
    <3>2. Delays(s, attempt[t]) \subseteq Nat
      BY <3>1, DelaysAreTimes
    <3>3. QED BY <1>2, <3>2
  <2>2. TypeOK'
    <3>1. 0 \in 0 .. Operations - 1
      BY TimeAssumption
    <3>2. /\ stage' = [stage EXCEPT ![t] = "sleeping"]
          /\ operation' = [operation EXCEPT ![t] = 0]
          /\ clock' = [clock EXCEPT ![t] = delay]
          /\ answered' = [answered EXCEPT ![t] = FALSE]
          /\ UNCHANGED <<effect, attempt, spent, applied>>
      BY <1>2, <1>4
    <3>3. \A u \in Task : stage'[u] # "idle" <=> effect'[u] \in Effect
      BY <1>1, <3>2 DEF TypeOK
    <3>4. QED BY <1>1, <2>1, <3>1, <3>2, <3>3 DEF TypeOK
  <2>3. Counted(t)'
    BY <1>1, <1>2, <1>4, AttemptsBounded DEF TypeOK, Counted, LastAttempt, MAX_ATTEMPTS
  <2>4. Funded(t)'
    BY <1>1, <1>2, <1>4, <2>1, TimeAssumption DEF TypeOK, Funded, Affordable
  <2>5. ASSUME NEW u \in Task, u # t PROVE Same(u)
    BY <1>1, <1>2, <1>4, <2>5 DEF TypeOK, Same
  <2>6. QED BY <2>2, <2>3, <2>4, <2>5 DEF Kept
<1>5. QED BY <1>3, <1>4

\* The attempt after a sleep has the timeout that the sleep left room for.
LEMMA WakesKept == ASSUME IInv, NEW t \in Task, Wakes(t) PROVE Kept(t)
<1>1. TypeOK /\ Counted(t) /\ Funded(t)
  BY DEF IInv
<1>2. attempt[t] + 1 < Attempts(effect[t])
  BY <1>1 DEF Counted, Wakes
<1>3. TypeOK'
  BY <1>1, <1>2, AttemptsBounded DEF TypeOK, Wakes, MAX_ATTEMPTS
<1>4. Counted(t)'
  BY <1>1, <1>2 DEF TypeOK, Wakes, Counted
<1>5. Funded(t)'
  <2>1. operation[t] * Timeout \in Nat
    BY <1>1, TimeAssumption DEF TypeOK
  <2>2. QED BY <1>1, <2>1, TimeAssumption DEF TypeOK, Wakes, Funded
<1>6. ASSUME NEW u \in Task, u # t PROVE Same(u)
  BY <1>1, <1>6 DEF TypeOK, Wakes, Same
<1>7. QED BY <1>3, <1>4, <1>5, <1>6 DEF Kept

\* No timeout and no end of a sleep is overdue.
LEMMA TickKept == ASSUME IInv, Tick PROVE IInv'
<1>1. TypeOK
  BY DEF IInv
<1>2. ASSUME NEW t \in Task
      PROVE  /\ clock'[t] \in Nat /\ spent'[t] \in Nat
             /\ Counted(t)' /\ Funded(t)'
  <2>1. Counted(t) /\ Funded(t) /\ ~Due(t)
    BY DEF IInv, Tick
  <2>2. /\ clock'[t] = CASE stage[t] = "sent" -> clock[t] + 1
                         [] stage[t] = "sleeping" -> clock[t] - 1
                         [] OTHER -> clock[t]
        /\ spent'[t] = IF stage[t] = "idle" THEN spent[t] ELSE spent[t] + 1
    BY DEF Tick
  <2>3. stage' = stage /\ operation' = operation /\ attempt' = attempt
        /\ effect' = effect /\ applied' = applied /\ answered' = answered
    BY DEF Tick
  <2>4. stage[t] \in {"idle", "sent", "sleeping"} /\ clock[t] \in Nat /\ spent[t] \in Nat
    BY <1>1 DEF TypeOK
  <2>5. operation[t] * Timeout \in Nat
    BY <1>1, TimeAssumption DEF TypeOK
  <2>6. CASE stage[t] = "idle"
    BY <2>1, <2>2, <2>3, <2>4, <2>6 DEF Counted, Funded
  <2>7. CASE stage[t] = "sent"
    <3>1. clock'[t] = clock[t] + 1 /\ spent'[t] = spent[t] + 1 /\ clock[t] # Timeout
      BY <2>1, <2>2, <2>7 DEF Due
    <3>2. Counted(t)'
      BY <2>1, <2>3, <2>7 DEF Counted
    <3>3. Funded(t)'
      BY <2>1, <2>3, <2>4, <2>5, <2>7, <3>1, TimeAssumption DEF Funded
    <3>4. QED BY <2>4, <3>1, <3>2, <3>3
  <2>8. CASE stage[t] = "sleeping"
    <3>1. clock'[t] = clock[t] - 1 /\ spent'[t] = spent[t] + 1 /\ clock[t] # 0
      BY <2>1, <2>2, <2>8 DEF Due
    <3>2. Counted(t)'
      BY <2>1, <2>3, <2>8 DEF Counted
    <3>3. Funded(t)'
      BY <2>1, <2>3, <2>4, <2>8, <3>1, TimeAssumption DEF Funded
    <3>4. QED BY <2>4, <3>1, <3>2, <3>3
  <2>9. QED BY <2>4, <2>6, <2>7, <2>8
<1>3. TypeOK'
  <2>1. clock' \in [Task -> Nat] /\ spent' \in [Task -> Nat]
    BY <1>2 DEF Tick
  <2>2. QED BY <1>1, <2>1 DEF TypeOK, Tick
<1>4. QED BY <1>2, <1>3 DEF IInv

\* A step of one task keeps what concerns it and leaves the others alone.
LEMMA TaskStepKept == ASSUME IInv, NEW t \in Task, TaskStep(t) PROVE Kept(t)
<1>1. TypeOK
  BY DEF IInv
<1>2. CASE \E e \in Effect : Start(t, e)
  BY <1>2, StartKept
<1>3. CASE Applies(t)
  BY <1>3, AppliesKept
<1>4. CASE Proceeds(t)
  BY <1>4, ProceedsKept
<1>5. CASE \E s \in Status : Responds(t, s)
  <2>1. PICK s \in Status : Responds(t, s)
    BY <1>5
  <2>2. CASE RetryableStatus(s) /\ ~LastAttempt(t)
    BY <2>1, <2>2, RetriesOrEndsKept DEF Responds
  <2>3. CASE ~(RetryableStatus(s) /\ ~LastAttempt(t))
    BY <1>1, <2>1, <2>3, EndsKept DEF Responds
  <2>4. QED BY <2>2, <2>3
<1>6. CASE TimesOut(t)
  <2>1. CASE LastAttempt(t)
    BY <1>1, <1>6, <2>1, EndsKept DEF TimesOut
  <2>2. CASE ~LastAttempt(t)
    BY <1>6, <2>2, RetriesOrEndsKept DEF TimesOut
  <2>3. QED BY <2>1, <2>2
<1>7. CASE Breaks(t) \/ Cancelled(t)
  BY <1>1, <1>7, EndsKept DEF Breaks, Cancelled
<1>8. CASE Wakes(t)
  BY <1>8, WakesKept
<1>9. QED BY <1>2, <1>3, <1>4, <1>5, <1>6, <1>7, <1>8 DEF TaskStep

\* Every step keeps the invariant.
LEMMA NextIInv == IInv /\ [Next]_vars => IInv'
<1>1. SUFFICES ASSUME IInv, [Next]_vars PROVE IInv'
  OBVIOUS
<1>2. CASE Tick
  BY <1>1, <1>2, TickKept
<1>3. ASSUME NEW t \in Task, TaskStep(t) PROVE IInv'
  <2>1. Kept(t)
    BY <1>1, <1>3, TaskStepKept
  <2>2. ASSUME NEW u \in Task, u # t PROVE Counted(u)' /\ Funded(u)'
    <3>1. Counted(u) /\ Funded(u) /\ Same(u)
      BY <1>1, <2>1, <2>2 DEF IInv, Kept
    <3>2. QED BY <3>1 DEF Counted, Funded, Same
  <2>3. QED BY <2>1, <2>2 DEF IInv, Kept
<1>4. CASE UNCHANGED vars
  BY <1>1, <1>4 DEF vars, IInv, TypeOK, Counted, Funded
<1>5. QED BY <1>1, <1>2, <1>3, <1>4 DEF Next

(***************************************************************************)
(* Theorems                                                                *)
(***************************************************************************)

\* The invariant holds throughout, for any number of calls.
THEOREM Invariance == Spec => []IInv
<1>1. QED BY InitIInv, NextIInv, PTL DEF Spec

\* The types hold; an attempt beyond the third is never made (http.py:47).
THEOREM TypeCorrect == Spec => []TypeOK
<1>1. IInv => TypeOK
  BY DEF IInv
<1>2. QED BY <1>1, Invariance, PTL

\* An action is applied at most once, whatever answer gets lost (http.py:199).
THEOREM ActionOnce == Spec => []ActionAppliedAtMostOnce
<1>1. IInv => ActionAppliedAtMostOnce
  <2>1. SUFFICES ASSUME IInv, NEW t \in Task, effect[t] = "action" PROVE applied[t] <= 1
    BY DEF ActionAppliedAtMostOnce
  <2>2. Counted(t) /\ TypeOK
    BY <2>1 DEF IInv
  <2>3. stage[t] # "idle"
    BY <2>1, <2>2 DEF TypeOK, Effect
  <2>4. attempt[t] \in Nat /\ applied[t] \in Nat
    BY <2>2 DEF TypeOK, MAX_ATTEMPTS
  <2>5. attempt[t] < 1
    BY <2>1, <2>2, <2>3, AttemptsBounded DEF Counted
  <2>6. QED BY <2>2, <2>4, <2>5 DEF Counted
<1>2. QED BY <1>1, Invariance, PTL

\* The budget bounds the retries up to the last attempt's later network operations
\* (common.py:87-93).
THEOREM BudgetKept == Spec => []BudgetBoundsRetries
<1>1. IInv => BudgetBoundsRetries
  <2>1. SUFFICES ASSUME IInv, NEW t \in Task, stage[t] = "sleeping" \/ attempt[t] > 0
                 PROVE  spent[t] <= MaxTotal + (Operations - 1) * Timeout
    BY DEF BudgetBoundsRetries
  <2>2. Counted(t) /\ Funded(t) /\ TypeOK
    BY <2>1 DEF IInv
  <2>3. /\ spent[t] \in Nat /\ clock[t] \in Nat /\ operation[t] \in 0 .. Operations - 1
        /\ attempt[t] \in Nat /\ stage[t] \in {"idle", "sent", "sleeping"}
    BY <2>2 DEF TypeOK, MAX_ATTEMPTS
  <2>4. operation[t] * Timeout <= (Operations - 1) * Timeout
    BY <2>3, NoFewer, TimeAssumption
  <2>5. operation[t] * Timeout \in Nat /\ (Operations - 1) * Timeout \in Nat
    BY <2>3, TimeAssumption
  <2>6. CASE stage[t] = "sleeping"
    BY <2>2, <2>3, <2>5, <2>6, TimeAssumption DEF Funded
  <2>7. CASE stage[t] = "sent"
    BY <2>1, <2>2, <2>3, <2>4, <2>5, <2>7, TimeAssumption DEF Funded
  <2>8. CASE stage[t] = "idle"
    BY <2>1, <2>2, <2>3, <2>8 DEF Counted
  <2>9. QED BY <2>3, <2>6, <2>7, <2>8
<1>2. QED BY <1>1, Invariance, PTL

(***************************************************************************)
(* The credential's life                                                   *)
(***************************************************************************)

ETypeOK ==
  /\ life \in [Task -> Int] /\ lasting \in [Task -> BOOLEAN] /\ kept \in [Task -> Nat]
  /\ subject \in [Task -> Int \cup {NoSubject}] /\ behind \in [Task -> Int]
  /\ reused \in [Task -> BOOLEAN]

\* The time of a call is counted from its start.
Timed(t) ==
  /\ stage[t] = "idle" => spent[t] = 0
  /\ stage[t] = "sent" /\ attempt[t] = 0 /\ operation[t] = 0 => spent[t] = clock[t]

\* A cache entry ends the leeway before its token, the token's way excepted, and
\* before the caller's token by the clock the entry was made by.
Covered(t) ==
  kept[t] > 0 =>
    /\ lasting[t] => life[t] >= kept[t] + Leeway - FetchDelay
    /\ subject[t] # NoSubject => subject[t] + behind[t] >= kept[t] + Leeway

\* What was left when a call began is left but for the time of the call.
Lasts(t) ==
  stage[t] # "idle" =>
    /\ lasting[t] => life[t] >= Leeway - FetchDelay - spent[t]
    /\ reused[t] /\ subject[t] # NoSubject => subject[t] + behind[t] > Leeway - spent[t]

EInv == ETypeOK /\ \A t \in Task : Timed(t) /\ Covered(t) /\ Lasts(t)

\* Each step of Expiry is one of the transport's loop, or none of its business.
LEMMA LoopSteps == [ENext]_<<vars, tokenVars>> => [Next]_vars
  BY DEF ENext, Ticks, Rests, Turns, StartsCached, StartsFetched, Loops, Next, TaskStep

\* The transport with its credentials is the transport: what is proved of the loop
\* holds of it, whatever tokens are cached, fetched and over (http.py:229-283).
THEOREM LoopImplemented == ESpec => Spec
<1>1. EInit => Init
  BY DEF EInit
<1>2. QED BY <1>1, LoopSteps, PTL DEF ESpec, Spec

\* No call, no token.
LEMMA InitEInv == EInit => EInv
  BY ExpiryAssumption DEF EInit, Init, EInv, ETypeOK, Timed, Covered, Lasts

\* A step of the loop ends its call, or leaves its time alone; and what goes out
\* for the first time is not sent again.
LEMMA LoopsTimed ==
  ASSUME IInv, EInv, NEW t \in Task, Loops(t)
  PROVE  /\ Timed(t)'
         /\ stage'[t] # "idle" => stage[t] # "idle" /\ spent'[t] = spent[t]
<1>1. TypeOK /\ Timed(t)
  BY DEF IInv, EInv
<1>2. CASE Ends(t)
  BY <1>1, <1>2 DEF TypeOK, Ends, Timed
<1>3. ASSUME NEW s, stage[t] = "sent", RetriesOrEnds(t, s), ~Ends(t)
      PROVE  stage'[t] = "sleeping" /\ spent'[t] = spent[t]
  BY <1>1, <1>3 DEF RetriesOrEnds, TypeOK
<1>4. CASE Applies(t)
  BY <1>1, <1>4 DEF TypeOK, Applies, Timed
<1>5. CASE Proceeds(t)
  BY <1>1, <1>5 DEF TypeOK, Proceeds, Timed
<1>6. CASE Wakes(t)
  BY <1>1, <1>6 DEF TypeOK, Wakes, Timed, MAX_ATTEMPTS
<1>7. CASE stage[t] = "sent" /\ \E s : RetriesOrEnds(t, s)
  BY <1>2, <1>3, <1>7 DEF Timed
<1>8. QED
  BY <1>2, <1>4, <1>5, <1>6, <1>7 DEF Loops, Responds, TimesOut, Breaks, Cancelled

\* Nothing of a task is disturbed by another task's step.
LEMMA OthersCovered ==
  ASSUME NEW u \in Task, Same(u), Timed(u) /\ Covered(u) /\ Lasts(u),
         /\ life'[u] = life[u] /\ lasting'[u] = lasting[u] /\ kept'[u] = kept[u]
         /\ subject'[u] = subject[u] /\ behind'[u] = behind[u] /\ reused'[u] = reused[u]
  PROVE  Timed(u)' /\ Covered(u)' /\ Lasts(u)'
  BY DEF Same, Timed, Covered, Lasts

\* The loop does not touch the token.
LEMMA LoopsKeep == ASSUME IInv, EInv, NEW t \in Task, Loops(t) PROVE EInv'
<1>1. UNCHANGED <<life, lasting, kept, subject, behind, reused>>
  BY DEF Loops, tokenVars
<1>2. Kept(t)
  BY TaskStepKept DEF Loops, TaskStep
<1>3. Timed(t)' /\ Covered(t)' /\ Lasts(t)'
  BY <1>1, LoopsTimed DEF EInv, Covered, Lasts
<1>4. ASSUME NEW u \in Task, u # t PROVE Timed(u)' /\ Covered(u)' /\ Lasts(u)'
  BY <1>1, <1>2, <1>4, OthersCovered DEF Kept, EInv
<1>5. QED BY <1>1, <1>3, <1>4 DEF EInv, ETypeOK

\* A new caller has no entry yet.
LEMMA TurnsKeep == ASSUME EInv, NEW t \in Task, Turns(t) PROVE EInv'
<1>1. /\ kept' = [kept EXCEPT ![t] = 0] /\ stage[t] = "idle"
      /\ UNCHANGED <<vars, life, lasting, behind, reused>>
  BY DEF Turns
<1>2. PICK left \in SubjectLife \cup {NoSubject} : subject' = [subject EXCEPT ![t] = left]
  BY DEF Turns
<1>3. ETypeOK'
  BY <1>1, <1>2, ExpiryAssumption DEF EInv, ETypeOK
<1>4. ASSUME NEW u \in Task PROVE Timed(u)' /\ Covered(u)' /\ Lasts(u)'
  <2>1. Timed(u) /\ Covered(u) /\ Lasts(u)
    BY DEF EInv
  <2>2. CASE u = t
    BY <1>1, <1>2, <2>1, <2>2 DEF EInv, ETypeOK, Timed, Covered, Lasts, vars
  <2>3. CASE u # t
    BY <1>1, <1>2, <2>1, <2>3 DEF EInv, ETypeOK, Timed, Covered, Lasts, vars
  <2>4. QED BY <2>2, <2>3
<1>5. QED BY <1>3, <1>4 DEF EInv

\* A call begins, at the time 0 of its own.
LEMMA Started ==
  ASSUME IInv, EInv, NEW t \in Task, NEW e \in Effect, Start(t, e)
  PROVE  /\ Timed(t)' /\ spent'[t] = 0 /\ spent[t] = 0
         /\ \A u \in Task : u # t => Same(u)
<1>1. TypeOK /\ Timed(t) /\ Counted(t)
  BY DEF IInv, EInv
<1>2. Timed(t)' /\ spent'[t] = 0 /\ spent[t] = 0
  BY <1>1 DEF TypeOK, Timed, Counted, Start
<1>3. QED BY <1>2, StartKept DEF Kept

\* An entry that lasts has the leeway left.
LEMMA StartsCachedKeeps ==
  ASSUME IInv, EInv, NEW t \in Task, NEW e \in Effect, StartsCached(t, e)
  PROVE  EInv'
<1>1. /\ kept[t] > 0 /\ Start(t, e) /\ reused' = [reused EXCEPT ![t] = TRUE]
      /\ UNCHANGED <<life, lasting, kept, subject, behind>>
  BY DEF StartsCached
<1>2. ETypeOK'
  BY <1>1 DEF EInv, ETypeOK
<1>3. Timed(t)' /\ Covered(t)' /\ Lasts(t)'
  <2>1. Timed(t)' /\ spent'[t] = 0
    BY <1>1, Started
  <2>2. Covered(t)'
    BY <1>1 DEF EInv, Covered
  <2>3. Lasts(t)'
    BY <1>1, <2>1, ExpiryAssumption DEF EInv, ETypeOK, Covered, Lasts
  <2>4. QED BY <2>1, <2>2, <2>3
<1>4. ASSUME NEW u \in Task, u # t PROVE Timed(u)' /\ Covered(u)' /\ Lasts(u)'
  <2>1. Same(u) /\ reused'[u] = reused[u]
    BY <1>1, <1>4, Started DEF EInv, ETypeOK
  <2>2. QED BY <1>1, <2>1, OthersCovered DEF EInv
<1>5. QED BY <1>2, <1>3, <1>4 DEF EInv

\* How much older a life gets at most.
LEMMA OlderBounds ==
  \A n \in Int, ticks \in Nat : Older(n, ticks) \in Int /\ Older(n, ticks) >= n - ticks
  BY ExpiryAssumption DEF Older

\* A token that is fetched is kept for less than it and the caller's token last.
LEMMA KeptForBounds ==
  ASSUME NEW n \in Nat, NEW left \in Int \cup {NoSubject}, NEW error \in Int
  PROVE  LET k == KeptFor(n, left, error)
         IN  /\ k \in Nat
             /\ k > 0 /\ n >= Leeway => n >= k + Leeway
             /\ k > 0 /\ left # NoSubject => left + error >= k + Leeway
<1>1. \A i \in Int : AtLeastZero(i) \in Nat /\ (AtLeastZero(i) > 0 => AtLeastZero(i) = i)
  BY DEF AtLeastZero
<1>2. n - Leeway \in Int
  BY ExpiryAssumption
<1>3. CASE left = NoSubject
  BY <1>1, <1>2, <1>3, ExpiryAssumption DEF KeptFor
<1>4. CASE left # NoSubject
  <2>1. left + error - Leeway \in Int
    BY <1>4, ExpiryAssumption
  <2>2. KeptFor(n, left, error) = Least(AtLeastZero(n - Leeway), AtLeastZero(left + error - Leeway))
    BY <1>4 DEF KeptFor
  <2>3. QED BY <1>1, <1>2, <1>4, <2>1, <2>2, ExpiryAssumption DEF Least
<1>5. QED BY <1>3, <1>4

\* A token that is fetched has the leeway left but for its way.
LEMMA StartsFetchedKeeps ==
  ASSUME IInv, EInv, NEW t \in Task, NEW e \in Effect, StartsFetched(t, e)
  PROVE  EInv'
<1>1. Start(t, e) /\ reused' = [reused EXCEPT ![t] = FALSE]
  BY DEF StartsFetched
<1>2. PICK expiresIn \in ExpiresIn, delay \in 0 .. FetchDelay, error \in Behind :
        LET left == IF subject[t] = NoSubject THEN NoSubject ELSE Older(subject[t], delay)
        IN  /\ life' = [life EXCEPT ![t] = Older(expiresIn, delay)]
            /\ lasting' = [lasting EXCEPT ![t] = expiresIn >= Leeway]
            /\ subject' = [subject EXCEPT ![t] = left]
            /\ kept' = [kept EXCEPT ![t] = KeptFor(expiresIn, left, error)]
            /\ behind' = [behind EXCEPT ![t] = IF subject[t] = NoSubject THEN 0 ELSE error]
  BY DEF StartsFetched
<1> DEFINE left == IF subject[t] = NoSubject THEN NoSubject ELSE Older(subject[t], delay)
           k == KeptFor(expiresIn, left, error)
<1>3. expiresIn \in Nat /\ delay \in Nat /\ delay <= FetchDelay /\ error \in Int
  BY ExpiryAssumption
<1>4. subject[t] \in Int \cup {NoSubject} /\ left \in Int \cup {NoSubject}
  BY <1>3, OlderBounds DEF EInv, ETypeOK
<1>5. /\ k \in Nat
      /\ k > 0 /\ expiresIn >= Leeway => expiresIn >= k + Leeway
      /\ k > 0 /\ left # NoSubject => left + error >= k + Leeway
  BY <1>3, <1>4, KeptForBounds
<1>6. /\ Older(expiresIn, delay) \in Int
      /\ Older(expiresIn, delay) >= expiresIn - delay
  BY <1>3, OlderBounds
<1>7. /\ life'[t] = Older(expiresIn, delay) /\ (lasting'[t] => expiresIn >= Leeway)
      /\ subject'[t] = left /\ kept'[t] = k /\ reused'[t] = FALSE
      /\ behind'[t] = IF subject[t] = NoSubject THEN 0 ELSE error
  BY <1>1, <1>2 DEF EInv, ETypeOK
<1>8. ETypeOK'
  BY <1>1, <1>2, <1>3, <1>4, <1>5, <1>6 DEF EInv, ETypeOK
<1>9. left # NoSubject => subject[t] # NoSubject
  OBVIOUS
<1>10. Timed(t)' /\ Covered(t)' /\ Lasts(t)'
  <2> HIDE DEF left, k
  <2>1. Timed(t)' /\ spent'[t] = 0
    BY <1>1, Started
  <2>2. Covered(t)'
    BY <1>3, <1>4, <1>5, <1>6, <1>7, <1>9, ExpiryAssumption DEF Covered
  <2>3. Lasts(t)'
    BY <1>3, <1>6, <1>7, <2>1, ExpiryAssumption DEF Lasts
  <2>4. QED BY <2>1, <2>2, <2>3
<1>11. ASSUME NEW u \in Task, u # t PROVE Timed(u)' /\ Covered(u)' /\ Lasts(u)'
  <2>1. /\ Same(u) /\ reused'[u] = reused[u] /\ life'[u] = life[u] /\ lasting'[u] = lasting[u]
        /\ kept'[u] = kept[u] /\ subject'[u] = subject[u] /\ behind'[u] = behind[u]
    BY <1>1, <1>2, <1>11, Started DEF EInv, ETypeOK
  <2>2. QED BY <2>1, OthersCovered DEF EInv
<1>12. QED BY <1>8, <1>10, <1>11 DEF EInv

\* A tick takes at most a tick from every life, and a tick from every entry.
LEMMA AgesBounds ==
  ASSUME ETypeOK, Ages
  PROVE  /\ ETypeOK'
         /\ \A t \in Task :
              /\ life'[t] >= life[t] - 1 /\ lasting'[t] = lasting[t]
              /\ kept'[t] > 0 => kept'[t] = kept[t] - 1
              /\ subject'[t] # NoSubject => subject[t] # NoSubject /\ subject'[t] >= subject[t] - 1
              /\ behind'[t] = behind[t] /\ reused'[t] = reused[t]
<1>1. ASSUME NEW t \in Task
      PROVE  /\ life'[t] \in Int /\ life'[t] >= life[t] - 1
             /\ kept'[t] \in Nat /\ (kept'[t] > 0 => kept'[t] = kept[t] - 1)
             /\ subject'[t] \in Int \cup {NoSubject}
             /\ subject'[t] # NoSubject => subject[t] # NoSubject /\ subject'[t] >= subject[t] - 1
  <2>1. life[t] \in Int /\ kept[t] \in Nat /\ subject[t] \in Int \cup {NoSubject}
    BY DEF ETypeOK
  <2>2. life'[t] = Older(life[t], 1) /\ kept'[t] = AtLeastZero(kept[t] - 1)
        /\ subject'[t] = IF subject[t] = NoSubject THEN NoSubject ELSE Older(subject[t], 1)
    BY DEF Ages
  <2>3. \A n \in Int : Older(n, 1) \in Int /\ Older(n, 1) >= n - 1
    BY OlderBounds
  <2>4. kept'[t] \in Nat /\ (kept'[t] > 0 => kept'[t] = kept[t] - 1)
    BY <2>1, <2>2 DEF AtLeastZero
  <2>5. QED BY <2>1, <2>2, <2>3, <2>4
<1>2. ETypeOK'
  <2>1. life' \in [Task -> Int] /\ kept' \in [Task -> Nat] /\ subject' \in [Task -> Int \cup {NoSubject}]
    BY <1>1 DEF Ages
  <2>2. QED BY <2>1 DEF ETypeOK, Ages
<1>3. QED BY <1>1, <1>2 DEF Ages

\* Time counts for a call under way as much as for its token.
LEMMA TicksKeep == ASSUME IInv, EInv, Ticks PROVE EInv'
<1>1. Tick /\ Ages /\ ETypeOK
  BY DEF Ticks, EInv
<1>2. ASSUME NEW t \in Task PROVE Timed(t)' /\ Covered(t)' /\ Lasts(t)'
  <2>1. /\ spent[t] \in Nat /\ clock[t] \in Nat /\ stage[t] \in {"idle", "sent", "sleeping"}
        /\ stage'[t] = stage[t] /\ attempt'[t] = attempt[t] /\ operation'[t] = operation[t]
        /\ spent'[t] = IF stage[t] = "idle" THEN spent[t] ELSE spent[t] + 1
        /\ stage[t] = "sent" => clock'[t] = clock[t] + 1
    BY <1>1 DEF IInv, TypeOK, Tick
  <2>2. life[t] \in Int /\ kept[t] \in Nat /\ subject[t] \in Int \cup {NoSubject} /\ behind[t] \in Int
    BY <1>1 DEF ETypeOK
  <2>3. life'[t] \in Int /\ kept'[t] \in Nat /\ subject'[t] \in Int \cup {NoSubject}
    BY <1>1, AgesBounds DEF ETypeOK
  <2>4. /\ life'[t] >= life[t] - 1 /\ lasting'[t] = lasting[t]
        /\ kept'[t] > 0 => kept'[t] = kept[t] - 1
        /\ subject'[t] # NoSubject => subject[t] # NoSubject /\ subject'[t] >= subject[t] - 1
        /\ behind'[t] = behind[t] /\ reused'[t] = reused[t]
    BY <1>1, AgesBounds
  <2>5. Timed(t) /\ Covered(t) /\ Lasts(t)
    BY DEF EInv
  <2>6. Timed(t)'
    BY <2>1, <2>5 DEF Timed
  <2>7. Covered(t)'
    BY <2>2, <2>3, <2>4, <2>5, ExpiryAssumption DEF Covered
  <2>8. Lasts(t)'
    BY <2>1, <2>2, <2>3, <2>4, <2>5, ExpiryAssumption DEF Lasts
  <2>9. QED BY <2>6, <2>7, <2>8
<1>3. QED BY <1>1, <1>2, AgesBounds DEF EInv

\* Between calls, too, a token ends after its entry.
LEMMA RestsKeep == ASSUME EInv, Rests PROVE EInv'
<1>1. Ages /\ ETypeOK /\ UNCHANGED vars /\ \A t \in Task : stage[t] = "idle"
  BY DEF Rests, EInv
<1>2. ASSUME NEW t \in Task PROVE Timed(t)' /\ Covered(t)' /\ Lasts(t)'
  <2>2. life[t] \in Int /\ kept[t] \in Nat /\ subject[t] \in Int \cup {NoSubject} /\ behind[t] \in Int
    BY <1>1 DEF ETypeOK
  <2>3. life'[t] \in Int /\ kept'[t] \in Nat /\ subject'[t] \in Int \cup {NoSubject}
    BY <1>1, AgesBounds DEF ETypeOK
  <2>4. /\ life'[t] >= life[t] - 1 /\ lasting'[t] = lasting[t]
        /\ kept'[t] > 0 => kept'[t] = kept[t] - 1
        /\ subject'[t] # NoSubject => subject[t] # NoSubject /\ subject'[t] >= subject[t] - 1
        /\ behind'[t] = behind[t] /\ reused'[t] = reused[t]
    BY <1>1, AgesBounds
  <2>5. Timed(t) /\ Covered(t) /\ Lasts(t)
    BY DEF EInv
  <2>6. Timed(t)' /\ Lasts(t)'
    BY <1>1, <2>5 DEF Timed, Lasts, vars
  <2>7. Covered(t)'
    BY <2>2, <2>3, <2>4, <2>5, ExpiryAssumption DEF Covered
  <2>8. QED BY <2>6, <2>7
<1>3. QED BY <1>1, <1>2, AgesBounds DEF EInv

\* Every step keeps the invariant.
LEMMA NextEInv == IInv /\ EInv /\ [ENext]_<<vars, tokenVars>> => EInv'
<1>1. SUFFICES ASSUME IInv, EInv, [ENext]_<<vars, tokenVars>> PROVE EInv'
  OBVIOUS
<1>2. CASE UNCHANGED <<vars, tokenVars>>
  BY <1>1, <1>2 DEF vars, tokenVars, EInv, ETypeOK, Timed, Covered, Lasts
<1>3. QED
  BY <1>1, <1>2, LoopsKeep, TurnsKeep, StartsCachedKeeps, StartsFetchedKeeps, TicksKeep, RestsKeep
  DEF ENext

\* The invariant holds throughout, with that of the loop.
LEMMA EInvariance == ESpec => [](IInv /\ EInv)
<1>1. ESpec => []IInv
  BY LoopImplemented, Invariance, PTL
<1>2. QED BY <1>1, InitEInv, NextEInv, PTL DEF ESpec

\* A token that was minted for the leeway at least is not over when it goes out, but
\* for what its own way and the budget of the retries exceed the leeway; a token
\* from the cache leaves its caller's token the leeway, but for what time.time was
\* wrong (outbound.py:105-106, 216-218, http.py:236).
THEOREM TokensInTime == ESpec => []TokensGoOutInTime
<1>1. IInv /\ EInv => TokensGoOutInTime
  <2>1. SUFFICES ASSUME IInv, EInv, NEW t \in Task, Sends(t)
        PROVE  /\ lasting[t] => life[t] >= Leeway - FetchDelay
                                  - (IF attempt[t] = 0 THEN 0 ELSE MaxTotal - Timeout)
               /\ attempt[t] = 0 /\ reused[t] /\ subject[t] # NoSubject =>
                    subject[t] + behind[t] > Leeway
    BY DEF TokensGoOutInTime
  <2>2. Funded(t) /\ Timed(t) /\ Lasts(t)
    BY <2>1 DEF IInv, EInv
  <2>3. /\ stage[t] = "sent" /\ operation[t] = 0 /\ clock[t] = 0 /\ spent[t] \in Nat
        /\ attempt[t] \in Nat
    BY <2>1 DEF Sends, IInv, TypeOK, MAX_ATTEMPTS
  <2>4. life[t] \in Int /\ subject[t] \in Int \cup {NoSubject} /\ behind[t] \in Int
    BY <2>1 DEF EInv, ETypeOK
  <2>5. CASE attempt[t] = 0
    <3>1. spent[t] = 0
      BY <2>2, <2>3, <2>5 DEF Timed
    <3>2. QED BY <2>2, <2>3, <2>4, <2>5, <3>1, ExpiryAssumption DEF Lasts
  <2>6. CASE attempt[t] > 0
    <3>1. spent[t] + Timeout <= MaxTotal
      BY <2>2, <2>3, <2>6, TimeAssumption DEF Funded
    <3>2. QED BY <2>2, <2>3, <2>4, <2>6, <3>1, ExpiryAssumption, TimeAssumption DEF Lasts
  <2>7. QED BY <2>3, <2>5, <2>6
<1>2. QED BY <1>1, EInvariance, PTL
=============================================================================
