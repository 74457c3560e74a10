------------------------------- MODULE Expiry -------------------------------
(***************************************************************************)
(* How old a credential is when it is used: the lifetimes that             *)
(* _post_token_request and TokenExchangeSource (auth/outbound.py) work out *)
(* for the cache, three clocks (the IdP's, time.monotonic, time.time), and *)
(* the transport's loop, which sends one credential with every retry.      *)
(*                                                                         *)
(* Each task stands for one cache key: the calls of one caller to one      *)
(* upstream, which follow one another.  Lives are counted down in the      *)
(* transport's ticks, and the time of an exchange, which is not the loop's *)
(* to count, is taken off at once.                                         *)
(***************************************************************************)
EXTENDS Transport

CONSTANTS
  Leeway,       \* _EXPIRY_LEEWAY_S
  ExpiresIn,    \* the lifetimes the IdP gives its tokens
  SubjectLife,  \* the lifetimes callers' tokens have left
  FetchDelay,   \* how long a minted token is on its way at most
  Behind,       \* how far time.time may be behind the IdP's clock, or ahead (negative)
  Floor,        \* bound: how long something is over is counted up to here
  NoSubject     \* client credentials: there is no caller's token to outlive

ASSUME ExpiryAssumption ==
  /\ Leeway \in Nat /\ FetchDelay \in Nat /\ Floor \in Nat
  /\ ExpiresIn \subseteq Nat /\ SubjectLife \subseteq Int /\ Behind \subseteq Int
  /\ NoSubject \notin Int

VARIABLES
  life,     \* what the IdP leaves the token of the last fetch
  lasting,  \* that token was minted for the leeway at least
  kept,     \* what is left of its cache entry's time
  subject,  \* what is left of the caller's token
  behind,   \* how far time.time was behind when the entry was made
  reused    \* the call under way took its token from the cache

tokenVars == <<life, lasting, kept, subject, behind, reused>>

EInit ==
  /\ Init
  /\ life = [t \in Task |-> 0] /\ lasting = [t \in Task |-> FALSE]
  /\ kept = [t \in Task |-> 0]
  /\ subject = [t \in Task |-> NoSubject] /\ behind = [t \in Task |-> 0]
  /\ reused = [t \in Task |-> FALSE]

AtLeastZero(n) == IF n > 0 THEN n ELSE 0

Older(n, ticks) == IF n - ticks > -Floor THEN n - ticks ELSE -Floor

\* Wrong on purpose: an exchanged token is kept for as long as it lasts itself.
KeptAsMinted(expiresIn, left, error) == AtLeastZero(expiresIn - Leeway)

\* The ttl of a fetched token: its own, less the leeway, and under token exchange
\* no more than the caller's token has left by time.time, less the leeway.
KeptFor(expiresIn, left, error) ==
  LET ttl == AtLeastZero(expiresIn - Leeway)
  IN  IF left = NoSubject THEN ttl ELSE Least(ttl, AtLeastZero(left + error - Leeway))

\* Another caller's call comes to the task, or one that needs no caller's token.
Turns(t) ==
  /\ stage[t] = "idle"
  /\ \E left \in SubjectLife \cup {NoSubject} : subject' = [subject EXCEPT ![t] = left]
  /\ kept' = [kept EXCEPT ![t] = 0]
  /\ UNCHANGED <<vars, life, lasting, behind, reused>>

\* The token in the cache is good for another call.
StartsCached(t, e) ==
  /\ kept[t] > 0
  /\ Start(t, e)
  /\ reused' = [reused EXCEPT ![t] = TRUE]
  /\ UNCHANGED <<life, lasting, kept, subject, behind>>

\* A token is fetched, good for the call whatever its lifetime, and cached.
StartsFetched(t, e) ==
  /\ kept[t] = 0
  /\ Start(t, e)
  /\ \E expiresIn \in ExpiresIn, delay \in 0 .. FetchDelay, error \in Behind :
       LET left == IF subject[t] = NoSubject THEN NoSubject ELSE Older(subject[t], delay)
       IN  /\ life' = [life EXCEPT ![t] = Older(expiresIn, delay)]
           /\ lasting' = [lasting EXCEPT ![t] = expiresIn >= Leeway]
           /\ subject' = [subject EXCEPT ![t] = left]
           /\ kept' = [kept EXCEPT ![t] = KeptFor(expiresIn, left, error)]
           /\ behind' = [behind EXCEPT ![t] = IF subject[t] = NoSubject THEN 0 ELSE error]
  /\ reused' = [reused EXCEPT ![t] = FALSE]

\* A tick passes: every life is shorter by one.
Ages ==
  /\ life' = [t \in Task |-> Older(life[t], 1)]
  /\ kept' = [t \in Task |-> AtLeastZero(kept[t] - 1)]
  /\ subject' = [t \in Task |-> IF subject[t] = NoSubject THEN NoSubject ELSE Older(subject[t], 1)]
  /\ UNCHANGED <<lasting, behind, reused>>

\* Time passes between calls.
Rests ==
  /\ \A t \in Task : stage[t] = "idle"
  /\ Ages
  /\ UNCHANGED vars

Ticks == Tick /\ Ages

\* What the loop does with a call that has its credential.
Loops(t) ==
  /\ \/ Applies(t) \/ Proceeds(t) \/ TimesOut(t) \/ Breaks(t) \/ Cancelled(t) \/ Wakes(t)
     \/ \E s \in Status : Responds(t, s)
  /\ UNCHANGED tokenVars

ENext ==
  \/ Ticks
  \/ Rests
  \/ \E t \in Task : Turns(t)
  \/ \E t \in Task, e \in Effect : StartsCached(t, e)
  \/ \E t \in Task, e \in Effect : StartsFetched(t, e)
  \/ \E t \in Task : Loops(t)

ESpec == EInit /\ [][ENext]_<<vars, tokenVars>>

\* The fairness of the transport alone.
EFairSpec == ESpec /\ WF_vars(Tick) /\ \A t \in Task : WF_vars(TimesOut(t)) /\ WF_vars(Wakes(t))

(***************************************************************************)
(* Properties                                                              *)
(***************************************************************************)

Sends(t) == stage[t] = "sent" /\ operation[t] = 0 /\ clock[t] = 0

\* A token that was minted for the leeway at least is over for no longer than the
\* budget and the token's own way exceed the leeway when it goes out, at the last
\* retry of a call that took it from the cache in its last moment
\* (outbound.py:105-106, http.py:236).  A token that came from the cache had the
\* leeway left of the caller's token when the call began, but for what time.time
\* was behind (outbound.py:217).
TokensGoOutInTime ==
  \A t \in Task :
    /\ Sends(t) /\ lasting[t] =>
         life[t] >= Leeway - FetchDelay - (IF attempt[t] = 0 THEN 0 ELSE MaxTotal - Timeout)
    /\ Sends(t) /\ attempt[t] = 0 /\ reused[t] /\ subject[t] # NoSubject =>
         subject[t] + behind[t] > Leeway
=============================================================================
