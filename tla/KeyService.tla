----------------------------- MODULE KeyService -----------------------------
(***************************************************************************)
(* What JwksCache.key_for (auth/inbound.py) promises the token verifier,   *)
(* whatever the cache behind it does: a call is answered once, about the   *)
(* kid it asked for, out of the keys known at that moment, and the keys    *)
(* known only grow.                                                        *)
(*                                                                         *)
(* JwksCache implements this specification, and Inbound is built on it.    *)
(***************************************************************************)
CONSTANTS Task, Kid, NoKid, NoAnswer

VARIABLES
  known,   \* the kids whose key is known
  asked,   \* the kid a suspended call of a task asks for
  got      \* what the task's last call came to

keyVars == <<known, asked, got>>

KeysInit ==
  /\ known = {}
  /\ asked = [t \in Task |-> NoKid]
  /\ got = [t \in Task |-> NoAnswer]

Found(ks, k) == IF k \in ks THEN "key" ELSE "unknown"

\* A call that never suspends.
AnswersAtOnce(t, k) ==
  /\ asked[t] = NoKid
  /\ got' = [got EXCEPT ![t] = [kid |-> k, found |-> Found(known, k)]]
  /\ UNCHANGED <<known, asked>>

\* A call suspends.
Asks(t, k) ==
  /\ asked[t] = NoKid
  /\ asked' = [asked EXCEPT ![t] = k]
  /\ got' = [got EXCEPT ![t] = NoAnswer]
  /\ UNCHANGED known

\* Keys that were not known become known; none is ever forgotten.
Learns == \E learnt \in SUBSET Kid : known' = known \cup learnt

\* A suspended call is answered, perhaps with keys it has just learnt.
Answers(t) ==
  /\ asked[t] # NoKid
  /\ Learns
  /\ got' = [got EXCEPT ![t] = [kid |-> asked[t], found |-> Found(known', asked[t])]]
  /\ asked' = [asked EXCEPT ![t] = NoKid]

\* It raises instead.
Crashes(t) ==
  /\ asked[t] # NoKid
  /\ Learns
  /\ got' = [got EXCEPT ![t] = [kid |-> asked[t], found |-> "crashed"]]
  /\ asked' = [asked EXCEPT ![t] = NoKid]

KeysNext ==
  \E t \in Task :
    \/ \E k \in Kid : AnswersAtOnce(t, k) \/ Asks(t, k)
    \/ Answers(t)
    \/ Crashes(t)

KeysSpec == KeysInit /\ [][KeysNext]_keyVars

=============================================================================
