------------------------------- MODULE Lemmas -------------------------------
(***************************************************************************)
(* What several of the proofs need: what filtered and joined lists hold    *)
(* (Configure, Startup), that what is kept from step to step is kept, and  *)
(* what the methods of an asyncio.Lock preserve, for any set of tasks      *)
(* (TokenCache, JwksCache).                                                *)
(***************************************************************************)
EXTENDS AsyncioLock, Lists, SequencesExt, FiniteSetTheorems, TLAPS

(***************************************************************************)
(* Lists                                                                   *)
(***************************************************************************)

\* Ranks count the places kept, one by one.
LEMMA Ranks ==
  ASSUME NEW n \in Nat, NEW Keep \in SUBSET (1 .. n)
  PROVE  /\ IsFiniteSet(Keep) /\ Cardinality(Keep) \in Nat
         /\ \A i, j \in Keep : Rank(i, Keep) = Rank(j, Keep) => i = j
         /\ \A m \in 1 .. Cardinality(Keep) : \E i \in Keep : Rank(i, Keep) = m
         /\ \A i \in Keep : Rank(i, Keep) \in 1 .. Cardinality(Keep)
<1> DEFINE Upto(i) == {j \in Keep : j <= i}
           card == Cardinality(Keep)
<1>1. IsFiniteSet(Keep) /\ card \in Nat
  <2>1. IsFiniteSet(1 .. n)
    BY FS_Interval
  <2>2. IsFiniteSet(Keep)
    BY <2>1, FS_Subset
  <2> QED
    BY <2>2, FS_CardinalityType
<1> \A i \in Keep : i \in Int
  OBVIOUS
<1>2. ASSUME NEW i \in Keep
      PROVE  IsFiniteSet(Upto(i)) /\ Cardinality(Upto(i)) \in 1 .. card
  <2>1. Upto(i) \in SUBSET Keep /\ i \in Upto(i)
    OBVIOUS
  <2>2. IsFiniteSet(Upto(i)) /\ Cardinality(Upto(i)) <= card
    BY <2>1, <1>1, FS_Subset
  <2>3. Cardinality(Upto(i)) \in Nat /\ Cardinality(Upto(i)) # 0
    <3> HIDE DEF Upto
    <3> QED
      BY <2>1, <2>2, FS_CardinalityType, FS_EmptySet
  <2> QED
    BY <2>2, <2>3, <1>1
<1>3. ASSUME NEW i \in Keep, NEW j \in Keep, Cardinality(Upto(i)) = Cardinality(Upto(j))
      PROVE  i = j
  <2>1. CASE i <= j
    <3>1. Upto(i) \in SUBSET Upto(j) /\ j \in Upto(j)
      <4>1. j <= j /\ \A k \in Keep : k <= i => k <= j
        BY <2>1
      <4> QED
        BY <4>1
    <3>2. Upto(i) = Upto(j)
      BY <3>1, <1>2, <1>3, FS_Subset
    <3> QED
      BY <3>1, <3>2, <2>1
  <2>2. CASE j <= i
    <3>1. Upto(j) \in SUBSET Upto(i) /\ i \in Upto(i)
      <4>1. i <= i /\ \A k \in Keep : k <= j => k <= i
        BY <2>2
      <4> QED
        BY <4>1
    <3>2. Upto(i) = Upto(j)
      BY <3>1, <1>2, <1>3, FS_Subset
    <3> QED
      BY <3>1, <3>2, <2>2
  <2> QED
    BY <2>1, <2>2
<1> DEFINE rank == [i \in Keep |-> Cardinality(Upto(i))]
<1>4. rank \in Injection(Keep, 1 .. card)
  <2>1. rank \in [Keep -> 1 .. card]
    BY <1>2
  <2>2. \A i, j \in Keep : rank[i] = rank[j] => i = j
    BY <1>3
  <2> HIDE DEF rank
  <2>3. IsInjective(rank)
    BY <2>1, <2>2 DEF IsInjective
  <2> QED
    BY <2>1, <2>3 DEF Injection
<1>5. IsFiniteSet(1 .. card) /\ Cardinality(1 .. card) = card
  BY <1>1, FS_Interval
<1>6. rank \in Surjection(Keep, 1 .. card)
  <2> HIDE DEF rank
  <2> QED
    BY <1>4, <1>5, FS_Injection
<1>7. \A i \in Keep : Rank(i, Keep) = rank[i]
  BY DEF Rank
<1>8. rank \in [Keep -> 1 .. card] /\ \A m \in 1 .. card : \E i \in Keep : rank[i] = m
  <2> HIDE DEF rank
  <2> QED
    BY <1>6 DEF Surjection
<1>9. \A i, j \in Keep : Rank(i, Keep) = Rank(j, Keep) => i = j
  BY <1>3 DEF Rank
<1> HIDE DEF rank
<1> QED
  BY <1>1, <1>7, <1>8, <1>9

\* What a filtered list holds.
LEMMA FilteredHolds ==
  ASSUME NEW S, NEW s \in Seq(S), NEW Keep \in SUBSET DOMAIN s
  PROVE  /\ Filtered(s, Keep) \in Seq(S)
         /\ ToSet(Filtered(s, Keep)) = {s[i] : i \in Keep}
         /\ Keep # {} => Filtered(s, Keep)[1] \in {s[i] : i \in Keep}
<1> DEFINE card == Cardinality(Keep)
           place(m) == CHOOSE i \in Keep : Rank(i, Keep) = m
<1>1. Len(s) \in Nat /\ DOMAIN s = 1 .. Len(s) /\ \A i \in DOMAIN s : s[i] \in S
  OBVIOUS
<1>2. /\ IsFiniteSet(Keep) /\ card \in Nat
      /\ \A i, j \in Keep : Rank(i, Keep) = Rank(j, Keep) => i = j
      /\ \A m \in 1 .. card : \E i \in Keep : Rank(i, Keep) = m
      /\ \A i \in Keep : Rank(i, Keep) \in 1 .. card
  <2>1. PICK n \in Nat : n = Len(s) /\ Keep \in SUBSET (1 .. n)
    BY <1>1
  <2> HIDE DEF card
  <2> QED
    BY <2>1, Ranks DEF card
<1>3. \A m \in 1 .. card : place(m) \in Keep /\ Rank(place(m), Keep) = m
  BY <1>2
<1>4. Filtered(s, Keep) = [m \in 1 .. card |-> s[place(m)]]
  BY DEF Filtered
<1>5. ASSUME NEW i \in Keep PROVE \E m \in 1 .. card : place(m) = i
  <2>1. Rank(i, Keep) \in 1 .. card
    BY <1>2
  <2>. DEFINE j == place(Rank(i, Keep))
  <2>2. j \in Keep /\ Rank(j, Keep) = Rank(i, Keep)
    BY <2>1, <1>3
  <2>3. i = j
    BY <2>2, <1>2
  <2> QED
    BY <2>1, <2>3
<1> HIDE DEF place
<1>6. Filtered(s, Keep) \in [1 .. card -> S]
  BY <1>1, <1>3, <1>4
<1>7. Filtered(s, Keep) \in Seq(S)
  BY <1>6, <1>2
<1>8. ToSet(Filtered(s, Keep)) = {s[i] : i \in Keep}
  BY <1>3, <1>4, <1>5 DEF ToSet
<1>9. Keep # {} => card >= 1
  BY <1>2, FS_EmptySet
<1>10. Keep # {} => Filtered(s, Keep)[1] \in {s[i] : i \in Keep}
  BY <1>2, <1>3, <1>4, <1>9
<1> QED
  BY <1>7, <1>8, <1>10

\* A set written out as a list.
LEMMA Sequenced ==
  ASSUME NEW S, IsFiniteSet(S)
  PROVE  SetToSeq(S) \in Seq(S) /\ ToSet(SetToSeq(S)) = S
<1> DEFINE n == Cardinality(S)
           s == SetToSeq(S)
<1>1. n \in Nat /\ ExistsBijection(1 .. n, S)
  BY FS_CardinalityType
<1>2. PICK f \in [1 .. n -> S] : IsInjective(f)
  BY <1>1 DEF ExistsBijection, Bijection, Injection
<1>3. s \in [1 .. n -> S] /\ IsInjective(s)
  BY <1>2 DEF SetToSeq
<1> HIDE DEF s
<1>4. s \in Injection(1 .. n, S)
  BY <1>3 DEF Injection
<1>5. Cardinality(1 .. n) = n
  BY <1>1, FS_Interval
<1>6. s \in Surjection(1 .. n, S)
  BY <1>4, <1>5, FS_Injection
<1>7. s \in Seq(S)
  BY <1>1, <1>3
<1>8. ToSet(s) = S
  BY <1>3, <1>6 DEF ToSet, Surjection
<1> QED
  BY <1>7, <1>8 DEF s

\* Two lists, one behind the other.
LEMMA Joined ==
  ASSUME NEW S, NEW s \in Seq(S), NEW t \in Seq(S)
  PROVE  s \o t \in Seq(S) /\ ToSet(s \o t) = ToSet(s) \cup ToSet(t)
<1>1. PICK m \in Nat, n \in Nat : m = Len(s) /\ n = Len(t)
  OBVIOUS
<1>2. DOMAIN s = 1 .. m /\ DOMAIN t = 1 .. n /\ DOMAIN (s \o t) = 1 .. m + n
  BY <1>1
<1>3. /\ \A i \in 1 .. m : i \in 1 .. m + n /\ (s \o t)[i] = s[i]
      /\ \A i \in 1 .. n : m + i \in 1 .. m + n /\ (s \o t)[m + i] = t[i]
      /\ \A i \in 1 .. m + n : i \in 1 .. m \/ (i - m \in 1 .. n /\ (s \o t)[i] = t[i - m])
  BY <1>1
<1>4. ToSet(s) \subseteq ToSet(s \o t) /\ ToSet(t) \subseteq ToSet(s \o t)
  <2>1. \A i \in DOMAIN s : s[i] \in ToSet(s \o t)
    BY <1>2, <1>3 DEF ToSet
  <2>2. \A i \in DOMAIN t : t[i] \in ToSet(s \o t)
    <3> SUFFICES ASSUME NEW i \in 1 .. n PROVE t[i] \in ToSet(s \o t)
      BY <1>2
    <3>1. m + i \in 1 .. m + n /\ (s \o t)[m + i] = t[i]
      BY <1>3
    <3> QED
      BY <3>1, <1>2 DEF ToSet
  <2> QED
    BY <2>1, <2>2 DEF ToSet
<1>5. ToSet(s \o t) \subseteq ToSet(s) \cup ToSet(t)
  BY <1>2, <1>3 DEF ToSet
<1> QED
  BY <1>4, <1>5

\* What holds of zero, and of each number if of the one before it, holds up to any
\* number: else there is a first for which it does not, whose rank is one.
LEMMA Inherited ==
  ASSUME NEW n \in Nat, NEW S, 0 \in S, \A k \in 1 .. n : k - 1 \in S => k \in S
  PROVE  0 .. n \subseteq S
<1> DEFINE Bad == {k \in 1 .. n : k \notin S}
<1>1. /\ IsFiniteSet(Bad) /\ Cardinality(Bad) \in Nat
      /\ \A i, j \in Bad : Rank(i, Bad) = Rank(j, Bad) => i = j
      /\ \A m \in 1 .. Cardinality(Bad) : \E i \in Bad : Rank(i, Bad) = m
      /\ \A i \in Bad : Rank(i, Bad) \in 1 .. Cardinality(Bad)
  <2>1. Bad \in SUBSET (1 .. n)
    OBVIOUS
  <2> HIDE DEF Bad
  <2> QED
    BY <2>1, Ranks
<1>2. ASSUME NEW i \in Bad, Rank(i, Bad) = 1 PROVE FALSE
  <2>1. i \in 1 .. n /\ i \notin S /\ i - 1 \in 1 .. n /\ i - 1 \notin S
    OBVIOUS
  <2>2. i - 1 \in Bad /\ i - 1 # i
    BY <2>1
  <2> DEFINE upto == {j \in Bad : j <= i}
             before == {j \in Bad : j <= i - 1}
  <2>3. before \subseteq upto /\ upto \subseteq Bad
    OBVIOUS
  <2> HIDE DEF Bad
  <2>4. IsFiniteSet(upto)
    BY <2>3, <1>1, FS_Subset
  <2>5. Cardinality(before) <= Cardinality(upto)
    BY <2>3, <2>4, FS_Subset
  <2>6. Rank(i - 1, Bad) <= 1
    BY <1>2, <2>5 DEF Rank
  <2>7. Rank(i - 1, Bad) = 1
    BY <2>2, <2>6, <1>1
  <2> QED
    BY <2>2, <2>7, <1>1, <1>2
<1>3. Bad = {}
  <2>1. Bad # {} => Cardinality(Bad) # 0
    <3> HIDE DEF Bad
    <3> QED
      BY <1>1, FS_EmptySet
  <2>2. Bad # {} => 1 \in 1 .. Cardinality(Bad)
    BY <2>1, <1>1
  <2> HIDE DEF Bad
  <2> QED
    BY <1>1, <1>2, <2>2
<1> QED
  BY <1>3

(***************************************************************************)
(* Locks                                                                   *)
(***************************************************************************)

(***************************************************************************)
(* A lock state the event loop can leave behind: only the head of the      *)
(* queue is ever woken, and only while the lock is unlocked; a task waits  *)
(* once; and an unlocked lock's head is not left pending.                  *)
(***************************************************************************)
Sound(lk) ==
  /\ \A i \in 1 .. Len(lk.waiters) :
       lk.waiters[i].fut = "woken" => i = 1 /\ ~lk.locked
  /\ \A i, j \in 1 .. Len(lk.waiters) :
       lk.waiters[i].task = lk.waiters[j].task => i = j
  /\ ~lk.locked /\ Len(lk.waiters) > 0 => lk.waiters[1].fut # "pending"

\* The shape of a lock state's components.
LEMMA LockShape ==
  ASSUME NEW Task, NEW lk \in LockStates(Task)
  PROVE  /\ lk = [locked |-> lk.locked, waiters |-> lk.waiters]
         /\ lk.locked \in BOOLEAN
         /\ lk.waiters \in Seq(Waiter(Task))
         /\ Len(lk.waiters) \in Nat
         /\ lk.waiters \in [1 .. Len(lk.waiters) -> Waiter(Task)]
BY DEF LockStates

\* A lock state put together from a flag and a function on 1 .. n is one.
LEMMA LockMade ==
  ASSUME NEW Task, NEW b \in BOOLEAN, NEW n \in Nat, NEW w \in [1 .. n -> Waiter(Task)]
  PROVE  /\ w \in Seq(Waiter(Task))
         /\ Len(w) = n
         /\ [locked |-> b, waiters |-> w] \in LockStates(Task)
BY DEF LockStates

\* A Lock object starts unlocked, with nobody waiting.
LEMMA NewLockSound ==
  ASSUME NEW Task
  PROVE  NewLock \in LockStates(Task) /\ Sound(NewLock) /\ \A u : ~Waits(NewLock, u)
BY DEF NewLock, LockStates, Sound, Waits, Positions

\* The fast path of acquire() overtakes no woken waiter.
LEMMA TakeSound ==
  ASSUME NEW Task, NEW lk \in LockStates(Task), Sound(lk), Free(lk)
  PROVE  /\ Take(lk) \in LockStates(Task)
         /\ Sound(Take(lk))
         /\ Take(lk).locked
         /\ \A u : Waits(Take(lk), u) <=> Waits(lk, u)
BY DEF LockStates, Sound, Free, Take, Waits, Positions

\* Queueing behind a lock that is not free: the newcomer is pending, at the tail.
LEMMA EnqueueSound ==
  ASSUME NEW Task, NEW lk \in LockStates(Task), Sound(lk), ~Free(lk),
         NEW t \in Task, ~Waits(lk, t)
  PROVE  /\ Enqueue(lk, t) \in LockStates(Task)
         /\ Sound(Enqueue(lk, t))
         /\ Enqueue(lk, t).locked = lk.locked
         /\ \A u : Waits(Enqueue(lk, t), u) <=> Waits(lk, u) \/ u = t
<1> DEFINE n == Len(lk.waiters)
           new == [task |-> t, fut |-> "pending"]
           w == Append(lk.waiters, new)
<1>1. /\ n \in Nat
      /\ lk.waiters \in Seq(Waiter(Task))
      /\ lk.locked \in BOOLEAN
      /\ lk = [locked |-> lk.locked, waiters |-> lk.waiters]
  BY LockShape
<1>2. new \in Waiter(Task)
  BY DEF Waiter, FutureStates
<1>3. /\ w \in Seq(Waiter(Task))
      /\ Len(w) = n + 1
      /\ \A i \in 1 .. n : w[i] = lk.waiters[i]
      /\ w[n + 1] = new
  BY <1>1, <1>2
<1>4. Enqueue(lk, t) = [locked |-> lk.locked, waiters |-> w]
  BY <1>1 DEF Enqueue
<1>5. Enqueue(lk, t) \in LockStates(Task)
  BY <1>1, <1>3, <1>4 DEF LockStates
<1>6. \A i \in 1 .. n : lk.waiters[i].task # t
  BY DEF Waits, Positions
<1>7. ~lk.locked => n > 0 /\ lk.waiters[1].fut # "pending"
  BY <1>1 DEF Free, Sound
<1>8. Sound(Enqueue(lk, t))
  BY <1>1, <1>3, <1>4, <1>6, <1>7 DEF Sound
<1>9. \A u : Waits(Enqueue(lk, t), u) <=> Waits(lk, u) \/ u = t
  BY <1>1, <1>3, <1>4 DEF Waits, Positions
<1>10. Enqueue(lk, t).locked = lk.locked
  BY DEF Enqueue
<1> QED BY <1>5, <1>8, <1>9, <1>10

(***************************************************************************)
(* A lock state that is sound but for the wake-up it owes its head.        *)
(***************************************************************************)
Settling(lk) ==
  /\ \A i \in 1 .. Len(lk.waiters) :
       lk.waiters[i].fut = "woken" => i = 1 /\ ~lk.locked
  /\ \A i, j \in 1 .. Len(lk.waiters) :
       lk.waiters[i].task = lk.waiters[j].task => i = j

\* _wake_up_first on an unlocked lock pays the wake-up.
LEMMA WakeFirstSound ==
  ASSUME NEW Task, NEW lk \in LockStates(Task), Settling(lk), ~lk.locked
  PROVE  /\ WakeFirst(lk) \in LockStates(Task)
         /\ Sound(WakeFirst(lk))
         /\ ~WakeFirst(lk).locked
         /\ \A u : Waits(WakeFirst(lk), u) <=> Waits(lk, u)
<1> DEFINE n == Len(lk.waiters)
           w == [lk.waiters EXCEPT ![1] = [task |-> lk.waiters[1].task, fut |-> "woken"]]
<1>1. /\ n \in Nat
      /\ lk.waiters \in [1 .. n -> Waiter(Task)]
      /\ lk.waiters \in Seq(Waiter(Task))
      /\ lk.locked \in BOOLEAN
      /\ lk = [locked |-> lk.locked, waiters |-> lk.waiters]
  BY LockShape
<1>2. CASE lk.waiters # <<>> /\ lk.waiters[1].fut = "pending"
  <2>1. 1 \in 1 .. n
    BY <1>1, <1>2
  <2>2. /\ w \in [1 .. n -> Waiter(Task)]
        /\ w[1] = [task |-> lk.waiters[1].task, fut |-> "woken"]
        /\ \A i \in 1 .. n : i # 1 => w[i] = lk.waiters[i]
    BY <1>1, <2>1 DEF Waiter, FutureStates
  <2>3. w[1].fut = "woken" /\ w[1].task = lk.waiters[1].task
    BY <1>1, <2>1, <2>2 DEF Waiter
  <2>4. WakeFirst(lk) = [locked |-> lk.locked, waiters |-> w]
    BY <1>1, <1>2 DEF WakeFirst
  <2>5. Len(w) = n /\ w \in Seq(Waiter(Task))
    BY <1>1, <2>2, LockMade
  <2> HIDE DEF w
  <2>9. WakeFirst(lk) \in LockStates(Task)
    BY <1>1, <2>4, <2>5 DEF LockStates
  <2>6. \A i \in 1 .. n : w[i].task = lk.waiters[i].task
    BY <2>2, <2>3
  <2>7. Sound(WakeFirst(lk))
    BY <1>1, <2>1, <2>2, <2>3, <2>4, <2>5, <2>6 DEF Sound, Settling
  <2>8. \A u : Waits(WakeFirst(lk), u) <=> Waits(lk, u)
    BY <2>4, <2>5, <2>6 DEF Waits, Positions
  <2> QED BY <2>4, <2>7, <2>8, <2>9
<1>3. CASE ~(lk.waiters # <<>> /\ lk.waiters[1].fut = "pending")
  BY <1>1, <1>3 DEF WakeFirst, Sound, Settling
<1> QED BY <1>2, <1>3

\* release() by the holder.
LEMMA ReleaseSound ==
  ASSUME NEW Task, NEW lk \in LockStates(Task), Sound(lk), lk.locked
  PROVE  /\ Release(lk) \in LockStates(Task)
         /\ Sound(Release(lk))
         /\ ~Release(lk).locked
         /\ \A u : Waits(Release(lk), u) <=> Waits(lk, u)
<1> DEFINE open == [locked |-> FALSE, waiters |-> lk.waiters]
<1>1. /\ open \in LockStates(Task)
      /\ ~open.locked
      /\ open.waiters = lk.waiters
  BY LockShape DEF LockStates
<1>2. Settling(open)
  BY <1>1 DEF Settling, Sound
<1>3. \A u : Waits(open, u) <=> Waits(lk, u)
  BY <1>1 DEF Waits, Positions
<1> QED BY <1>1, <1>2, <1>3, WakeFirstSound DEF Release

\* A waiter leaves the queue: the others keep their order, and what is woken is
\* still the head.
LEMMA LeaveSettling ==
  ASSUME NEW Task, NEW lk \in LockStates(Task), Sound(lk), NEW t, Waits(lk, t)
  PROVE  /\ Leave(lk, t) \in LockStates(Task)
         /\ Settling(Leave(lk, t))
         /\ Leave(lk, t).locked <=> lk.locked
         /\ \A u : Waits(Leave(lk, t), u) <=> Waits(lk, u) /\ u # t
<1> DEFINE n == Len(lk.waiters)
           p == CHOOSE i \in Positions(lk, t) : TRUE
           w == [i \in 1 .. n - 1 |-> lk.waiters[IF i < p THEN i ELSE i + 1]]
<1>1. /\ n \in Nat
      /\ lk.waiters \in [1 .. n -> Waiter(Task)]
      /\ lk.locked \in BOOLEAN
  BY LockShape
<1>2. p \in 1 .. n /\ lk.waiters[p].task = t
  BY DEF Waits, Positions
<1>3. Leave(lk, t) = [locked |-> lk.locked, waiters |-> w]
  BY DEF Leave
<1> HIDE DEF p
<1>4. /\ n - 1 \in Nat
      /\ w \in [1 .. n - 1 -> Waiter(Task)]
      /\ \A i \in 1 .. n - 1 : w[i] = lk.waiters[IF i < p THEN i ELSE i + 1]
  BY <1>1, <1>2
<1>5. Len(w) = n - 1 /\ w \in Seq(Waiter(Task))
  BY <1>4, LockMade
<1>6. Leave(lk, t) \in LockStates(Task)
  BY <1>1, <1>3, <1>5 DEF LockStates
<1>7. Leave(lk, t).locked <=> lk.locked
  BY DEF Leave
<1>8. \A i \in 1 .. n : lk.waiters[i].task = t => i = p
  BY <1>1, <1>2 DEF Sound
<1> HIDE DEF w
<1>9. Settling(Leave(lk, t))
  <2>1. \A i \in 1 .. n - 1 : w[i].fut = "woken" => i = 1 /\ ~lk.locked
    <3> SUFFICES ASSUME NEW i \in 1 .. n - 1, w[i].fut = "woken"
                 PROVE  i = 1 /\ ~lk.locked
      OBVIOUS
    <3> DEFINE j == IF i < p THEN i ELSE i + 1
    <3>1. j \in 1 .. n /\ lk.waiters[j].fut = "woken"
      BY <1>1, <1>2, <1>4
    <3>2. j = 1 /\ ~lk.locked
      BY <3>1 DEF Sound
    <3> QED BY <1>1, <1>2, <3>2
  <2>2. \A i, j \in 1 .. n - 1 : w[i].task = w[j].task => i = j
    <3> SUFFICES ASSUME NEW i \in 1 .. n - 1, NEW j \in 1 .. n - 1, w[i].task = w[j].task
                 PROVE  i = j
      OBVIOUS
    <3>1. (IF i < p THEN i ELSE i + 1) = (IF j < p THEN j ELSE j + 1)
      BY <1>1, <1>2, <1>4 DEF Sound
    <3> QED BY <1>1, <1>2, <3>1
  <2> QED BY <1>3, <1>5, <2>1, <2>2 DEF Settling
<1>10. \A u : Waits(Leave(lk, t), u) <=> Waits(lk, u) /\ u # t
  <2> SUFFICES ASSUME NEW u
               PROVE  Waits(Leave(lk, t), u) <=> Waits(lk, u) /\ u # t
    OBVIOUS
  <2>1. Waits(Leave(lk, t), u) <=> \E i \in 1 .. n - 1 : w[i].task = u
    BY <1>3, <1>5 DEF Waits, Positions
  <2>2. Waits(lk, u) <=> \E i \in 1 .. n : lk.waiters[i].task = u
    BY DEF Waits, Positions
  <2>3. ASSUME NEW i \in 1 .. n - 1, w[i].task = u
        PROVE  Waits(lk, u) /\ u # t
    <3>1. (IF i < p THEN i ELSE i + 1) \in 1 .. n /\ (IF i < p THEN i ELSE i + 1) # p
      BY <1>1, <1>2
    <3> QED BY <1>4, <1>8, <2>2, <2>3, <3>1
  <2>4. ASSUME NEW i \in 1 .. n, lk.waiters[i].task = u, u # t
        PROVE  \E j \in 1 .. n - 1 : w[j].task = u
    <3>1. i # p
      BY <1>2, <2>4
    <3>2. CASE i < p
      BY <1>1, <1>2, <1>4, <2>4, <3>2
    <3>3. CASE i > p
      <4>1. i - 1 \in 1 .. n - 1 /\ ~(i - 1 < p) /\ (i - 1) + 1 = i
        BY <1>1, <1>2, <3>3
      <4>2. w[i - 1] = lk.waiters[i]
        BY <1>4, <4>1
      <4> QED BY <2>4, <4>1, <4>2
    <3> QED BY <1>1, <1>2, <3>1, <3>2, <3>3
  <2> QED BY <2>1, <2>2, <2>3, <2>4
<1> QED BY <1>6, <1>7, <1>9, <1>10

\* A woken waiter runs: it leaves the queue and nobody else holds the lock.
LEMMA ResumeSound ==
  ASSUME NEW Task, NEW lk \in LockStates(Task), Sound(lk), NEW t, Woken(lk, t)
  PROVE  /\ ~lk.locked
         /\ Resume(lk, t) \in LockStates(Task)
         /\ Sound(Resume(lk, t))
         /\ Resume(lk, t).locked
         /\ \A u : Waits(Resume(lk, t), u) <=> Waits(lk, u) /\ u # t
<1> DEFINE left == Leave(lk, t)
<1>1. Waits(lk, t)
  BY DEF Woken, Waits
<1>2. /\ left \in LockStates(Task)
      /\ Settling(left)
      /\ left.locked <=> lk.locked
      /\ \A u : Waits(left, u) <=> Waits(lk, u) /\ u # t
  BY <1>1, LeaveSettling
<1>3. ~lk.locked
  BY DEF Woken, Positions, Sound
<1>4. PICK p \in 1 .. Len(lk.waiters) : lk.waiters[p].task = t /\ lk.waiters[p].fut = "woken"
  BY DEF Woken, Positions
<1>5. \A i \in 1 .. Len(left.waiters) : left.waiters[i].fut # "woken"
  <2> DEFINE q == CHOOSE i \in Positions(lk, t) : TRUE
  <2>1. q \in 1 .. Len(lk.waiters) /\ lk.waiters[q].task = t
    BY <1>4 DEF Positions
  <2>2. q = p /\ p = 1
    BY <1>4, <2>1 DEF Sound
  <2> HIDE DEF q
  <2>3. left.waiters = [i \in 1 .. Len(lk.waiters) - 1 |->
                          lk.waiters[IF i < q THEN i ELSE i + 1]]
    BY DEF Leave, q
  <2>4. Len(lk.waiters) \in Nat
    BY LockShape
  <2>5. Len(left.waiters) = Len(lk.waiters) - 1
    <3>1. Len(lk.waiters) - 1 \in Nat
      BY <1>4, <2>4
    <3>2. left.waiters \in [1 .. Len(lk.waiters) - 1 -> Waiter(Task)]
      BY <1>2, <2>3, <2>4, <2>1, LockShape
    <3> QED BY <3>1, <3>2, LockMade
  <2> QED BY <1>4, <2>2, <2>3, <2>4, <2>5 DEF Sound
<1>6. \A u : Waits(Resume(lk, t), u) <=> Waits(lk, u) /\ u # t
  BY <1>2 DEF Resume, Take, Waits, Positions
<1>7. Resume(lk, t) \in LockStates(Task) /\ Resume(lk, t).locked
  BY <1>2 DEF Resume, Take, LockStates
<1>8. Sound(Resume(lk, t))
  BY <1>2, <1>5 DEF Resume, Take, Sound, Settling
<1> QED BY <1>3, <1>6, <1>7, <1>8

\* task.cancel() on a waiter changes its future at most.
LEMMA CancelWaitSound ==
  ASSUME NEW Task, NEW lk \in LockStates(Task), Sound(lk), NEW t \in Task
  PROVE  /\ CancelWait(lk, t) \in LockStates(Task)
         /\ Sound(CancelWait(lk, t))
         /\ CancelWait(lk, t).locked <=> lk.locked
         /\ \A u : Waits(CancelWait(lk, t), u) <=> Waits(lk, u)
<1> DEFINE n == Len(lk.waiters)
           w == [i \in 1 .. n |->
                   IF lk.waiters[i] = [task |-> t, fut |-> "pending"]
                     THEN [task |-> t, fut |-> "cancelled"]
                     ELSE lk.waiters[i]]
<1>1. /\ n \in Nat
      /\ lk.waiters \in [1 .. n -> Waiter(Task)]
      /\ lk.waiters \in Seq(Waiter(Task))
      /\ lk.locked \in BOOLEAN
  BY LockShape
<1>2. CancelWait(lk, t) = [locked |-> lk.locked, waiters |-> w]
  BY DEF CancelWait
<1>3. w \in [1 .. n -> Waiter(Task)]
  BY <1>1 DEF Waiter, FutureStates
<1>9. ASSUME NEW i \in 1 .. n
      PROVE  /\ w[i].task = lk.waiters[i].task
             /\ w[i].fut = "woken" => lk.waiters[i].fut = "woken"
             /\ w[i].fut = "pending" => lk.waiters[i].fut = "pending"
  BY <1>1, <1>9 DEF Waiter, FutureStates
<1>4. Len(w) = n /\ w \in Seq(Waiter(Task))
  BY <1>1, <1>3, LockMade
<1> HIDE DEF w
<1>5. CancelWait(lk, t) \in LockStates(Task)
  BY <1>1, <1>2, <1>4 DEF LockStates
<1>6. CancelWait(lk, t).locked <=> lk.locked
  BY DEF CancelWait
<1>7. Sound(CancelWait(lk, t))
  <2>1. \A i \in 1 .. n : w[i].fut = "woken" => i = 1 /\ ~lk.locked
    BY <1>9 DEF Sound
  <2>2. \A i, j \in 1 .. n : w[i].task = w[j].task => i = j
    BY <1>9 DEF Sound
  <2>3. ~lk.locked /\ n > 0 => w[1].fut # "pending"
    BY <1>1, <1>9 DEF Sound
  <2> QED BY <1>2, <1>4, <2>1, <2>2, <2>3 DEF Sound
<1>8. \A u : Waits(CancelWait(lk, t), u) <=> Waits(lk, u)
  <2> SUFFICES ASSUME NEW u
               PROVE  Waits(CancelWait(lk, t), u) <=> Waits(lk, u)
    OBVIOUS
  <2>1. Waits(CancelWait(lk, t), u) <=> \E i \in 1 .. n : w[i].task = u
    BY <1>2, <1>4 DEF Waits, Positions
  <2>2. Waits(lk, u) <=> \E i \in 1 .. n : lk.waiters[i].task = u
    BY DEF Waits, Positions
  <2> QED BY <1>9, <2>1, <2>2
<1> QED BY <1>5, <1>6, <1>7, <1>8

\* The cancelled task runs and, if the lock is free, wakes the next one.
LEMMA AbortSound ==
  ASSUME NEW Task, NEW lk \in LockStates(Task), Sound(lk), NEW t, Waits(lk, t)
  PROVE  /\ Abort(lk, t) \in LockStates(Task)
         /\ Sound(Abort(lk, t))
         /\ Abort(lk, t).locked <=> lk.locked
         /\ \A u : Waits(Abort(lk, t), u) <=> Waits(lk, u) /\ u # t
<1> DEFINE left == Leave(lk, t)
<1>1. /\ left \in LockStates(Task)
      /\ Settling(left)
      /\ left.locked <=> lk.locked
      /\ \A u : Waits(left, u) <=> Waits(lk, u) /\ u # t
  BY LeaveSettling
<1> HIDE DEF left
<1>2. Abort(lk, t) = IF left.locked THEN left ELSE WakeFirst(left)
  BY DEF Abort, left
<1>3. CASE left.locked
  BY <1>1, <1>2, <1>3 DEF Sound, Settling
<1>4. CASE ~left.locked
  BY <1>1, <1>2, <1>4, WakeFirstSound
<1> QED BY <1>3, <1>4
=============================================================================
