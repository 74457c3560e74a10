--------------------------- MODULE CallPathProofs ---------------------------
(***************************************************************************)
(* That CallPath implements TokenCache and Transport, and its safety for   *)
(* any operations, callers and policies: only entitled calls get through,  *)
(* each with a credential of its own.                                      *)
(***************************************************************************)
EXTENDS CallPath, TLAPS

(***************************************************************************)
(* The composition implements its parts                                    *)
(***************************************************************************)

\* Only calls the policy allows ask the IdP, so what they ask for is a Request.
LEMMA AskedIsRequest ==
  ASSUME NEW p \in PolicyConfig, NEW op \in Operation, NEW who \in Principal,
         Dynamic(op), Allowed(p, op, who.details)
  PROVE  RequestFor(p, op, who) \in Request
<1> DEFINE c == [op |-> op, who |-> who]
<1>1. c \in Reaching(p) /\ c.op = op /\ c.who = who
  BY DEF Reaching
<1>2. RequestFor(p, op, who) \in {RequestFor(p, d.op, d.who) : d \in Reaching(p)}
  BY <1>1
<1>3. QED BY <1>2 DEF Request

\* The policy is one of those the run may start with, and never changes.
LEMMA PolicyKept == policy \in PolicyConfig /\ [Next]_vars => policy' \in PolicyConfig
  BY DEF Next, vars, CallStatic, CallCached, CallUncached, Accepts, GetsCredential,
     SeeksCredential, LacksCredential, Attempts, TokensAge, AttemptsAge

\* Every step is a step of the cache or leaves it alone.
LEMMA CacheStep == policy \in PolicyConfig /\ [Next]_vars => [TC!Next]_cacheVars
<1>1. SUFFICES ASSUME policy \in PolicyConfig, [Next]_vars PROVE [TC!Next]_cacheVars
  OBVIOUS
<1>2. ASSUME NEW t \in Task, NEW op \in Operation, NEW who \in Principal,
             CallCached(t, op, who) \/ CallUncached(t, op, who)
      PROVE  TC!Next
  <2>1. RequestFor(policy, op, who) \in Request
    BY <1>1, <1>2, AskedIsRequest DEF CallCached, CallUncached, Accepts
  <2>2. QED BY <1>2, <2>1 DEF CallCached, CallUncached, TC!Next, TC!TaskStep
<1>3. ASSUME NEW t \in Task, GetsCredential(t) \/ SeeksCredential(t) \/ LacksCredential(t)
      PROVE  TC!Next
  BY <1>3 DEF GetsCredential, SeeksCredential, LacksCredential, TC!Next, TC!TaskStep
<1>4. CASE TokensAge
  BY <1>4 DEF TokensAge, TC!Next
<1>5. QED
  BY <1>1, <1>2, <1>3, <1>4 DEF Next, vars, CallStatic, Attempts, AttemptsAge


(***************************************************************************)
(* The inductive invariant                                                 *)
(***************************************************************************)

Calls == [op : Operation, who : Principal]

\* What a function of the tasks has to be for its values to change one at a time.
OnTasks(f) == f = [t \in Task |-> f[t]]

Shape ==
  /\ policy \in PolicyConfig
  /\ call \in [Task -> Calls \cup {NoCall}]
  /\ OnTasks(cred) /\ OnTasks(pc) /\ OnTasks(req) /\ OnTasks(got) /\ OnTasks(stage)

\* An entry holds a token minted for a request with the entry's key.
Stored ==
  \A k \in Key : entries[k] # NoEntry =>
    entries[k].value \in Request /\ CacheKey(entries[k].value) = k

\* The request a call of operation op for who may send with a dynamic credential.
Fits(token, c) == CacheKey(token) = CacheKey(RequestFor(policy, c.op, c.who))

\* What holds of a task: its call is allowed, it is in one place, it asks for what
\* its call needs and sends what it got for it.
Fine(t) ==
  /\ call[t] # NoCall => Allowed(policy, call[t].op, call[t].who.details)
  /\ call[t] # NoCall => pc[t] # "idle" \/ stage[t] # "idle"
  /\ pc[t] # "idle" =>
       /\ call[t] # NoCall /\ stage[t] = "idle" /\ Dynamic(call[t].op)
       /\ req[t] = RequestFor(policy, call[t].op, call[t].who)
  /\ stage[t] # "idle" =>
       call[t] # NoCall /\ (Dynamic(call[t].op) => Fits(cred[t], call[t]))

IInv == Shape /\ Stored /\ \A t \in Task : Fine(t)

\* What a step about another task does to task u: nothing.
Untouched(u) ==
  /\ call'[u] = call[u] /\ cred'[u] = cred[u]
  /\ pc'[u] = pc[u] /\ req'[u] = req[u] /\ stage'[u] = stage[u]

Kept(t) ==
  /\ Shape' /\ Stored' /\ policy' = policy
  /\ Fine(t)'
  /\ \A u \in Task : u # t => Untouched(u)

\* An untouched task is as fine as before.
LEMMA UntouchedFine ==
  ASSUME policy' = policy, NEW u \in Task, Fine(u), Untouched(u) PROVE Fine(u)'
  BY DEF Fine, Fits, Untouched

\* The initial state satisfies the invariant.
LEMMA InitIInv == Init => IInv
  BY DEF Init, IInv, Shape, OnTasks, Stored, Fine, TC!Init, TR!Init

\* A dynamic call that is allowed asks for a request, and the cache keys it so.
LEMMA KeyOfRequest == \A r \in Request : KeyOf[r] = CacheKey(r) /\ KeyOf[r] \in Key
  BY DEF KeyOf, Key

\* Changing one task of a function of the tasks leaves a function of the tasks.
LEMMA OnTasksExcept ==
  ASSUME NEW f, OnTasks(f), NEW t \in Task, NEW x
  PROVE  /\ OnTasks([f EXCEPT ![t] = x])
         /\ [f EXCEPT ![t] = x][t] = x
         /\ \A u \in Task : u # t => [f EXCEPT ![t] = x][u] = f[u]
  BY DEF OnTasks

(***************************************************************************)
(* What a task's step does to its call                                     *)
(***************************************************************************)

\* The credential is there and fits: the request goes out, or the call ends.
LEMMA SendsKept ==
  ASSUME IInv, Stored', policy' = policy,
         NEW t \in Task, stage[t] = "idle", NEW c \in Calls, NEW credential,
         Allowed(policy, c.op, c.who.details),
         Dynamic(c.op) => Fits(credential, c),
         OnTasks(pc'), OnTasks(req'), OnTasks(got'), pc'[t] = "idle",
         \A u \in Task : u # t => pc'[u] = pc[u] /\ req'[u] = req[u],
         Sends(t, c, credential)
  PROVE  Kept(t)
<1>1. c # NoCall
  BY NoCallAssumption DEF Calls
<1>2. CASE TR!Start(t, c.op.effect) /\ call' = [call EXCEPT ![t] = c]
           /\ cred' = [cred EXCEPT ![t] = credential]
  <2>1. stage' = [stage EXCEPT ![t] = "sent"]
    BY <1>2 DEF TR!Start
  <2>2. /\ call'[t] = c /\ cred'[t] = credential /\ stage'[t] = "sent"
        /\ \A u \in Task : u # t => call'[u] = call[u] /\ cred'[u] = cred[u]
                                    /\ stage'[u] = stage[u]
    <3>1. OnTasks(call) /\ OnTasks(cred) /\ OnTasks(stage)
      BY DEF IInv, Shape, OnTasks
    <3>2. call'[t] = c /\ \A u \in Task : u # t => call'[u] = call[u]
      BY <1>2, <3>1, OnTasksExcept
    <3>3. cred'[t] = credential /\ \A u \in Task : u # t => cred'[u] = cred[u]
      BY <1>2, <3>1, OnTasksExcept
    <3>4. stage'[t] = "sent" /\ \A u \in Task : u # t => stage'[u] = stage[u]
      BY <2>1, <3>1, OnTasksExcept
    <3>5. QED BY <3>2, <3>3, <3>4
  <2>3. Shape'
    <3>1. OnTasks(cred') /\ OnTasks(stage')
      BY <1>2, <2>1, OnTasksExcept DEF IInv, Shape
    <3>2. call' \in [Task -> Calls \cup {NoCall}]
      BY <1>2 DEF IInv, Shape
    <3>3. QED BY <3>1, <3>2 DEF IInv, Shape
  <2>4. Fine(t)'
    BY <1>1, <2>2 DEF Fine, Fits
  <2>5. QED BY <2>2, <2>3, <2>4 DEF Kept, Untouched
<1>3. CASE Forgets(t) /\ UNCHANGED transportVars
  <2>1. /\ call'[t] = NoCall /\ stage' = stage
        /\ \A u \in Task : u # t => call'[u] = call[u] /\ cred'[u] = cred[u]
    BY <1>3, OnTasksExcept DEF IInv, Shape, Forgets, transportVars
  <2>2. Shape'
    BY <1>3, <2>1, OnTasksExcept DEF IInv, Shape, Forgets
  <2>3. Fine(t)'
    BY <2>1 DEF Fine
  <2>4. QED BY <2>1, <2>2, <2>3 DEF Kept, Untouched
<1>4. QED BY <1>2, <1>3 DEF Sends

\* A call with a static credential.
LEMMA CallStaticKept ==
  ASSUME IInv, NEW t \in Task, NEW op \in Operation, NEW who \in Principal,
         CallStatic(t, op, who)
  PROVE  Kept(t)
<1> DEFINE c == [op |-> op, who |-> who]
<1>1. c \in Calls /\ c.op = op /\ c.who = who
  BY DEF Calls
<1>2. /\ call[t] = NoCall /\ Allowed(policy, op, who.details) /\ policy' = policy
      /\ ~Dynamic(op) /\ Sends(t, c, NoCredential)
      /\ entries' = entries /\ pc' = pc /\ req' = req /\ got' = got
  BY DEF CallStatic, Accepts, cacheVars
<1>3. pc[t] = "idle" /\ stage[t] = "idle"
  BY <1>2 DEF IInv, Fine
<1>4. Stored'
  BY <1>2 DEF IInv, Stored
<1>5. OnTasks(pc') /\ OnTasks(req') /\ OnTasks(got')
  BY <1>2 DEF IInv, Shape
<1> HIDE DEF c
<1>6. QED BY <1>1, <1>2, <1>3, <1>4, <1>5, SendsKept

\* A call that finds its token in the cache: the key says what the token is for.
LEMMA CallCachedKept ==
  ASSUME IInv, NEW t \in Task, NEW op \in Operation, NEW who \in Principal,
         CallCached(t, op, who)
  PROVE  Kept(t)
<1> DEFINE c == [op |-> op, who |-> who]
           r == RequestFor(policy, op, who)
           token == entries[KeyOf[r]].value
<1>1. c \in Calls /\ c.op = op /\ c.who = who
  BY DEF Calls
<1>2. /\ call[t] = NoCall /\ Allowed(policy, op, who.details) /\ policy' = policy
      /\ Dynamic(op) /\ TC!Hit(t, r) /\ Sends(t, c, got'[t].token)
  BY DEF CallCached, Accepts
<1>3. pc[t] = "idle" /\ stage[t] = "idle"
  BY <1>2 DEF IInv, Fine
<1>4. /\ entries' = entries /\ pc' = pc /\ req' = req
      /\ got' = [got EXCEPT ![t] = [asked |-> r, token |-> token]]
      /\ entries[KeyOf[r]] # NoEntry
  BY <1>2 DEF TC!Hit, TC!Cached
<1>5. r \in Request
  BY <1>2, AskedIsRequest DEF IInv, Shape
<1>6. CacheKey(token) = CacheKey(r)
  BY <1>4, <1>5, KeyOfRequest DEF IInv, Stored
<1>7. OnTasks(pc') /\ OnTasks(req') /\ OnTasks(got')
  BY <1>4, OnTasksExcept DEF IInv, Shape
<1>8. got'[t].token = token
  BY <1>4, OnTasksExcept DEF IInv, Shape
<1>9. Fits(got'[t].token, c)
  BY <1>1, <1>6, <1>8 DEF Fits
<1>10. Stored'
  BY <1>4 DEF IInv, Stored
<1> HIDE DEF c, r, token
<1>11. QED BY <1>1, <1>2, <1>3, <1>4, <1>7, <1>9, <1>10, SendsKept

\* A call that has to wait asks for what it needs.
LEMMA CallUncachedKept ==
  ASSUME IInv, NEW t \in Task, NEW op \in Operation, NEW who \in Principal,
         CallUncached(t, op, who)
  PROVE  Kept(t)
<1> DEFINE c == [op |-> op, who |-> who]
           r == RequestFor(policy, op, who)
<1>1. c \in Calls /\ c.op = op /\ c.who = who /\ c # NoCall
  BY NoCallAssumption DEF Calls
<1>2. /\ call[t] = NoCall /\ Allowed(policy, op, who.details) /\ policy' = policy
      /\ Dynamic(op) /\ TC!Miss(t, r) /\ call' = [call EXCEPT ![t] = c]
      /\ cred' = cred /\ stage' = stage
  BY DEF CallUncached, Accepts, transportVars
<1> HIDE DEF c, r
<1>3. stage[t] = "idle"
  BY <1>2 DEF IInv, Fine
<1>4. PICK at \in {"fetching", "waiting"} :
        /\ pc' = [pc EXCEPT ![t] = at]
        /\ req' = [req EXCEPT ![t] = r]
        /\ got' = [got EXCEPT ![t] = NoAnswer]
        /\ entries' = entries
  BY <1>2 DEF TC!Miss
<1>5. OnTasks(call) /\ OnTasks(pc) /\ OnTasks(req) /\ OnTasks(got)
  BY DEF IInv, Shape, OnTasks
<1>6. call'[t] = c /\ \A u \in Task : u # t => call'[u] = call[u]
  BY <1>2, <1>5 DEF OnTasks
<1>7. pc'[t] = at /\ OnTasks(pc') /\ \A u \in Task : u # t => pc'[u] = pc[u]
  BY <1>4, <1>5 DEF OnTasks
<1>8. req'[t] = r /\ OnTasks(req') /\ \A u \in Task : u # t => req'[u] = req[u]
  BY <1>4, <1>5 DEF OnTasks
<1>9. Shape'
  <2>1. call' \in [Task -> Calls \cup {NoCall}]
    BY <1>1, <1>2 DEF IInv, Shape
  <2>2. OnTasks(got')
    BY <1>4, <1>5 DEF OnTasks
  <2>3. QED BY <1>2, <1>7, <1>8, <2>1, <2>2 DEF IInv, Shape
<1>10. Fine(t)'
  BY <1>1, <1>2, <1>3, <1>4, <1>6, <1>7, <1>8 DEF Fine, r
<1>11. Stored'
  BY <1>4 DEF IInv, Stored
<1>12. QED BY <1>2, <1>6, <1>7, <1>8, <1>9, <1>10, <1>11 DEF Kept, Untouched

\* What the invariant says of a task that seeks a credential.
LEMMA SeekingFacts ==
  ASSUME IInv, NEW t \in Task, pc[t] # "idle"
  PROVE  /\ call[t] \in Calls /\ stage[t] = "idle"
         /\ Dynamic(call[t].op) /\ Allowed(policy, call[t].op, call[t].who.details)
         /\ req[t] = RequestFor(policy, call[t].op, call[t].who) /\ req[t] \in Request
<1>1. /\ call[t] \in Calls /\ call[t] # NoCall /\ stage[t] = "idle"
      /\ Dynamic(call[t].op) /\ Allowed(policy, call[t].op, call[t].who.details)
      /\ req[t] = RequestFor(policy, call[t].op, call[t].who)
  BY DEF IInv, Shape, Fine
<1>2. call[t].op \in Operation /\ call[t].who \in Principal
  BY <1>1 DEF Calls
<1>3. QED BY <1>1, <1>2, AskedIsRequest DEF IInv, Shape

\* The token that arrives was minted for what the task asked for.
LEMMA GetsCredentialKept == ASSUME IInv, NEW t \in Task, GetsCredential(t) PROVE Kept(t)
<1>1. pc[t] # "idle"
  BY DEF GetsCredential, TC!ResumeHit, TC!FetchReturns
<1>2. /\ call[t] \in Calls /\ stage[t] = "idle"
      /\ Dynamic(call[t].op) /\ Allowed(policy, call[t].op, call[t].who.details)
      /\ req[t] = RequestFor(policy, call[t].op, call[t].who) /\ req[t] \in Request
  BY <1>1, SeekingFacts
<1>3. KeyOf[req[t]] = CacheKey(req[t])
  BY <1>2, KeyOfRequest
<1>4. policy' = policy /\ Sends(t, call[t], got'[t].token)
  BY DEF GetsCredential
<1>5. PICK answer :
        /\ pc' = [pc EXCEPT ![t] = "idle"]
        /\ req' = [req EXCEPT ![t] = NoRequest]
        /\ got' = [got EXCEPT ![t] = answer]
        /\ CacheKey(answer.token) = CacheKey(req[t])
        /\ Stored'
  <2>1. CASE TC!ResumeHit(t)
    <3> DEFINE answer == [asked |-> req[t], token |-> entries[KeyOf[req[t]]].value]
    <3>1. /\ entries[KeyOf[req[t]]] # NoEntry /\ entries' = entries
          /\ pc' = [pc EXCEPT ![t] = "idle"]
          /\ req' = [req EXCEPT ![t] = NoRequest]
          /\ got' = [got EXCEPT ![t] = answer]
      BY <2>1 DEF TC!ResumeHit, TC!Cached, TC!Ends
    <3>2. answer.token = entries[KeyOf[req[t]]].value
      OBVIOUS
    <3>3. CacheKey(answer.token) = CacheKey(req[t])
      BY <1>2, <1>3, <3>1, <3>2, KeyOfRequest DEF IInv, Stored
    <3>4. Stored'
      BY <3>1 DEF IInv, Stored
    <3>5. QED BY <3>1, <3>3, <3>4
  <2>2. ASSUME NEW ttl \in Ttl, TC!FetchReturns(t, ttl)
        PROVE  \E answer :
                 /\ pc' = [pc EXCEPT ![t] = "idle"]
                 /\ req' = [req EXCEPT ![t] = NoRequest]
                 /\ got' = [got EXCEPT ![t] = answer]
                 /\ CacheKey(answer.token) = CacheKey(req[t])
                 /\ Stored'
    <3> DEFINE answer == [asked |-> req[t], token |-> req[t]]
               k == KeyOf[req[t]]
               entry == [value |-> req[t], expires_at |-> now + ttl]
    <3>1. /\ entries' = [j \in Key |-> IF j = k THEN entry
                                       ELSE IF TC!Expired(j) THEN NoEntry ELSE entries[j]]
          /\ pc' = [pc EXCEPT ![t] = "idle"]
          /\ req' = [req EXCEPT ![t] = NoRequest]
          /\ got' = [got EXCEPT ![t] = answer]
      BY <2>2 DEF TC!FetchReturns, TC!PurgedEntries, TC!Ends
    <3>2. answer.token = req[t] /\ entry.value = req[t]
      OBVIOUS
    <3>3. Stored'
      <4>1. SUFFICES ASSUME NEW j \in Key, entries'[j] # NoEntry
                     PROVE  entries'[j].value \in Request /\ CacheKey(entries'[j].value) = j
        BY DEF Stored
      <4>2. CASE j = k
        BY <1>2, <1>3, <3>1, <3>2, <4>1, <4>2
      <4>3. CASE j # k
        <5>1. entries'[j] = entries[j]
          BY <3>1, <4>1, <4>3
        <5>2. QED BY <4>1, <5>1 DEF IInv, Stored
      <4>4. QED BY <4>2, <4>3
    <3> HIDE DEF answer
    <3>4. QED BY <3>1, <3>2, <3>3
  <2>3. QED BY <2>1, <2>2 DEF GetsCredential
<1>6. OnTasks(pc) /\ OnTasks(req) /\ OnTasks(got)
  BY DEF IInv, Shape
<1>7. pc'[t] = "idle" /\ OnTasks(pc') /\ \A u \in Task : u # t => pc'[u] = pc[u]
  BY <1>5, <1>6 DEF OnTasks
<1>8. OnTasks(req') /\ \A u \in Task : u # t => req'[u] = req[u]
  BY <1>5, <1>6 DEF OnTasks
<1>9. OnTasks(got') /\ got'[t] = answer
  BY <1>5, <1>6 DEF OnTasks
<1>10. Fits(got'[t].token, call[t])
  BY <1>2, <1>5, <1>9 DEF Fits
<1>11. QED BY <1>2, <1>4, <1>5, <1>7, <1>8, <1>9, <1>10, SendsKept

\* A task that goes on waiting still asks for the same.
LEMMA SeeksCredentialKept == ASSUME IInv, NEW t \in Task, SeeksCredential(t) PROVE Kept(t)
<1>1. PICK at \in {"fetching", "aborting"} :
        /\ pc[t] # "idle" /\ pc' = [pc EXCEPT ![t] = at]
        /\ req' = req /\ got' = got /\ entries' = entries
  BY DEF SeeksCredential, TC!ResumeMiss, TC!Cancel
<1>2. policy' = policy /\ call' = call /\ cred' = cred /\ stage' = stage
  BY DEF SeeksCredential, transportVars
<1>3. pc'[t] = at /\ OnTasks(pc') /\ \A u \in Task : u # t => pc'[u] = pc[u]
  BY <1>1 DEF IInv, Shape, OnTasks
<1>4. Shape' /\ Stored'
  BY <1>1, <1>2, <1>3 DEF IInv, Shape, Stored, OnTasks
<1>5. Fine(t)'
  BY <1>1, <1>2, <1>3 DEF IInv, Fine
<1>6. QED BY <1>1, <1>2, <1>3, <1>4, <1>5 DEF Kept, Untouched

\* A call that gets no credential is over.
LEMMA LacksCredentialKept == ASSUME IInv, NEW t \in Task, LacksCredential(t) PROVE Kept(t)
<1>1. /\ pc[t] # "idle" /\ pc' = [pc EXCEPT ![t] = "idle"]
      /\ req' = [req EXCEPT ![t] = NoRequest]
      /\ got' = [got EXCEPT ![t] = NoAnswer] /\ entries' = entries
  BY DEF LacksCredential, TC!FetchFails, TC!Aborts, TC!Ends
<1>2. /\ policy' = policy /\ stage' = stage
      /\ call' = [call EXCEPT ![t] = NoCall] /\ cred' = [cred EXCEPT ![t] = NoCredential]
  BY DEF LacksCredential, Forgets, transportVars
<1>3. OnTasks(call) /\ OnTasks(cred) /\ OnTasks(pc) /\ OnTasks(req) /\ OnTasks(got)
  BY DEF IInv, Shape, OnTasks
<1>4. pc'[t] = "idle" /\ OnTasks(pc') /\ \A u \in Task : u # t => pc'[u] = pc[u]
  BY <1>1, <1>3 DEF OnTasks
<1>5. OnTasks(req') /\ \A u \in Task : u # t => req'[u] = req[u]
  BY <1>1, <1>3 DEF OnTasks
<1>6. call'[t] = NoCall /\ \A u \in Task : u # t => call'[u] = call[u]
  BY <1>2, <1>3 DEF OnTasks
<1>7. OnTasks(cred') /\ \A u \in Task : u # t => cred'[u] = cred[u]
  BY <1>2, <1>3 DEF OnTasks
<1>8. OnTasks(got')
  BY <1>1, <1>3 DEF OnTasks
<1>9. Shape' /\ Stored'
  <2>1. call' \in [Task -> Calls \cup {NoCall}]
    BY <1>2 DEF IInv, Shape
  <2>2. QED BY <1>1, <1>2, <1>4, <1>5, <1>7, <1>8, <2>1 DEF IInv, Shape, Stored, OnTasks
<1>10. stage[t] = "idle"
  BY <1>1 DEF IInv, Fine
<1>11. Fine(t)'
  BY <1>2, <1>4, <1>6, <1>10 DEF Fine
<1>12. QED BY <1>2, <1>4, <1>5, <1>6, <1>7, <1>9, <1>11 DEF Kept, Untouched

\* The transport moves on, or is through with the call.
LEMMA AttemptsKept == ASSUME IInv, NEW t \in Task, Attempts(t) PROVE Kept(t)
<1>1. /\ policy' = policy /\ pc' = pc /\ req' = req /\ got' = got /\ entries' = entries
      /\ IF stage'[t] = "idle" THEN Forgets(t) ELSE call' = call /\ cred' = cred
  BY DEF Attempts, cacheVars
<1>2. stage[t] # "idle"
  BY DEF Attempts, TR!Applies, TR!Proceeds, TR!Responds, TR!TimesOut, TR!Breaks,
     TR!Cancelled, TR!Wakes
<1>3. stage' = stage \/ \E at : stage' = [stage EXCEPT ![t] = at]
  BY DEF Attempts, TR!Applies, TR!Proceeds, TR!Responds, TR!TimesOut, TR!Breaks,
     TR!Cancelled, TR!Wakes, TR!RetriesOrEnds, TR!Ends
<1>4. OnTasks(stage') /\ \A u \in Task : u # t => stage'[u] = stage[u]
  BY <1>3 DEF IInv, Shape, OnTasks
<1>5. pc[t] = "idle"
  BY <1>2 DEF IInv, Fine
<1>6. CASE stage'[t] = "idle"
  <2>1. call' = [call EXCEPT ![t] = NoCall] /\ cred' = [cred EXCEPT ![t] = NoCredential]
    BY <1>1, <1>6 DEF Forgets
  <2>2. call'[t] = NoCall /\ \A u \in Task : u # t => call'[u] = call[u]
    BY <2>1 DEF IInv, Shape
  <2>3. OnTasks(cred') /\ \A u \in Task : u # t => cred'[u] = cred[u]
    BY <2>1 DEF IInv, Shape, OnTasks
  <2>4. call' \in [Task -> Calls \cup {NoCall}]
    BY <2>1 DEF IInv, Shape
  <2>5. Shape' /\ Stored'
    BY <1>1, <1>4, <2>3, <2>4 DEF IInv, Shape, Stored
  <2>6. Fine(t)'
    BY <1>1, <1>5, <1>6, <2>2 DEF Fine
  <2>7. QED BY <1>1, <1>4, <2>2, <2>3, <2>5, <2>6 DEF Kept, Untouched
<1>7. CASE stage'[t] # "idle"
  <2>1. call' = call /\ cred' = cred
    BY <1>1, <1>7
  <2>2. Shape' /\ Stored'
    BY <1>1, <1>4, <2>1 DEF IInv, Shape, Stored
  <2>3. Fine(t)'
    BY <1>1, <1>2, <1>5, <1>7, <2>1 DEF IInv, Fine, Fits
  <2>4. QED BY <1>1, <1>4, <2>1, <2>2, <2>3 DEF Kept, Untouched
<1>8. QED BY <1>6, <1>7

(***************************************************************************)
(* Theorems                                                                *)
(***************************************************************************)

\* Every step keeps the invariant.
LEMMA NextIInv == IInv /\ [Next]_vars => IInv'
<1>1. SUFFICES ASSUME IInv, [Next]_vars PROVE IInv'
  OBVIOUS
<1>2. ASSUME NEW t \in Task, Kept(t) PROVE IInv'
  BY <1>1, <1>2, UntouchedFine DEF IInv, Kept
<1>3. ASSUME NEW t \in Task, NEW op \in Operation, NEW who \in Principal,
             CallStatic(t, op, who) \/ CallCached(t, op, who) \/ CallUncached(t, op, who)
      PROVE  IInv'
  BY <1>1, <1>2, <1>3, CallStaticKept, CallCachedKept, CallUncachedKept
<1>4. ASSUME NEW t \in Task,
             \/ GetsCredential(t) \/ SeeksCredential(t) \/ LacksCredential(t)
             \/ Attempts(t)
      PROVE  IInv'
  BY <1>1, <1>2, <1>4, GetsCredentialKept, SeeksCredentialKept, LacksCredentialKept,
     AttemptsKept
<1>5. CASE TokensAge \/ AttemptsAge \/ UNCHANGED vars
  <2>1. /\ policy' = policy /\ call' = call /\ cred' = cred /\ entries' = entries
        /\ pc' = pc /\ req' = req /\ got' = got /\ stage' = stage
    BY <1>5 DEF TokensAge, AttemptsAge, TC!Tick, TR!Tick, vars, cacheVars, transportVars
  <2>2. QED
    BY <1>1, <2>1 DEF IInv, Shape, OnTasks, Stored, Fine, Fits
<1>6. QED BY <1>1, <1>3, <1>4, <1>5 DEF Next

\* The invariant holds throughout, for any calls, callers and policies.
THEOREM Invariance == Spec => []IInv
<1>1. QED BY InitIInv, NextIInv, PTL DEF Spec

\* CallPath does to the token cache what TokenCache allows, so everything that holds
\* of the cache for all callers of get_or_fetch holds of it under tool calls.
THEOREM CacheImplemented == Spec => CacheSpec
<1>1. Init => TC!Init
  BY DEF Init
<1>2. IInv /\ [Next]_vars => [TC!Next]_cacheVars
  BY CacheStep DEF IInv, Shape
<1>3. IInv /\ [Next]_vars => [TC!Next]_TC!vars
  BY <1>2 DEF cacheVars, TC!vars
<1>4. QED BY <1>1, <1>3, Invariance, PTL DEF Spec, CacheSpec, TC!Spec

\* Every step is a step of the transport or leaves it alone.
LEMMA TransportStep == IInv /\ [Next]_vars => [TR!Next]_TR!vars
<1>1. SUFFICES ASSUME IInv, [Next]_vars PROVE TR!Next \/ UNCHANGED transportVars
  BY DEF transportVars, TR!vars
<1>2. ASSUME NEW t \in Task, NEW c \in Calls, NEW credential, Sends(t, c, credential)
      PROVE  TR!Next \/ UNCHANGED transportVars
  <2>1. c.op.effect \in TR!Effect
    BY EffectAssumption DEF Calls
  <2>2. QED BY <1>2, <2>1 DEF Sends, TR!Next, TR!TaskStep
<1>3. ASSUME NEW t \in Task, NEW op \in Operation, NEW who \in Principal,
             CallStatic(t, op, who) \/ CallCached(t, op, who)
      PROVE  TR!Next \/ UNCHANGED transportVars
  <2>1. [op |-> op, who |-> who] \in Calls
    BY DEF Calls
  <2>2. QED BY <1>2, <1>3, <2>1 DEF CallStatic, CallCached
<1>4. ASSUME NEW t \in Task, GetsCredential(t)
      PROVE  TR!Next \/ UNCHANGED transportVars
  <2>1. pc[t] # "idle"
    BY <1>4 DEF GetsCredential, TC!ResumeHit, TC!FetchReturns
  <2>2. call[t] \in Calls
    BY <1>1, <2>1, SeekingFacts
  <2>3. QED BY <1>2, <1>4, <2>2 DEF GetsCredential
<1>5. ASSUME NEW t \in Task, Attempts(t) PROVE TR!Next
  BY <1>5 DEF Attempts, TR!Next, TR!TaskStep
<1>6. CASE AttemptsAge
  BY <1>6 DEF AttemptsAge, TR!Next
<1>7. QED
  BY <1>1, <1>3, <1>4, <1>5, <1>6
     DEF Next, vars, CallUncached, SeeksCredential, LacksCredential, TokensAge

\* CallPath does to the transport what Transport allows.
THEOREM TransportImplemented == Spec => TransportSpec
<1>1. Init => TR!Init
  BY DEF Init
<1>2. QED BY <1>1, TransportStep, Invariance, PTL DEF Spec, TransportSpec, TR!Spec

\* A task seeks a credential or sends, never both (mcp.py:107-115).
THEOREM OnePlace == Spec => []OnePlaceAtATime
<1>1. IInv => OnePlaceAtATime
  BY DEF IInv, Fine, OnePlaceAtATime
<1>2. QED BY <1>1, Invariance, PTL

\* The token on the wire fits the call, whoever's call it was fetched for
\* (outbound.py:138, :195).
THEOREM CredentialsFit == Spec => []CredentialFitsCall
<1>1. IInv => CredentialFitsCall
  <2>1. SUFFICES ASSUME IInv, NEW t \in Task, stage[t] # "idle", Dynamic(call[t].op)
                 PROVE  /\ cred[t].upstream = call[t].op.upstream
                        /\ cred[t].carry = Carry(policy, call[t].op)
                        /\ ModeOf[call[t].op.upstream] = "token_exchange" =>
                             cred[t].subject = call[t].who.subject
    BY DEF CredentialFitsCall
  <2>2. CacheKey(cred[t]) = CacheKey(RequestFor(policy, call[t].op, call[t].who))
    BY <2>1 DEF IInv, Fine, Fits
  <2>3. QED BY <2>2 DEF CacheKey, RequestFor
<1>2. QED BY <1>1, Invariance, PTL

\* What evaluate allows is what each matching rule lets through by itself, by a
\* single presented detail for each required one (policy.py:67-78, rar.py:34-55).
LEMMA AllowedIsEntitled ==
  ASSUME NEW p, NEW op, NEW who, Allowed(p, op, who.details)
  PROVE  Entitled(p, op, who)
<1> DEFINE bind == {rule \in p.rules : Matches(op, rule.match) /\ rule.require # {}}
<1>1. \A d : d \in Required(p, op) <=> \E rule \in bind : d \in rule.require
  BY DEF Required, AccumulatedDetails, MatchingRules
<1>2. bind = {} => p.unmatched = "allow"
  BY <1>1 DEF Allowed
<1>3. ASSUME NEW rule \in bind, NEW d \in rule.require
      PROVE  \E q \in who.details : CoversOne(d, q)
  <2>1. d \in Required(p, op)
    BY <1>1
  <2>2. QED BY <2>1 DEF Allowed, Covers
<1>4. ASSUME NEW d, NEW q, CoversOne(d, q)
      PROVE  /\ q.type = d.type
             /\ \A f \in SetFields : d[f] \ q[f] = {}
             /\ d.identifier # NoIdentifier => q.identifier = d.identifier
  BY <1>4 DEF CoversOne
<1>5. QED BY <1>2, <1>3, <1>4 DEF Entitled

\* Every call under way is entitled by the policy in force, for every policy.
THEOREM EntitledOnly == Spec => []OnlyEntitledCalls
<1>1. IInv => OnlyEntitledCalls
  BY AllowedIsEntitled DEF IInv, Fine, OnlyEntitledCalls
<1>2. QED BY <1>1, Invariance, PTL
=============================================================================
