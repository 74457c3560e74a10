----------------------------- MODULE CallPath -----------------------------
(***************************************************************************)
(* A tool call from end to end: ToolInvoker.call (server/mcp.py) decides   *)
(* by the policy, the credential sources (auth/outbound.py) get a token    *)
(* through the shared TokenCache, and the transport sends the request.     *)
(*                                                                         *)
(* The module composes TokenCache and Transport: every step is a step of   *)
(* one of them, or one of each where a credential arrives and the first    *)
(* attempt goes out without a suspension in between.                       *)
(***************************************************************************)
EXTENDS Policy, AsyncioLock

CONSTANTS
  Task,         \* tool calls under way
  Operation,    \* the toolset: records with id, tags, upstream, effect, sensitivity
  Principal,    \* callers: records with the details they present and a subject token
  PolicyConfig, \* the policies a run starts with: records with rules and unmatched
  ModeOf,       \* outbound mode by upstream: static, client_credentials, token_exchange
  NoSubject, NoCredential,
  LockId, Ttl, MaxNow, NoLock, NoEntry, NoRequest, NoAnswer,         \* TokenCache
  Timeout, Operations, MaxTotal, RetryAfter, RetryCap, NoCall        \* Transport

ASSUME NoCallAssumption == NoCall \notin [op : Operation, who : Principal]

VARIABLES
  policy,       \* PolicyEngine._policy
  call,         \* the operation and the principal of a task's call
  cred,         \* the credential in the request the task's transport sends
  now, entries, locks, lock, pc, req, mine, got,
  effect, stage, attempt, spent, operation, clock, answered, applied

cacheVars == <<now, entries, locks, lock, pc, req, mine, got>>
transportVars == <<effect, stage, attempt, spent, operation, clock, answered, applied>>
vars == <<policy, call, cred, cacheVars, transportVars>>

(***************************************************************************)
(* Credential sources                                                      *)
(***************************************************************************)

\* What a source's fetch closure sends to the IdP: the carried details and, for
\* token exchange only, the caller's subject token (outbound.py:140, :197).
RequestFor(p, op, who) ==
  [upstream |-> op.upstream,
   carry    |-> Carry(p, op),
   subject  |-> IF ModeOf[op.upstream] = "token_exchange" THEN who.subject ELSE NoSubject]

\* Only calls the policy allows get that far, and only dynamic sources ask.
Dynamic(op) == ModeOf[op.upstream] # "static"

Reaching(p) ==
  {c \in [op : Operation, who : Principal] :
     Dynamic(c.op) /\ Allowed(p, c.op, c.who.details)}

Request == UNION {{RequestFor(p, c.op, c.who) : c \in Reaching(p)} : p \in PolicyConfig}

\* Wrong on purpose: one token for all the details an upstream may be sent.
KeyWithoutCarry(r) ==
  [mode    |-> ModeOf[r.upstream], upstream |-> r.upstream, subject |-> r.subject]

\* The cache key (outbound.py:138, :195).  hash() is taken to tell values apart;
\* scopes are an upstream's own, so the upstream stands for them.
CacheKey(r) ==
  [mode    |-> ModeOf[r.upstream], upstream |-> r.upstream,
   subject |-> r.subject,          carry    |-> r.carry]

KeyOf == [r \in Request |-> CacheKey(r)]

Key == {CacheKey(r) : r \in Request}

TC == INSTANCE TokenCache
TR == INSTANCE Transport

ASSUME EffectAssumption == \A op \in Operation : op.effect \in TR!Effect

Init ==
  /\ policy \in PolicyConfig
  /\ call = [t \in Task |-> NoCall]
  /\ cred = [t \in Task |-> NoCredential]
  /\ TC!Init
  /\ TR!Init

(***************************************************************************)
(* Actions                                                                 *)
(***************************************************************************)

\* The call ends, with or without a result.
Forgets(t) ==
  /\ call' = [call EXCEPT ![t] = NoCall]
  /\ cred' = [cred EXCEPT ![t] = NoCredential]

\* The credential is there: the transport builds the request and sends it, or the
\* arguments do not make one (RequestBuildError) and the call ends.
Sends(t, c, credential) ==
  \/ /\ TR!Start(t, c.op.effect)
     /\ call' = [call EXCEPT ![t] = c]
     /\ cred' = [cred EXCEPT ![t] = credential]
  \/ /\ Forgets(t)
     /\ UNCHANGED transportVars

\* ToolInvoker.call up to the credential.  A call of an unknown tool, with invalid
\* arguments or denied by the policy is answered on the spot and changes nothing.
Accepts(t, op, who) ==
  /\ call[t] = NoCall
  /\ Allowed(policy, op, who.details)
  /\ UNCHANGED policy

\* Static credentials were resolved at startup.
CallStatic(t, op, who) ==
  /\ ~Dynamic(op)
  /\ Accepts(t, op, who)
  /\ Sends(t, [op |-> op, who |-> who], NoCredential)
  /\ UNCHANGED cacheVars

\* The cache has a token: the request goes out in the same step.
CallCached(t, op, who) ==
  /\ Dynamic(op)
  /\ Accepts(t, op, who)
  /\ TC!Hit(t, RequestFor(policy, op, who))
  /\ Sends(t, [op |-> op, who |-> who], got'[t].token)

\* It has none: the task fetches, or waits for the key's lock.
CallUncached(t, op, who) ==
  /\ Dynamic(op)
  /\ Accepts(t, op, who)
  /\ TC!Miss(t, RequestFor(policy, op, who))
  /\ call' = [call EXCEPT ![t] = [op |-> op, who |-> who]]
  /\ UNCHANGED <<cred, transportVars>>

\* The token arrives, from the predecessor's entry or from the IdP.
GetsCredential(t) ==
  /\ \/ TC!ResumeHit(t)
     \/ \E ttl \in Ttl : TC!FetchReturns(t, ttl)
  /\ Sends(t, call[t], got'[t].token)
  /\ UNCHANGED policy

\* The task goes on waiting for one.
SeeksCredential(t) ==
  /\ TC!ResumeMiss(t) \/ TC!Cancel(t)
  /\ UNCHANGED <<policy, call, cred, transportVars>>

\* It gets none: the call ends without having reached the upstream.
LacksCredential(t) ==
  /\ TC!FetchFails(t) \/ TC!Aborts(t)
  /\ Forgets(t)
  /\ UNCHANGED <<policy, transportVars>>

\* The transport's own steps.
Attempts(t) ==
  /\ \/ TR!Applies(t)
     \/ TR!Proceeds(t)
     \/ \E s \in TR!Status : TR!Responds(t, s)
     \/ TR!TimesOut(t)
     \/ TR!Breaks(t)
     \/ TR!Cancelled(t)
     \/ TR!Wakes(t)
  /\ IF stage'[t] = "idle" THEN Forgets(t) ELSE UNCHANGED <<call, cred>>
  /\ UNCHANGED <<policy, cacheVars>>

TokensAge == TC!Tick /\ UNCHANGED <<policy, call, cred, transportVars>>

AttemptsAge == TR!Tick /\ UNCHANGED <<policy, call, cred, cacheVars>>

Next ==
  \/ \E t \in Task, op \in Operation, who \in Principal : CallStatic(t, op, who)
  \/ \E t \in Task, op \in Operation, who \in Principal : CallCached(t, op, who)
  \/ \E t \in Task, op \in Operation, who \in Principal : CallUncached(t, op, who)
  \/ \E t \in Task : GetsCredential(t)
  \/ \E t \in Task : SeeksCredential(t)
  \/ \E t \in Task : LacksCredential(t)
  \/ \E t \in Task : Attempts(t)
  \/ TokensAge
  \/ AttemptsAge

Spec == Init /\ [][Next]_vars

(***************************************************************************)
(* Properties                                                              *)
(***************************************************************************)

\* Every matching rule lets the call through by itself: rules accumulate, and no
\* two presented details add up to one that is required (policy.py:67-78).
Entitled(p, op, who) ==
  LET bind == {rule \in p.rules : Matches(op, rule.match) /\ rule.require # {}}
  IN  /\ bind = {} => p.unmatched = "allow"
      /\ \A rule \in bind : \A d \in rule.require :
           \E q \in who.details :
             /\ q.type = d.type
             /\ \A f \in SetFields : d[f] \ q[f] = {}
             /\ d.identifier # NoIdentifier => q.identifier = d.identifier

\* A call under way, credential wait and retries included, is one its caller is
\* entitled to by the policy in force.
OnlyEntitledCalls ==
  \A t \in Task : call[t] # NoCall => Entitled(policy, call[t].op, call[t].who)

\* The token on the wire was minted for this upstream and exactly the details the
\* policy has this operation carry and, under token exchange, for this caller's
\* subject token, although another call of another caller may have fetched it.
CredentialFitsCall ==
  \A t \in Task :
    stage[t] # "idle" /\ Dynamic(call[t].op) =>
      /\ cred[t].upstream = call[t].op.upstream
      /\ cred[t].carry = Carry(policy, call[t].op)
      /\ ModeOf[call[t].op.upstream] = "token_exchange" =>
           cred[t].subject = call[t].who.subject

\* A task is in one place: seeking a credential or sending, never both, and only
\* on behalf of a call.
OnePlaceAtATime ==
  \A t \in Task :
    /\ pc[t] # "idle" => call[t] # NoCall /\ stage[t] = "idle"
    /\ stage[t] # "idle" => call[t] # NoCall /\ pc[t] = "idle"
    /\ call[t] # NoCall => pc[t] # "idle" \/ stage[t] # "idle"

\* The composition lets the cache and the transport do only what their own
\* specifications allow, so what holds of those holds here.
CacheSpec == TC!Spec
TransportSpec == TR!Spec
=============================================================================
