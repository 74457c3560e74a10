--------------------------- MODULE InboundProofs ---------------------------
(***************************************************************************)
(* Whoever calls a tool has been verified, for every number of requests,   *)
(* tokens and keys, every configuration and leeway.                        *)
(*                                                                         *)
(* A request is judged in one step and calls in a later one; what the      *)
(* judgement established has to hold until then (AuthorizedOK), and it     *)
(* does because the config is fixed and keys are never unlearnt.           *)
(***************************************************************************)
EXTENDS Inbound, TLAPS

\* What verify_token has established of the request it let pass.
AuthorizedOK ==
  \A t \in Task :
    stage[t] = "authorized" /\ config.enabled
      => /\ bearer[t].alg \in config.algorithms
         /\ bearer[t].typed /\ bearer[t].ours /\ bearer[t].scoped
         /\ bearer[t].signer = bearer[t].kid
         /\ bearer[t].kid \in known

\* What the request that waits for a key has passed already.
VerifyingOK ==
  \A t \in Task :
    stage[t] = "verifying"
      => HeaderAccepted(bearer[t]) /\ asked[t] = bearer[t].kid /\ config.enabled

\* Discovery goes on only from a location that holds nothing.
SearchedOK == \A l \in Location : l < location => offers[l] = "nothing"

IInv ==
  /\ TypeOK
  /\ VerifyingOK
  /\ AuthorizedOK
  /\ CallersAreVerified
  /\ LocalOnlyWhenOpen
  /\ SearchedOK
  /\ WellFormedMetadataIsFound

RequestsOK == VerifyingOK /\ AuthorizedOK /\ CallersAreVerified /\ LocalOnlyWhenOpen
ServerOK == SearchedOK /\ WellFormedMetadataIsFound

(***************************************************************************)
(* The initial state                                                       *)
(***************************************************************************)

\* No request, no key, and a server that is down.
LEMMA InitIInv == Init => IInv
<1> SUFFICES ASSUME Init PROVE IInv
  OBVIOUS
<1>1. TypeOK
  BY InboundAssumption DEF Init, KeysInit, TypeOK, Location, Without
<1>2. VerifyingOK /\ AuthorizedOK /\ CallersAreVerified /\ LocalOnlyWhenOpen
  BY DEF Init, VerifyingOK, AuthorizedOK, CallersAreVerified, LocalOnlyWhenOpen, Without
<1>3. SearchedOK /\ WellFormedMetadataIsFound
  BY DEF Init, SearchedOK, WellFormedMetadataIsFound, Location
<1>4. QED BY <1>1, <1>2, <1>3 DEF IInv

(***************************************************************************)
(* Steps of the server                                                     *)
(***************************************************************************)

\* What concerns requests stays while they and the keys do.
LEMMA RequestsStay ==
  ASSUME RequestsOK, UNCHANGED <<keyVars, requestVars, config>>
  PROVE  RequestsOK'
  BY DEF RequestsOK, VerifyingOK, AuthorizedOK, CallersAreVerified, LocalOnlyWhenOpen,
         HeaderAccepted, Genuine, Parses, keyVars, requestVars

\* Startup, discovery and shutdown.
LEMMA ServerSteps ==
  ASSUME IInv, Starts \/ Discovers \/ TriesNext \/ Trips \/ ShutsDown
  PROVE  IInv'
<1>1. UNCHANGED <<keyVars, requestVars, config, offers, now>>
  BY DEF Starts, Discovers, TriesNext, Trips, ShutsDown
<1>2. RequestsOK'
  BY <1>1, RequestsStay DEF IInv, RequestsOK
<1>3. phase' \in {"down", "discovering", "up", "failed", "closed"} /\ location' \in Location
  BY DEF IInv, TypeOK, Location, Starts, Discovers, TriesNext, Trips, ShutsDown
<1>4. TypeOK'
  BY <1>1, <1>3 DEF IInv, TypeOK, keyVars, requestVars
<1>5. CASE Starts \/ Discovers \/ ShutsDown
  <2>1. location' = location /\ phase' # "failed"
    BY <1>5 DEF Starts, Discovers, ShutsDown
  <2>2. QED
    BY <1>1, <1>2, <1>4, <2>1
    DEF IInv, RequestsOK, SearchedOK, WellFormedMetadataIsFound
<1>6. CASE Trips
  <2>1. location' = location /\ offers[location] = "garbled" /\ location \in Location
    BY <1>6 DEF IInv, TypeOK, Trips
  <2>2. QED
    BY <1>1, <1>2, <1>4, <2>1
    DEF IInv, RequestsOK, SearchedOK, WellFormedMetadataIsFound
<1>7. CASE TriesNext
  <2>1. location \in {1, 2} /\ offers[location] = "nothing"
    BY <1>7 DEF IInv, TypeOK, TriesNext, Location
  <2>2. CASE location = 1
    <3>1. location' = 2 /\ phase' = phase /\ phase = "discovering"
      BY <1>7, <2>2 DEF TriesNext, Location
    <3>2. SearchedOK' /\ WellFormedMetadataIsFound'
      BY <1>1, <2>1, <2>2, <3>1 DEF SearchedOK, WellFormedMetadataIsFound, Location
    <3>3. QED BY <1>2, <1>4, <3>2 DEF IInv, RequestsOK
  <2>3. CASE location = 2
    <3>1. location' = 2
      BY <1>7, <2>3 DEF TriesNext, Location
    <3>2. \A l \in Location : offers[l] = "nothing"
      BY <2>1, <2>3 DEF IInv, SearchedOK, Location
    <3>3. SearchedOK' /\ WellFormedMetadataIsFound'
      BY <1>1, <3>2 DEF SearchedOK, WellFormedMetadataIsFound
    <3>4. QED BY <1>2, <1>4, <3>3 DEF IInv, RequestsOK
  <2>4. QED BY <2>1, <2>2, <2>3
<1>8. QED BY <1>5, <1>6, <1>7

(***************************************************************************)
(* Steps of a request                                                      *)
(***************************************************************************)

\* The server stays as it is while requests go on.
LEMMA ServerStays ==
  ASSUME ServerOK, UNCHANGED serverVars
  PROVE  ServerOK'
  BY DEF ServerOK, SearchedOK, WellFormedMetadataIsFound, serverVars

\* Keys are never unlearnt.
LEMMA KeysGrow ==
  ASSUME TypeOK, NEW t \in Task, NEW k \in Kid,
         AnswersAtOnce(t, k) \/ Asks(t, k) \/ Answers(t) \/ Crashes(t) \/ UNCHANGED keyVars
  PROVE  /\ known \subseteq known' /\ known' \subseteq Kid
         /\ asked' \in [Task -> Kid \cup {NoKid}]
         /\ got' \in [Task -> [kid : Kid, found : {"key", "unknown", "crashed"}] \cup {NoAnswer}]
         /\ \A u \in Task : u # t => asked'[u] = asked[u]
<1>1. CASE AnswersAtOnce(t, k) \/ Asks(t, k) \/ UNCHANGED keyVars
  BY <1>1 DEF TypeOK, AnswersAtOnce, Asks, Found, keyVars
<1>2. CASE Answers(t) \/ Crashes(t)
  <2>1. asked[t] \in Kid
    BY <1>2 DEF TypeOK, Answers, Crashes
  <2>2. known \subseteq known' /\ known' \subseteq Kid
    BY <1>2 DEF TypeOK, Answers, Crashes, Learns
  <2>3. QED BY <1>2, <2>1, <2>2 DEF TypeOK, Answers, Crashes, Found
<1>3. QED BY <1>1, <1>2

\* What a step of a request has to show of its own task for the invariant to stay.
LEMMA RequestStep ==
  ASSUME IInv, NEW t \in Task, UNCHANGED <<serverVars, now>>,
         known \subseteq known', known' \subseteq Kid,
         asked' \in [Task -> Kid \cup {NoKid}],
         got' \in [Task -> [kid : Kid, found : {"key", "unknown", "crashed"}] \cup {NoAnswer}],
         \A u \in Task : u # t => asked'[u] = asked[u],
         NEW s \in {"idle", "verifying", "authorized"}, NEW b \in Token \cup {NoToken},
         NEW o \in [end : {"none", "refused", "error", "denied", "called"},
                    by : Token \cup {NoToken, Local}],
         stage' = [stage EXCEPT ![t] = s],
         bearer' = [bearer EXCEPT ![t] = b],
         outcome' = [outcome EXCEPT ![t] = o],
         b # NoToken <=> config.enabled /\ s # "idle",
         s = "verifying" => HeaderAccepted(b) /\ asked'[t] = b.kid /\ config.enabled,
         s = "authorized" /\ config.enabled
           => /\ b.alg \in config.algorithms /\ b.typed /\ b.ours /\ b.scoped
              /\ b.signer = b.kid /\ b.kid \in known',
         o.end = "called"
           => IF config.enabled
                THEN o.by \in Token /\ Genuine(o.by) /\ o.by.kid \in known'
                ELSE o.by = Local
  PROVE  IInv'
<1>1. /\ stage'[t] = s /\ bearer'[t] = b /\ outcome'[t] = o
      /\ \A u \in Task : u # t => /\ stage'[u] = stage[u] /\ bearer'[u] = bearer[u]
                                  /\ outcome'[u] = outcome[u]
      /\ config' = config
  BY DEF IInv, TypeOK, serverVars
<1>2. TypeOK'
  <2>1. \A u \in Task : bearer'[u] # NoToken <=> config.enabled /\ stage'[u] # "idle"
    BY <1>1 DEF IInv, TypeOK
  <2>2. QED BY <2>1 DEF IInv, TypeOK, serverVars
<1>3. VerifyingOK'
  BY <1>1 DEF IInv, VerifyingOK, HeaderAccepted
<1>4. AuthorizedOK'
  BY <1>1 DEF IInv, AuthorizedOK
<1>5. CallersAreVerified'
  BY <1>1 DEF IInv, CallersAreVerified, Genuine
<1>6. LocalOnlyWhenOpen'
  BY <1>1, InboundAssumption DEF IInv, LocalOnlyWhenOpen
<1>7. ServerOK'
  BY ServerStays DEF IInv, ServerOK
<1>8. QED BY <1>2, <1>3, <1>4, <1>5, <1>6, <1>7 DEF IInv, ServerOK

\* The middleware's decision about a request whose header was accepted.
LEMMA DecisionStep ==
  ASSUME IInv, NEW t \in Task, UNCHANGED <<serverVars, now>>,
         known \subseteq known', known' \subseteq Kid,
         asked' \in [Task -> Kid \cup {NoKid}],
         got' \in [Task -> [kid : Kid, found : {"key", "unknown", "crashed"}] \cup {NoAnswer}],
         \A u \in Task : u # t => asked'[u] = asked[u],
         NEW token \in Token, HeaderAccepted(token), config.enabled,
         Decides(t, token, Found(known', token.kid))
  PROVE  IInv'
<1>1. CASE Accepts(token, Found(known', token.kid))
  <2>1. token.kid \in known'
    BY <1>1 DEF Accepts, Found
  <2>2. /\ token.alg \in config.algorithms /\ token.typed /\ token.ours /\ token.scoped
        /\ token.signer = token.kid
    BY <1>1 DEF Accepts, Decodes, ClaimsAccepted, HeaderAccepted
  <2>3. token # NoToken
    BY InboundAssumption
  <2>4. /\ stage' = [stage EXCEPT ![t] = "authorized"]
        /\ bearer' = [bearer EXCEPT ![t] = token]
        /\ outcome' = [outcome EXCEPT ![t] = Without("none")]
    BY <1>1 DEF Decides
  <2>5. /\ Without("none") \in [end : {"none", "refused", "error", "denied", "called"},
                                by : Token \cup {NoToken, Local}]
        /\ Without("none").end = "none"
    BY DEF Without
  <2>6. QED BY <2>1, <2>2, <2>3, <2>4, <2>5, RequestStep
<1>2. CASE ~Accepts(token, Found(known', token.kid))
  <2>1. Ends(t, Without("refused"))
    BY <1>2 DEF Decides
  <2>2. /\ Without("refused") \in [end : {"none", "refused", "error", "denied", "called"},
                                   by : Token \cup {NoToken, Local}]
        /\ Without("refused").end = "refused"
    BY DEF Without
  <2>3. QED BY <2>1, <2>2, RequestStep DEF Ends
<1>3. QED BY <1>1, <1>2

\* A request that ends without a call.
LEMMA EndsWithout ==
  ASSUME IInv, NEW t \in Task, UNCHANGED <<serverVars, now>>,
         known \subseteq known', known' \subseteq Kid,
         asked' \in [Task -> Kid \cup {NoKid}],
         got' \in [Task -> [kid : Kid, found : {"key", "unknown", "crashed"}] \cup {NoAnswer}],
         \A u \in Task : u # t => asked'[u] = asked[u],
         NEW end \in {"refused", "error", "denied"}, Ends(t, Without(end))
  PROVE  IInv'
<1>1. /\ Without(end) \in [end : {"none", "refused", "error", "denied", "called"},
                           by : Token \cup {NoToken, Local}]
      /\ Without(end).end = end
  BY DEF Without
<1>2. QED BY <1>1, RequestStep DEF Ends

\* A call as the principal that the request's token stands for.
LEMMA CallStep ==
  ASSUME IInv, NEW t \in Task, Calls(t)
  PROVE  IInv'
<1>1. /\ stage[t] = "authorized"
      /\ UNCHANGED <<keyVars, serverVars, now>>
      /\ known \subseteq known' /\ known' \subseteq Kid
      /\ asked' \in [Task -> Kid \cup {NoKid}]
      /\ got' \in [Task -> [kid : Kid, found : {"key", "unknown", "crashed"}] \cup {NoAnswer}]
      /\ \A u \in Task : u # t => asked'[u] = asked[u]
  BY DEF IInv, TypeOK, Calls, keyVars
<1>2. CASE PrincipalFor(bearer[t]) = NoToken
  <2>1. Ends(t, Without("denied"))
    BY <1>2 DEF Calls
  <2>2. QED BY <1>1, <2>1, EndsWithout
<1>3. CASE PrincipalFor(bearer[t]) # NoToken
  <2> DEFINE p == PrincipalFor(bearer[t])
  <2>1. Ends(t, CalledAs(p))
    BY <1>3 DEF Calls
  <2>2. bearer[t] \in Token \cup {NoToken}
    BY DEF IInv, TypeOK
  <2>3. IF config.enabled
          THEN p \in Token /\ Genuine(p) /\ p.kid \in known'
          ELSE p = Local
    BY <1>1, <1>3, <2>2 DEF IInv, AuthorizedOK, PrincipalFor, Genuine, keyVars
  <2>4. p \in Token \cup {NoToken, Local}
    BY <2>3
  <2>5. /\ CalledAs(p) \in [end : {"none", "refused", "error", "denied", "called"},
                             by : Token \cup {NoToken, Local}]
        /\ CalledAs(p).by = p
    BY <2>4 DEF CalledAs
  <2> HIDE DEF p
  <2>6. QED BY <1>1, <2>1, <2>3, <2>5, RequestStep DEF Ends
<1>4. QED BY <1>2, <1>3

\* Every step keeps the invariant.
LEMMA NextIInv == IInv /\ [Next]_vars => IInv'
<1> SUFFICES ASSUME IInv, [Next]_vars PROVE IInv'
  OBVIOUS
<1>1. CASE Starts \/ Discovers \/ TriesNext \/ Trips \/ ShutsDown
  BY <1>1, ServerSteps
<1>2. CASE Tick
  <2>1. now' \in 0 .. MaxNow /\ UNCHANGED <<keyVars, serverVars, requestVars>>
    BY <1>2, InboundAssumption DEF IInv, TypeOK, Tick
  <2>2. TypeOK'
    BY <2>1 DEF IInv, TypeOK, keyVars, serverVars, requestVars
  <2>3. RequestsOK' /\ ServerOK'
    BY <2>1, RequestsStay, ServerStays DEF IInv, RequestsOK, ServerOK, serverVars
  <2>4. QED BY <2>2, <2>3 DEF IInv, RequestsOK, ServerOK
<1>3. ASSUME NEW t \in Task, ArrivesOpen(t) PROVE IInv'
  <2>1. /\ UNCHANGED <<serverVars, now>> /\ ~config.enabled
        /\ known \subseteq known' /\ known' \subseteq Kid
        /\ asked' \in [Task -> Kid \cup {NoKid}]
        /\ got' \in [Task -> [kid : Kid, found : {"key", "unknown", "crashed"}] \cup {NoAnswer}]
        /\ \A u \in Task : u # t => asked'[u] = asked[u]
    BY <1>3 DEF IInv, TypeOK, ArrivesOpen, keyVars
  <2>2. bearer[t] = NoToken /\ bearer \in [Task -> Token \cup {NoToken}]
    BY <2>1 DEF IInv, TypeOK
  <2>3. /\ stage' = [stage EXCEPT ![t] = "authorized"]
        /\ bearer' = [bearer EXCEPT ![t] = NoToken]
        /\ outcome' = [outcome EXCEPT ![t] = Without("none")]
    BY <1>3, <2>2 DEF ArrivesOpen
  <2>4. /\ Without("none") \in [end : {"none", "refused", "error", "denied", "called"},
                                by : Token \cup {NoToken, Local}]
        /\ Without("none").end = "none"
    BY DEF Without
  <2>5. QED BY <2>1, <2>3, <2>4, RequestStep
<1>4. ASSUME NEW t \in Task, NEW token \in Token,
             ArrivesUnresolved(t, token) \/ ArrivesRefused(t, token)
      PROVE  IInv'
  <2>1. /\ UNCHANGED <<keyVars, serverVars, now>>
        /\ Ends(t, Without("error")) \/ Ends(t, Without("refused"))
    BY <1>4 DEF ArrivesUnresolved, ArrivesRefused
  <2>2. /\ known \subseteq known' /\ known' \subseteq Kid
        /\ asked' \in [Task -> Kid \cup {NoKid}]
        /\ got' \in [Task -> [kid : Kid, found : {"key", "unknown", "crashed"}] \cup {NoAnswer}]
        /\ \A u \in Task : u # t => asked'[u] = asked[u]
    BY <2>1 DEF IInv, TypeOK, keyVars
  <2>3. QED BY <2>1, <2>2, EndsWithout
<1>5. ASSUME NEW t \in Task, NEW token \in Token, ArrivesUnhashable(t, token) PROVE IInv'
  <2>1. /\ UNCHANGED <<keyVars, serverVars, now>> /\ Ends(t, FailedOver(token))
        /\ FailedOver(token) \in [end : {"none", "refused", "error", "denied", "called"},
                                  by : Token \cup {NoToken, Local}]
        /\ FailedOver(token).end = "error"
    BY <1>5 DEF ArrivesUnhashable, FailedOver
  <2>2. /\ known \subseteq known' /\ known' \subseteq Kid
        /\ asked' \in [Task -> Kid \cup {NoKid}]
        /\ got' \in [Task -> [kid : Kid, found : {"key", "unknown", "crashed"}] \cup {NoAnswer}]
        /\ \A u \in Task : u # t => asked'[u] = asked[u]
    BY <2>1 DEF IInv, TypeOK, keyVars
  <2>3. QED BY <2>1, <2>2, RequestStep DEF Ends
<1>6. ASSUME NEW t \in Task, NEW token \in Token, ArrivesKeyed(t, token) PROVE IInv'
  <2>1. /\ HeaderAccepted(token) /\ config.enabled /\ token.kid \in Kid
        /\ AnswersAtOnce(t, token.kid) /\ UNCHANGED <<serverVars, now>>
        /\ Decides(t, token, Found(known, token.kid))
    BY <1>6 DEF ArrivesKeyed, HeaderAccepted
  <2>2. known' = known
    BY <2>1 DEF AnswersAtOnce
  <2>3. /\ known \subseteq known' /\ known' \subseteq Kid
        /\ asked' \in [Task -> Kid \cup {NoKid}]
        /\ got' \in [Task -> [kid : Kid, found : {"key", "unknown", "crashed"}] \cup {NoAnswer}]
        /\ \A u \in Task : u # t => asked'[u] = asked[u]
    BY <2>1, KeysGrow DEF IInv
  <2>4. Decides(t, token, Found(known', token.kid))
    BY <2>1, <2>2
  <2>5. QED BY <2>1, <2>3, <2>4, DecisionStep
<1>7. ASSUME NEW t \in Task, NEW token \in Token, ArrivesUnkeyed(t, token) PROVE IInv'
  <2>1. /\ HeaderAccepted(token) /\ config.enabled /\ token.kid \in Kid
        /\ Asks(t, token.kid) /\ UNCHANGED <<serverVars, now>>
        /\ stage' = [stage EXCEPT ![t] = "verifying"]
        /\ bearer' = [bearer EXCEPT ![t] = token]
        /\ outcome' = [outcome EXCEPT ![t] = Without("none")]
    BY <1>7 DEF ArrivesUnkeyed, HeaderAccepted
  <2>2. /\ known \subseteq known' /\ known' \subseteq Kid
        /\ asked' \in [Task -> Kid \cup {NoKid}]
        /\ got' \in [Task -> [kid : Kid, found : {"key", "unknown", "crashed"}] \cup {NoAnswer}]
        /\ \A u \in Task : u # t => asked'[u] = asked[u]
    BY <2>1, KeysGrow DEF IInv
  <2>3. asked'[t] = token.kid /\ token # NoToken
    BY <2>1, InboundAssumption DEF IInv, TypeOK, Asks
  <2>4. /\ Without("none") \in [end : {"none", "refused", "error", "denied", "called"},
                                by : Token \cup {NoToken, Local}]
        /\ Without("none").end = "none"
    BY DEF Without
  <2>5. QED BY <2>1, <2>2, <2>3, <2>4, RequestStep
<1>8. ASSUME NEW t \in Task, Resumes(t) PROVE IInv'
  <2>1. /\ HeaderAccepted(bearer[t]) /\ asked[t] = bearer[t].kid /\ config.enabled
        /\ bearer[t].kid \in Kid
    BY <1>8 DEF IInv, VerifyingOK, Resumes, HeaderAccepted
  <2>2. bearer[t] \in Token
    BY <1>8, <2>1 DEF IInv, TypeOK, Resumes
  <2>3. /\ known \subseteq known' /\ known' \subseteq Kid
        /\ asked' \in [Task -> Kid \cup {NoKid}]
        /\ got' \in [Task -> [kid : Kid, found : {"key", "unknown", "crashed"}] \cup {NoAnswer}]
        /\ \A u \in Task : u # t => asked'[u] = asked[u]
    BY <1>8, <2>1, KeysGrow DEF IInv, Resumes
  <2>4. Decides(t, bearer[t], Found(known', bearer[t].kid)) /\ UNCHANGED <<serverVars, now>>
    BY <1>8, <2>1 DEF Resumes
  <2>5. QED BY <2>1, <2>2, <2>3, <2>4, DecisionStep
<1>9. ASSUME NEW t \in Task, ResumesCrashed(t) PROVE IInv'
  <2>1. asked[t] \in Kid
    BY <1>9 DEF IInv, VerifyingOK, ResumesCrashed, HeaderAccepted
  <2>2. /\ known \subseteq known' /\ known' \subseteq Kid
        /\ asked' \in [Task -> Kid \cup {NoKid}]
        /\ got' \in [Task -> [kid : Kid, found : {"key", "unknown", "crashed"}] \cup {NoAnswer}]
        /\ \A u \in Task : u # t => asked'[u] = asked[u]
    BY <1>9, <2>1, KeysGrow DEF IInv, ResumesCrashed
  <2>3. QED BY <1>9, <2>2, EndsWithout DEF ResumesCrashed
<1>10. ASSUME NEW t \in Task, SdkRefuses(t) PROVE IInv'
  <2>1. /\ UNCHANGED <<keyVars, serverVars, now>> /\ Ends(t, Without("refused"))
    BY <1>10 DEF SdkRefuses
  <2>2. /\ known \subseteq known' /\ known' \subseteq Kid
        /\ asked' \in [Task -> Kid \cup {NoKid}]
        /\ got' \in [Task -> [kid : Kid, found : {"key", "unknown", "crashed"}] \cup {NoAnswer}]
        /\ \A u \in Task : u # t => asked'[u] = asked[u]
    BY <2>1 DEF IInv, TypeOK, keyVars
  <2>3. QED BY <2>1, <2>2, EndsWithout
<1>11. CASE UNCHANGED vars
  <2>1. UNCHANGED <<keyVars, serverVars, requestVars, now, config>>
    BY <1>11 DEF vars, serverVars
  <2>2. TypeOK'
    BY <2>1 DEF IInv, TypeOK, keyVars, serverVars, requestVars
  <2>3. RequestsOK' /\ ServerOK'
    BY <2>1, RequestsStay, ServerStays DEF IInv, RequestsOK, ServerOK
  <2>4. QED BY <2>2, <2>3 DEF IInv, RequestsOK, ServerOK
<1>12. QED
  BY <1>1, <1>2, <1>3, <1>4, <1>5, <1>6, <1>7, <1>8, <1>9, <1>10, <1>11, CallStep DEF Next

(***************************************************************************)
(* Theorems                                                                *)
(***************************************************************************)

\* The invariant holds throughout.
LEMMA Invariance == Spec => []IInv
  BY InitIInv, NextIInv, PTL DEF Spec

\* Type correctness of the inbound side (server/http.py, auth/inbound.py).
THEOREM TypeCorrect == Spec => []TypeOK
<1>1. IInv => TypeOK
  BY DEF IInv
<1>2. QED BY <1>1, Invariance, PTL

\* With inbound auth on, whoever calls a tool is the principal of a genuine token
\* signed with a key the server has learnt (inbound.py:146-196, http.py:152-171).
THEOREM CallersVerified == Spec => []CallersAreVerified
<1>1. IInv => CallersAreVerified
  BY DEF IInv
<1>2. QED BY <1>1, Invariance, PTL

\* Nothing that goes wrong with a token makes its bearer the local principal.
THEOREM NoFallbackToLocal == Spec => []LocalOnlyWhenOpen
<1>1. IInv => LocalOnlyWhenOpen
  BY DEF IInv
<1>2. QED BY <1>1, Invariance, PTL

\* A server that failed to start found no metadata, or garbled metadata.
THEOREM MetadataFound == Spec => []WellFormedMetadataIsFound
<1>1. IInv => WellFormedMetadataIsFound
  BY DEF IInv
<1>2. QED BY <1>1, Invariance, PTL

\* The way to an error: a request that comes while there is no verifier, that the key
\* cache crashes under, or whose token has an alg that is no name.
LEMMA ErrorStep ==
  ASSUME IInv, [Next]_vars, NEW t \in Task,
         outcome'[t].end = "error", outcome'[t] # outcome[t]
  PROVE  \/ phase # "up"
         \/ got'[t] # NoAnswer /\ got'[t].found = "crashed"
         \/ outcome'[t].by \in Token /\ outcome'[t].by.alg = Unhashable
<1>1. ASSUME NEW u \in Task, NEW token, NEW found, Decides(u, token, found)
      PROVE  FALSE
  BY <1>1 DEF IInv, TypeOK, Decides, Ends, Without
<1>2. ASSUME NEW u \in Task, NEW result, result.end # "error", Ends(u, result)
      PROVE  FALSE
  BY <1>2 DEF IInv, TypeOK, Ends
<1>3. ASSUME UNCHANGED outcome
      PROVE  FALSE
  BY <1>3
<1>4. ASSUME NEW u \in Task, NEW token \in Token, ArrivesUnresolved(u, token)
      PROVE  phase # "up"
  BY <1>4 DEF ArrivesUnresolved, HasVerifier
<1>5. ASSUME NEW u \in Task, ResumesCrashed(u)
      PROVE  got'[t] # NoAnswer /\ got'[t].found = "crashed"
  <2>1. u = t
    BY <1>5 DEF IInv, TypeOK, ResumesCrashed, Ends
  <2>2. asked[t] \in Kid /\ got'[t] = [kid |-> asked[t], found |-> "crashed"]
    BY <1>5, <2>1 DEF IInv, TypeOK, ResumesCrashed, Crashes
  <2>3. QED BY <2>2, InboundAssumption
<1>6. ASSUME NEW u \in Task,
             ArrivesOpen(u) \/ \E token \in Token : ArrivesUnkeyed(u, token)
      PROVE  FALSE
  <2>1. outcome' = [outcome EXCEPT ![u] = Without("none")] /\ Without("none").end = "none"
    BY <1>6 DEF ArrivesOpen, ArrivesUnkeyed, Without
  <2>2. QED BY <2>1 DEF IInv, TypeOK
<1>7. ASSUME NEW u \in Task,
             SdkRefuses(u) \/ \E token \in Token : ArrivesRefused(u, token)
      PROVE  FALSE
  <2>1. Ends(u, Without("refused"))
    BY <1>7 DEF SdkRefuses, ArrivesRefused
  <2>2. QED BY <1>2, <2>1 DEF Without
<1>8. ASSUME NEW u \in Task, Calls(u)
      PROVE  FALSE
  <2>1. \/ Ends(u, Without("denied"))
        \/ Ends(u, CalledAs(PrincipalFor(bearer[u])))
    BY <1>8 DEF Calls
  <2>2. QED BY <1>2, <2>1 DEF Without, CalledAs
<1>9. ASSUME NEW u \in Task,
             Resumes(u) \/ \E token \in Token : ArrivesKeyed(u, token)
      PROVE  FALSE
  BY <1>1, <1>9 DEF Resumes, ArrivesKeyed
<1>10. ASSUME NEW u \in Task, NEW token \in Token, ArrivesUnhashable(u, token)
      PROVE  outcome'[t].by \in Token /\ outcome'[t].by.alg = Unhashable
  BY <1>10 DEF IInv, TypeOK, ArrivesUnhashable, Ends, FailedOver
<1>11. CASE Starts \/ Discovers \/ TriesNext \/ Trips \/ ShutsDown \/ Tick \/ UNCHANGED vars
  <2>1. UNCHANGED outcome
    BY <1>11 DEF vars, requestVars, Starts, Discovers, TriesNext, Trips, ShutsDown, Tick
  <2>2. QED BY <1>3, <2>1
<1>12. QED
  BY <1>4, <1>5, <1>6, <1>7, <1>8, <1>9, <1>10, <1>11 DEF Next

\* A request fails with a 500 only while the server does not serve, when the key
\* cache crashed under it, or over a token whose alg is a list or an object
\* (http.py:74-79, inbound.py:88-100, 148).
THEOREM ErrorsAreOurs == Spec => ErrorsAreTheServers
<1>1. IInv /\ [Next]_vars =>
        [\A t \in Task :
           outcome'[t].end = "error" /\ outcome'[t] # outcome[t]
             => \/ phase # "up"
                \/ got'[t] # NoAnswer /\ got'[t].found = "crashed"
                \/ outcome'[t].by \in Token /\ outcome'[t].by.alg = Unhashable]_vars
  BY ErrorStep
<1>2. QED BY <1>1, Invariance, PTL DEF Spec, ErrorsAreTheServers
=============================================================================
