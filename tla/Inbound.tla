------------------------------ MODULE Inbound ------------------------------
(***************************************************************************)
(* The HTTP server's inbound side (server/http.py, auth/inbound.py,        *)
(* auth/principal.py): resolving the verifier when the server starts, and  *)
(* a request's way from its bearer token to the principal that calls the   *)
(* tool.                                                                   *)
(*                                                                         *)
(* The key cache is taken for the service it implements (KeyService): a    *)
(* request suspends in it while other requests run, time passes or the     *)
(* server shuts down.  PyJWT, the mcp SDK's middleware and the IdP's       *)
(* metadata are external.                                                  *)
(***************************************************************************)
EXTENDS KeyService, Naturals

CONSTANTS
  Token,      \* the bearer tokens requests carry
  Config,     \* the configurations of auth.inbound
  Leeway,     \* leeway_s
  MaxNow,     \* bound: how far the wall clock runs
  NoToken, Local

\* A header's alg that is a JSON list or object, and so in no frozenset of names.
Unhashable == "a list or an object"

ASSUME InboundAssumption ==
  /\ Leeway \in Nat /\ MaxNow \in Nat
  /\ \A c \in Config : "none" \notin c.algorithms /\ Unhashable \notin c.algorithms
  /\ NoToken \notin Token /\ Local \notin Token /\ Local # NoToken
  /\ NoAnswer \notin [kid : Kid, found : {"key", "unknown", "crashed"}]

\* Where discover_jwks_uri looks, in this order: RFC 8414, then OpenID Connect.
Location == 1 .. 2

\* What the IdP has there: metadata naming a jwks_uri; nothing (no connection, a
\* status other than 200, no jwks_uri); or a 200 whose body is not a JSON object.
Offer == {"named", "nothing", "garbled"}

VARIABLES
  config,   \* config.auth.inbound
  offers,   \* what the IdP's locations hold
  phase,    \* of the server: down, discovering, up, failed or closed
  location, \* the location discovery asks
  now,      \* the wall clock
  bearer,   \* the token of the request a task handles
  stage,    \* idle, verifying (suspended in key_for) or authorized
  outcome   \* what the task's last request came to

serverVars == <<config, offers, phase, location>>
requestVars == <<bearer, stage, outcome>>
vars == <<keyVars, serverVars, requestVars, now>>

\* A request that came to no call, one that calls a tool as a principal, and one that
\* fails over its own token.
Without(end) == [end |-> end, by |-> NoToken]
CalledAs(principal) == [end |-> "called", by |-> principal]
FailedOver(token) == [end |-> "error", by |-> token]

Init ==
  /\ KeysInit
  /\ config \in Config
  /\ offers \in [Location -> Offer]
  /\ phase = "down"
  /\ location = 1
  /\ now = 0
  /\ bearer = [t \in Task |-> NoToken]
  /\ stage = [t \in Task |-> "idle"]
  /\ outcome = [t \in Task |-> Without("none")]

(***************************************************************************)
(* Helpers                                                                 *)
(***************************************************************************)

\* What verify_token asks of the unverified header before it looks for a key.
HeaderAccepted(token) ==
  /\ token.alg \in config.algorithms \ {"none"}
  /\ token.typed
  /\ token.kid \in Kid

\* PyJWT's checks: the JWK fits the algorithm and made the signature, the issuer
\* and audience are ours, and exp is not past by leeway_s or more.
Decodes(token) ==
  /\ token.alg = "RS256"
  /\ token.signer = token.kid
  /\ token.ours
  /\ now < token.exp + Leeway

\* A claim that is there, null excepted, is a list; the required scopes are granted.
ClaimsAccepted(token) ==
  /\ token.details # "not a list"
  /\ token.scoped

\* Wrong on purpose: nobody asks whether there is a key.
AcceptsUnkeyed(token, found) == Decodes(token) /\ ClaimsAccepted(token)

\* verify_token after key_for has returned.
Accepts(token, found) ==
  /\ found = "key"
  /\ Decodes(token)
  /\ ClaimsAccepted(token)

\* parse_authorization_details: null and a list with a malformed entry are no
\* details; a claim that is missing is an empty list.
Parses(token) == token.details \in {"absent", "well-formed"}

\* Wrong on purpose: who has no principal of his own is the local one.
PrincipalOrLocal(token) ==
  IF config.enabled /\ token # NoToken /\ Parses(token) THEN token ELSE Local

\* _principal_for_request: the local principal where nobody is verified, the
\* token's own where it can be built, and none otherwise.
PrincipalFor(token) ==
  CASE ~config.enabled -> Local
    [] config.enabled /\ token # NoToken /\ Parses(token) -> token
    [] OTHER -> NoToken

\* Wrong on purpose: the request's token stays behind.
EndsHolding(t, result) ==
  /\ stage' = [stage EXCEPT ![t] = "idle"]
  /\ outcome' = [outcome EXCEPT ![t] = result]
  /\ UNCHANGED bearer

Ends(t, result) ==
  /\ stage' = [stage EXCEPT ![t] = "idle"]
  /\ bearer' = [bearer EXCEPT ![t] = NoToken]
  /\ outcome' = [outcome EXCEPT ![t] = result]

\* Wrong on purpose: PyJWT's exceptions escape.
DecidesRaising(t, token, found) ==
  IF Accepts(token, found)
    THEN /\ stage' = [stage EXCEPT ![t] = "authorized"]
         /\ bearer' = [bearer EXCEPT ![t] = token]
         /\ outcome' = [outcome EXCEPT ![t] = Without("none")]
    ELSE Ends(t, Without(IF found = "key" THEN "error" ELSE "refused"))

\* The bearer middleware passes the request on, or answers 401.
Decides(t, token, found) ==
  IF Accepts(token, found)
    THEN /\ stage' = [stage EXCEPT ![t] = "authorized"]
         /\ bearer' = [bearer EXCEPT ![t] = token]
         /\ outcome' = [outcome EXCEPT ![t] = Without("none")]
    ELSE Ends(t, Without("refused"))

(***************************************************************************)
(* The server's life                                                       *)
(***************************************************************************)

\* The lifespan is entered: nothing to resolve, a jwks_uri in the config, or
\* discovery.
Starts ==
  /\ phase = "down"
  /\ phase' = IF config.enabled /\ ~config.jwks_uri THEN "discovering" ELSE "up"
  /\ UNCHANGED <<keyVars, requestVars, config, offers, location, now>>

Discovers ==
  /\ phase = "discovering"
  /\ offers[location] = "named"
  /\ phase' = "up"
  /\ UNCHANGED <<keyVars, requestVars, config, offers, location, now>>

\* Wrong on purpose: the first location decides.
GivesUp ==
  /\ phase = "discovering"
  /\ offers[location] = "nothing"
  /\ phase' = "failed"
  /\ UNCHANGED <<keyVars, requestVars, config, offers, location, now>>

\* Wrong on purpose: discovery goes round until it finds something.
TriesForever ==
  /\ phase = "discovering"
  /\ offers[location] = "nothing"
  /\ location' = 3 - location
  /\ UNCHANGED <<keyVars, requestVars, config, offers, phase, now>>

\* On to the next location, or InboundAuthError after the last.
TriesNext ==
  /\ phase = "discovering"
  /\ offers[location] = "nothing"
  /\ IF location + 1 \in Location
       THEN location' = location + 1 /\ UNCHANGED phase
       ELSE phase' = "failed" /\ UNCHANGED location
  /\ UNCHANGED <<keyVars, requestVars, config, offers, now>>

\* response.json() or .get raises: the other location is not asked.
Trips ==
  /\ phase = "discovering"
  /\ offers[location] = "garbled"
  /\ phase' = "failed"
  /\ UNCHANGED <<keyVars, requestVars, config, offers, location, now>>

\* The lifespan is left: the verifier is dropped and the client closed, while
\* requests that hold the verifier go on.
ShutsDown ==
  /\ phase = "up"
  /\ phase' = "closed"
  /\ UNCHANGED <<keyVars, requestVars, config, offers, location, now>>

Tick ==
  /\ now < MaxNow
  /\ now' = now + 1
  /\ UNCHANGED <<keyVars, serverVars, requestVars>>

(***************************************************************************)
(* A request                                                               *)
(***************************************************************************)

\* Nobody is verified.
ArrivesOpen(t) ==
  /\ stage[t] = "idle"
  /\ ~config.enabled
  /\ stage' = [stage EXCEPT ![t] = "authorized"]
  /\ outcome' = [outcome EXCEPT ![t] = Without("none")]
  /\ UNCHANGED <<keyVars, serverVars, bearer, now>>

\* self._verifier is not None
HasVerifier == phase = "up"

\* There is no verifier yet, or no longer: InboundAuthError.
ArrivesUnresolved(t, token) ==
  /\ stage[t] = "idle"
  /\ config.enabled
  /\ ~HasVerifier
  /\ Ends(t, Without("error"))
  /\ UNCHANGED <<keyVars, serverVars, now>>

\* `alg not in self._algorithms` raises a TypeError, which nobody catches.
ArrivesUnhashable(t, token) ==
  /\ stage[t] = "idle"
  /\ config.enabled
  /\ HasVerifier
  /\ token.alg = Unhashable
  /\ Ends(t, FailedOver(token))
  /\ UNCHANGED <<keyVars, serverVars, now>>

\* The header is refused before any key is looked for.
ArrivesRefused(t, token) ==
  /\ stage[t] = "idle"
  /\ config.enabled
  /\ HasVerifier
  /\ token.alg # Unhashable
  /\ ~HeaderAccepted(token)
  /\ Ends(t, Without("refused"))
  /\ UNCHANGED <<keyVars, serverVars, now>>

\* The key cache answers at once, ...
ArrivesKeyed(t, token) ==
  /\ stage[t] = "idle"
  /\ config.enabled
  /\ HasVerifier
  /\ HeaderAccepted(token)
  /\ AnswersAtOnce(t, token.kid)
  /\ Decides(t, token, Found(known, token.kid))
  /\ UNCHANGED <<serverVars, now>>

\* ... or the request waits for it,
ArrivesUnkeyed(t, token) ==
  /\ stage[t] = "idle"
  /\ config.enabled
  /\ HasVerifier
  /\ HeaderAccepted(token)
  /\ Asks(t, token.kid)
  /\ stage' = [stage EXCEPT ![t] = "verifying"]
  /\ bearer' = [bearer EXCEPT ![t] = token]
  /\ outcome' = [outcome EXCEPT ![t] = Without("none")]
  /\ UNCHANGED <<serverVars, now>>

\* and goes on when it is answered.
Resumes(t) ==
  /\ stage[t] = "verifying"
  /\ Answers(t)
  /\ Decides(t, bearer[t], Found(known', asked[t]))
  /\ UNCHANGED <<serverVars, now>>

\* A malformed key set, or the client closed by a shutdown.
ResumesCrashed(t) ==
  /\ stage[t] = "verifying"
  /\ Crashes(t)
  /\ Ends(t, Without("error"))
  /\ UNCHANGED <<serverVars, now>>

\* The SDK refuses what the verifier let pass: exp without leeway, the session.
SdkRefuses(t) ==
  /\ stage[t] = "authorized"
  /\ Ends(t, Without("refused"))
  /\ UNCHANGED <<keyVars, serverVars, now>>

\* Wrong on purpose: a request that a shutdown overtakes is left alone.
CallsWhileUp(t) ==
  /\ stage[t] = "authorized"
  /\ phase = "up"
  /\ Ends(t, IF PrincipalFor(bearer[t]) = NoToken THEN Without("denied")
                                                  ELSE CalledAs(PrincipalFor(bearer[t])))
  /\ UNCHANGED <<keyVars, serverVars, now>>

\* on_call_tool: the tool is called as the principal, or the call is denied.
Calls(t) ==
  /\ stage[t] = "authorized"
  /\ Ends(t, IF PrincipalFor(bearer[t]) = NoToken THEN Without("denied")
                                                  ELSE CalledAs(PrincipalFor(bearer[t])))
  /\ UNCHANGED <<keyVars, serverVars, now>>

Next ==
  \/ Starts
  \/ Discovers
  \/ TriesNext
  \/ Trips
  \/ ShutsDown
  \/ Tick
  \/ \E t \in Task : ArrivesOpen(t)
  \/ \E t \in Task, token \in Token : ArrivesUnresolved(t, token)
  \/ \E t \in Task, token \in Token : ArrivesUnhashable(t, token)
  \/ \E t \in Task, token \in Token : ArrivesRefused(t, token)
  \/ \E t \in Task, token \in Token : ArrivesKeyed(t, token)
  \/ \E t \in Task, token \in Token : ArrivesUnkeyed(t, token)
  \/ \E t \in Task : Resumes(t)
  \/ \E t \in Task : ResumesCrashed(t)
  \/ \E t \in Task : SdkRefuses(t)
  \/ \E t \in Task : Calls(t)

Spec == Init /\ [][Next]_vars

(***************************************************************************)
(* Fairness: startup and the event loop go on, and every call of key_for   *)
(* ends, which JwksCache's EveryCallEnds shows of the cache.               *)
(***************************************************************************)
FairSpec ==
  /\ Spec
  /\ WF_vars(Starts) /\ WF_vars(Discovers) /\ WF_vars(TriesNext) /\ WF_vars(Trips)
  /\ \A t \in Task : WF_vars(Resumes(t) \/ ResumesCrashed(t)) /\ WF_vars(Calls(t))

(***************************************************************************)
(* Properties                                                              *)
(***************************************************************************)

\* Types; a request holds a token exactly while it is verified and acted on.
TypeOK ==
  /\ known \subseteq Kid
  /\ asked \in [Task -> Kid \cup {NoKid}]
  /\ got \in [Task -> [kid : Kid, found : {"key", "unknown", "crashed"}] \cup {NoAnswer}]
  /\ config \in Config
  /\ offers \in [Location -> Offer]
  /\ phase \in {"down", "discovering", "up", "failed", "closed"}
  /\ location \in Location
  /\ now \in 0 .. MaxNow
  /\ stage \in [Task -> {"idle", "verifying", "authorized"}]
  /\ bearer \in [Task -> Token \cup {NoToken}]
  /\ outcome \in [Task -> [end : {"none", "refused", "error", "denied", "called"},
                            by : Token \cup {NoToken, Local}]]
  /\ \A t \in Task : bearer[t] # NoToken <=> config.enabled /\ stage[t] # "idle"

\* A token's signature and claims, apart from its age.
Genuine(token) ==
  /\ token.alg \in config.algorithms
  /\ token.typed /\ token.ours /\ token.scoped
  /\ token.signer = token.kid
  /\ Parses(token)

\* Whoever calls a tool while inbound auth is on is the principal of a genuine token
\* signed with a key the server has learnt, whatever ran between the request's
\* arrival and its call (inbound.py:146-196, http.py:152-171).  The claim holds for
\* good: keys are never unlearnt.
CallersAreVerified ==
  \A t \in Task :
    config.enabled /\ outcome[t].end = "called"
      => /\ outcome[t].by \in Token
         /\ Genuine(outcome[t].by)
         /\ outcome[t].by.kid \in known

\* With inbound auth on nobody calls as the local principal, with it off everybody
\* does: nothing that goes wrong with a token makes its bearer the local principal
\* (http.py:157-160).
LocalOnlyWhenOpen ==
  \A t \in Task :
    outcome[t].end = "called" => (outcome[t].by = Local <=> ~config.enabled)

\* A request fails with a 500 only while the server does not serve, when the key
\* cache crashed under it, or over a token whose alg is a list or an object
\* (http.py:74-79, inbound.py:88-100, 148): whatever else is wrong with a token is
\* answered with a 401.  The docstring knows of no token that is not
\* (inbound.py:117-122).
ErrorsAreTheServers ==
  [][\A t \in Task :
       outcome'[t].end = "error" /\ outcome'[t] # outcome[t]
         => \/ phase # "up"
            \/ got'[t] # NoAnswer /\ got'[t].found = "crashed"
            \/ outcome'[t].by \in Token /\ outcome'[t].by.alg = Unhashable]_vars

\* A server whose IdP names its jwks_uri at either location comes up, unless a
\* location is garbled (inbound.py:35-50).
WellFormedMetadataIsFound ==
  phase = "failed" => "named" \notin {offers[l] : l \in Location}
                        \/ "garbled" \in {offers[l] : l \in Location}

\* Startup ends, one way or the other.
StartupSettles == <>(phase \notin {"down", "discovering"})

\* Every request is answered.
EveryRequestEnds == \A t \in Task : stage[t] # "idle" ~> stage[t] = "idle"
=============================================================================
