----------------------------- MODULE MCInbound -----------------------------
(***************************************************************************)
(* Inbound for TLC: a good token that expires in time, one for the other   *)
(* key, and tokens with one fault each.                                    *)
(***************************************************************************)
EXTENDS Inbound, TLC

CONSTANTS a, b, forger

Good ==
  [alg |-> "RS256", typed |-> TRUE, kid |-> a, signer |-> a, ours |-> TRUE, scoped |-> TRUE,
   exp |-> 1, details |-> "well-formed"]

MCToken ==
  { Good,
    [Good EXCEPT !.kid = b, !.signer = b, !.details = "absent"],
    [Good EXCEPT !.alg = "none"],
    [Good EXCEPT !.alg = Unhashable],
    [Good EXCEPT !.alg = "HS256"],
    [Good EXCEPT !.typed = FALSE],
    [Good EXCEPT !.kid = NoKid],
    [Good EXCEPT !.kid = b],
    [Good EXCEPT !.signer = forger],
    [Good EXCEPT !.ours = FALSE],
    [Good EXCEPT !.scoped = FALSE],
    [Good EXCEPT !.details = "not a list"],
    [Good EXCEPT !.details = "null"],
    [Good EXCEPT !.details = "malformed entry"] }

On == [enabled |-> TRUE, jwks_uri |-> FALSE, algorithms |-> {"RS256"}]

MCConfig ==
  { On, [On EXCEPT !.jwks_uri = TRUE], [On EXCEPT !.algorithms = {"RS256", "HS256"}],
    [On EXCEPT !.enabled = FALSE] }

\* No action reads got; ErrorsAreTheServers reads what a step makes of it only.
View == <<known, asked, serverVars, requestVars, now>>
=============================================================================
