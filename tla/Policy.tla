------------------------------- MODULE Policy -------------------------------
(***************************************************************************)
(* The authorization decision: rar.covers (auth/rar.py) and PolicyEngine   *)
(* (policy.py), as operators.  There is no state: a policy is loaded once. *)
(*                                                                         *)
(* An authorization detail is a record of a type, four sets of names and   *)
(* an identifier.  A rule is a record of a match, the set of details it    *)
(* requires (empty when it has no "require") and its outbound.carry flag.  *)
(* The id globs of a match are the set of ids they match; an id that no    *)
(* operation has stands for a glob that matches nothing.                   *)
(***************************************************************************)
CONSTANT NoIdentifier

SetFields == {"actions", "locations", "datatypes", "privileges"}

\* _covers_one: every field the requirement specifies, in one presented detail.
CoversOne(required, presented) ==
  /\ presented.type = required.type
  /\ \A f \in SetFields : required[f] \subseteq presented[f]
  /\ required.identifier \in {NoIdentifier, presented.identifier}

\* Wrong on purpose: the presented details add up.
CoversTogether(required, presented) ==
  \A f \in SetFields :
    required[f] \subseteq UNION {p[f] : p \in {q \in presented : q.type = required.type}}

Covers(required, presented) == \E p \in presented : CoversOne(required, p)

\* _matches: an empty list in a match specifies nothing.
Matches(op, match) ==
  /\ match.ids = {} \/ op.id \in match.ids
  /\ match.tags = {} \/ match.tags \cap op.tags # {}
  /\ match.upstream = {} \/ op.upstream \in match.upstream
  /\ match.effect = {} \/ op.effect \in match.effect
  /\ match.sensitivity = {} \/ op.sensitivity \in match.sensitivity

MatchingRules(op, rules) == {rule \in rules : Matches(op, rule.match)}

AccumulatedDetails(rules) == UNION {rule.require : rule \in rules}

Required(policy, op) == AccumulatedDetails(MatchingRules(op, policy.rules))

Carry(policy, op) ==
  AccumulatedDetails({rule \in MatchingRules(op, policy.rules) : rule.carry})

\* PolicyEngine.evaluate
Allowed(policy, op, presented) ==
  IF Required(policy, op) = {}
    THEN policy.unmatched = "allow"
    ELSE \A d \in Required(policy, op) : Covers(d, presented)
=============================================================================
