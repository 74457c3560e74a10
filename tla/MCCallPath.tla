---------------------------- MODULE MCCallPath ----------------------------
(***************************************************************************)
(* CallPath for TLC: two operations on a token-exchange upstream, one with *)
(* client credentials, one with a static credential; two callers; a policy *)
(* that denies by default and one that allows.                             *)
(***************************************************************************)
EXTENDS CallPath, TLC

CONSTANTS s1, s2

Detail(type, actions) ==
  [type |-> type, actions |-> actions, locations |-> {}, datatypes |-> {},
   privileges |-> {}, identifier |-> NoIdentifier]

Match(ids, tags) ==
  [ids |-> ids, tags |-> tags, upstream |-> {}, effect |-> {}, sensitivity |-> {}]

Op(id, tags, upstream, eff) ==
  [id |-> id, tags |-> tags, upstream |-> upstream, effect |-> eff, sensitivity |-> "normal"]

report == Op("report", {"pay"}, "machine", "read_only")
read == Op("read", {"pay"}, "user", "action")
charge == Op("charge", {"pay"}, "user", "action")
ping == Op("ping", {}, "plain", "action")

MCOperation == {report, read, charge, ping}

MCModeOf ==
  ("machine" :> "client_credentials") @@ ("user" :> "token_exchange") @@ ("plain" :> "static")

\* alice presents one detail that conveys both actions, bob two that convey one each.
MCPrincipal ==
  { [details |-> {Detail("pay", {"r", "w"})}, subject |-> s1],
    [details |-> {Detail("pay", {"r"}), Detail("pay", {"w"})}, subject |-> s2] }

Rule(match, require, carry) == [match |-> match, require |-> require, carry |-> carry]

\* The first policy knows two operations; in the second rules overlap on charge,
\* which only alice may call, and nobody may call report.
MCPolicyConfig ==
  { [unmatched |-> "deny",
     rules |-> {Rule(Match({"report"}, {}), {Detail("pay", {"r"})}, TRUE),
                Rule(Match({"charge"}, {}), {Detail("pay", {"w"})}, TRUE)}],
    [unmatched |-> "allow",
     rules |-> {Rule(Match({}, {"pay"}), {Detail("pay", {"r"})}, TRUE),
                Rule(Match({"charge"}, {}), {Detail("pay", {"r", "w"})}, TRUE),
                Rule(Match({"report"}, {}), {Detail("audit", {})}, FALSE)}] }

\* No action and no property of CallPath reads got or applied: states that differ in
\* nothing else are one.
View ==
  <<policy, call, cred, now, entries, locks, lock, pc, req, mine,
    effect, stage, attempt, spent, operation, clock, answered>>

Perms == Permutations(LockId) \cup Permutations(Task)
=============================================================================
