----------------------------- MODULE MCConfigure -----------------------------
(***************************************************************************)
(* Configure for TLC: two HTTP operations, one of which may change its     *)
(* binding or become read-only, and a GraphQL entry written by hand.       *)
(***************************************************************************)
EXTENDS Configure

Op(id, group, binding, effect, protocol) ==
  [id |-> id, tags |-> {group, "money"}, group |-> group, upstream |-> "main", effect |-> effect,
   sensitivity |-> "normal", binding |-> binding, protocol |-> protocol]

pay == Op("pay", "out", "post", "action", "http")
refund == Op("refund", "back", "post", "action", "http")
graph == Op("graph", "out", "query", "action", "graphql")

MCVersion ==
  {pay, Op("pay", "out", "post2", "action", "http"), Op("pay", "out", "get", "read_only", "http"),
   refund, graph}

MCHandEntries == {{}, {pay}, {pay, graph}}

Matching(ids, tags, sensitivity) ==
  [ids |-> ids, tags |-> tags, upstream |-> {}, effect |-> {}, sensitivity |-> sensitivity]

Ruled(match, require, carry) == [match |-> match, require |-> require, carry |-> carry]

Located == [Detail("t", {"w"}) EXCEPT !.locations = {"eu"}]

\* Rules by tag and by sensitivity, rules for an id that configure may and may not
\* replace, and ones that carry, something or nothing; under both defaults.
MCHandPolicy ==
  { [unmatched |-> "allow", rules |-> <<Ruled(Matching({}, {"money"}, {}), <<Detail("u", {})>>, FALSE)>>],
    [unmatched |-> "allow", rules |-> <<Ruled(OnlyId("pay"), <<Detail("t", {"w"})>>, FALSE),
                                        Ruled(Matching({}, {}, {"sensitive"}), <<Located>>, FALSE)>>],
    [unmatched |-> "allow", rules |-> <<Ruled(OnlyId("refund"), <<Detail("t", {})>>, TRUE),
                                        Ruled(OnlyId("pay"), <<>>, FALSE)>>],
    [unmatched |-> "allow", rules |-> <<Ruled(OnlyId("pay"), <<>>, TRUE),
                                        Ruled(OnlyId("pay"), <<Detail("t", {})>>, FALSE)>>],
    [unmatched |-> "deny", rules |-> <<Ruled(OnlyId("refund"), <<Located>>, FALSE),
                                       Ruled(OnlyId("refund"), <<Detail("u", {})>>, FALSE)>>] }
=============================================================================
