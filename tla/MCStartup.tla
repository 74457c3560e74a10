----------------------------- MODULE MCStartup -----------------------------
(***************************************************************************)
(* Startup on small families of worlds, each of which varies one thing and *)
(* keeps the rest plain: names, bindings, wiring, references, selections,  *)
(* classification.  Only names are edited while a gateway runs.            *)
(***************************************************************************)
EXTENDS Startup

CONSTANT Families  \* those of the families below that a run is about

MCUpstream == {"u", "v"}
MCOrder == <<"u", "v">>
MCPart == STRING
MCDenylisted == {<<"cookie">>}
MCStrayName == <<"stray">>
MCObjectType == {"A", "B"}
MCFieldName == {"f", "g"}

\* Two ids with the same words; one that looks like a name with a suffix; three of
\* more words than a name has room for, two of them with the same words.
MCWords ==
  [get_users |-> <<<<"get">>, <<"users">>>>, GetUsers |-> <<<<"get">>, <<"users">>>>,
   hashlike  |-> <<<<"get">>, <<"users">>, <<"#", "GetUsers">>>>,
   long      |-> <<<<"get">>, <<"users">>, <<"of">>, <<"team">>>>,
   Long      |-> <<<<"get">>, <<"users">>, <<"of">>, <<"team">>>>,
   longer    |-> <<<<"get">>, <<"users">>, <<"of">>, <<"org">>>>,
   ping      |-> <<<<"ping">>>>, pong |-> <<<<"pong">>>>,
   route     |-> <<<<"get">>, <<"x">>>>, u |-> <<<<"u">>>>, v |-> <<<<"v">>>>, tag |-> <<<<"get">>>>]

MCNormal == DOMAIN MCWords \ {"GetUsers", "Long", "route", "tag"}

(***************************************************************************)
(* Plain parts                                                             *)
(***************************************************************************)

NoBody == [mode |-> "none", supported |-> TRUE, properties |-> {}, required |-> {}]

Http(method) ==
  [protocol |-> "http", method |-> method, route |-> "route", placeholders |-> <<>>,
   parameters |-> <<>>, body |-> NoBody]

GraphQl(root) ==
  [protocol |-> "graphql", method |-> root, variables |-> {<<"a">>}, required |-> {<<"a">>},
   returns |-> Leaf, selection |-> {}]

Raw(id, b) ==
  [id |-> id, name |-> NoName, tags |-> <<>>, sensitivity |-> "normal", excluded |-> FALSE,
   deprecated |-> FALSE, malformed |-> FALSE, binding |-> b]

Entry(id, b) ==
  [id |-> id, upstream |-> "u", name |-> NoName, tags |-> <<>>, effect |-> "derived",
   sensitivity |-> "normal", binding |-> b]

NoGraph ==
  [root |-> <<>>, uses |-> [k \in Key |-> <<>>], target |-> [k \in Key |-> Own], broken |-> {}]

Document ==
  [readable |-> TRUE, server |-> "absolute", graph |-> NoGraph, operations |-> <<>>,
   fields |-> <<>>, types |-> <<>>]

PlainUpstream ==
  [base |-> TRUE, introspection |-> "none", outbound |-> "static", header |-> <<"authorization">>,
   includeDeprecated |-> FALSE, typePolicy |-> [t \in ObjectType |-> {}],
   consent |-> [external |-> FALSE, hosts |-> {}]]

Naming(prefix) == [strategy |-> "operation_id", prefixUpstream |-> prefix, prefixTag |-> FALSE]

Everything == [includeTags |-> {}, includeIds |-> {}, excludeTags |-> {}, excludeIds |-> {}]

\* A config for which u is introspected in a way, v not at all.
Config(mode, introspection) ==
  [mode |-> mode, acknowledged |-> TRUE, transport |-> "stdio", inbound |-> FALSE,
   loopback |-> TRUE, allowOpen |-> FALSE,
   upstreams |-> [u |-> [PlainUpstream EXCEPT !.introspection = introspection], v |-> PlainUpstream],
   operations |-> <<>>, classification |-> <<>>, selection |-> Everything, naming |-> Naming(FALSE)]

World(c, d) == [config |-> c, documents |-> [u |-> d, v |-> Document]]

SeqsUpTo(S, n) == UNION {[1 .. m -> S] : m \in 0 .. n}

(***************************************************************************)
(* Families                                                                *)
(***************************************************************************)

\* Operations come and go, are selected or not, and declare names or not.
NamingWorlds ==
  LET declared(id) == [Raw(id, Http("GET")) EXCEPT !.name = <<<<"get">>, <<"users">>>>]
      plain(id) == Raw(id, Http("GET"))
      choice(id) == {plain(id), declared(id)}
      both == <<plain("GetUsers"), plain("get_users")>>
      made(ops, hidden, prefix) ==
        World([Config("introspect-unsafe", "openapi") EXCEPT
                 !.selection.excludeIds = hidden, !.naming = Naming(prefix)],
              [Document EXCEPT !.operations = ops])
  IN  {made(<<x>> \o y, {}, FALSE) : x \in choice("GetUsers"), y \in {<<>>, <<plain("get_users")>>}} \cup
      {made(x \o <<plain("hashlike")>>, {}, FALSE) : x \in {<<plain("GetUsers")>>, both}} \cup
      {made(both, {"GetUsers"}, FALSE), made(both, {}, TRUE), made(<<declared("get_users")>>, {}, FALSE),
       made(<<plain("Long")>>, {}, FALSE), made(<<plain("Long"), plain("long")>>, {}, FALSE),
       made(<<plain("longer")>>, {}, FALSE), made(<<plain("long"), plain("longer")>>, {}, FALSE)}

\* One operation with every small binding, written by hand or found.
BindingWorlds ==
  LET name == {<<"a">>, <<"query", "a">>}
      wire == {<<"a">>, <<"x">>}
      parameter ==
        [arg : name, location : {"path"}, wire : wire, required : {TRUE}, explode : {TRUE}] \cup
        [arg : {<<"a">>}, location : {"path"}, wire : {<<"a">>}, required : {FALSE}, explode : {TRUE}] \cup
        [arg : name, location : {"query"}, wire : {<<"a">>}, required : BOOLEAN, explode : BOOLEAN] \cup
        [arg : name, location : {"header"}, wire : wire, required : {FALSE}, explode : {TRUE}]
      body == {NoBody} \cup
              [mode : {"single"}, supported : BOOLEAN, properties : {{}}, required : {{}}] \cup
              [mode : {"object"}, supported : {TRUE}, properties : {{<<"a">>}},
               required : {{}, {<<"a">>}, {<<"c">>}}]
      binding == {[Http("POST") EXCEPT !.placeholders = p, !.parameters = ps, !.body = b] :
                    p \in {<<>>, <<<<"a">>>>}, ps \in SeqsUpTo(parameter, 2), b \in body}
  IN  {World([Config("configured", "none") EXCEPT !.operations = <<Entry("ping", b)>>], Document) :
         b \in binding}

\* How upstreams are reached and paid for, under every mode and transport.
WiringWorlds ==
  LET entries == {<<>>, <<Entry("ping", Http("POST"))>>,
                  <<Entry("ping", Http("HEAD")), Entry("pong", GraphQl("mutation"))>>,
                  <<Entry("ping", Http("GET")), Entry("pong", GraphQl("query"))>>}
      modes == {<<"configured", FALSE>>, <<"introspect-safe", FALSE>>,
                <<"introspect-unsafe", FALSE>>, <<"introspect-unsafe", TRUE>>}
      doors == {[transport |-> "stdio", inbound |-> FALSE, loopback |-> TRUE, allowOpen |-> FALSE],
                [transport |-> "http", inbound |-> TRUE, loopback |-> FALSE, allowOpen |-> FALSE],
                [transport |-> "http", inbound |-> FALSE, loopback |-> TRUE, allowOpen |-> FALSE],
                [transport |-> "http", inbound |-> FALSE, loopback |-> FALSE, allowOpen |-> FALSE],
                [transport |-> "http", inbound |-> FALSE, loopback |-> FALSE, allowOpen |-> TRUE]}
      settings(mode, door, base, intro, outbound, es) ==
        [Config(mode[1], intro) EXCEPT
           !.acknowledged = mode[2], !.transport = door.transport, !.inbound = door.inbound,
           !.loopback = door.loopback, !.allowOpen = door.allowOpen, !.upstreams["u"].base = base,
           !.upstreams["u"].outbound = outbound, !.operations = es]
      document(server) ==
        [Document EXCEPT !.server = server, !.operations = <<Raw("ping", Http("GET"))>>,
           !.fields = <<[id |-> "ping", root |-> "query", variables |-> {}, required |-> {},
                         returns |-> Leaf]>>]
  IN  {World(settings(mode, door, base, intro, outbound, es), document(server)) :
         mode \in modes, door \in doors, base \in BOOLEAN, intro \in {"none", "openapi", "graphql"},
         outbound \in {"static", "token_exchange"}, es \in entries, server \in {"none", "absolute"}}

\* Small graphs of references, external and broken ones among them.
ReferenceWorlds ==
  LET short == {r \in SeqsUpTo(Key, 2) : IsInjective(r)}
      roots == {r \in short : Len(r) = 2}
      graphs == {[NoGraph EXCEPT !.root = CHOOSE r \in roots : TRUE, !.uses = f] : f \in [Key -> short]}
      faulty == {[NoGraph EXCEPT !.root = r, !.uses = [k \in Key |-> r], !.broken = b, !.target = t] :
                   r \in {CHOOSE r \in roots : TRUE}, b \in {{}} \cup {{k} : k \in Key},
                   t \in [Key -> Target \cup {Own}]}
      settings(c) == [Config("introspect-safe", "openapi") EXCEPT !.upstreams["u"].consent = c]
      document(g) == [Document EXCEPT !.graph = g, !.operations = <<Raw("ping", Http("GET"))>>]
  IN  {World(settings([external |-> FALSE, hosts |-> {}]), document(g)) : g \in graphs} \cup
      {World(settings([external |-> external, hosts |-> hosts]), document(g)) :
         external \in BOOLEAN, hosts \in SUBSET Networked, g \in faulty}

\* Schemas of two object types, which may be missing, recur or need arguments.
SelectionWorlds ==
  LET fields(Allowed) == UNION {[names -> Allowed] : names \in SUBSET FieldName}
      plain(T) == [target : T, argumented : {FALSE}]
      ofA == fields(plain({"A", "B", Leaf}) \cup [target : {"B", Leaf}, argumented : {TRUE}])
      ofB == fields(plain({"A", "B", Leaf}))
      types == {[A |-> a, B |-> b] : a \in ofA, b \in ofB} \cup {[A |-> a] : a \in ofA} \cup
               {[B |-> b] : b \in ofB}
      document(ts) ==
        [Document EXCEPT !.types = ts,
           !.fields = <<[id |-> "ping", root |-> "query", variables |-> {}, required |-> {}, returns |-> "A"],
                        [id |-> "pong", root |-> "mutation", variables |-> {<<"a">>},
                         required |-> {<<"a">>}, returns |-> "B"]>>]
      settings(hidden) ==
        [Config("introspect-unsafe", "graphql") EXCEPT !.upstreams["u"].typePolicy["A"] = hidden]
  IN  {World(settings(hidden), document(ts)) : hidden \in {{}, {"f"}}, ts \in types}

\* Up to two rules over operations of several effects.
PostureWorlds ==
  LET all == [ids |-> {}, tags |-> {}, upstreams |-> {}, effects |-> {}]
      match == {all, [all EXCEPT !.ids = {"ping"}], [all EXCEPT !.effects = {"action"}]}
      rule == [match : match, effect : {"keep", "read_only", "action"},
               sensitivity : {"keep", "normal", "sensitive"}]
      ops(m, s) == <<[Raw("ping", Http(m)) EXCEPT !.sensitivity = s], Raw("pong", Http("PUT"))>>
      entry == [Entry("ping", Http("POST")) EXCEPT !.effect = "read_only"]
  IN  {World([Config("introspect-safe", "openapi") EXCEPT !.classification = rules, !.operations = said[1]],
             [Document EXCEPT !.operations = ops(said[2], said[3])]) :
         rules \in SeqsUpTo(rule, 2),
         said \in {<<<<>>, "GET", "normal">>, <<<<>>, "POST", "normal">>, <<<<>>, "GET", "sensitive">>,
                    <<<<entry>>, "GET", "normal">>}}

WorldsOf ==
  [naming |-> NamingWorlds, binding |-> BindingWorlds, wiring |-> WiringWorlds,
   reference |-> ReferenceWorlds, selection |-> SelectionWorlds, posture |-> PostureWorlds]

MCWorlds == {WorldsOf[family] : family \in Families}

MCEdits(w) == IF w \in NamingWorlds THEN NamingWorlds ELSE {}
=============================================================================
