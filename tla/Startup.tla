------------------------------ MODULE Startup ------------------------------
(***************************************************************************)
(* A gateway from its files to its tools: load_config's checks             *)
(* (config/models.py, config/loader.py), introspection upstream by         *)
(* upstream (introspect.py) with the resolution of each document's         *)
(* references (Refs), build_app (app.py) and calls by tool name, over any  *)
(* number of restarts.                                                     *)
(*                                                                         *)
(* A world is a config and the documents its upstreams publish: both may   *)
(* change while the gateway runs, which looks at neither again.  A client  *)
(* remembers the tools it was last shown, restarts or not.                 *)
(***************************************************************************)
EXTENDS Catalog, Refs

CONSTANTS
  Upstream,
  Order,       \* the upstreams in the order of the config file
  Worlds,      \* sets of worlds, each about one thing
  Edits(_),    \* the worlds that an edit makes of a world
  StrayName,   \* an argument no schema declares: validation lets it pass
  MaxUnusual,  \* bound: how many arguments of a call are not plain
  NoConfig,
  NoDocument,
  NoAnswer

ASSUME StartupAssumption ==
  /\ Order \in Seq(Upstream) /\ Range(Order) = Upstream /\ IsInjective(Order)
  /\ Upstream \subseteq DOMAIN Words
  /\ MaxUnusual \in Nat

IsList(s) == s \in Seq(Range(s))

\* An operation with an id and tags.
Labelled(source) == source.id \in DOMAIN Words /\ source.tags \in Seq(DOMAIN Words)

IsHttp(b) == b \in HttpBinding /\ b.route \in DOMAIN Words

IsGraphQl(b) == b.protocol = "graphql" /\ b.variables \subseteq Name

\* What pydantic and the readers of documents see to before the checks below.
WellFormed(w) ==
  /\ DOMAIN w.config.upstreams = Upstream
  /\ IsList(w.config.classification)
  /\ IsList(w.config.operations)
  /\ \A e \in Range(w.config.operations) :
       Labelled(e) /\ (IsHttp(e.binding) \/ IsGraphQl(e.binding))
  /\ \A u \in Upstream :
       LET document == w.documents[u]
       IN  /\ document.graph \in Graphs
           /\ IsList(document.operations)
           /\ \A raw \in Range(document.operations) : Labelled(raw) /\ IsHttp(raw.binding)
           /\ IsList(document.fields)
           /\ \A field \in Range(document.fields) :
                /\ field.id \in DOMAIN Words /\ field.variables \subseteq Name
                /\ field.returns \in ObjectType \cup {Leaf}
           /\ IsSchema(document.types)

ASSUME WorldsAssumption ==
  \A S \in Worlds : \A w \in S :
    /\ Edits(w) \subseteq S
    /\ WellFormed(w)
    /\ \A u \in Upstream : w.config.upstreams[u].consent \in Consents

VARIABLES
  world,      \* the files and documents as they are
  phase,      \* down, introspecting, resolving, building, up
  config,     \* the config the process has loaded
  pending,    \* the upstreams still to introspect
  documents,  \* the documents the process has read
  bases,      \* resolved_base_urls: where each base URL comes from
  found,      \* the introspected operations
  served,     \* ToolSet and transports
  listed,     \* what the client was last shown
  answer      \* the call just made, if it passed validation, and its request

processVars == <<phase, config, pending, documents, bases, found, served>>
clientVars == <<listed, answer>>
vars == <<world, processVars, clientVars, refsVars>>

NothingServed ==
  [operations |-> <<>>, tools |-> [n \in {} |-> NoName],
   transports |-> [u \in Upstream |-> {}]]

Init ==
  /\ world \in UNION Worlds
  /\ phase = "down"
  /\ config = NoConfig
  /\ pending = <<>>
  /\ documents = [u \in Upstream |-> NoDocument]
  /\ bases = [u \in Upstream |-> "none"]
  /\ found = <<>>
  /\ served = NothingServed
  /\ listed = {}
  /\ answer = NoAnswer
  /\ graph = [root |-> <<>>, uses |-> [k \in Key |-> <<>>],
              target |-> [k \in Key |-> Own], broken |-> {}]
  /\ consent = [external |-> FALSE, hosts |-> {}]
  /\ walk = "idle" /\ stack = <<>> /\ done = <<>> /\ cut = {} /\ fetched = {}
  /\ walked = [k \in Key |-> 0]

(***************************************************************************)
(* Loading the config                                                      *)
(***************************************************************************)

\* UpstreamConfig: there is a way to tell which server to call.
UpstreamComplete(upstream) ==
  /\ upstream.base \/ upstream.introspection # "none"
  /\ upstream.introspection = "graphql" => upstream.base

\* _configured_mode_needs_every_base_url
Reachable(c) == c.mode = "configured" => \A u \in Upstream : c.upstreams[u].base

\* _unauthenticated_http_is_guarded
NotOpenByAccident(c) == c.transport = "http" /\ ~c.inbound => c.loopback \/ c.allowOpen

\* _token_exchange_requires_inbound
SubjectsToExchange(c) ==
  \A u \in Upstream :
    c.upstreams[u].outbound = "token_exchange" => c.transport = "http" /\ c.inbound

\* McpPortalConfig's validators and check_header_denylist.
Loads(c) ==
  /\ \A u \in Upstream : UpstreamComplete(c.upstreams[u])
  /\ \A e \in Range(c.operations) : e.upstream \in Upstream
  /\ c.mode = "introspect-unsafe" => c.acknowledged
  /\ Reachable(c) /\ NotOpenByAccident(c) /\ SubjectsToExchange(c)
  /\ \A e \in Range(c.operations) :
       e.binding.protocol = "http" => ~DeclaresDenied(e.binding, CredentialHeaders(c))

(***************************************************************************)
(* Starting                                                                *)
(***************************************************************************)

\* A configured base URL, or none yet.
ConfiguredBase(c, u) == IF c.upstreams[u].base THEN "config" ELSE "none"

\* load_config succeeds; with a config that does not load the process exits.
Starts ==
  /\ phase = "down"
  /\ Loads(world.config)
  /\ config' = world.config
  /\ phase' = IF config'.mode = "configured" THEN "building" ELSE "introspecting"
  /\ pending' = IF config'.mode = "configured" THEN <<>> ELSE Order
  /\ bases' = [u \in Upstream |-> ConfiguredBase(config', u)]
  /\ UNCHANGED <<world, documents, found, served, clientVars, refsVars>>

\* The process exits, by a ConfigError or because it is stopped.
Exits ==
  /\ phase' = "down"
  /\ config' = NoConfig
  /\ pending' = <<>>
  /\ documents' = [u \in Upstream |-> NoDocument]
  /\ bases' = [u \in Upstream |-> "none"]
  /\ found' = <<>>
  /\ served' = NothingServed
  /\ answer' = NoAnswer
  /\ UNCHANGED <<world, listed, refsVars>>

AtTurn(u) == phase = "introspecting" /\ pending # <<>> /\ Head(pending) = u

\* An upstream without introspection has nothing to add.
Skips(u) ==
  /\ AtTurn(u)
  /\ config.upstreams[u].introspection = "none"
  /\ pending' = Tail(pending)
  /\ UNCHANGED <<world, phase, config, documents, bases, found, served, clientVars, refsVars>>

\* load_document reads the document and starts on its references.
ReadsDocument(u) ==
  /\ AtTurn(u)
  /\ config.upstreams[u].introspection = "openapi"
  /\ world.documents[u].readable
  /\ documents' = [documents EXCEPT ![u] = world.documents[u]]
  /\ phase' = "resolving"
  /\ Begins(world.documents[u].graph, config.upstreams[u].consent)
  /\ UNCHANGED <<world, config, pending, bases, found, served, clientVars>>

\* The document or the schema cannot be fetched or read.
CannotRead(u) ==
  /\ AtTurn(u)
  /\ config.upstreams[u].introspection # "none"
  /\ Exits

Resolves ==
  /\ phase = "resolving"
  /\ RefsStep
  /\ UNCHANGED <<world, processVars, clientVars>>

\* The references are resolved: the base URL, and the operations of the document.
Introspects(u) ==
  /\ phase = "resolving" /\ walk = "resolved" /\ Head(pending) = u
  /\ bases[u] # "none" \/ documents[u].server = "absolute"
  /\ bases' = [bases EXCEPT ![u] = IF @ = "none" THEN "document" ELSE @]
  /\ found' = found \o OpenApiOperations(u, documents[u], config)
  /\ pending' = Tail(pending)
  /\ phase' = "introspecting"
  /\ UNCHANGED <<world, config, documents, served, clientVars, refsVars>>

\* A reference does not resolve, or the document's server is none to call.
CannotIntrospect(u) ==
  /\ phase = "resolving" /\ Head(pending) = u
  /\ \/ walk = "failed"
     \/ walk = "resolved" /\ bases[u] = "none" /\ documents[u].server # "absolute"
  /\ Exits

\* fetch_schema and GraphQlSource.
IntrospectsSchema(u) ==
  /\ AtTurn(u)
  /\ config.upstreams[u].introspection = "graphql"
  /\ world.documents[u].readable
  /\ documents' = [documents EXCEPT ![u] = world.documents[u]]
  /\ found' = found \o GraphQlOperations(u, world.documents[u], config)
  /\ pending' = Tail(pending)
  /\ UNCHANGED <<world, phase, config, bases, served, clientVars, refsVars>>

HasIntrospected ==
  /\ phase = "introspecting" /\ pending = <<>>
  /\ phase' = "building"
  /\ UNCHANGED <<world, config, pending, documents, bases, found, served, clientVars, refsVars>>

(***************************************************************************)
(* Serving                                                                 *)
(***************************************************************************)

Merged == Merge(found, ExplicitOperations(config))
Kept == Survivors(Merged, config)

\* Neither a ConfigError nor a NameCollisionError is raised.
Builds ==
  /\ EntriesFlatten(config)
  /\ IdsAreUnique(ExplicitOperations(config))
  /\ Nameable(Kept, config.naming)

\* Wrong on purpose: an upstream gets a transport for its last operation.
ProtocolOfLast(ops, u) ==
  LET its == {i \in DOMAIN ops : ops[i].upstream = u}
  IN  IF its = {} THEN {"http"} ELSE {ops[Max(its)].binding.protocol}

\* binding_types_by_upstream: one transport, or a router over both.
Protocols(ops, u) ==
  LET its == {op.binding.protocol : op \in {p \in Range(ops) : p.upstream = u}}
  IN  IF its = {} THEN {"http"} ELSE its

\* build_app succeeds and the server takes calls.
Serves ==
  /\ phase = "building"
  /\ Builds
  /\ served' = [operations |-> Kept, tools |-> ByName(Kept, config.naming),
                transports |-> [u \in Upstream |-> Protocols(Kept, u)]]
  /\ phase' = "up"
  /\ UNCHANGED <<world, config, pending, documents, bases, found, clientVars, refsVars>>

CannotServe ==
  /\ phase = "building"
  /\ ~Builds
  /\ Exits

Stops ==
  /\ phase = "up"
  /\ Exits

(***************************************************************************)
(* The world and the client                                                *)
(***************************************************************************)

\* The operator edits the config, or an upstream publishes another document.
Changes ==
  /\ world' \in Edits(world) \ {world}
  /\ answer' = NoAnswer
  /\ UNCHANGED <<processVars, listed, refsVars>>

\* The client lists the tools.
Lists ==
  /\ phase = "up"
  /\ listed' = {[name |-> n, operation |-> served.tools[n], naming |-> config.naming] :
                  n \in DOMAIN served.tools}
  /\ answer' = NoAnswer
  /\ UNCHANGED <<world, processVars, refsVars>>

Schema(b) ==
  IF b.protocol = "http" THEN InputSchema(b)
  ELSE [properties |-> b.variables, required |-> b.required]

\* The request of a call whose arguments are validated, or that none can be built.
RequestOf(op, args) ==
  LET header == config.upstreams[op.upstream].header
  IN  IF op.binding.protocol = "graphql" THEN {BuildGraphQlRequest(op.binding, args, header)}
      ELSE IF Buildable(op.binding, args) THEN {BuildRequest(op.binding, args, header)} ELSE {}

\* The client calls a tool by its name.
Calls(name, args) ==
  /\ phase = "up"
  /\ name \in DOMAIN served.tools
  /\ LET op == served.tools[name]
     IN  /\ Schema(op.binding).required \subseteq DOMAIN args
         /\ answer' = [operation |-> op, args |-> args, requests |-> RequestOf(op, args)]
  /\ UNCHANGED <<world, processVars, listed, refsVars>>

\* Values for some names, plain ones for most of them.
Valuations(names) ==
  {args \in [names -> Value] : Cardinality({n \in names : args[n] # "plain"}) <= MaxUnusual}

\* One call at a time: a call leaves nothing behind that the next one could see.
CallsAnything ==
  /\ answer = NoAnswer
  /\ \E name \in DOMAIN served.tools :
       \E names \in SUBSET (Schema(served.tools[name].binding).properties \cup {StrayName}) :
         \E args \in Valuations(names) : Calls(name, args)

Next ==
  \/ Starts
  \/ \E u \in Upstream : Skips(u)
  \/ \E u \in Upstream : ReadsDocument(u)
  \/ \E u \in Upstream : CannotRead(u)
  \/ Resolves
  \/ \E u \in Upstream : Introspects(u)
  \/ \E u \in Upstream : CannotIntrospect(u)
  \/ \E u \in Upstream : IntrospectsSchema(u)
  \/ HasIntrospected
  \/ Serves
  \/ CannotServe
  \/ Stops
  \/ Changes
  \/ Lists
  \/ CallsAnything

Spec == Init /\ [][Next]_vars

(***************************************************************************)
(* Properties                                                              *)
(***************************************************************************)

\* A generated tool name that a client was shown reaches what it reached, or
\* nothing, however the world changed and the gateway restarted meanwhile: it
\* reaches another operation only if that one declares the name, if the base name
\* of one of the two holds the other's suffix, or if the operation it meant is gone,
\* now declares a name of its own, or lost its base name (naming.py:1-9,
\* registry.py:7-9).  A base name holds a suffix if an id spells it, or if it is
\* shortened and the other's id is what it was shortened from (naming.py:69-72).
StaleNameReachesSameOrNone ==
  \A seen \in listed :
    LET op == served.tools[seen.name]
        meant == seen.operation
    IN  /\ seen.name \in DOMAIN served.tools
        /\ meant.name = NoName /\ op.name = NoName /\ op.id # meant.id
        /\ Hash(<<meant.id>>) \notin Range(Base(op, config.naming))
        /\ Hash(<<op.id>>) \notin Range(Base(meant, seen.naming))
        => \A q \in Unnamed(served.operations) :
             q.id = meant.id => Base(q, config.naming) # Base(meant, seen.naming)

\* A call that passed validation is refused before anything is sent exactly if it
\* has an empty string for the path or a line break for a header (http.py:94-97,
\* 112-117); else whatever it supplies goes out once, but an empty list that the
\* query would explode, and nothing is left to fill in; the credential is the
\* gateway's.  Flattening is reversible (flatten.py:3-7).  Two things a config may
\* ask for are excepted: header parameters that overwrite one another, and a body
\* that requires what it does not declare.
EveryArgumentArrives ==
  answer # NoAnswer =>
    LET b == answer.operation.binding
        header == config.upstreams[answer.operation.upstream].header
        whole == b.protocol = "http" =>
                   /\ ~HeadersOverlap(b)
                   /\ b.body.mode = "object" => b.body.required \subseteq b.body.properties
    IN  phase = "up" /\ whole =>
          /\ answer.requests = {} <=> b.protocol = "http" /\ Unfit(b, answer.args)
          /\ \A request \in answer.requests :
               /\ \A n \in DOMAIN answer.args \cap Schema(b).properties :
                    Cardinality(Places(request, n)) =
                      IF b.protocol = "http" /\ Vanishes(b, answer.args, n) THEN 0 ELSE 1
               /\ b.protocol = "http" => DOMAIN request.path = Range(b.placeholders)
               /\ \A w \in DOMAIN request.path : Cardinality(request.path[w]) = 1
               /\ header # NoHeader => request.headers[header] = Credential

\* Whatever the mix of sources, modes and credentials, a tool that is served has a
\* server to call, a transport that speaks its protocol, and under token exchange
\* a caller's token to exchange: what could only fail at a call fails at startup
\* (loader.py:3-4).
EveryToolCanBeCalled ==
  phase = "up" =>
    \A op \in Range(served.operations) :
      /\ bases[op.upstream] # "none"
      /\ op.binding.protocol \in served.transports[op.upstream]
      /\ config.upstreams[op.upstream].outbound = "token_exchange" =>
           config.transport = "http" /\ config.inbound

\* What introspect-safe serves is read-only by its method, or by the word of the
\* operator: an entry's or a rule's, the last of the rules that are about it alone
\* or everything.  The same goes for what every document that has it calls
\* sensitive (registry.py:39-66).
SafeModeIsSafe ==
  phase = "up" /\ config.mode = "introspect-safe" =>
    \A op \in Range(served.operations) :
      LET rules == Range(config.classification)
          entries == {e \in Range(config.operations) : e.id = op.id}
          says(field, value) == \E r \in rules \cup entries : r[field] = value
          about(i) == LET m == config.classification[i].match
                      IN  /\ m.ids \subseteq {op.id}
                          /\ m.tags = {} /\ m.upstreams = {} /\ m.effects = {}
          its == {f \in Range(found) : f.id = op.id}
          lastWord(field, value) ==
            \A i \in DOMAIN config.classification :
              about(i) /\ config.classification[i][field] \notin {"keep", value} =>
                \E j \in DOMAIN config.classification :
                  j > i /\ config.classification[j][field] = value
      IN  /\ EffectOf[op.binding.method] = "read_only" \/ says("effect", "read_only")
          /\ its # {} /\ (\A f \in its : f.sensitivity = "sensitive")
               => says("sensitivity", "normal")
          /\ lastWord("effect", "read_only") /\ lastWord("sensitivity", "normal")

\* A generated document asks for everything it may ask for, down to where types
\* recur, and for nothing the schema or the policy does not give
\* (graphql_selection.py:3-8).
SelectionsAreWhole ==
  \A u \in Upstream : documents[u] # NoDocument =>
    \A op \in {p \in Range(found) : p.upstream = u /\ p.binding.protocol = "graphql"} :
      op.binding.returns # Leaf =>
        LET policy == config.upstreams[u].typePolicy
            wanted == Reference(documents[u].types, policy, op.binding.returns)
        IN  op.binding.selection = IF wanted = {} THEN {<<TYPENAME>>} ELSE wanted
=============================================================================
