------------------------------ MODULE Catalog ------------------------------
(***************************************************************************)
(* Which operations the gateway exposes, and under which names: the        *)
(* operations of an OpenAPI document, of a GraphQL schema and of config's  *)
(* operations[] (sources/), their merge (sources/merge.py), and the        *)
(* pipeline that classifies, filters, selects and names them (registry.py, *)
(* naming.py).                                                             *)
(*                                                                         *)
(* Lists are sequences, so that duplicates last until something rejects    *)
(* them.  A text (an id, a route, an upstream's key, a tag) is known by    *)
(* the words that normalize makes of it: two texts may have the same ones. *)
(* A tool name is a sequence of words, and a word a sequence of strings;   *)
(* the hash of a text is a word that no other text has.                    *)
(***************************************************************************)
EXTENDS Interface, Selection, Lists

CONSTANTS
  Words,    \* the words of each text
  Normal,   \* the texts that normalize leaves as they are
  MaxWords  \* MAX_NAME_LENGTH, in words, a hash being one word

ASSUME WordsAssumption ==
  /\ MaxWords \in Nat \ {0, 1}
  /\ \A text \in DOMAIN Words : Words[text] \in Seq(Seq(STRING))
  /\ Normal \subseteq DOMAIN Words
  /\ \A s, t \in Normal : Words[s] = Words[t] => s = t

NoName == <<>>

(***************************************************************************)
(* Sources                                                                 *)
(***************************************************************************)

\* effect_for_method and effect_for_operation_type: what is not here is not exposed.
EffectOf ==
  [GET |-> "read_only", PUT |-> "idempotent_write", DELETE |-> "idempotent_write",
   POST |-> "action", PATCH |-> "action", query |-> "read_only", mutation |-> "action"]

Exposed(b) == b.method \in DOMAIN EffectOf

Operation(u, source, b) ==
  [id |-> source.id, upstream |-> u, name |-> source.name, tags |-> source.tags,
   effect |-> EffectOf[b.method], sensitivity |-> source.sensitivity, binding |-> b]

\* credential_headers_for
CredentialHeaders(config) ==
  {config.upstreams[u].header : u \in DOMAIN config.upstreams} \ {NoHeader}

\* extract_raw_operations: what the document says of an operation is well formed,
\* and the operation is wanted.
Extracted(raw, upstream) == ~raw.malformed /\ (raw.deprecated => upstream.includeDeprecated)

\* OpenApiSource._build: an operation that cannot be a tool is dropped.
Usable(raw, denied) ==
  /\ ~raw.excluded
  /\ ~DeclaresDenied(raw.binding, denied)
  /\ Exposed(raw.binding)
  /\ Flattens(raw.binding)

OpenApiOperations(u, document, config) ==
  LET usable(raw) == /\ Extracted(raw, config.upstreams[u])
                     /\ Usable(raw, CredentialHeaders(config))
      kept == Where(document.operations, usable)
  IN  [i \in DOMAIN kept |-> Operation(u, kept[i], ResolveArgNames(kept[i].binding))]

\* GraphQlSource._build: one operation for a field of a root type.
GraphQlBinding(field, schema, policy) ==
  [protocol |-> "graphql", method |-> field.root, variables |-> field.variables,
   required |-> field.required, returns |-> field.returns,
   selection |-> IF field.returns = Leaf THEN {}
                 ELSE SelectionSet(schema, policy, field.returns)]

GraphQlOperations(u, document, config) ==
  LET policy == config.upstreams[u].typePolicy
      usable(field) == field.returns = Leaf \/ Selectable(document.types, policy, field.returns)
      kept == Where(document.fields, usable)
      source(f) == [id |-> f.id, name |-> NoName, tags |-> <<>>, sensitivity |-> "normal"]
  IN  [i \in DOMAIN kept |->
         Operation(u, source(kept[i]), GraphQlBinding(kept[i], document.types, policy))]

\* ExplicitSource: an entry that is not exposed is dropped, one that does not
\* flatten fails the load.
EntriesFlatten(config) ==
  \A e \in Range(config.operations) :
    e.binding.protocol = "http" /\ Exposed(e.binding) => Flattens(e.binding)

ExplicitOperations(config) ==
  LET exposed(e) == Exposed(e.binding)
      kept == Where(config.operations, exposed)
      resolved(b) == IF b.protocol = "http" THEN ResolveArgNames(b) ELSE b
      build(e) == Operation(e.upstream, e, resolved(e.binding))
  IN  [i \in DOMAIN kept |->
         IF kept[i].effect = "derived" THEN build(kept[i])
         ELSE [build(kept[i]) EXCEPT !.effect = kept[i].effect]]

IdsAreUnique(ops) == \A i, j \in DOMAIN ops : ops[i].id = ops[j].id => i = j

\* merge_operations: an entry takes the place of what was found under its id.
Merge(found, explicit) ==
  LET entry(id) == {e \in Range(explicit) : e.id = id}
      new(e) == \A f \in Range(found) : f.id # e.id
  IN  [i \in DOMAIN found |->
         IF entry(found[i].id) = {} THEN found[i] ELSE CHOOSE e \in entry(found[i].id) : TRUE]
      \o Where(explicit, new)

(***************************************************************************)
(* The registry                                                            *)
(***************************************************************************)

\* _matches: an empty condition holds of every operation.
Matches(op, match) ==
  /\ match.ids = {} \/ op.id \in match.ids
  /\ match.tags = {} \/ match.tags \cap Range(op.tags) # {}
  /\ match.upstreams = {} \/ op.upstream \in match.upstreams
  /\ match.effects = {} \/ op.effect \in match.effects

\* _classify: each rule looks at the operation as the rules before it left it.
Reclassify(op, rule) ==
  IF ~Matches(op, rule.match) THEN op
  ELSE [op EXCEPT !.effect = IF rule.effect = "keep" THEN @ ELSE rule.effect,
                  !.sensitivity = IF rule.sensitivity = "keep" THEN @ ELSE rule.sensitivity]

Classified(op, rules) ==
  LET after[n \in 0 .. Len(rules)] ==
        IF n = 0 THEN op ELSE Reclassify(after[n - 1], rules[n])
  IN  after[Len(rules)]

Classify(ops, rules) == [i \in DOMAIN ops |-> Classified(ops[i], rules)]

\* apply_mode_posture
Presentable(op, mode) ==
  mode = "introspect-safe" => op.effect = "read_only" /\ op.sensitivity = "normal"

\* _select: tags and ids to include may be absent (no set) or given (one set).
Selected(op, selection) ==
  /\ \A S \in selection.includeTags : S \cap Range(op.tags) # {}
  /\ \A S \in selection.includeIds : op.id \in S
  /\ selection.excludeTags \cap Range(op.tags) = {}
  /\ op.id \notin selection.excludeIds

\* Wrong on purpose: the posture looks at the operations as they were found.
SurvivorsUnclassified(ops, config) ==
  LET presentable(op) == Presentable(op, config.mode)
      selected(op) == Selected(op, config.selection)
  IN  Where(Classify(Where(ops, presentable), config.classification), selected)

\* build_toolset up to the names.
Survivors(ops, config) ==
  LET survives(op) == Presentable(op, config.mode) /\ Selected(op, config.selection)
  IN  Where(Classify(ops, config.classification), survives)

(***************************************************************************)
(* Names                                                                   *)
(***************************************************************************)

\* _suffix
Hash(text) == <<"#">> \o text

\* _base_name
BaseName(op, naming) ==
  LET core == IF naming.strategy = "method_path" /\ op.binding.protocol = "http"
                THEN Words[op.binding.route] ELSE Words[op.id]
      base == (IF naming.prefixUpstream THEN Words[op.upstream] ELSE <<>>) \o
              (IF naming.prefixTag /\ op.tags # <<>> THEN Words[op.tags[1]] ELSE <<>>) \o core
  IN  IF base = <<>> THEN <<<<"op">>, Hash(<<op.id>>)>> ELSE base

Trimmed(name) == SubSeq(name, 1, Min({Len(name), MaxWords - 1}))

\* The text that a name is: an id, if that is the name already, or a text of its own.
Text(name) ==
  LET its == {text \in Normal : Words[text] = name}
  IN  IF its = {} THEN FlattenSeq(name) ELSE <<CHOOSE text \in its : TRUE>>

\* _cap
Cap(name) ==
  IF Len(name) <= MaxWords THEN name ELSE Append(Trimmed(name), Hash(Text(name)))

Base(op, naming) == Cap(BaseName(op, naming))

\* Operations whose names are generated.
Unnamed(ops) == {op \in Range(ops) : op.name = NoName}

\* Wrong on purpose: the first of those that share a base keeps it.
TwinsAfterFirst(op, ops, naming) ==
  LET sharing == {i \in DOMAIN ops :
                    ops[i].name = NoName /\ Base(ops[i], naming) = Base(op, naming)}
  IN  {ops[i] : i \in sharing \ {Min(sharing)}}

\* Those that share a base name, op among them: each of them gets a suffix.
Twins(op, ops, naming) ==
  LET sharing == {q \in Unnamed(ops) : Base(q, naming) = Base(op, naming)}
  IN  IF sharing = {op} THEN {} ELSE sharing

\* generate_names
GeneratedName(op, ops, naming) ==
  IF op \in Twins(op, ops, naming)
    THEN Append(Trimmed(Base(op, naming)), Hash(<<op.id>>))
    ELSE Base(op, naming)

ToolName(op, ops, naming) ==
  IF op.name = NoName THEN GeneratedName(op, ops, naming) ELSE op.name

\* No NameCollisionError is raised, by _assign_names or by generate_names.
Nameable(ops, naming) ==
  /\ IdsAreUnique(ops)
  /\ \A p, q \in Range(ops) : ToolName(p, ops, naming) = ToolName(q, ops, naming) => p = q

\* ToolSet.by_name
ByName(ops, naming) ==
  [n \in {ToolName(op, ops, naming) : op \in Range(ops)} |->
     CHOOSE op \in Range(ops) : ToolName(op, ops, naming) = n]
=============================================================================
