----------------------------- MODULE Interface -----------------------------
(***************************************************************************)
(* What a tool's arguments become: the checks and renamings that flatten a *)
(* binding into one input schema (sources/flatten.py) and the request that *)
(* a call builds from its arguments (transports/http.py, graphql.py).      *)
(*                                                                         *)
(* A name is a sequence of words, so that prefixing is concatenation and a *)
(* document may itself use a name that looks prefixed.  A call's arguments *)
(* are a function from the names it supplies to kinds of values.  In a     *)
(* request an argument is its name: a request says what went where.        *)
(***************************************************************************)
EXTENDS Integers, Sequences, FiniteSets, SequencesExt

CONSTANTS
  Part,       \* the words that names are made of
  Denylisted  \* header names no binding may declare (loader.py:32)

Location == {"path", "query", "header"}

\* What a request makes a difference of: the empty string, a string with a CR or an
\* LF in it, a list of nothing, and any other value.
Value == {"plain", "empty text", "line break", "empty list"}

ASSUME PartAssumption == Location \subseteq Part

BODY_ARG == <<"body">>
CONTENT_TYPE == <<"content-type">>

\* Header values that are not an argument's.
Credential == <<"credential", "value">>
BodyType == <<"application", "json">>

\* No credential is configured.
NoHeader == <<>>

\* The names that arguments, path placeholders, headers and body properties have.
Name == Seq(Part) \ {Credential, BodyType, NoHeader}

Parameter ==
  [arg : Name, location : Location, wire : Name, required : BOOLEAN, explode : BOOLEAN]

BodySpec ==
  [mode : {"none", "single", "object"}, supported : BOOLEAN,
   properties : SUBSET Name, required : SUBSET Name]

HttpBinding ==
  [protocol : {"http"}, method : STRING, route : STRING, placeholders : Seq(Name),
   parameters : Seq(Parameter), body : BodySpec]

(***************************************************************************)
(* Flattening                                                              *)
(***************************************************************************)

At(b, location) == {i \in DOMAIN b.parameters : b.parameters[i].location = location}

\* _body_properties: what the body adds to the schema.
BodyNames(b) ==
  CASE b.body.mode = "none"   -> {}
    [] b.body.mode = "single" -> {BODY_ARG}
    [] OTHER                  -> b.body.properties

\* check_path_template: placeholders and path parameters match one to one.
PathFits(b) ==
  /\ IsInjective(b.placeholders)
  /\ \A i \in At(b, "path") : b.parameters[i].required
  /\ \A i, j \in At(b, "path") : b.parameters[i].wire = b.parameters[j].wire => i = j
  /\ {b.parameters[i].wire : i \in At(b, "path")} = Range(b.placeholders)

Collides(b, name) ==
  Cardinality({i \in DOMAIN b.parameters : b.parameters[i].arg = name})
    + (IF name \in BodyNames(b) THEN 1 ELSE 0) > 1

\* resolve_arg_names: a name contributed twice gets its location as a prefix.
ResolveArgNames(b) ==
  [b EXCEPT !.parameters =
    [i \in DOMAIN b.parameters |->
      LET p == b.parameters[i]
      IN  IF Collides(b, p.arg) THEN [p EXCEPT !.arg = <<p.location>> \o @] ELSE p]]

\* Wrong on purpose: whether the prefixed names are unique is not looked at again.
AcceptsAnyNames(b) == TRUE

\* The second half of resolve_arg_names: no name is left with two contributors.
NamesAreUnique(b) == LET r == ResolveArgNames(b) IN \A n \in BodyNames(r) \cup
  {r.parameters[i].arg : i \in DOMAIN r.parameters} : ~Collides(r, n)

\* No FlattenError is raised.
Flattens(b) == PathFits(b) /\ (b.body.mode = "none" \/ b.body.supported) /\ NamesAreUnique(b)

\* build_input_schema: what a client sees, and what its arguments are held to.
InputSchema(b) ==
  LET parameters == Range(ResolveArgNames(b).parameters)
  IN  [properties |-> {p.arg : p \in parameters} \cup BodyNames(b),
       required   |-> {p.arg : p \in {q \in parameters : q.required}} \cup
                        (IF b.body.mode = "object" THEN b.body.required ELSE BodyNames(b))]

\* is_denylisted, of any header parameter.
DeclaresDenied(b, credentialHeaders) ==
  \E i \in At(b, "header") : b.parameters[i].wire \in Denylisted \cup credentialHeaders

(***************************************************************************)
(* Requests                                                                *)
(***************************************************************************)

\* The parameters of a location that a call gives a value.
Supplied(b, args, location) == {i \in At(b, location) : b.parameters[i].arg \in DOMAIN args}

\* _encode_path_value: an empty segment would be another route.
Collapses(b, args) ==
  \E i \in Supplied(b, args, "path") : args[b.parameters[i].arg] = "empty text"

\* _check_header_value: a line break would be another header.
BreaksHeader(b, args) ==
  \E i \in Supplied(b, args, "header") : args[b.parameters[i].arg] = "line break"

\* No RequestBuildError: nothing required is missing, and the values do.
Buildable(b, args) ==
  /\ \A i \in DOMAIN b.parameters :
       b.parameters[i].required => b.parameters[i].arg \in DOMAIN args
  /\ ~Collapses(b, args) /\ ~BreaksHeader(b, args)
  /\ b.body.mode = "single" => BODY_ARG \in DOMAIN args
  /\ b.body.mode = "object" => b.body.required \subseteq DOMAIN args \cap b.body.properties

\* _query_pairs: a list of nothing, exploded, is no pair at all.
Sent(b, args, location) ==
  {i \in Supplied(b, args, location) :
     location = "query" /\ b.parameters[i].explode => args[b.parameters[i].arg] # "empty list"}

\* The arguments that the parameters of a location put under each wire name.
Wires(b, args, location) ==
  [w \in {b.parameters[i].wire : i \in Sent(b, args, location)} |->
     {b.parameters[i].arg : i \in {j \in Sent(b, args, location) : b.parameters[j].wire = w}}]

\* A header is set once: by the last parameter, the body's type or the credential.
Headers(b, args, credential) ==
  LET given == Supplied(b, args, "header")
      last(w) == b.parameters[Max({i \in given : b.parameters[i].wire = w})].arg
      typed == IF b.body.mode = "none" THEN {} ELSE {CONTENT_TYPE}
  IN  [w \in {b.parameters[i].wire : i \in given} \cup typed \cup ({credential} \ {NoHeader}) |->
        CASE w = credential -> Credential
          [] w # credential /\ w \in typed -> BodyType
          [] OTHER -> last(w)]

\* build_request, of a binding whose names are resolved.
BuildRequest(b, args, credential) ==
  [path    |-> Wires(b, args, "path"),
   query   |-> Wires(b, args, "query"),
   headers |-> Headers(b, args, credential),
   body    |-> DOMAIN args \cap BodyNames(b)]

\* build_graphql_request: the document is fixed, variables go in by name.
BuildGraphQlRequest(b, args, credential) ==
  [path    |-> <<>>,
   query   |-> <<>>,
   headers |-> [w \in {CONTENT_TYPE} \cup ({credential} \ {NoHeader}) |->
                  IF w = credential THEN Credential ELSE BodyType],
   body    |-> DOMAIN args \cap b.variables]

(***************************************************************************)
(* What a request owes its arguments                                       *)
(***************************************************************************)

\* The places of a request that hold an argument.
Places(request, arg) ==
  {<<"path", w>> : w \in {v \in DOMAIN request.path : arg \in request.path[v]}} \cup
  {<<"query", w>> : w \in {v \in DOMAIN request.query : arg \in request.query[v]}} \cup
  {<<"header", w>> : w \in {v \in DOMAIN request.headers : request.headers[v] = arg}} \cup
  (IF arg \in request.body THEN {<<"body", arg>>} ELSE {})

\* The parameters that an argument fills at a location.
Filled(b, arg, location) == {p \in Range(b.parameters) : p.arg = arg /\ p.location = location}

\* A call with a value that its place in a request does not take.
Unfit(b, args) ==
  \E n \in DOMAIN args : \/ args[n] = "empty text" /\ Filled(b, n, "path") # {}
                         \/ args[n] = "line break" /\ Filled(b, n, "header") # {}

\* An argument that a query has no pair for.
Vanishes(b, args, n) ==
  args[n] = "empty list" /\ \E p \in Filled(b, n, "query") : p.explode

\* Header parameters that write over one another, or that the body's type writes over.
HeadersOverlap(b) ==
  \/ \E i, j \in At(b, "header") : i # j /\ b.parameters[i].wire = b.parameters[j].wire
  \/ b.body.mode # "none" /\ \E i \in At(b, "header") : b.parameters[i].wire = CONTENT_TYPE
=============================================================================
