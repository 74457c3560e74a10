----------------------------- MODULE Selection -----------------------------
(***************************************************************************)
(* The selection set that is generated for a GraphQL operation             *)
(* (sources/graphql_selection.py): which fields of the returned type, and  *)
(* of the types those return, a call asks for.                             *)
(*                                                                         *)
(* A schema gives each object type its fields, by name: the type a field   *)
(* returns, wrappers removed, and whether it takes arguments.  A selection *)
(* is the set of the paths from its root to what it selects: a leaf, or    *)
(* the __typename that stands for an object.                               *)
(***************************************************************************)
EXTENDS Integers, Sequences, FiniteSets, SequencesExt

CONSTANTS
  ObjectType,  \* the names a schema may give its object types
  FieldName

\* What is not an object: a scalar or an enum, and a union, to which the code
\* gives no sub-selection either.
Leaf == "leaf"

ASSUME SelectionAssumption == IsFiniteSet(ObjectType) /\ Leaf \notin ObjectType

\* A field returns an object type, defined or not, or what is not an object.
IsSchema(schema) ==
  /\ DOMAIN schema \subseteq ObjectType
  /\ \A t \in DOMAIN schema :
       /\ DOMAIN schema[t] \subseteq FieldName
       /\ \A f \in DOMAIN schema[t] : schema[t][f].target \in ObjectType \cup {Leaf}

TYPENAME == "__typename"

\* The paths through object types that do not meet a type twice.
SimplePaths ==
  {p \in UNION {[1 .. n -> ObjectType] : n \in 1 .. Cardinality(ObjectType)} : IsInjective(p)}

\* Neither excluded by type_policy nor in need of arguments nobody would supply.
\* A type that is not defined has no fields.
Eligible(schema, policy, type) ==
  IF type \notin DOMAIN schema THEN {}
  ELSE {f \in DOMAIN schema[type] : f \notin policy[type] /\ ~schema[type][f].argumented}

\* Wrong on purpose: a field with nothing to select below it is selected bare.
NestedBare(f, lines) == IF lines = {} THEN {<<f>>} ELSE {<<f>> \o l : l \in lines}

\* A field of an object type, around what is selected of that type.
Nested(f, lines) == {<<f>> \o l : l \in lines}

\* _fields_for: what is selected of the last type of each path.  A type that is
\* already on the path stands for itself.
FieldsFor(schema, policy) ==
  LET fields[p \in SimplePaths] ==
        LET type == p[Len(p)]
            selected(f) ==
              LET target == schema[type][f].target
              IN  CASE target = Leaf       -> {<<f>>}
                    [] target \in Range(p) -> {<<f, TYPENAME>>}
                    [] OTHER               -> Nested(f, fields[Append(p, target)])
        IN  UNION {selected(f) : f \in Eligible(schema, policy, type)}
  IN  fields

\* The object types the walk from a type arrives at.
Visited(schema, policy, type) ==
  LET next(t) == {schema[t][f].target : f \in Eligible(schema, policy, t)} \ {Leaf}
      within[n \in 0 .. Cardinality(ObjectType)] ==
        IF n = 0 THEN {type}
        ELSE within[n - 1] \cup UNION {next(t) : t \in within[n - 1]}
  IN  within[Cardinality(ObjectType)]

\* No SelectionError is raised: the schema defines every type it mentions on the way.
Selectable(schema, policy, type) == Visited(schema, policy, type) \subseteq DOMAIN schema

\* build_selection_set
SelectionSet(schema, policy, type) ==
  LET lines == FieldsFor(schema, policy)[<<type>>]
  IN  IF lines = {} THEN {<<TYPENAME>>} ELSE lines

Leads(schema, policy, f, type, target) ==
  f \in Eligible(schema, policy, type) /\ schema[type][f].target = target

\* The fields that may lead down a path of types, and on from its last.
Along(schema, policy, p) ==
  {fs \in [1 .. Len(p) -> FieldName] :
     \A i \in 1 .. Len(p) - 1 : Leads(schema, policy, fs[i], p[i], p[i + 1])}

\* The reference: along every path of types that meets none twice, the fields that
\* lead down it and end at a leaf or where a type of the path occurs again.
Reference(schema, policy, type) ==
  LET from == {p \in SimplePaths : p[1] = type}
      ends(fs, p, target) == Leads(schema, policy, fs[Len(p)], p[Len(p)], target)
  IN  UNION {{fs \in Along(schema, policy, p) : ends(fs, p, Leaf)} \cup
             {Append(fs, TYPENAME) :
                fs \in {gs \in Along(schema, policy, p) : \E t \in Range(p) : ends(gs, p, t)}} :
             p \in from}
=============================================================================
