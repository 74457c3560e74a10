------------------------------ MODULE Configure ------------------------------
(***************************************************************************)
(* mcp-portal configure (cli.py, configure/): runs over a config file and  *)
(* a policy file while the upstream's document changes between them.       *)
(*                                                                         *)
(* A run loads both files and the document, asks about operations that are *)
(* new or changed, renders both files, and writes the policy file and then *)
(* the config file, each after a confirmation.  Declining either, or       *)
(* killing the program, ends the run where it is.  A rendered file follows *)
(* from what was loaded and decided, so it is computed where it is written.*)
(*                                                                         *)
(* An operation, in the document and in the config's operations[], is a    *)
(* record of what configure compares (binding, protocol), groups by        *)
(* (group, its first tag) and what the policy matches; configured entries  *)
(* keep their binding over a write and a load.  Policies are as in Policy, *)
(* but in a file rules and their details have an order, and it matters.    *)
(***************************************************************************)
EXTENDS Policy, Lists, SequencesExt

CONSTANTS
  Version,     \* what a document may say an operation is
  HandEntries, \* the operations[] a config may come with
  HandPolicy,  \* the policy files an operator may write
  Type,        \* the detail types an operator may answer
  NoDetail,
  NoPolicy

Sensitivity == {"normal", "sensitive"}

Operation ==
  [id : STRING, tags : SUBSET STRING, group : STRING, upstream : STRING, effect : STRING,
   sensitivity : Sensitivity, binding : STRING, protocol : {"http", "graphql"}]

AuthorizationDetail ==
  [type : STRING, actions : SUBSET STRING, locations : SUBSET STRING, datatypes : SUBSET STRING,
   privileges : SUBSET STRING, identifier : STRING \cup {NoIdentifier}]

Match ==
  [ids : SUBSET STRING, tags : SUBSET STRING, upstream : SUBSET STRING, effect : SUBSET STRING,
   sensitivity : SUBSET STRING]

Rule == [match : Match, require : Seq(AuthorizationDetail), carry : BOOLEAN]

Decision == [op : Operation, exposed : BOOLEAN, require : AuthorizationDetail \cup {NoDetail}]

PolicyFile == [unmatched : {"allow", "deny"}, rules : Seq(Rule)]

ASSUME MarkersAssumption == NoDetail \notin AuthorizationDetail /\ NoPolicy \notin PolicyFile

\* An operations[] or a document is finite, and names an operation once: the server
\* takes no others (merge_operations, build_toolset).
Listing(ops) == IsFiniteSet(ops) /\ \A a, b \in ops : a.id = b.id => a = b

Loads(file) ==
  file.unmatched = "deny" => \A rule \in ToSet(file.rules) : rule.require # <<>>

\* A rule that has nothing to carry; the loader takes it.
CarryOnly(rule) == rule.carry /\ rule.require = <<>>

ASSUME VersionAssumption == Version \subseteq Operation /\ Type \subseteq STRING

ASSUME HandAssumption ==
  /\ \A ops \in HandEntries : ops \subseteq Operation /\ Listing(ops)
  /\ \A file \in HandPolicy : file \in PolicyFile /\ Loads(file)

VARIABLES
  document,   \* the operations introspection finds
  entries,    \* the config file's operations[]
  linked,     \* the config file refers to the policy file
  policyFile, \* the policy file
  phase,      \* "idle", or which of the two files awaits its confirmation
  decisions,  \* what the run has decided
  asked       \* the operations it has asked about one by one

vars == <<document, entries, linked, policyFile, phase, decisions, asked>>

Document == {ops \in SUBSET Version : Listing(ops)}

Loaded == IF linked THEN policyFile ELSE NoPolicy

Detail(type, actions) ==
  [type |-> type, actions |-> actions, locations |-> {}, datatypes |-> {},
   privileges |-> {}, identifier |-> NoIdentifier]

\* RequiredDetail: what configure can express of a detail.
Bare(d) == Detail(d.type, d.actions)

\* What the server enforces of a policy file (no file: the default policy).
Enforced(file) ==
  IF file = NoPolicy
    THEN [unmatched |-> "allow", rules |-> {}]
    ELSE [unmatched |-> file.unmatched,
          rules |-> {[rule EXCEPT !.require = ToSet(@)] : rule \in ToSet(file.rules)}]

(***************************************************************************)
(* configure/reconcile.py                                                  *)
(***************************************************************************)

\* _require_for: the first of all the details that the operation's rules require.
RequireFor(op, file) ==
  LET rules == IF file = NoPolicy THEN <<>> ELSE file.rules
      requiring == {i \in DOMAIN rules : Matches(op, rules[i].match) /\ rules[i].require # <<>>}
  IN  IF requiring = {} THEN NoDetail ELSE Bare(Head(Filtered(rules, requiring)[1].require))

\* decisions_from_config: GraphQL entries are skipped.
Previous == {e \in entries : e.protocol = "http"}

\* diff_operation_ids.  Without entries everything is new, and surveyed.
Unchanged == {e \in Previous : \E op \in document : op.id = e.id /\ op.binding = e.binding}

\* Wrong on purpose: the whole document is surveyed again.
WholeDocument == document

ToSurvey == {op \in document : \A e \in Unchanged : e.id # op.id}

Kept(e) == [op |-> e, exposed |-> TRUE, require |-> RequireFor(e, Loaded)]

(***************************************************************************)
(* configure/survey.py                                                     *)
(***************************************************************************)

\* Wrong on purpose: the previous decision is not looked up.
ForgetfulDefault(op) == [sensitivity |-> op.sensitivity, require |-> NoDetail]

\* _default_for: the previous decision on a changed operation is the proposal.
DefaultFor(op) ==
  LET before == {e \in Previous : e.id = op.id}
  IN  IF before = {}
        THEN [sensitivity |-> op.sensitivity, require |-> NoDetail]
        ELSE LET e == CHOOSE e \in before : TRUE
             IN  [sensitivity |-> e.sensitivity, require |-> RequireFor(e, Loaded)]

\* A group is accepted: every operation of it is exposed as proposed.
Accept(op) ==
  [op |-> [op EXCEPT !.sensitivity = DefaultFor(op).sensitivity],
   exposed |-> TRUE,
   require |-> IF op.effect = "read_only" THEN NoDetail ELSE DefaultFor(op).require]

Answer == [exposed : BOOLEAN, sensitivity : Sensitivity, type : Type \cup {NoDetail}]

\* _survey_one: the answer is a type, never its actions.
SurveyOne(op, answer) ==
  [op |-> [op EXCEPT !.sensitivity = answer.sensitivity],
   exposed |-> answer.exposed,
   require |-> IF op.effect = "read_only" \/ ~answer.exposed \/ answer.type = NoDetail
                 THEN NoDetail ELSE Detail(answer.type, {})]

(***************************************************************************)
(* configure/write.py                                                      *)
(***************************************************************************)

OnlyId(id) == [ids |-> {id}, tags |-> {}, upstream |-> {}, effect |-> {}, sensitivity |-> {}]

IdShaped(rule, ids) == \E id \in ids : rule.match = OnlyId(id)

\* Wrong on purpose: the carry flag is overlooked.
ExpressibleCarried(rule) ==
  \/ rule.require = <<>>
  \/ Len(rule.require) = 1 /\ Bare(rule.require[1]) = rule.require[1]

\* _within_required_detail_shape
Expressible(rule) ==
  /\ ~rule.carry
  /\ \/ rule.require = <<>>
     \/ Len(rule.require) = 1 /\ Bare(rule.require[1]) = rule.require[1]

Owned(rule, ids) == IdShaped(rule, ids) /\ Expressible(rule)

OwnRule(d) == [match |-> OnlyId(d.op.id), carry |-> FALSE, require |-> <<d.require>>]

\* Wrong on purpose: every exposed operation gets a rule.
RulesForAll(ds) ==
  {[OwnRule(d) EXCEPT !.require = IF d.require = NoDetail THEN <<>> ELSE @] :
     d \in {d \in ds : d.exposed}}

OwnRules(ds) == {OwnRule(d) : d \in {d \in ds : d.exposed /\ d.require # NoDetail}}

\* render_policy: foreign rules in their order, then one rule per requirement decided
\* on, but none beside a foreign rule for the same id.  Generated rules have different
\* ids, so their order is of no consequence.
RenderPolicy(ds, file) ==
  LET ids == {d.op.id : d \in ds}
      existing == IF file = NoPolicy THEN <<>> ELSE file.rules
      foreign == Filtered(existing, {i \in DOMAIN existing : ~Owned(existing[i], ids)})
      plain == {d \in ds : \A rule \in ToSet(foreign) : rule.match # OnlyId(d.op.id)}
  IN  [unmatched |-> IF file = NoPolicy THEN "allow" ELSE file.unmatched,
       rules |-> foreign \o SetToSeq(OwnRules(plain))]

\* render_text: a file the config does not refer to is written over.  A YAML file keeps
\* the top-level keys that were not rendered, its default among them; a JSON file does
\* not.
RenderText(rendered) ==
  {rendered} \cup
  (IF linked \/ policyFile = NoPolicy THEN {}
                                     ELSE {[rendered EXCEPT !.unmatched = policyFile.unmatched]})

\* render_config refuses to write a GraphQL operation.
Renderable(ds) == \A d \in ds : d.exposed => d.op.protocol = "http"

RenderConfig(ds) == {d.op : d \in {d \in ds : d.exposed}}

(***************************************************************************)
(* _run_configure (cli.py)                                                 *)
(***************************************************************************)

Init ==
  /\ document \in Document
  /\ entries \in HandEntries
  /\ \/ linked = FALSE /\ policyFile = NoPolicy
     \/ linked = TRUE /\ policyFile \in HandPolicy
  /\ phase = "idle" /\ decisions = {} /\ asked = {}

\* Load, introspect, survey or reconcile, and show the policy file's diff.  The
\* operator accepts the groups in accepted and answers for the rest one by one.
Run ==
  /\ phase = "idle"
  /\ \E accepted \in SUBSET {op.group : op \in ToSurvey} :
       LET single == {op \in ToSurvey : op.group \notin accepted}
       IN  \E answer \in [single -> Answer] :
             /\ decisions' = {Kept(e) : e \in Unchanged}
                             \cup {Accept(op) : op \in ToSurvey \ single}
                             \cup {SurveyOne(op, answer[op]) : op \in single}
             /\ asked' = {op.id : op \in single}
  /\ Renderable(decisions')
  /\ phase' = "policy"
  /\ UNCHANGED <<document, entries, linked, policyFile>>

WritePolicy ==
  /\ phase = "policy"
  /\ policyFile' \in RenderText(RenderPolicy(decisions, Loaded))
  /\ phase' = "config"
  /\ UNCHANGED <<document, entries, linked, decisions, asked>>

WriteConfig ==
  /\ phase = "config"
  /\ entries' = RenderConfig(decisions)
  /\ linked' = TRUE
  /\ phase' = "idle" /\ decisions' = {} /\ asked' = {}
  /\ UNCHANGED <<document, policyFile>>

\* A confirmation is declined, or the program killed.
Stop ==
  /\ phase # "idle"
  /\ phase' = "idle" /\ decisions' = {} /\ asked' = {}
  /\ UNCHANGED <<document, entries, linked, policyFile>>

DocumentChanges ==
  /\ phase = "idle"
  /\ document' \in Document
  /\ UNCHANGED <<entries, linked, policyFile, phase, decisions, asked>>

\* The operator rewrites the policy file, and may refer to it from the config.
EditPolicy ==
  /\ phase = "idle"
  /\ policyFile' \in HandPolicy
  /\ linked' \in {linked, TRUE}
  /\ UNCHANGED <<document, entries, phase, decisions, asked>>

Next == Run \/ WritePolicy \/ WriteConfig \/ Stop \/ DocumentChanges \/ EditPolicy

Spec == Init /\ [][Next]_vars

(***************************************************************************)
(* Properties                                                              *)
(***************************************************************************)

\* The state is well formed: in particular the config file never holds two entries, and
\* a run never two decisions, for one operation (merge.py:26 refuses such a file).
TypeOK ==
  /\ document \in Document
  /\ entries \subseteq Operation /\ Listing(entries)
  /\ policyFile \in PolicyFile \cup {NoPolicy}
  /\ linked \in BOOLEAN /\ (linked => policyFile # NoPolicy)
  /\ phase \in {"idle", "policy", "config"}
  /\ decisions \subseteq Decision /\ IsFiniteSet(decisions)
  /\ \A a, b \in decisions : a.op.id = b.op.id => a = b
  /\ asked \subseteq {d.op.id : d \in decisions}

\* Whatever runs, declined runs and document changes come together, the policy file
\* written can be loaded again: under a default of deny each rule requires something
\* (config/policy.py, _require_less_rule_forbidden_under_deny).
WrittenPolicyLoads == policyFile # NoPolicy => Loads(policyFile)

PolicyWritten == phase = "policy" /\ phase' = "config"

\* What configure cannot express is out of its reach: no write changes which details any
\* operation carries to the IdP, or drops a required detail with more than a type and
\* actions, be the operation decided on, gone from the document or back in it
\* (write.py, render_policy: "authorization policy must never be silently regenerated").
BeyondConfigureSurvives ==
  [][ PolicyWritten /\ linked =>
        LET before == Enforced(policyFile)
            after == Enforced(policyFile')
        IN  \A op \in Version :
              /\ Carry(after, op) = Carry(before, op)
              /\ \A d \in Required(before, op) : d = Bare(d) \/ d \in Required(after, op) ]_vars

\* An HTTP operation that is closed to callers without authorization details does not
\* open to them unless the operator was asked about it, or its changed definition is now
\* read-only, or a carry-only rule is about it alone (reconcile.py's decisions,
\* survey.py's defaults, write.py's generated rules).
ClosedStaysClosed ==
  [][ PolicyWritten /\ linked =>
        \A d \in decisions, e \in entries :
          /\ d.exposed /\ d.op.id = e.id
          /\ e.protocol = "http" /\ e.id \notin asked
          /\ e \in Unchanged \/ d.op.effect # "read_only"
          /\ \A rule \in ToSet(policyFile.rules) : rule.match = OnlyId(e.id) => ~CarryOnly(rule)
          /\ ~Allowed(Enforced(policyFile), e, {})
          => ~Allowed(Enforced(policyFile'), d.op, {}) ]_vars

\* Violated by the code.  Unchanged operations are left exactly as recorded
\* (reconcile.py:5): no write takes a requirement from them.  A run keeps a rule about
\* one of them that only carries and, for its sake, writes none that requires anything
\* (write.py:163-175), though it takes away the rule that did.
UnchangedLeftAsRecorded ==
  [][ PolicyWritten =>
        \A e \in Unchanged :
          Required(Enforced(Loaded), e) \subseteq Required(Enforced(policyFile'), e) ]_vars

\* Violated by the code.  An entry leaves the config only if the run reports it as removed
\* or the operator declined it (reconcile.py:2, "never silently dropped").
RemovedAreReported ==
  [][ phase = "config" /\ phase' = "idle" /\ entries' # entries =>
        \A e \in entries :
          \/ \E kept \in entries' : kept.id = e.id
          \/ e \in Previous /\ \A op \in document : op.id # e.id
          \/ \E d \in decisions : d.op.id = e.id /\ ~d.exposed ]_vars
=============================================================================
