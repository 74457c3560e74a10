--------------------------- MODULE ConfigureProofs ---------------------------
(***************************************************************************)
(* mcp-portal configure, for every document, config and policy file.       *)
(***************************************************************************)
EXTENDS Configure, Lemmas

(***************************************************************************)
(* Policies                                                                *)
(***************************************************************************)

\* What the server makes of a policy file.
LEMMA EnforcedFile ==
  ASSUME NEW file \in PolicyFile, NEW op
  PROVE  /\ Enforced(file).unmatched = file.unmatched
         /\ \A d : d \in Required(Enforced(file), op) <=>
                \E rule \in ToSet(file.rules) : Matches(op, rule.match) /\ d \in ToSet(rule.require)
         /\ \A d : d \in Carry(Enforced(file), op) <=>
                \E rule \in ToSet(file.rules) :
                  rule.carry /\ Matches(op, rule.match) /\ d \in ToSet(rule.require)
<1> DEFINE listed == ToSet(file.rules)
           seen(rule) == [rule EXCEPT !.require = ToSet(@)]
<1>1. listed \subseteq Rule
  BY DEF PolicyFile, ToSet
<1>2. \A rule \in listed :
         /\ seen(rule).match = rule.match /\ seen(rule).carry = rule.carry
         /\ seen(rule).require = ToSet(rule.require)
  BY <1>1 DEF Rule
<1>3. file # NoPolicy
  BY MarkersAssumption
<1>4. /\ Enforced(file).unmatched = file.unmatched
      /\ Enforced(file).rules = {seen(rule) : rule \in listed}
  BY <1>3 DEF Enforced
<1> HIDE DEF seen, listed
<1>5. \A d : d \in Required(Enforced(file), op) <=>
         \E rule \in listed : Matches(op, rule.match) /\ d \in ToSet(rule.require)
  BY <1>2, <1>4 DEF Required, AccumulatedDetails, MatchingRules
<1>6. \A d : d \in Carry(Enforced(file), op) <=>
         \E rule \in listed : rule.carry /\ Matches(op, rule.match) /\ d \in ToSet(rule.require)
  BY <1>2, <1>4 DEF Carry, AccumulatedDetails, MatchingRules
<1> QED
  BY <1>4, <1>5, <1>6 DEF listed

\* A caller without authorization details gets in where nothing is required, by default.
LEMMA Closed ==
  ASSUME NEW policy, NEW op
  PROVE  Allowed(policy, op, {}) <=> Required(policy, op) = {} /\ policy.unmatched = "allow"
BY DEF Allowed, Covers

(***************************************************************************)
(* Requirements                                                            *)
(***************************************************************************)

\* What configure can express of a detail is a detail.
LEMMA BareDetail ==
  ASSUME NEW d \in AuthorizationDetail
  PROVE  Bare(d) \in AuthorizationDetail /\ Bare(d) # NoDetail
<1>1. Bare(d) \in AuthorizationDetail
  BY DEF Bare, Detail, AuthorizationDetail
<1> QED
  BY <1>1, MarkersAssumption

\* The requirement found for an operation is a detail exactly if a rule requires one.
LEMMA RequirementFound ==
  ASSUME NEW file \in PolicyFile \cup {NoPolicy}, NEW op
  PROVE  /\ RequireFor(op, file) \in AuthorizationDetail \cup {NoDetail}
         /\ file \in PolicyFile =>
              (RequireFor(op, file) # NoDetail <=>
                 \E rule \in ToSet(file.rules) : Matches(op, rule.match) /\ rule.require # <<>>)
<1> DEFINE rules == IF file = NoPolicy THEN <<>> ELSE file.rules
           requiring == {i \in DOMAIN rules : Matches(op, rules[i].match) /\ rules[i].require # <<>>}
<1>1. rules \in Seq(Rule) /\ (file \in PolicyFile => rules = file.rules)
  BY MarkersAssumption DEF PolicyFile
<1>2. RequireFor(op, file) =
        IF requiring = {} THEN NoDetail ELSE Bare(Head(Filtered(rules, requiring)[1].require))
  BY DEF RequireFor
<1>3. requiring # {} <=> \E rule \in ToSet(rules) : Matches(op, rule.match) /\ rule.require # <<>>
  BY DEF ToSet
<1>4. ASSUME requiring # {}
      PROVE  RequireFor(op, file) \in AuthorizationDetail /\ RequireFor(op, file) # NoDetail
  <2> DEFINE rule == Filtered(rules, requiring)[1]
  <2>1. requiring \in SUBSET DOMAIN rules
    OBVIOUS
  <2>2. \A i \in requiring : rules[i] \in Rule /\ rules[i].require # <<>>
    BY <1>1
  <2> HIDE DEF rules, requiring
  <2>3. rule \in Rule /\ rule.require # <<>>
    BY <1>1, <1>4, <2>1, <2>2, FilteredHolds
  <2> HIDE DEF rule
  <2>4. rule.require \in Seq(AuthorizationDetail)
    BY <2>3 DEF Rule
  <2>5. Head(rule.require) \in AuthorizationDetail
    BY <2>3, <2>4
  <2> QED
    BY <1>2, <1>4, <2>5, BareDetail DEF rule
<1> HIDE DEF requiring, rules
<1> QED
  BY <1>1, <1>2, <1>3, <1>4

(***************************************************************************)
(* Rendering                                                               *)
(***************************************************************************)

\* The foreign rules of a file, and the decisions none of them is about.
Foreign(ds, rule) == ~Owned(rule, {d.op.id : d \in ds})

Plain(ds, rules) == {d \in ds : \A rule \in rules : Foreign(ds, rule) => rule.match # OnlyId(d.op.id)}

\* What is rendered is the foreign rules and a rule for each requirement decided on.
LEMMA Rendered ==
  ASSUME NEW ds \in SUBSET Decision, IsFiniteSet(ds), NEW file \in PolicyFile \cup {NoPolicy}
  PROVE  /\ RenderPolicy(ds, file) \in PolicyFile
         /\ file = NoPolicy => RenderPolicy(ds, file).unmatched = "allow"
         /\ file \in PolicyFile => RenderPolicy(ds, file).unmatched = file.unmatched
         /\ file = NoPolicy => ToSet(RenderPolicy(ds, file).rules) \subseteq OwnRules(ds)
         /\ file \in PolicyFile =>
              ToSet(RenderPolicy(ds, file).rules) =
                {rule \in ToSet(file.rules) : Foreign(ds, rule)} \cup OwnRules(Plain(ds, ToSet(file.rules)))
         /\ \A rule \in OwnRules(ds) : Len(rule.require) = 1 /\ rule.require # <<>> /\ ~rule.carry
<1> DEFINE ids == {d.op.id : d \in ds}
           existing == IF file = NoPolicy THEN <<>> ELSE file.rules
           kept == {i \in DOMAIN existing : ~Owned(existing[i], ids)}
           foreign == Filtered(existing, kept)
           plain == {d \in ds : \A rule \in ToSet(foreign) : rule.match # OnlyId(d.op.id)}
           own == OwnRules(plain)
<1>1. existing \in Seq(Rule) /\ (file \in PolicyFile => file # NoPolicy /\ existing = file.rules)
  BY MarkersAssumption DEF PolicyFile
<1>2. /\ RenderPolicy(ds, file).unmatched = (IF file = NoPolicy THEN "allow" ELSE file.unmatched)
      /\ RenderPolicy(ds, file).rules = foreign \o SetToSeq(own)
      /\ RenderPolicy(ds, file) =
           [unmatched |-> IF file = NoPolicy THEN "allow" ELSE file.unmatched,
            rules |-> foreign \o SetToSeq(own)]
  BY DEF RenderPolicy
<1>3. foreign \in Seq(Rule) /\ ToSet(foreign) = {existing[i] : i \in kept}
  <2>1. kept \in SUBSET DOMAIN existing
    OBVIOUS
  <2> HIDE DEF existing, kept
  <2> QED
    BY <1>1, <2>1, FilteredHolds
<1>4. ToSet(foreign) = {rule \in ToSet(existing) : Foreign(ds, rule)}
  <2>1. {existing[i] : i \in kept} = {rule \in ToSet(existing) : Foreign(ds, rule)}
    BY DEF ToSet, Foreign
  <2> HIDE DEF foreign
  <2> QED
    BY <1>3, <2>1
<1> HIDE DEF foreign, kept
<1>5. plain = Plain(ds, ToSet(existing))
  BY <1>4 DEF Plain
<1>6. ASSUME NEW d \in ds, d.require # NoDetail
      PROVE  /\ OwnRule(d) \in Rule /\ Len(OwnRule(d).require) = 1
             /\ OwnRule(d).require # <<>> /\ ~OwnRule(d).carry
  <2>1. d \in Decision /\ d.op.id \in STRING /\ d.require \in AuthorizationDetail
    BY <1>6 DEF Decision, Operation
  <2>2. OnlyId(d.op.id) \in Match
    BY <2>1 DEF OnlyId, Match
  <2>3. <<d.require>> \in Seq(AuthorizationDetail) /\ Len(<<d.require>>) = 1 /\ <<d.require>> # <<>>
    BY <2>1
  <2> QED
    BY <2>2, <2>3 DEF OwnRule, Rule
<1>7. \A S \in SUBSET ds : OwnRules(S) \subseteq Rule /\ OwnRules(S) \subseteq OwnRules(ds)
  BY <1>6 DEF OwnRules
<1>8. \A rule \in OwnRules(ds) : Len(rule.require) = 1 /\ rule.require # <<>> /\ ~rule.carry
  BY <1>6 DEF OwnRules
<1>9. plain \in SUBSET ds
  OBVIOUS
<1>10. IsFiniteSet(own)
  <2> DEFINE requiring == {d \in plain : d.exposed /\ d.require # NoDetail}
             make == [d \in requiring |-> OwnRule(d)]
  <2>1. IsFiniteSet(requiring)
    <3>1. requiring \in SUBSET ds
      OBVIOUS
    <3> QED
      BY <3>1, FS_Subset
  <2>2. make \in Surjection(requiring, own)
    BY DEF Surjection, OwnRules
  <2> HIDE DEF make, requiring
  <2> QED
    BY <2>1, <2>2, FS_Surjection
<1> HIDE DEF plain
<1>11. own \subseteq Rule /\ SetToSeq(own) \in Seq(own) /\ ToSet(SetToSeq(own)) = own
  BY <1>7, <1>9, <1>10, Sequenced
<1> HIDE DEF own
<1>12. SetToSeq(own) \in Seq(Rule)
  BY <1>11
<1>13. /\ foreign \o SetToSeq(own) \in Seq(Rule)
       /\ ToSet(foreign \o SetToSeq(own)) = ToSet(foreign) \cup own
  BY <1>3, <1>11, <1>12, Joined
<1>14. RenderPolicy(ds, file) \in PolicyFile
  BY <1>2, <1>13 DEF PolicyFile
<1>15. file = NoPolicy => ToSet(foreign) = {}
  <2> ASSUME file = NoPolicy PROVE ToSet(foreign) = {}
    BY <1>4 DEF ToSet
  <2> QED
    OBVIOUS
<1>16. own \subseteq OwnRules(ds)
  BY <1>7, <1>9 DEF own
<1> HIDE DEF existing
<1> QED
  BY <1>1, <1>2, <1>4, <1>5, <1>8, <1>13, <1>14, <1>15, <1>16, MarkersAssumption DEF own

(***************************************************************************)
(* The inductive invariant                                                 *)
(***************************************************************************)

\* It holds of what an operator writes, and of what configure makes of it.
FileOK == policyFile # NoPolicy => Loads(policyFile)

\* A decision still to be written stands for an unchanged entry, for an operation
\* accepted as proposed, or for one that was asked about.
DecidedOK ==
  phase = "policy" =>
    \A d \in decisions :
      \/ \E e \in Unchanged : d = Kept(e)
      \/ \E op \in ToSurvey : d = Accept(op)
      \/ d.op.id \in asked

CInv ==
  /\ TypeOK /\ FileOK /\ DecidedOK
  /\ phase = "config" => policyFile # NoPolicy

(***************************************************************************)
(* The steps                                                               *)
(***************************************************************************)

\* A requirement looked up for a decision is a detail or none.
LEMMA LookedUp ==
  ASSUME TypeOK, NEW op
  PROVE  RequireFor(op, Loaded) \in AuthorizationDetail \cup {NoDetail}
<1>1. Loaded \in PolicyFile \cup {NoPolicy}
  BY DEF TypeOK, Loaded
<1> QED
  BY <1>1, RequirementFound

\* An entry that is unchanged is decided on as it is.
LEMMA KeptDecides ==
  ASSUME TypeOK, NEW e \in Unchanged
  PROVE  Kept(e) \in Decision /\ Kept(e).op = e /\ e \in entries /\ e \in Operation
<1>1. e \in entries /\ e \in Operation
  BY DEF Unchanged, Previous, TypeOK
<1> QED
  BY <1>1, LookedUp DEF Kept, Decision

\* An operation that is accepted is decided on under its id.
LEMMA AcceptDecides ==
  ASSUME TypeOK, NEW op \in ToSurvey
  PROVE  Accept(op) \in Decision /\ Accept(op).op.id = op.id /\ op \in document
<1>1. op \in document /\ op \in Operation
  BY VersionAssumption DEF ToSurvey, TypeOK, Document
<1>2. /\ DefaultFor(op).sensitivity \in Sensitivity
      /\ DefaultFor(op).require \in AuthorizationDetail \cup {NoDetail}
  <2> DEFINE before == {e \in Previous : e.id = op.id}
             e == CHOOSE e \in before : TRUE
  <2>1. CASE before = {}
    BY <2>1, <1>1 DEF DefaultFor, Operation
  <2>2. CASE before # {}
    <3>1. e \in before
      BY <2>2
    <3>2. e \in Operation
      BY <3>1 DEF Previous, TypeOK
    <3> HIDE DEF e
    <3>3. RequireFor(e, Loaded) \in AuthorizationDetail \cup {NoDetail}
      BY LookedUp
    <3>4. DefaultFor(op) = [sensitivity |-> e.sensitivity, require |-> RequireFor(e, Loaded)]
      BY <2>2 DEF DefaultFor, e
    <3> QED
      BY <3>2, <3>3, <3>4 DEF Operation
  <2> QED
    BY <2>1, <2>2
<1>3. [op EXCEPT !.sensitivity = DefaultFor(op).sensitivity] \in Operation
  BY <1>1, <1>2 DEF Operation
<1>4. [op EXCEPT !.sensitivity = DefaultFor(op).sensitivity].id = op.id
  BY <1>1 DEF Operation
<1> QED
  BY <1>1, <1>2, <1>3, <1>4 DEF Accept, Decision

\* So is one that is answered for.
LEMMA SurveyDecides ==
  ASSUME TypeOK, NEW op \in ToSurvey, NEW answer \in Answer
  PROVE  SurveyOne(op, answer) \in Decision /\ SurveyOne(op, answer).op.id = op.id
<1>1. op \in Operation
  BY VersionAssumption DEF ToSurvey, TypeOK, Document
<1>2. answer.sensitivity \in Sensitivity /\ answer.exposed \in BOOLEAN
  BY DEF Answer
<1>3. answer.type # NoDetail => Detail(answer.type, {}) \in AuthorizationDetail
  BY VersionAssumption DEF Answer, Detail, AuthorizationDetail
<1>4. /\ [op EXCEPT !.sensitivity = answer.sensitivity] \in Operation
      /\ [op EXCEPT !.sensitivity = answer.sensitivity].id = op.id
  BY <1>1, <1>2 DEF Operation
<1> QED
  BY <1>2, <1>3, <1>4 DEF SurveyOne, Decision

\* A run decides once on each operation.
LEMMA RunKeeps ==
  ASSUME CInv, Run
  PROVE  CInv'
<1>1. PICK accepted \in SUBSET {op.group : op \in ToSurvey} :
        LET single == {op \in ToSurvey : op.group \notin accepted}
        IN  \E answer \in [single -> Answer] :
              /\ decisions' = {Kept(e) : e \in Unchanged}
                              \cup {Accept(op) : op \in ToSurvey \ single}
                              \cup {SurveyOne(op, answer[op]) : op \in single}
              /\ asked' = {op.id : op \in single}
  BY DEF Run
<1> DEFINE single == {op \in ToSurvey : op.group \notin accepted}
<1>2. PICK answer \in [single -> Answer] :
        /\ decisions' = {Kept(e) : e \in Unchanged}
                        \cup {Accept(op) : op \in ToSurvey \ single}
                        \cup {SurveyOne(op, answer[op]) : op \in single}
        /\ asked' = {op.id : op \in single}
  BY <1>1
<1>3. TypeOK /\ phase' = "policy" /\ UNCHANGED <<document, entries, linked, policyFile>>
  BY DEF CInv, Run
<1>4. single \subseteq ToSurvey
  OBVIOUS
<1> HIDE DEF single
<1> DEFINE kept == [e \in Unchanged |-> Kept(e)]
           taken == [op \in ToSurvey \ single |-> Accept(op)]
           answered == [op \in single |-> SurveyOne(op, answer[op])]
           K == {Kept(e) : e \in Unchanged}
           T == {Accept(op) : op \in ToSurvey \ single}
           A == {SurveyOne(op, answer[op]) : op \in single}
<1>5. \A e \in Unchanged : Kept(e) \in Decision /\ Kept(e).op = e /\ e \in entries
  BY <1>3, KeptDecides
<1>6. \A op \in ToSurvey \ single : Accept(op) \in Decision /\ Accept(op).op.id = op.id
  BY <1>3, AcceptDecides
<1>7. \A op \in single :
        SurveyOne(op, answer[op]) \in Decision /\ SurveyOne(op, answer[op]).op.id = op.id
  BY <1>3, <1>4, SurveyDecides
<1>8. decisions' \subseteq Decision
  BY <1>2, <1>5, <1>6, <1>7
<1>9. IsFiniteSet(decisions')
  <2>1. IsFiniteSet(Unchanged) /\ IsFiniteSet(ToSurvey \ single) /\ IsFiniteSet(single)
    <3>1. IsFiniteSet(entries) /\ IsFiniteSet(document)
      BY <1>3 DEF TypeOK, Document, Listing
    <3>2. Unchanged \in SUBSET entries /\ ToSurvey \ single \in SUBSET document /\ single \in SUBSET document
      BY <1>4 DEF Unchanged, Previous, ToSurvey
    <3> QED
      BY <3>1, <3>2, FS_Subset
  <2>2. kept \in Surjection(Unchanged, K) /\ taken \in Surjection(ToSurvey \ single, T)
        /\ answered \in Surjection(single, A)
    BY DEF Surjection
  <2> HIDE DEF kept, taken, answered, K, T, A
  <2>3. IsFiniteSet(K) /\ IsFiniteSet(T) /\ IsFiniteSet(A)
    BY <2>1, <2>2, FS_Surjection
  <2>4. IsFiniteSet(K \cup T)
    BY <2>3, FS_Union
  <2>5. IsFiniteSet(K \cup T \cup A)
    BY <2>3, <2>4, FS_Union
  <2> QED
    BY <1>2, <2>5 DEF K, T, A
<1>10. /\ \A a, b \in entries : a.id = b.id => a = b
       /\ \A a, b \in document : a.id = b.id => a = b
  BY <1>3 DEF TypeOK, Document, Listing
<1>11. /\ Unchanged \subseteq entries /\ ToSurvey \subseteq document
       /\ \A op \in ToSurvey, e \in Unchanged : e.id # op.id
  BY DEF Unchanged, Previous, ToSurvey
<1>12. /\ \A d \in K : \E e \in Unchanged : d = Kept(e) /\ d.op.id = e.id
       /\ \A d \in T : \E op \in ToSurvey \ single : d = Accept(op) /\ d.op.id = op.id
       /\ \A d \in A : \E op \in single : d = SurveyOne(op, answer[op]) /\ d.op.id = op.id
       /\ decisions' = K \cup T \cup A
  BY <1>2, <1>5, <1>6, <1>7
<1> HIDE DEF K, T, A
<1>13. ASSUME NEW a \in decisions', NEW b \in decisions', a.op.id = b.op.id
       PROVE  a = b
  <2>1. CASE a \in K
    <3>1. PICK e \in Unchanged : a = Kept(e) /\ a.op.id = e.id
      BY <2>1, <1>12
    <3>2. \A op \in ToSurvey : b.op.id # op.id
      BY <3>1, <1>11, <1>13
    <3>3. b \in K
      BY <3>2, <1>4, <1>12
    <3>4. PICK f \in Unchanged : b = Kept(f) /\ b.op.id = f.id
      BY <3>3, <1>12
    <3>5. f = e
      BY <3>1, <3>4, <1>10, <1>11, <1>13
    <3> QED
      BY <3>1, <3>4, <3>5
  <2>2. CASE a \in T
    <3>1. PICK op \in ToSurvey \ single : a = Accept(op) /\ a.op.id = op.id
      BY <2>2, <1>12
    <3>2. \A e \in Unchanged : b.op.id # e.id
      BY <3>1, <1>11, <1>13
    <3>3. \A q \in single : b.op.id # q.id
      BY <3>1, <1>4, <1>10, <1>11, <1>13
    <3>4. b \in T
      BY <3>2, <3>3, <1>12
    <3>5. PICK q \in ToSurvey \ single : b = Accept(q) /\ b.op.id = q.id
      BY <3>4, <1>12
    <3>6. q = op
      BY <3>1, <3>5, <1>10, <1>11, <1>13
    <3> QED
      BY <3>1, <3>5, <3>6
  <2>3. CASE a \in A
    <3>1. PICK op \in single : a = SurveyOne(op, answer[op]) /\ a.op.id = op.id
      BY <2>3, <1>12
    <3>2. \A e \in Unchanged : b.op.id # e.id
      BY <3>1, <1>4, <1>11, <1>13
    <3>3. \A q \in ToSurvey \ single : b.op.id # q.id
      BY <3>1, <1>4, <1>10, <1>11, <1>13
    <3>4. b \in A
      BY <3>2, <3>3, <1>12
    <3>5. PICK q \in single : b = SurveyOne(q, answer[q]) /\ b.op.id = q.id
      BY <3>4, <1>12
    <3>6. q = op
      BY <3>1, <3>5, <1>4, <1>10, <1>11, <1>13
    <3> QED
      BY <3>1, <3>5, <3>6
  <2> QED
    BY <2>1, <2>2, <2>3, <1>12
<1>14. asked' \subseteq {d.op.id : d \in decisions'}
  BY <1>2, <1>7
<1>15. TypeOK'
  BY <1>3, <1>8, <1>9, <1>13, <1>14 DEF TypeOK
<1>16. DecidedOK'
  <2>1. Unchanged' = Unchanged /\ ToSurvey' = ToSurvey /\ Loaded' = Loaded
    BY <1>3 DEF Unchanged, Previous, ToSurvey, Loaded
  <2>2. \A e : Kept(e)' = Kept(e)
    BY <2>1 DEF Kept
  <2>3. \A op : Accept(op)' = Accept(op)
    BY <2>1, <1>3 DEF Accept, DefaultFor, Previous
  <2>4. \A d \in decisions' :
          \/ \E e \in Unchanged : d = Kept(e)
          \/ \E op \in ToSurvey : d = Accept(op)
          \/ d.op.id \in asked'
    BY <1>2, <1>7
  <2> QED
    BY <2>1, <2>2, <2>3, <2>4 DEF DecidedOK
<1> QED
  BY <1>3, <1>15, <1>16 DEF CInv, FileOK

\* What is rendered loads, under any default if nothing was there to preserve.
LEMMA RenderedLoads ==
  ASSUME TypeOK, FileOK
  PROVE  LET file == RenderPolicy(decisions, Loaded)
         IN  /\ file \in PolicyFile /\ Loads(file)
             /\ Loaded = NoPolicy => \A rule \in ToSet(file.rules) : rule.require # <<>>
<1> DEFINE file == RenderPolicy(decisions, Loaded)
<1>1. Loaded \in PolicyFile \cup {NoPolicy} /\ (Loaded # NoPolicy => Loads(Loaded))
  BY DEF TypeOK, FileOK, Loaded
<1>2. decisions \in SUBSET Decision /\ IsFiniteSet(decisions)
  BY DEF TypeOK
<1>3. /\ file \in PolicyFile
      /\ Loaded = NoPolicy => file.unmatched = "allow" /\ ToSet(file.rules) \subseteq OwnRules(decisions)
      /\ Loaded # NoPolicy =>
           /\ file.unmatched = Loaded.unmatched
           /\ ToSet(file.rules) \subseteq ToSet(Loaded.rules) \cup OwnRules(decisions)
      /\ \A rule \in OwnRules(decisions) : rule.require # <<>>
  <2>1. \A S : OwnRules(Plain(decisions, S)) \subseteq OwnRules(decisions)
    BY DEF OwnRules, Plain
  <2> QED
    BY <1>1, <1>2, <2>1, Rendered
<1> HIDE DEF file
<1>4. Loaded = NoPolicy => \A rule \in ToSet(file.rules) : rule.require # <<>>
  BY <1>3
<1>5. Loads(file)
  BY <1>1, <1>3, <1>4 DEF Loads
<1> QED
  BY <1>3, <1>4, <1>5 DEF file

LEMMA WritePolicyKeeps ==
  ASSUME CInv, WritePolicy
  PROVE  CInv'
<1> DEFINE file == RenderPolicy(decisions, Loaded)
<1>1. /\ policyFile' \in RenderText(file) /\ phase' = "config"
      /\ UNCHANGED <<document, entries, linked, decisions, asked>>
  BY DEF WritePolicy
<1>2. policyFile' \in PolicyFile /\ Loads(policyFile')
  <2>1. /\ file \in PolicyFile /\ Loads(file)
        /\ Loaded = NoPolicy => \A rule \in ToSet(file.rules) : rule.require # <<>>
    BY RenderedLoads DEF CInv
  <2> HIDE DEF file
  <2>2. CASE policyFile' = file
    BY <2>1, <2>2
  <2>3. CASE policyFile' # file
    <3>1. /\ ~linked /\ policyFile # NoPolicy
          /\ policyFile' = [file EXCEPT !.unmatched = policyFile.unmatched]
      BY <1>1, <2>3 DEF RenderText
    <3>2. Loaded = NoPolicy
      BY <3>1 DEF Loaded
    <3>3. policyFile \in PolicyFile
      BY <3>1 DEF CInv, TypeOK
    <3>4. policyFile' \in PolicyFile /\ policyFile'.rules = file.rules
      BY <2>1, <3>1, <3>3 DEF PolicyFile
    <3> QED
      BY <2>1, <3>2, <3>4 DEF Loads
  <2> QED
    BY <2>2, <2>3
<1>3. policyFile' # NoPolicy
  BY <1>2, MarkersAssumption
<1>4. TypeOK'
  BY <1>1, <1>2, <1>3 DEF CInv, TypeOK
<1> QED
  BY <1>1, <1>2, <1>3, <1>4 DEF CInv, FileOK, DecidedOK

LEMMA WriteConfigKeeps ==
  ASSUME CInv, WriteConfig
  PROVE  CInv'
<1>1. /\ phase = "config" /\ phase' = "idle" /\ decisions' = {} /\ asked' = {} /\ linked' = TRUE
      /\ entries' = RenderConfig(decisions) /\ UNCHANGED <<document, policyFile>>
  BY DEF WriteConfig
<1>2. policyFile # NoPolicy /\ TypeOK
  BY <1>1 DEF CInv
<1>3. RenderConfig(decisions) \subseteq Operation
  BY <1>2 DEF TypeOK, Decision, RenderConfig
<1>4. IsFiniteSet(RenderConfig(decisions))
  <2> DEFINE exposed == {d \in decisions : d.exposed}
             op == [d \in exposed |-> d.op]
  <2>1. IsFiniteSet(exposed)
    <3>1. exposed \in SUBSET decisions /\ IsFiniteSet(decisions)
      BY <1>2 DEF TypeOK
    <3> QED
      BY <3>1, FS_Subset
  <2>2. op \in Surjection(exposed, RenderConfig(decisions))
    BY DEF Surjection, RenderConfig
  <2> HIDE DEF op, exposed
  <2> QED
    BY <2>1, <2>2, FS_Surjection
<1>5. \A a, b \in RenderConfig(decisions) : a.id = b.id => a = b
  BY <1>2 DEF TypeOK, RenderConfig
<1>6. TypeOK'
  BY <1>1, <1>2, <1>3, <1>4, <1>5, FS_EmptySet DEF TypeOK, Listing
<1> QED
  BY <1>1, <1>2, <1>6 DEF CInv, FileOK, DecidedOK

LEMMA StopKeeps ==
  ASSUME CInv, Stop
  PROVE  CInv'
<1>1. TypeOK'
  BY FS_EmptySet DEF CInv, TypeOK, Stop
<1> QED
  BY <1>1 DEF CInv, FileOK, DecidedOK, Stop

LEMMA DocumentChangesKeeps ==
  ASSUME CInv, DocumentChanges
  PROVE  CInv'
<1>1. document' \in Document /\ phase = "idle"
      /\ UNCHANGED <<entries, linked, policyFile, phase, decisions, asked>>
  BY DEF DocumentChanges
<1>2. TypeOK'
  BY <1>1 DEF CInv, TypeOK
<1> QED
  BY <1>1, <1>2 DEF CInv, FileOK, DecidedOK

LEMMA EditPolicyKeeps ==
  ASSUME CInv, EditPolicy
  PROVE  CInv'
<1>1. /\ phase = "idle" /\ policyFile' \in HandPolicy /\ linked' \in {linked, TRUE}
      /\ UNCHANGED <<document, entries, phase, decisions, asked>>
  BY DEF EditPolicy
<1>2. policyFile' \in PolicyFile /\ Loads(policyFile')
  BY <1>1, HandAssumption
<1>3. policyFile' # NoPolicy
  BY <1>2, MarkersAssumption
<1>4. TypeOK'
  BY <1>1, <1>2, <1>3 DEF CInv, TypeOK
<1> QED
  BY <1>1, <1>2, <1>3, <1>4 DEF CInv, FileOK, DecidedOK

LEMMA Began == Init => CInv
<1> SUFFICES ASSUME Init PROVE CInv
  OBVIOUS
<1>1. /\ document \in Document /\ entries \in HandEntries
      /\ \/ linked = FALSE /\ policyFile = NoPolicy
         \/ linked = TRUE /\ policyFile \in HandPolicy
      /\ phase = "idle" /\ decisions = {} /\ asked = {}
  BY DEF Init
<1>2. entries \subseteq Operation /\ Listing(entries)
  BY <1>1, HandAssumption
<1>3. policyFile = NoPolicy \/ (policyFile \in PolicyFile /\ Loads(policyFile))
  BY <1>1, HandAssumption
<1>4. linked => policyFile # NoPolicy
  BY <1>1, HandAssumption, MarkersAssumption
<1>5. TypeOK
  BY <1>1, <1>2, <1>3, <1>4, FS_EmptySet DEF TypeOK
<1> QED
  BY <1>1, <1>3, <1>5 DEF CInv, FileOK, DecidedOK

LEMMA Keeps == CInv /\ [Next]_vars => CInv'
<1> SUFFICES ASSUME CInv, [Next]_vars PROVE CInv'
  OBVIOUS
<1>1. CASE UNCHANGED vars
  <2>1. UNCHANGED <<document, entries, linked, policyFile, phase, decisions, asked>>
    BY <1>1 DEF vars
  <2>2. TypeOK' /\ FileOK'
    BY <2>1 DEF CInv, TypeOK, FileOK
  <2>3. DecidedOK'
    BY <2>1 DEF CInv, DecidedOK, Unchanged, Previous, ToSurvey, Kept, Accept, DefaultFor, Loaded
  <2> QED
    BY <2>1, <2>2, <2>3 DEF CInv
<1> QED
  BY <1>1, RunKeeps, WritePolicyKeeps, WriteConfigKeeps, StopKeeps, DocumentChangesKeeps,
     EditPolicyKeeps DEF Next

\* The strengthening that the theorems below read their claims from.
LEMMA CInvariant == Spec => []CInv
  BY Began, Keeps, PTL DEF Spec

\* load_config refuses two entries for one operation (config/models.py): no sequence of
\* runs, declined runs, document changes and edits writes such a file.
THEOREM TypeCorrect == Spec => []TypeOK
<1>1. CInv => TypeOK
  BY DEF CInv
<1> QED
  BY <1>1, CInvariant, PTL

\* load_policy (config/policy.py) takes what render_policy wrote, whatever rules the file
\* held before and whatever was decided.
THEOREM PoliciesLoad == Spec => []WrittenPolicyLoads
<1>1. CInv => WrittenPolicyLoads
  BY DEF CInv, FileOK, WrittenPolicyLoads
<1> QED
  BY <1>1, CInvariant, PTL

(***************************************************************************)
(* What a write of the policy file does to the operations                  *)
(***************************************************************************)

\* What the policy file holds before and after it is written, in the terms of Rendered.
LEMMA Written ==
  ASSUME CInv, [Next]_vars, PolicyWritten, linked
  PROVE  /\ policyFile \in PolicyFile /\ policyFile' \in PolicyFile /\ Loaded = policyFile
         /\ policyFile'.unmatched = policyFile.unmatched
         /\ ToSet(policyFile'.rules) =
              {rule \in ToSet(policyFile.rules) : Foreign(decisions, rule)}
              \cup OwnRules(Plain(decisions, ToSet(policyFile.rules)))
         /\ \A rule \in OwnRules(Plain(decisions, ToSet(policyFile.rules))) :
              Len(rule.require) = 1 /\ rule.require # <<>> /\ ~rule.carry
<1>1. policyFile' = RenderPolicy(decisions, Loaded)
  <2>1. WritePolicy
    BY DEF PolicyWritten, Next, Run, WriteConfig, Stop, DocumentChanges, EditPolicy, vars
  <2> QED
    BY <2>1 DEF WritePolicy, RenderText
<1>2. Loaded = policyFile /\ policyFile \in PolicyFile
  BY DEF CInv, TypeOK, Loaded
<1>3. decisions \in SUBSET Decision /\ IsFiniteSet(decisions)
  BY DEF CInv, TypeOK
<1>4. OwnRules(Plain(decisions, ToSet(policyFile.rules))) \subseteq OwnRules(decisions)
  BY DEF OwnRules, Plain
<1> QED
  BY <1>1, <1>2, <1>3, <1>4, Rendered

\* A rule that configure takes away requires nothing beyond a type and actions, and
\* carries nothing.
LEMMA OwnedIsBare ==
  ASSUME NEW rule \in Rule, ~Foreign(decisions, rule)
  PROVE  ~rule.carry /\ \A d \in ToSet(rule.require) : d = Bare(d)
<1>1. Expressible(rule)
  BY DEF Foreign, Owned
<1>2. CASE rule.require = <<>>
  BY <1>1, <1>2 DEF Expressible, ToSet
<1>3. CASE Len(rule.require) = 1 /\ Bare(rule.require[1]) = rule.require[1]
  <2>1. rule.require \in Seq(AuthorizationDetail)
    BY DEF Rule
  <2>2. DOMAIN rule.require = {1}
    BY <2>1, <1>3
  <2> QED
    BY <2>2, <1>1, <1>3 DEF Expressible, ToSet
<1> QED
  BY <1>1, <1>2, <1>3 DEF Expressible

\* render_policy (write.py) never regenerates what configure cannot express: for every
\* policy file, whatever the decisions, no operation carries other details to the IdP
\* than before, or loses a required detail with more than a type and actions.
THEOREM BeyondConfigure == Spec => BeyondConfigureSurvives
<1>1. CInv /\ [Next]_vars =>
        [ PolicyWritten /\ linked =>
            LET before == Enforced(policyFile)
                after == Enforced(policyFile')
            IN  \A op \in Version :
                  /\ Carry(after, op) = Carry(before, op)
                  /\ \A d \in Required(before, op) : d = Bare(d) \/ d \in Required(after, op) ]_vars
  <2> SUFFICES ASSUME CInv, [Next]_vars, PolicyWritten, linked, NEW op \in Version
               PROVE  /\ Carry(Enforced(policyFile'), op) = Carry(Enforced(policyFile), op)
                      /\ \A d \in Required(Enforced(policyFile), op) :
                           d = Bare(d) \/ d \in Required(Enforced(policyFile'), op)
    OBVIOUS
  <2> DEFINE rules == ToSet(policyFile.rules)
             own == OwnRules(Plain(decisions, rules))
  <2>1. /\ policyFile \in PolicyFile /\ policyFile' \in PolicyFile
        /\ ToSet(policyFile'.rules) = {rule \in rules : Foreign(decisions, rule)} \cup own
        /\ \A rule \in own : ~rule.carry
    BY Written
  <2>2. \A rule \in rules : ~Foreign(decisions, rule) =>
          ~rule.carry /\ \A d \in ToSet(rule.require) : d = Bare(d)
    <3>1. rules \subseteq Rule
      BY <2>1 DEF PolicyFile, ToSet
    <3> QED
      BY <3>1, OwnedIsBare
  <2> HIDE DEF own
  <2>3. \A d : d \in Carry(Enforced(policyFile'), op) <=> d \in Carry(Enforced(policyFile), op)
    <3>1. \A d : d \in Carry(Enforced(policyFile), op) <=>
            \E rule \in rules : rule.carry /\ Matches(op, rule.match) /\ d \in ToSet(rule.require)
      BY <2>1, EnforcedFile
    <3>2. \A d : d \in Carry(Enforced(policyFile'), op) <=>
            \E rule \in ToSet(policyFile'.rules) :
              rule.carry /\ Matches(op, rule.match) /\ d \in ToSet(rule.require)
      BY <2>1, EnforcedFile
    <3> QED
      BY <3>1, <3>2, <2>1, <2>2
  <2>4. ASSUME NEW d \in Required(Enforced(policyFile), op), d # Bare(d)
        PROVE  d \in Required(Enforced(policyFile'), op)
    <3>1. PICK rule \in rules : Matches(op, rule.match) /\ d \in ToSet(rule.require)
      BY <2>1, EnforcedFile
    <3>2. rule \in ToSet(policyFile'.rules)
      BY <3>1, <2>1, <2>2, <2>4
    <3> QED
      BY <3>1, <3>2, <2>1, EnforcedFile
  <2>5. Carry(Enforced(policyFile'), op) = Carry(Enforced(policyFile), op)
    BY <2>3
  <2> QED
    BY <2>4, <2>5
<1> QED
  BY <1>1, CInvariant, PTL DEF Spec, BeyondConfigureSurvives

\* A decision that requires something closes its operation: by a rule of its own, or by
\* the foreign rule that stands in its place, unless that one is carry-only.
LEMMA DecisionCloses ==
  ASSUME CInv, [Next]_vars, PolicyWritten, linked,
         NEW d \in decisions, d.exposed, d.require # NoDetail,
         \A rule \in ToSet(policyFile.rules) : rule.match = OnlyId(d.op.id) => ~CarryOnly(rule)
  PROVE  Required(Enforced(policyFile'), d.op) # {}
<1> DEFINE rules == ToSet(policyFile.rules)
           own == OwnRules(Plain(decisions, rules))
<1>1. /\ policyFile \in PolicyFile /\ policyFile' \in PolicyFile
      /\ ToSet(policyFile'.rules) = {rule \in rules : Foreign(decisions, rule)} \cup own
      /\ \A rule \in own : rule.require # <<>>
  BY Written
<1>2. rules \subseteq Rule /\ ToSet(policyFile'.rules) \subseteq Rule
  BY <1>1 DEF PolicyFile, ToSet
<1>3. Matches(d.op, OnlyId(d.op.id))
  BY DEF Matches, OnlyId
<1>4. \E rule \in ToSet(policyFile'.rules) : rule.match = OnlyId(d.op.id) /\ rule.require # <<>>
  <2>1. CASE d \in Plain(decisions, rules)
    <3>1. OwnRule(d) \in own /\ OwnRule(d).match = OnlyId(d.op.id)
      BY <2>1 DEF OwnRules, OwnRule
    <3> QED
      BY <3>1, <1>1
  <2>2. CASE d \notin Plain(decisions, rules)
    <3>1. PICK rule \in rules : Foreign(decisions, rule) /\ rule.match = OnlyId(d.op.id)
      BY <2>2 DEF Plain
    <3>2. IdShaped(rule, {q.op.id : q \in decisions})
      BY <3>1 DEF IdShaped
    <3>3. rule.carry \/ rule.require # <<>>
      BY <3>1, <3>2 DEF Foreign, Owned, Expressible
    <3>4. rule.require # <<>>
      BY <3>1, <3>3 DEF CarryOnly
    <3> QED
      BY <3>1, <3>4, <1>1
  <2> QED
    BY <2>1, <2>2
<1>5. PICK rule \in ToSet(policyFile'.rules) : rule.match = OnlyId(d.op.id) /\ rule.require # <<>>
  BY <1>4
<1>6. PICK x : x \in ToSet(rule.require)
  <2>1. rule.require \in Seq(AuthorizationDetail) /\ rule.require # <<>>
    BY <1>2, <1>5 DEF Rule
  <2>2. 1 \in DOMAIN rule.require
    BY <2>1
  <2> QED
    BY <2>2 DEF ToSet
<1>7. x \in Required(Enforced(policyFile'), d.op)
  BY <1>1, <1>3, <1>5, <1>6, EnforcedFile
<1> QED
  BY <1>7

\* The decision on an operation that the policy closes requires something, unless it was
\* asked about or is read-only now.
LEMMA ClosedRequires ==
  ASSUME CInv, phase = "policy", linked,
         NEW d \in decisions, NEW e \in entries,
         d.op.id = e.id, e.protocol = "http", e.id \notin asked,
         e \in Unchanged \/ d.op.effect # "read_only",
         Required(Enforced(policyFile), e) # {}
  PROVE  d.require # NoDetail
<1>1. Loaded = policyFile /\ policyFile \in PolicyFile
  BY DEF CInv, TypeOK, Loaded
<1>2. RequireFor(e, Loaded) # NoDetail
  <2>1. PICK x : x \in Required(Enforced(policyFile), e)
    OBVIOUS
  <2>2. PICK rule \in ToSet(policyFile.rules) : Matches(e, rule.match) /\ x \in ToSet(rule.require)
    BY <2>1, <1>1, EnforcedFile
  <2>3. rule.require # <<>>
    BY <2>2 DEF ToSet
  <2> QED
    BY <2>2, <2>3, <1>1, RequirementFound
<1>3. e \in Previous /\ \A f \in entries : f.id = e.id => f = e
  BY DEF Previous, CInv, TypeOK, Listing
<1>4. ASSUME NEW f \in Unchanged, d = Kept(f)
      PROVE  d.require # NoDetail
  <2>1. f \in entries /\ d.op = f /\ d.require = RequireFor(f, Loaded)
    BY <1>4 DEF Kept, Unchanged, Previous
  <2>2. f = e
    BY <2>1, <1>3
  <2> QED
    BY <2>1, <2>2, <1>2
<1>5. ASSUME NEW op \in ToSurvey, d = Accept(op)
      PROVE  d.require # NoDetail
  <2>1. op \in Operation
    BY VersionAssumption DEF CInv, TypeOK, Document, ToSurvey
  <2>2. d.op.id = op.id /\ d.op.effect = op.effect
    BY <1>5, <2>1 DEF Accept, Operation
  <2>3. e \notin Unchanged
    BY <2>2 DEF ToSurvey
  <2>4. d.require = DefaultFor(op).require
    BY <1>5, <2>2, <2>3 DEF Accept
  <2>5. {f \in Previous : f.id = op.id} = {e}
    BY <1>3, <2>2 DEF Previous
  <2>6. DefaultFor(op).require = RequireFor(e, Loaded)
    BY <2>5 DEF DefaultFor
  <2> QED
    BY <2>4, <2>6, <1>2
<1> QED
  BY <1>4, <1>5 DEF CInv, DecidedOK

\* No run of configure opens, by itself, an HTTP operation that the policy keeps closed
\* to callers without authorization details, whatever rules close it, unless a carry-only
\* rule is about it alone (reconcile.py, survey.py, write.py).
THEOREM ClosedStays == Spec => ClosedStaysClosed
<1>1. CInv /\ [Next]_vars =>
        [ PolicyWritten /\ linked =>
            \A d \in decisions, e \in entries :
              /\ d.exposed /\ d.op.id = e.id
              /\ e.protocol = "http" /\ e.id \notin asked
              /\ e \in Unchanged \/ d.op.effect # "read_only"
              /\ \A rule \in ToSet(policyFile.rules) : rule.match = OnlyId(e.id) => ~CarryOnly(rule)
              /\ ~Allowed(Enforced(policyFile), e, {})
              => ~Allowed(Enforced(policyFile'), d.op, {}) ]_vars
  <2> SUFFICES ASSUME CInv, [Next]_vars, PolicyWritten, linked,
                      NEW d \in decisions, NEW e \in entries,
                      d.exposed, d.op.id = e.id, e.protocol = "http", e.id \notin asked,
                      e \in Unchanged \/ d.op.effect # "read_only",
                      \A rule \in ToSet(policyFile.rules) : rule.match = OnlyId(e.id) => ~CarryOnly(rule),
                      ~Allowed(Enforced(policyFile), e, {})
               PROVE  ~Allowed(Enforced(policyFile'), d.op, {})
    OBVIOUS
  <2>1. /\ policyFile \in PolicyFile /\ policyFile' \in PolicyFile
        /\ policyFile'.unmatched = policyFile.unmatched
    BY Written
  <2>2. /\ Enforced(policyFile).unmatched = policyFile.unmatched
        /\ Enforced(policyFile').unmatched = policyFile.unmatched
    BY <2>1, EnforcedFile
  <2>3. CASE policyFile.unmatched = "allow"
    <3>1. Required(Enforced(policyFile), e) # {}
      BY <2>2, <2>3, Closed
    <3>2. d.require # NoDetail
      BY <3>1, ClosedRequires DEF PolicyWritten
    <3>3. Required(Enforced(policyFile'), d.op) # {}
      BY <3>2, DecisionCloses
    <3> QED
      BY <3>3, Closed
  <2>4. CASE policyFile.unmatched # "allow"
    BY <2>2, <2>4, Closed
  <2> QED
    BY <2>3, <2>4
<1> QED
  BY <1>1, CInvariant, PTL DEF Spec, ClosedStaysClosed
=============================================================================
