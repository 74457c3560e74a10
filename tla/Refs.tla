-------------------------------- MODULE Refs --------------------------------
(***************************************************************************)
(* RefResolver (sources/refs.py): the walk that replaces every $ref of an  *)
(* OpenAPI document by what it points at.                                  *)
(*                                                                         *)
(* A key is a document and the text of a $ref in it.  A graph says which   *)
(* keys the document itself uses, in the order of the walk, which ones the *)
(* node under each key uses, whether the key's target is another document, *)
(* and which pointers do not resolve.  The recursion of _walk is a stack   *)
(* of the keys on its chain, each with what is left to walk of its node.   *)
(***************************************************************************)
EXTENDS Integers, Sequences, SequencesExt

CONSTANTS
  Key,
  Root,       \* the document as a whole, which no key stands for
  Target,     \* the documents an external $ref may name
  Networked,  \* those of them named by a URL
  Own         \* no external target: the document the $ref is in

ASSUME RefsAssumption == Root \notin Key /\ Networked \subseteq Target /\ Own \notin Target

VARIABLES
  graph,    \* the graph of the document being resolved
  consent,  \* allow_external_refs and allowed_hosts
  walk,     \* idle, walking, resolved, failed
  stack,    \* chain: the keys being walked, the document first
  done,     \* _resolved_cache: the keys walked to the end, in that order
  cut,      \* the uses that were replaced with an open object schema
  walked,   \* how often the node under each key was walked
  fetched   \* _external_cache

refsVars == <<graph, consent, walk, stack, done, cut, walked, fetched>>

Graphs == [root : Seq(Key), uses : [Key -> Seq(Key)],
           target : [Key -> Target \cup {Own}], broken : SUBSET Key]

Consents == [external : BOOLEAN, hosts : SUBSET Target]

Top == stack[Len(stack)]

\* The $ref that _walk comes to next.
Ref == Head(Top.left)

OnChain(k) == \E i \in 2 .. Len(stack) : stack[i].key = k

\* Wrong on purpose: nothing is memoized.
MemoizedNever(k) == FALSE

Memoized(k) == k \in Range(done)

Arrives == walk = "walking" /\ Top.left # <<>>

\* The stack once _walk has passed the $ref it is at.
Passed == [stack EXCEPT ![Len(stack)] = [key |-> Top.key, left |-> Tail(Top.left)]]

\* A resolver is made for a document and resolve() is called.
Begins(g, c) ==
  /\ walk # "walking"
  /\ graph' = g
  /\ consent' = c
  /\ walk' = "walking"
  /\ stack' = <<[key |-> Root, left |-> g.root]>>
  /\ done' = <<>>
  /\ cut' = {}
  /\ walked' = [k \in Key |-> 0]
  /\ fetched' = {}

\* Wrong on purpose: whatever was seen before is taken for part of a cycle.
CutsSeen ==
  /\ Arrives
  /\ OnChain(Ref) \/ Memoized(Ref)
  /\ cut' = cut \cup {<<Top.key, Ref>>}
  /\ stack' = Passed
  /\ UNCHANGED <<graph, consent, walk, done, walked, fetched>>

\* The $ref is part of a cycle: an open object schema takes its place.
Cuts ==
  /\ Arrives
  /\ OnChain(Ref)
  /\ cut' = cut \cup {<<Top.key, Ref>>}
  /\ stack' = Passed
  /\ UNCHANGED <<graph, consent, walk, done, walked, fetched>>

\* What the $ref stands for is known, cuts and all.
Reuses ==
  /\ Arrives
  /\ ~OnChain(Ref) /\ Memoized(Ref)
  /\ stack' = Passed
  /\ UNCHANGED <<graph, consent, walk, done, cut, walked, fetched>>

ArrivesNew == Arrives /\ ~OnChain(Ref) /\ ~Memoized(Ref)

\* _external_document's checks.
Permitted(target) ==
  target # Own => consent.external /\ (target \in Networked => target \in consent.hosts)

\* RefError: the target is not permitted, or cannot be fetched, or the pointer leads
\* nowhere.
Raises ==
  /\ ArrivesNew
  /\ \/ ~Permitted(graph.target[Ref])
     \/ graph.target[Ref] \notin fetched \cup {Own}
     \/ Ref \in graph.broken
  /\ walk' = "failed"
  /\ UNCHANGED <<graph, consent, stack, done, cut, walked, fetched>>

\* Wrong on purpose: the memo is written before the node is walked.
EntersMemoized ==
  /\ ArrivesNew
  /\ Permitted(graph.target[Ref])
  /\ Ref \notin graph.broken
  /\ fetched' = fetched \cup ({graph.target[Ref]} \ {Own})
  /\ walked' = [walked EXCEPT ![Ref] = @ + 1]
  /\ stack' = Append(Passed, [key |-> Ref, left |-> graph.uses[Ref]])
  /\ done' = Append(done, Ref)
  /\ UNCHANGED <<graph, consent, walk, cut>>

\* The node under the $ref is walked, in its own document.
Enters ==
  /\ ArrivesNew
  /\ Permitted(graph.target[Ref])
  /\ Ref \notin graph.broken
  /\ fetched' = fetched \cup ({graph.target[Ref]} \ {Own})
  /\ walked' = [walked EXCEPT ![Ref] = @ + 1]
  /\ stack' = Append(Passed, [key |-> Ref, left |-> graph.uses[Ref]])
  /\ UNCHANGED <<graph, consent, walk, done, cut>>

\* The node is walked to the end: its result is memoized.
Leaves ==
  /\ walk = "walking"
  /\ Len(stack) > 1 /\ Top.left = <<>>
  /\ done' = Append(done, Top.key)
  /\ stack' = Front(stack)
  /\ UNCHANGED <<graph, consent, walk, cut, walked, fetched>>

\* resolve() returns.
Returns ==
  /\ walk = "walking"
  /\ Len(stack) = 1 /\ Top.left = <<>>
  /\ walk' = "resolved"
  /\ UNCHANGED <<graph, consent, stack, done, cut, walked, fetched>>

RefsInit ==
  /\ graph \in Graphs
  /\ consent \in Consents
  /\ walk = "idle"
  /\ stack = <<>>
  /\ done = <<>>
  /\ cut = {}
  /\ walked = [k \in Key |-> 0]
  /\ fetched = {}

RefsStep == Cuts \/ Reuses \/ Raises \/ Enters \/ Leaves \/ Returns

RefsNext == RefsStep \/ \E g \in Graphs, c \in Consents : Begins(g, c)

RefsSpec == RefsInit /\ [][RefsNext]_refsVars

(***************************************************************************)
(* Properties                                                              *)
(***************************************************************************)

\* Types.
RefsTypeOK ==
  /\ graph \in Graphs
  /\ consent \in Consents
  /\ walk \in {"idle", "walking", "resolved", "failed"}
  /\ stack \in Seq([key : Key \cup {Root}, left : Seq(Key)])
  /\ done \in Seq(Key)
  /\ cut \subseteq (Key \cup {Root}) \X Key
  /\ walked \in [Key -> Nat]
  /\ fetched \subseteq Target

Uses(g, k) == Range(IF k = Root THEN g.root ELSE g.uses[k])

\* b is in what a stands for, at some depth: no set of keys that holds a and all
\* that its keys use leaves b out.
Encloses(g, a, b) ==
  \A S \in SUBSET Key : a \in S /\ (\A k \in S : Uses(g, k) \subseteq S) => b \in S

\* However often a schema is used, its node is walked once: without that a diamond
\* of references takes exponential time (refs.py:87-91).
WalkedOnce == \A k \in Key : walked[k] <= 1

\* Only recursion is cut: a use that was replaced with an open object schema is one
\* in a schema that the used one contains (refs.py:84-86).
OnlyCyclesAreCut ==
  \A edge \in cut : edge[2] \in Uses(graph, edge[1]) /\ Encloses(graph, edge[2], edge[1])

\* What resolve() returns is finite: every use in a walked node is cut, or stands
\* for a node that was walked to the end before it.
ResultIsFinite ==
  \A i \in DOMAIN done : \A u \in Uses(graph, done[i]) :
    <<done[i], u>> \in cut \/ \E j \in 1 .. i - 1 : done[j] = u

\* Other documents are read only where the operator consents (refs.py:5-8).
OnlyPermittedFetched == \A target \in fetched : Permitted(target)
=============================================================================
