---------------------------- MODULE StartupProofs ----------------------------
(***************************************************************************)
(* The gateway's start, for every set of worlds.                           *)
(*                                                                         *)
(* First the resolution of references by itself, for every graph of them:  *)
(* each node is walked once, only recursion is cut, the result is finite,  *)
(* and no document is fetched without consent.  Its invariant says what    *)
(* the recursion's stack stands for: each key on it encloses those above   *)
(* it (ChainOK), and each use in a node that is being walked is still to   *)
(* come, cut, known, or the frame above (FramesOK).                        *)
(*                                                                         *)
(* Then the gateway: what it does with the references of its upstreams'    *)
(* documents is what the resolver specifies, whatever is edited meanwhile, *)
(* and when it serves, each upstream has a server to call and, under token *)
(* exchange, callers' tokens to exchange.  An upstream without a base URL  *)
(* is one still to be introspected, as OpenAPI: that is the invariant.     *)
(*                                                                         *)
(* Then the tools.  ToolsInv says where the operations that were found     *)
(* come from and that what is served is what build_toolset makes of them;  *)
(* from it follow, for any list of rules and any mix of sources, that each *)
(* tool can be called, that the safe mode is safe, and that the arguments  *)
(* of a call arrive.  Two invariants are added to it for the rest: what a  *)
(* client remembers are base names or such names with a suffix (ListedOK), *)
(* and an upstream's operations are of the document that stays, since its  *)
(* turn comes once (SelectedOK).                                           *)
(***************************************************************************)
EXTENDS Startup, Lemmas

Frame == [key : Key \cup {Root}, left : Seq(Key)]

(***************************************************************************)
(* The inductive invariant                                                 *)
(***************************************************************************)

\* Before the first document there is no stack; afterwards Root is its bottom.
StackOK ==
  /\ walk = "idle" => stack = <<>> /\ done = <<>> /\ cut = {} /\ fetched = {}
  /\ walk # "idle" => Len(stack) >= 1 /\ \A i \in 2 .. Len(stack) : stack[i].key \in Key

\* A key whose node was walked is on the stack or memoized.
WalkedOK ==
  \A k \in Key :
    \/ walked[k] = 0
    \/ walked[k] = 1 /\ (OnChain(k) \/ Memoized(k))

\* A key on the stack encloses those above it.
ChainOK == \A i, j \in 2 .. Len(stack) : i <= j => Encloses(graph, stack[i].key, stack[j].key)

\* What is left to walk of a node is used there, and every other use is accounted for.
FramesOK ==
  \A i \in 1 .. Len(stack) :
    /\ Range(stack[i].left) \subseteq Uses(graph, stack[i].key)
    /\ \A u \in Uses(graph, stack[i].key) :
         \/ u \in Range(stack[i].left)
         \/ <<stack[i].key, u>> \in cut
         \/ u \in Range(done)
         \/ i + 1 <= Len(stack) /\ stack[i + 1].key = u

RefsIInv ==
  /\ RefsTypeOK /\ StackOK /\ WalkedOK /\ ChainOK /\ FramesOK
  /\ OnlyCyclesAreCut /\ ResultIsFinite /\ OnlyPermittedFetched

(***************************************************************************)
(* Sequences and keys                                                      *)
(***************************************************************************)

\* A sequence holds its head and its tail.
LEMMA TailRange ==
  ASSUME NEW s \in Seq(Key), s # <<>>
  PROVE  /\ Head(s) \in Key /\ Tail(s) \in Seq(Key)
         /\ Range(s) = {Head(s)} \cup Range(Tail(s))
<1>1. Head(s) \in Key /\ Tail(s) \in Seq(Key)
  OBVIOUS
<1>2. Len(s) \in Nat \ {0} /\ DOMAIN s = 1 .. Len(s) /\ Head(s) = s[1]
  OBVIOUS
<1>3. Len(Tail(s)) = Len(s) - 1 /\ DOMAIN Tail(s) = 1 .. Len(s) - 1
  OBVIOUS
<1>4. \A i \in 1 .. Len(s) - 1 : Tail(s)[i] = s[i + 1]
  OBVIOUS
<1>5. Range(s) \subseteq {Head(s)} \cup Range(Tail(s))
  <2> SUFFICES ASSUME NEW i \in DOMAIN s PROVE s[i] \in {Head(s)} \cup Range(Tail(s))
    BY DEF Range
  <2>1. CASE i = 1
    BY <2>1, <1>2
  <2>2. CASE i # 1
    <3>1. i - 1 \in 1 .. Len(s) - 1 /\ s[i] = Tail(s)[i - 1]
      BY <2>2, <1>2, <1>4
    <3> QED
      BY <3>1, <1>3 DEF Range
  <2> QED
    BY <2>1, <2>2
<1>6. {Head(s)} \cup Range(Tail(s)) \subseteq Range(s)
  <2>1. \A i \in DOMAIN Tail(s) : i + 1 \in DOMAIN s /\ Tail(s)[i] = s[i + 1]
    BY <1>2, <1>3, <1>4
  <2> QED
    BY <2>1, <1>2 DEF Range
<1> QED
  BY <1>1, <1>5, <1>6

\* An appended key joins the range, behind the others.
LEMMA AppendRange ==
  ASSUME NEW s \in Seq(Key), NEW k \in Key
  PROVE  /\ Append(s, k) \in Seq(Key)
         /\ Range(Append(s, k)) = Range(s) \cup {k}
         /\ Len(Append(s, k)) = Len(s) + 1
         /\ \A i \in 1 .. Len(s) : Append(s, k)[i] = s[i]
         /\ Append(s, k)[Len(s) + 1] = k
<1>1. /\ Append(s, k) \in Seq(Key) /\ Len(Append(s, k)) = Len(s) + 1 /\ Len(s) \in Nat
      /\ DOMAIN Append(s, k) = 1 .. Len(s) + 1 /\ DOMAIN s = 1 .. Len(s)
      /\ \A i \in 1 .. Len(s) : Append(s, k)[i] = s[i]
      /\ Append(s, k)[Len(s) + 1] = k
  OBVIOUS
<1>2. Range(Append(s, k)) = Range(s) \cup {k}
  BY <1>1 DEF Range
<1> QED
  BY <1>1, <1>2

\* A node encloses itself, and what is used where it encloses.
LEMMA EnclosesMore ==
  ASSUME NEW g, NEW a \in Key
  PROVE  /\ Encloses(g, a, a)
         /\ \A b \in Key : Encloses(g, a, b) => \A u \in Uses(g, b) : Encloses(g, a, u)
  BY DEF Encloses

\* A sequence whose last element is replaced.
LEMMA LastReplaced ==
  ASSUME NEW S, NEW s \in Seq(S), NEW n \in Nat, n = Len(s), n >= 1, NEW x \in S
  PROVE  /\ [s EXCEPT ![n] = x] \in Seq(S)
         /\ Len([s EXCEPT ![n] = x]) = n
         /\ [s EXCEPT ![n] = x][n] = x
         /\ \A i \in 1 .. n - 1 : [s EXCEPT ![n] = x][i] = s[i]
<1>1. DOMAIN s = 1 .. n /\ n \in DOMAIN s
  OBVIOUS
<1> QED
  BY <1>1

\* The stack with the next use of its top passed.
LEMMA PassedShape ==
  ASSUME RefsTypeOK, StackOK, Arrives, NEW n \in Nat, n = Len(stack)
  PROVE  /\ n >= 1 /\ Top = stack[n] /\ Top \in Frame /\ Ref \in Key
         /\ Passed \in Seq(Frame) /\ Len(Passed) = n
         /\ \A i \in 1 .. n : Passed[i].key = stack[i].key
         /\ \A i \in 1 .. n - 1 : Passed[i] = stack[i]
         /\ Range(Top.left) = {Ref} \cup Range(Passed[n].left)
<1>1. stack \in Seq(Frame) /\ n >= 1
  BY DEF RefsTypeOK, StackOK, Arrives, Frame
<1>2. Top = stack[n] /\ Top \in Frame /\ Top.left \in Seq(Key) /\ Top.left # <<>>
  <2>1. stack[n] \in Frame
    BY <1>1
  <2>2. Top = stack[n]
    BY DEF Top
  <2> QED
    BY <2>1, <2>2 DEF Arrives, Frame
<1>3. /\ Ref \in Key /\ Tail(Top.left) \in Seq(Key)
      /\ Range(Top.left) = {Ref} \cup Range(Tail(Top.left))
  BY <1>2, TailRange DEF Ref
<1> DEFINE frame == [key |-> Top.key, left |-> Tail(Top.left)]
<1>4. frame \in Frame /\ frame.key = Top.key /\ frame.left = Tail(Top.left)
  BY <1>2, <1>3 DEF Frame
<1>5. Passed = [stack EXCEPT ![n] = frame]
  BY DEF Passed
<1> HIDE DEF frame
<1>6. /\ Passed \in Seq(Frame) /\ Len(Passed) = n /\ Passed[n] = frame
      /\ \A i \in 1 .. n - 1 : Passed[i] = stack[i]
  BY <1>1, <1>4, <1>5, LastReplaced
<1>7. \A i \in 1 .. n : i = n \/ i \in 1 .. n - 1
  OBVIOUS
<1>8. \A i \in 1 .. n : Passed[i].key = stack[i].key
  BY <1>2, <1>4, <1>6, <1>7
<1> QED
  BY <1>1, <1>2, <1>3, <1>4, <1>6, <1>8

\* A sequence whose last element is taken away.
LEMMA FrontShape ==
  ASSUME NEW S, NEW s \in Seq(S), NEW n \in Nat, n = Len(s), n >= 1
  PROVE  /\ Front(s) \in Seq(S) /\ Len(Front(s)) = n - 1
         /\ \A i \in 1 .. n - 1 : Front(s)[i] = s[i]
  BY DEF Front

\* A frame put on a stack.
LEMMA PushShape ==
  ASSUME NEW S, NEW s \in Seq(S), NEW n \in Nat, n = Len(s), NEW x \in S
  PROVE  /\ Append(s, x) \in Seq(S) /\ Len(Append(s, x)) = n + 1
         /\ Append(s, x)[n + 1] = x
         /\ \A i \in 1 .. n : Append(s, x)[i] = s[i]
  OBVIOUS

(***************************************************************************)
(* The steps                                                               *)
(***************************************************************************)

\* A use that is passed leaves the stack as it should be if it is cut or known.
LEMMA PassesOn ==
  ASSUME RefsIInv, Arrives, stack' = Passed, cut \subseteq cut',
         UNCHANGED <<graph, consent, walk, done, walked, fetched>>,
         <<Top.key, Ref>> \in cut' \/ Ref \in Range(done)
  PROVE  /\ stack' \in Seq(Frame)
         /\ StackOK' /\ WalkedOK' /\ ChainOK' /\ FramesOK'
         /\ ResultIsFinite' /\ OnlyPermittedFetched'
<1>1. PICK n \in Nat : n = Len(stack)
  BY DEF RefsIInv, RefsTypeOK
<1>2. /\ n >= 1 /\ Top = stack[n] /\ Ref \in Key
      /\ stack' \in Seq(Frame) /\ Len(stack') = n
      /\ \A i \in 1 .. n : stack'[i].key = stack[i].key
      /\ \A i \in 1 .. n - 1 : stack'[i] = stack[i]
      /\ Range(Top.left) = {Ref} \cup Range(stack'[n].left)
  BY <1>1, PassedShape DEF RefsIInv
<1>3. graph' = graph /\ done' = done
  OBVIOUS
<1>4. StackOK'
  BY <1>1, <1>2 DEF RefsIInv, StackOK, Arrives
<1>5. WalkedOK'
  <2>1. \A k : OnChain(k)' <=> OnChain(k)
    BY <1>1, <1>2 DEF OnChain
  <2>2. \A k : Memoized(k)' <=> Memoized(k)
    BY DEF Memoized
  <2> QED
    BY <2>1, <2>2 DEF RefsIInv, WalkedOK
<1>6. ChainOK'
  <2> SUFFICES ASSUME NEW i \in 2 .. n, NEW j \in 2 .. n, i <= j
               PROVE  Encloses(graph, stack'[i].key, stack'[j].key)
    BY <1>2 DEF ChainOK
  <2>1. Encloses(graph, stack[i].key, stack[j].key)
    BY <1>1 DEF RefsIInv, ChainOK
  <2>2. stack'[i].key = stack[i].key /\ stack'[j].key = stack[j].key
    BY <1>2
  <2> QED
    BY <2>1, <2>2
<1>7. FramesOK'
  <2> SUFFICES ASSUME NEW i \in 1 .. n
               PROVE  /\ Range(stack'[i].left) \subseteq Uses(graph, stack'[i].key)
                      /\ \A u \in Uses(graph, stack'[i].key) :
                           \/ u \in Range(stack'[i].left)
                           \/ <<stack'[i].key, u>> \in cut'
                           \/ u \in Range(done)
                           \/ i + 1 <= n /\ stack'[i + 1].key = u
    <3>1. Len(stack') = n /\ UNCHANGED <<graph, done>>
      BY <1>2
    <3> QED
      BY <3>1 DEF FramesOK
  <2>1. /\ Range(stack[i].left) \subseteq Uses(graph, stack[i].key)
        /\ \A u \in Uses(graph, stack[i].key) :
             \/ u \in Range(stack[i].left)
             \/ <<stack[i].key, u>> \in cut
             \/ u \in Range(done)
             \/ i + 1 <= n /\ stack[i + 1].key = u
    BY <1>1 DEF RefsIInv, FramesOK
  <2>2. CASE i = n
    BY <2>1, <2>2, <1>2
  <2>3. CASE i # n
    <3>1. stack'[i] = stack[i] /\ stack'[i + 1].key = stack[i + 1].key
      BY <2>3, <1>2
    <3> QED
      BY <3>1, <2>1
  <2> QED
    BY <2>2, <2>3
<1>8. ResultIsFinite'
  BY DEF RefsIInv, ResultIsFinite
<1>9. OnlyPermittedFetched'
  BY DEF RefsIInv, OnlyPermittedFetched, Permitted
<1> QED
  BY <1>2, <1>4, <1>5, <1>6, <1>7, <1>8, <1>9

\* A use that closes a cycle is cut: its key is on the stack, below the top.
LEMMA CutsKeeps == RefsIInv /\ Cuts => RefsIInv'
<1> SUFFICES ASSUME RefsIInv, Cuts PROVE RefsIInv'
  OBVIOUS
<1>1. PICK n \in Nat : n = Len(stack)
  BY DEF RefsIInv, RefsTypeOK
<1>2. n >= 1 /\ Top = stack[n] /\ Top \in Frame /\ Ref \in Key /\ Ref \in Range(Top.left)
  BY <1>1, PassedShape DEF RefsIInv, Cuts
<1>3. /\ stack' \in Seq(Frame)
      /\ StackOK' /\ WalkedOK' /\ ChainOK' /\ FramesOK'
      /\ ResultIsFinite' /\ OnlyPermittedFetched'
  BY PassesOn DEF Cuts
<1>4. RefsTypeOK'
  <2>1. <<Top.key, Ref>> \in (Key \cup {Root}) \X Key
    BY <1>2 DEF Frame
  <2>2. cut' = cut \cup {<<Top.key, Ref>>} /\ UNCHANGED <<graph, consent, walk, done, walked, fetched>>
    BY DEF Cuts
  <2> QED
    BY <2>1, <2>2, <1>3 DEF RefsIInv, RefsTypeOK, Frame
<1>5. OnlyCyclesAreCut'
  <2>1. Ref \in Uses(graph, Top.key)
    BY <1>1, <1>2 DEF RefsIInv, FramesOK
  <2>2. PICK i \in 2 .. n : stack[i].key = Ref
    BY <1>1 DEF Cuts, OnChain
  <2>3. Encloses(graph, Ref, Top.key)
    BY <2>2, <1>1, <1>2 DEF RefsIInv, ChainOK
  <2>4. \A edge \in cut' : edge \in cut \/ edge = <<Top.key, Ref>>
    BY DEF Cuts
  <2> QED
    BY <2>1, <2>3, <2>4 DEF RefsIInv, OnlyCyclesAreCut, Cuts
<1> QED
  BY <1>3, <1>4, <1>5 DEF RefsIInv

\* A use of what is memoized is known.
LEMMA ReusesKeeps == RefsIInv /\ Reuses => RefsIInv'
<1> SUFFICES ASSUME RefsIInv, Reuses PROVE RefsIInv'
  OBVIOUS
<1>1. /\ stack' \in Seq(Frame)
      /\ StackOK' /\ WalkedOK' /\ ChainOK' /\ FramesOK'
      /\ ResultIsFinite' /\ OnlyPermittedFetched'
  BY PassesOn DEF Reuses, Memoized
<1>2. RefsTypeOK'
  BY <1>1 DEF RefsIInv, RefsTypeOK, Reuses, Frame
<1>3. OnlyCyclesAreCut'
  BY DEF RefsIInv, OnlyCyclesAreCut, Reuses
<1> QED
  BY <1>1, <1>2, <1>3 DEF RefsIInv

\* An error leaves everything but walk as it is.
LEMMA RaisesKeeps == RefsIInv /\ Raises => RefsIInv'
<1> SUFFICES ASSUME RefsIInv, Raises PROVE RefsIInv'
  OBVIOUS
<1>1. walk # "idle" /\ walk' = "failed" /\ UNCHANGED <<graph, consent, stack, done, cut, walked, fetched>>
  BY DEF Raises, ArrivesNew, Arrives
<1>2. RefsTypeOK' /\ StackOK'
  BY <1>1 DEF RefsIInv, RefsTypeOK, StackOK
<1>3. WalkedOK' /\ ChainOK' /\ FramesOK'
  BY <1>1 DEF RefsIInv, WalkedOK, ChainOK, FramesOK, OnChain, Memoized
<1>4. OnlyCyclesAreCut' /\ ResultIsFinite' /\ OnlyPermittedFetched'
  BY <1>1 DEF RefsIInv, OnlyCyclesAreCut, ResultIsFinite, OnlyPermittedFetched, Permitted
<1> QED
  BY <1>2, <1>3, <1>4 DEF RefsIInv

\* So does the end.
LEMMA ReturnsKeeps == RefsIInv /\ Returns => RefsIInv'
<1> SUFFICES ASSUME RefsIInv, Returns PROVE RefsIInv'
  OBVIOUS
<1>1. walk # "idle" /\ walk' = "resolved" /\ UNCHANGED <<graph, consent, stack, done, cut, walked, fetched>>
  BY DEF Returns
<1>2. RefsTypeOK' /\ StackOK'
  BY <1>1 DEF RefsIInv, RefsTypeOK, StackOK
<1>3. WalkedOK' /\ ChainOK' /\ FramesOK'
  BY <1>1 DEF RefsIInv, WalkedOK, ChainOK, FramesOK, OnChain, Memoized
<1>4. OnlyCyclesAreCut' /\ ResultIsFinite' /\ OnlyPermittedFetched'
  BY <1>1 DEF RefsIInv, OnlyCyclesAreCut, ResultIsFinite, OnlyPermittedFetched, Permitted
<1> QED
  BY <1>2, <1>3, <1>4 DEF RefsIInv

\* A node is walked for the first time, and used where the top is.
LEMMA EntersKeeps == RefsIInv /\ Enters => RefsIInv'
<1> SUFFICES ASSUME RefsIInv, Enters PROVE RefsIInv'
  OBVIOUS
<1>1. PICK n \in Nat : n = Len(stack)
  BY DEF RefsIInv, RefsTypeOK
<1> DEFINE frame == [key |-> Ref, left |-> graph.uses[Ref]]
<1>2. /\ Arrives /\ ~OnChain(Ref) /\ ~Memoized(Ref)
      /\ stack' = Append(Passed, frame)
      /\ walked' = [walked EXCEPT ![Ref] = @ + 1]
      /\ UNCHANGED <<graph, consent, walk, done, cut>>
  BY DEF Enters, ArrivesNew
<1>3. /\ n >= 1 /\ Top = stack[n] /\ Ref \in Key
      /\ Passed \in Seq(Frame) /\ Len(Passed) = n
      /\ \A i \in 1 .. n : Passed[i].key = stack[i].key
      /\ \A i \in 1 .. n - 1 : Passed[i] = stack[i]
      /\ Range(Top.left) = {Ref} \cup Range(Passed[n].left)
  BY <1>1, <1>2, PassedShape DEF RefsIInv
<1>4. /\ frame \in Frame /\ frame.key = Ref /\ Range(frame.left) = Uses(graph, Ref)
  <2>1. graph.uses[Ref] \in Seq(Key)
    BY <1>3 DEF RefsIInv, RefsTypeOK, Graphs
  <2>2. Ref # Root
    BY <1>3, RefsAssumption
  <2> QED
    BY <1>3, <2>1, <2>2 DEF Frame, Uses
<1> HIDE DEF frame
<1>5. /\ stack' \in Seq(Frame) /\ Len(stack') = n + 1 /\ stack'[n + 1] = frame
      /\ \A i \in 1 .. n : stack'[i] = Passed[i]
  BY <1>2, <1>3, <1>4, PushShape
<1>6. /\ stack'[n + 1].key = Ref
      /\ \A i \in 1 .. n : stack'[i].key = stack[i].key
      /\ \A i \in 1 .. n - 1 : stack'[i] = stack[i]
  BY <1>3, <1>4, <1>5
<1>7. RefsTypeOK'
  <2>1. fetched' \subseteq Target
    BY <1>3 DEF Enters, RefsIInv, RefsTypeOK, Graphs
  <2>2. walked' \in [Key -> Nat]
    BY <1>2, <1>3 DEF RefsIInv, RefsTypeOK
  <2> QED
    BY <2>1, <2>2, <1>2, <1>5 DEF RefsIInv, RefsTypeOK, Frame
<1>8. StackOK'
  <2>1. \A i \in 2 .. n + 1 : i = n + 1 \/ i \in 2 .. n
    OBVIOUS
  <2>2. \A i \in 2 .. n : stack[i].key \in Key
    BY <1>1, <1>2 DEF RefsIInv, StackOK, Arrives
  <2> QED
    <3>1. \A i \in 2 .. n + 1 : stack'[i].key \in Key
      BY <2>1, <2>2, <1>3, <1>6
    <3> QED
      BY <3>1, <1>2, <1>3, <1>5 DEF StackOK, Arrives
<1>9. WalkedOK'
  <2> SUFFICES ASSUME NEW k \in Key
               PROVE  walked'[k] = 0 \/ (walked'[k] = 1 /\ (OnChain(k)' \/ Memoized(k)'))
    BY DEF WalkedOK
  <2>1. walked[k] = 0 \/ (walked[k] = 1 /\ (OnChain(k) \/ Memoized(k)))
    BY DEF RefsIInv, WalkedOK
  <2>2. Memoized(k) => Memoized(k)'
    BY <1>2 DEF Memoized
  <2>3. OnChain(k) => OnChain(k)'
    BY <1>1, <1>5, <1>6 DEF OnChain
  <2>4. n + 1 \in 2 .. Len(stack') /\ stack'[n + 1].key = Ref
    BY <1>3, <1>5, <1>6
  <2>5. CASE k = Ref
    <3>1. walked[Ref] = 0
      BY <2>1, <2>5, <1>2
    <3>2. walked'[Ref] = 1
      BY <3>1, <1>2, <1>3 DEF RefsIInv, RefsTypeOK
    <3> QED
      BY <3>2, <2>4, <2>5 DEF OnChain
  <2>6. CASE k # Ref
    <3>1. walked'[k] = walked[k]
      BY <2>6, <1>2 DEF RefsIInv, RefsTypeOK
    <3> QED
      BY <3>1, <2>1, <2>2, <2>3
  <2> QED
    BY <2>5, <2>6
<1>10. ChainOK'
  <2>1. \A i \in 2 .. n : Encloses(graph, stack[i].key, stack[n].key)
    BY <1>1 DEF RefsIInv, ChainOK
  <2>2. Ref \in Uses(graph, stack[n].key)
    <3>1. n \in 1 .. Len(stack)
      BY <1>1, <1>3
    <3>2. Range(stack[n].left) \subseteq Uses(graph, stack[n].key)
      BY <3>1 DEF RefsIInv, FramesOK
    <3> QED
      BY <3>2, <1>3
  <2>3. \A i \in 2 .. n : stack[i].key \in Key
    BY <1>1, <1>2 DEF RefsIInv, StackOK, Arrives
  <2>4. \A i \in 2 .. n : Encloses(graph, stack[i].key, Ref)
    <3> SUFFICES ASSUME NEW i \in 2 .. n PROVE Encloses(graph, stack[i].key, Ref)
      OBVIOUS
    <3>1. stack[i].key \in Key /\ stack[n].key \in Key
      BY <2>3
    <3> QED
      BY <3>1, <2>1, <2>2, EnclosesMore
  <2>5. Encloses(graph, Ref, Ref)
    BY <1>3, EnclosesMore
  <2>6. \A i, j \in 2 .. n : i <= j => Encloses(graph, stack[i].key, stack[j].key)
    BY <1>1 DEF RefsIInv, ChainOK
  <2> SUFFICES ASSUME NEW i \in 2 .. n + 1, NEW j \in 2 .. n + 1, i <= j
               PROVE  Encloses(graph, stack'[i].key, stack'[j].key)
    BY <1>2, <1>5 DEF ChainOK
  <2>7. CASE j = n + 1
    <3>1. CASE i = n + 1
      BY <3>1, <2>5, <2>7, <1>6
    <3>2. CASE i # n + 1
      <4>1. i \in 2 .. n /\ i \in 1 .. n
        BY <3>2
      <4> QED
        BY <4>1, <2>4, <2>7, <1>6
    <3> QED
      BY <3>1, <3>2
  <2>8. CASE j # n + 1
    <3>1. i \in 2 .. n /\ i \in 1 .. n /\ j \in 2 .. n /\ j \in 1 .. n
      BY <2>8
    <3> QED
      BY <3>1, <2>6, <1>6
  <2> QED
    BY <2>7, <2>8
<1>11. FramesOK'
  <2> SUFFICES ASSUME NEW i \in 1 .. n + 1
               PROVE  /\ Range(stack'[i].left) \subseteq Uses(graph, stack'[i].key)
                      /\ \A u \in Uses(graph, stack'[i].key) :
                           \/ u \in Range(stack'[i].left)
                           \/ <<stack'[i].key, u>> \in cut
                           \/ u \in Range(done)
                           \/ i + 1 <= n + 1 /\ stack'[i + 1].key = u
    BY <1>2, <1>5 DEF FramesOK
  <2>1. CASE i = n + 1
    BY <2>1, <1>4, <1>5
  <2>2. CASE i # n + 1
    <3>1. /\ Range(stack[i].left) \subseteq Uses(graph, stack[i].key)
          /\ \A u \in Uses(graph, stack[i].key) :
               \/ u \in Range(stack[i].left)
               \/ <<stack[i].key, u>> \in cut
               \/ u \in Range(done)
               \/ i + 1 <= n /\ stack[i + 1].key = u
      <4>1. i \in 1 .. n
        BY <2>2
      <4> QED
        BY <4>1, <1>1 DEF RefsIInv, FramesOK
    <3>2. stack'[i].key = stack[i].key
      BY <2>2, <1>6
    <3>3. CASE i = n
      BY <3>1, <3>2, <3>3, <1>3, <1>5, <1>6
    <3>4. CASE i # n
      <4>1. stack'[i] = stack[i] /\ (i + 1 <= n => stack'[i + 1].key = stack[i + 1].key)
        BY <2>2, <3>4, <1>6
      <4> QED
        BY <3>1, <4>1
    <3> QED
      BY <3>3, <3>4
  <2> QED
    BY <2>1, <2>2
<1>12. OnlyCyclesAreCut' /\ ResultIsFinite'
  BY <1>2 DEF RefsIInv, OnlyCyclesAreCut, ResultIsFinite
<1>13. OnlyPermittedFetched'
  <2>1. \A target : Permitted(target)' <=> Permitted(target)
    BY <1>2 DEF Permitted
  <2>2. \A target \in fetched' : target \in fetched \/ target = graph.target[Ref]
    BY DEF Enters
  <2>3. Permitted(graph.target[Ref])
    BY DEF Enters
  <2> QED
    BY <2>1, <2>2, <2>3 DEF RefsIInv, OnlyPermittedFetched
<1> QED
  BY <1>7, <1>8, <1>9, <1>10, <1>11, <1>12, <1>13 DEF RefsIInv

\* A node that was walked to the end moves from the stack to the memo, after all
\* that it uses.
LEMMA LeavesKeeps == RefsIInv /\ Leaves => RefsIInv'
<1> SUFFICES ASSUME RefsIInv, Leaves PROVE RefsIInv'
  OBVIOUS
<1>1. PICK n \in Nat : n = Len(stack)
  BY DEF RefsIInv, RefsTypeOK
<1>2. PICK m \in Nat : m = Len(done) /\ DOMAIN done = 1 .. m
  BY DEF RefsIInv, RefsTypeOK
<1>3. /\ n >= 2 /\ walk = "walking" /\ Top = stack[n] /\ stack[n].left = <<>>
      /\ done' = Append(done, stack[n].key) /\ stack' = Front(stack)
      /\ UNCHANGED <<graph, consent, walk, cut, walked, fetched>>
  BY <1>1 DEF Leaves, Top
<1>4. stack[n].key \in Key
  BY <1>1, <1>3 DEF RefsIInv, StackOK
<1>5. /\ stack' \in Seq(Frame) /\ Len(stack') = n - 1
      /\ \A i \in 1 .. n - 1 : stack'[i] = stack[i]
  <2>1. stack \in Seq(Frame)
    BY DEF RefsIInv, RefsTypeOK, Frame
  <2> QED
    BY <2>1, <1>1, <1>3, FrontShape
<1>6. /\ done' \in Seq(Key) /\ Len(done') = m + 1 /\ DOMAIN done' = 1 .. m + 1
      /\ Range(done') = Range(done) \cup {stack[n].key}
      /\ \A i \in 1 .. m : done'[i] = done[i]
      /\ done'[m + 1] = stack[n].key
  <2>1. done \in Seq(Key)
    BY DEF RefsIInv, RefsTypeOK
  <2> QED
    BY <2>1, <1>2, <1>3, <1>4, AppendRange
<1>7. RefsTypeOK'
  BY <1>3, <1>5, <1>6 DEF RefsIInv, RefsTypeOK, Frame
<1>8. StackOK'
  BY <1>1, <1>3, <1>5 DEF RefsIInv, StackOK
<1>9. WalkedOK'
  <2> SUFFICES ASSUME NEW k \in Key
               PROVE  walked[k] = 0 \/ (walked[k] = 1 /\ (OnChain(k)' \/ Memoized(k)'))
    BY <1>3 DEF WalkedOK
  <2>1. walked[k] = 0 \/ (walked[k] = 1 /\ (OnChain(k) \/ Memoized(k)))
    BY DEF RefsIInv, WalkedOK
  <2>2. Memoized(k) => Memoized(k)'
    BY <1>6 DEF Memoized
  <2>3. ASSUME OnChain(k) PROVE OnChain(k)' \/ Memoized(k)'
    <3>1. PICK i \in 2 .. n : stack[i].key = k
      BY <2>3, <1>1 DEF OnChain
    <3>2. CASE i = n
      BY <3>1, <3>2, <1>6 DEF Memoized
    <3>3. CASE i # n
      <4>1. i \in 2 .. Len(stack') /\ stack'[i].key = k
        BY <3>1, <3>3, <1>5
      <4> QED
        BY <4>1 DEF OnChain
    <3> QED
      BY <3>2, <3>3
  <2> QED
    BY <2>1, <2>2, <2>3
<1>10. ChainOK'
  <2> SUFFICES ASSUME NEW i \in 2 .. n - 1, NEW j \in 2 .. n - 1, i <= j
               PROVE  Encloses(graph, stack'[i].key, stack'[j].key)
    BY <1>3, <1>5 DEF ChainOK
  <2>1. i \in 2 .. n /\ j \in 2 .. n /\ stack'[i] = stack[i] /\ stack'[j] = stack[j]
    BY <1>5
  <2> QED
    BY <2>1, <1>1 DEF RefsIInv, ChainOK
<1>11. FramesOK'
  <2> SUFFICES ASSUME NEW i \in 1 .. n - 1
               PROVE  /\ Range(stack'[i].left) \subseteq Uses(graph, stack'[i].key)
                      /\ \A u \in Uses(graph, stack'[i].key) :
                           \/ u \in Range(stack'[i].left)
                           \/ <<stack'[i].key, u>> \in cut
                           \/ u \in Range(done')
                           \/ i + 1 <= n - 1 /\ stack'[i + 1].key = u
    <3>1. Len(stack') = n - 1 /\ UNCHANGED <<graph, cut>>
      BY <1>3, <1>5
    <3> QED
      BY <3>1 DEF FramesOK
  <2>1. i \in 1 .. n /\ stack'[i] = stack[i]
    BY <1>5
  <2>2. /\ Range(stack[i].left) \subseteq Uses(graph, stack[i].key)
        /\ \A u \in Uses(graph, stack[i].key) :
             \/ u \in Range(stack[i].left)
             \/ <<stack[i].key, u>> \in cut
             \/ u \in Range(done)
             \/ i + 1 <= n /\ stack[i + 1].key = u
    BY <2>1, <1>1 DEF RefsIInv, FramesOK
  <2>3. CASE i + 1 = n
    BY <2>1, <2>2, <2>3, <1>6
  <2>4. CASE i + 1 # n
    <3>1. i + 1 \in 1 .. n - 1 /\ stack'[i + 1] = stack[i + 1]
      BY <2>4, <1>5
    <3> QED
      BY <3>1, <2>1, <2>2, <1>6
  <2> QED
    BY <2>3, <2>4
<1>12. ResultIsFinite'
  <2> SUFFICES ASSUME NEW i \in 1 .. m + 1, NEW u \in Uses(graph, done'[i])
               PROVE  <<done'[i], u>> \in cut \/ \E j \in 1 .. i - 1 : done'[j] = u
    <3>1. DOMAIN done' = 1 .. m + 1 /\ UNCHANGED <<graph, cut>>
      BY <1>3, <1>6
    <3> QED
      BY <3>1 DEF ResultIsFinite
  <2>1. CASE i = m + 1
    <3>1. Range(stack[n].left) = {}
      BY <1>3 DEF Range
    <3>2. n \in 1 .. Len(stack) /\ ~(n + 1 <= Len(stack))
      BY <1>1, <1>3
    <3>3. <<stack[n].key, u>> \in cut \/ u \in Range(done)
      BY <2>1, <3>1, <3>2, <1>6 DEF RefsIInv, FramesOK
    <3>4. u \in Range(done) => \E j \in 1 .. m : done'[j] = u
      BY <1>2, <1>6 DEF Range
    <3> QED
      BY <2>1, <3>3, <3>4, <1>6
  <2>2. CASE i # m + 1
    <3>1. i \in 1 .. m /\ done'[i] = done[i]
      BY <2>2, <1>6
    <3>2. <<done[i], u>> \in cut \/ \E j \in 1 .. i - 1 : done[j] = u
      BY <3>1, <1>2 DEF RefsIInv, ResultIsFinite
    <3>3. \A j \in 1 .. i - 1 : done'[j] = done[j]
      BY <3>1, <1>6
    <3> QED
      BY <3>1, <3>2, <3>3
  <2> QED
    BY <2>1, <2>2
<1>13. OnlyCyclesAreCut' /\ OnlyPermittedFetched'
  BY <1>3 DEF RefsIInv, OnlyCyclesAreCut, OnlyPermittedFetched, Permitted
<1> QED
  BY <1>7, <1>8, <1>9, <1>10, <1>11, <1>12, <1>13 DEF RefsIInv

\* A resolver starts with the document on the stack, all of it to be walked.
LEMMA BeginsKeeps ==
  ASSUME RefsIInv, NEW g \in Graphs, NEW c \in Consents, Begins(g, c)
  PROVE  RefsIInv'
<1>1. /\ graph' = g /\ consent' = c /\ walk' = "walking"
      /\ stack' = <<[key |-> Root, left |-> g.root]>>
      /\ done' = <<>> /\ cut' = {} /\ fetched' = {}
      /\ walked' = [k \in Key |-> 0]
  BY DEF Begins
<1>2. g.root \in Seq(Key) /\ Uses(g, Root) = Range(g.root)
  BY DEF Graphs, Uses
<1>3. /\ stack' \in Seq([key : Key \cup {Root}, left : Seq(Key)]) /\ Len(stack') = 1
      /\ stack'[1].key = Root /\ stack'[1].left = g.root
  BY <1>1, <1>2
<1>4. RefsTypeOK' /\ StackOK'
  BY <1>1, <1>3 DEF RefsTypeOK, StackOK
<1>5. WalkedOK' /\ ChainOK'
  BY <1>1, <1>3 DEF WalkedOK, ChainOK
<1>6. FramesOK'
  BY <1>1, <1>2, <1>3 DEF FramesOK
<1>7. OnlyCyclesAreCut' /\ ResultIsFinite' /\ OnlyPermittedFetched'
  BY <1>1 DEF OnlyCyclesAreCut, ResultIsFinite, OnlyPermittedFetched
<1> QED
  BY <1>4, <1>5, <1>6, <1>7 DEF RefsIInv

(***************************************************************************)
(* The invariant holds in every behaviour                                  *)
(***************************************************************************)

\* It holds before the first document is resolved.
LEMMA RefsStarts == RefsInit => RefsIInv
<1> SUFFICES ASSUME RefsInit PROVE RefsIInv
  OBVIOUS
<1>1. /\ graph \in Graphs /\ consent \in Consents /\ walk = "idle"
      /\ stack = <<>> /\ done = <<>> /\ cut = {} /\ fetched = {}
      /\ walked = [k \in Key |-> 0]
  BY DEF RefsInit
<1>2. RefsTypeOK /\ StackOK
  BY <1>1 DEF RefsTypeOK, StackOK
<1>3. WalkedOK /\ ChainOK /\ FramesOK
  BY <1>1 DEF WalkedOK, ChainOK, FramesOK
<1>4. OnlyCyclesAreCut /\ ResultIsFinite /\ OnlyPermittedFetched
  BY <1>1 DEF OnlyCyclesAreCut, ResultIsFinite, OnlyPermittedFetched
<1> QED
  BY <1>2, <1>3, <1>4 DEF RefsIInv

\* Nothing that happens elsewhere in the gateway touches it.
LEMMA RefsStutters == RefsIInv /\ UNCHANGED refsVars => RefsIInv'
<1> SUFFICES ASSUME RefsIInv, UNCHANGED refsVars PROVE RefsIInv'
  OBVIOUS
<1>1. UNCHANGED <<graph, consent, walk, stack, done, cut, walked, fetched>>
  BY DEF refsVars
<1>2. RefsTypeOK' /\ StackOK'
  BY <1>1 DEF RefsIInv, RefsTypeOK, StackOK
<1>3. WalkedOK' /\ ChainOK' /\ FramesOK'
  BY <1>1 DEF RefsIInv, WalkedOK, ChainOK, FramesOK, OnChain, Memoized
<1>4. OnlyCyclesAreCut' /\ ResultIsFinite' /\ OnlyPermittedFetched'
  BY <1>1 DEF RefsIInv, OnlyCyclesAreCut, ResultIsFinite, OnlyPermittedFetched, Permitted
<1> QED
  BY <1>2, <1>3, <1>4 DEF RefsIInv

LEMMA RefsKeeps == RefsIInv /\ [RefsNext]_refsVars => RefsIInv'
  BY CutsKeeps, ReusesKeeps, RaisesKeeps, EntersKeeps, LeavesKeeps, ReturnsKeeps,
     BeginsKeeps, RefsStutters DEF RefsNext, RefsStep

\* The strengthening that the theorems below read their claims from.
LEMMA RefsInvariant == RefsSpec => []RefsIInv
  BY RefsStarts, RefsKeeps, PTL DEF RefsSpec

\* _resolve_ref memoizes by document and text (refs.py:91-103): for every graph of
\* references, however they cross, no node is walked twice.
THEOREM NodesWalkedOnce == RefsSpec => []WalkedOnce
<1>1. RefsIInv => WalkedOnce
  BY DEF RefsIInv, WalkedOK, WalkedOnce
<1> QED
  BY <1>1, RefsInvariant, PTL

\* The chain that _resolve_ref cuts at (refs.py:83-86) is a chain of containment:
\* what it replaces with an open object is recursion, never a schema that is merely
\* used twice.
THEOREM OnlyRecursionCut == RefsSpec => []OnlyCyclesAreCut
<1>1. RefsIInv => OnlyCyclesAreCut
  BY DEF RefsIInv
<1> QED
  BY <1>1, RefsInvariant, PTL

\* Each memoized result is made of earlier ones and of cuts (refs.py:101-103): what
\* resolve() returns is a finite tree, whatever recursion the document holds.
THEOREM ResolvedIsFinite == RefsSpec => []ResultIsFinite
<1>1. RefsIInv => ResultIsFinite
  BY DEF RefsIInv
<1> QED
  BY <1>1, RefsInvariant, PTL

\* _external_document fetches a document only after the checks of consent and host
\* (refs.py:105-125), wherever in the walk the $ref is met.
THEOREM FetchesConsented == RefsSpec => []OnlyPermittedFetched
<1>1. RefsIInv => OnlyPermittedFetched
  BY DEF RefsIInv
<1> QED
  BY <1>1, RefsInvariant, PTL

(***************************************************************************)
(* The gateway                                                             *)
(***************************************************************************)

\* An upstream has no base URL only while its document is still to be read.
BasesOK ==
  /\ phase = "introspecting" => \A u \in Upstream : bases[u] # "none" \/ u \in Range(pending)
  /\ phase = "resolving" => \A u \in Upstream : bases[u] # "none" \/ u \in Range(pending)
  /\ phase \in {"building", "up"} => \A u \in Upstream : bases[u] # "none"

SInv ==
  /\ \E S \in Worlds : world \in S
  /\ phase \in {"down", "introspecting", "resolving", "building", "up"}
  /\ bases \in [Upstream -> {"none", "config", "document"}]
  /\ pending \in Seq(Upstream)
  /\ phase = "resolving" => pending # <<>>
  /\ phase # "down" =>
       /\ Loads(config)
       /\ \E S \in Worlds : \E w \in S : config = w.config
       /\ \A u \in Upstream : config.upstreams[u].base => bases[u] # "none"
  /\ BasesOK

\* A served upstream has a server to call, and a caller's token where one is to be
\* exchanged.
UpstreamsCanBeCalled ==
  phase = "up" =>
    \A u \in Upstream :
      /\ bases[u] # "none"
      /\ config.upstreams[u].outbound = "token_exchange" =>
           config.transport = "http" /\ config.inbound

\* Nothing but the head is lost with the head.
LEMMA TailKeeps ==
  ASSUME NEW S, NEW s \in Seq(S), s # <<>>
  PROVE  /\ Tail(s) \in Seq(S) /\ Head(s) \in S
         /\ \A x \in Range(s) : x = Head(s) \/ x \in Range(Tail(s))
<1>1. Tail(s) \in Seq(S) /\ Head(s) \in S /\ Head(s) = s[1] /\ DOMAIN s = 1 .. Len(s)
  OBVIOUS
<1>2. DOMAIN Tail(s) = 1 .. Len(s) - 1 /\ \A i \in 1 .. Len(s) - 1 : Tail(s)[i] = s[i + 1]
  OBVIOUS
<1>3. ASSUME NEW i \in DOMAIN s, i # 1 PROVE s[i] \in Range(Tail(s))
  <2>1. i - 1 \in 1 .. Len(s) - 1 /\ s[i] = Tail(s)[i - 1]
    BY <1>1, <1>2, <1>3
  <2> QED
    BY <2>1, <1>2 DEF Range
<1> QED
  BY <1>1, <1>3 DEF Range

(***************************************************************************)
(* The start                                                               *)
(***************************************************************************)

\* It begins with nothing loaded.
LEMMA Begun == Init => SInv /\ RefsInit
<1> SUFFICES ASSUME Init PROVE SInv /\ RefsInit
  OBVIOUS
<1>1. SInv
  BY DEF Init, SInv, BasesOK
<1>2. graph \in Graphs /\ consent \in Consents
  BY DEF Init, Graphs, Consents
<1> QED
  BY <1>1, <1>2 DEF Init, RefsInit

\* With a config that loads.
LEMMA StartsKeeps == SInv /\ Starts => SInv'
<1> SUFFICES ASSUME SInv, Starts PROVE SInv'
  OBVIOUS
<1>1. /\ config' = world.config /\ Loads(world.config) /\ UNCHANGED world
      /\ phase' = IF config'.mode = "configured" THEN "building" ELSE "introspecting"
      /\ pending' = IF config'.mode = "configured" THEN <<>> ELSE Order
      /\ bases' = [u \in Upstream |-> ConfiguredBase(config', u)]
  BY DEF Starts
<1>2. pending' \in Seq(Upstream)
  BY <1>1, StartupAssumption
<1>3. \A u \in Upstream : bases'[u] = ConfiguredBase(config', u)
  BY <1>1
<1>4. bases' \in [Upstream -> {"none", "config", "document"}]
  BY <1>1 DEF ConfiguredBase
<1>5. \A u \in Upstream : config'.upstreams[u].base => bases'[u] # "none"
  BY <1>3 DEF ConfiguredBase
<1>6. BasesOK'
  <2>1. CASE config'.mode = "configured"
    <3>1. \A u \in Upstream : config'.upstreams[u].base
      BY <2>1, <1>1 DEF Loads, Reachable
    <3> QED
      BY <3>1, <2>1, <1>1, <1>5 DEF BasesOK
  <2>2. CASE config'.mode # "configured"
    <3>1. phase' = "introspecting" /\ Range(pending') = Upstream
      BY <2>2, <1>1, StartupAssumption
    <3> QED
      BY <3>1 DEF BasesOK
  <2> QED
    BY <2>1, <2>2
<1>7. \E S \in Worlds : \E w \in S : config' = w.config
  BY <1>1 DEF SInv
<1>8. Loads(config')
  BY <1>1
<1>9. /\ phase' \in {"down", "introspecting", "resolving", "building", "up"} /\ phase' # "resolving"
      /\ \E S \in Worlds : world' \in S
  BY <1>1 DEF SInv
<1> QED
  BY <1>2, <1>4, <1>5, <1>6, <1>7, <1>8, <1>9 DEF SInv

\* A process that has exited promises nothing.
LEMMA ExitsKeeps == SInv /\ Exits => SInv'
  BY DEF SInv, Exits, BasesOK

\* An upstream that is not introspected has a base URL.
LEMMA SkipsKeeps ==
  ASSUME SInv, NEW u \in Upstream, Skips(u)
  PROVE  SInv'
<1>1. /\ phase = "introspecting" /\ pending # <<>> /\ Head(pending) = u
      /\ config.upstreams[u].introspection = "none"
      /\ pending' = Tail(pending) /\ UNCHANGED <<world, phase, config, bases>>
  BY DEF Skips, AtTurn
<1>2. /\ pending' \in Seq(Upstream)
      /\ \A v \in Range(pending) : v = u \/ v \in Range(pending')
  BY <1>1, TailKeeps DEF SInv
<1>3. bases[u] # "none"
  BY <1>1 DEF SInv, Loads, UpstreamComplete
<1>4. BasesOK'
  BY <1>1, <1>2, <1>3 DEF SInv, BasesOK
<1> QED
  BY <1>1, <1>2, <1>4 DEF SInv

\* So has one that is introspected as GraphQL.
LEMMA IntrospectsSchemaKeeps ==
  ASSUME SInv, NEW u \in Upstream, IntrospectsSchema(u)
  PROVE  SInv'
<1>1. /\ phase = "introspecting" /\ pending # <<>> /\ Head(pending) = u
      /\ config.upstreams[u].introspection = "graphql"
      /\ pending' = Tail(pending) /\ UNCHANGED <<world, phase, config, bases>>
  BY DEF IntrospectsSchema, AtTurn
<1>2. /\ pending' \in Seq(Upstream)
      /\ \A v \in Range(pending) : v = u \/ v \in Range(pending')
  BY <1>1, TailKeeps DEF SInv
<1>3. bases[u] # "none"
  BY <1>1 DEF SInv, Loads, UpstreamComplete
<1>4. BasesOK'
  BY <1>1, <1>2, <1>3 DEF SInv, BasesOK
<1> QED
  BY <1>1, <1>2, <1>4 DEF SInv

\* One that is introspected as OpenAPI has one afterwards.
LEMMA IntrospectsKeeps ==
  ASSUME SInv, NEW u \in Upstream, Introspects(u)
  PROVE  SInv'
<1>1. /\ phase = "resolving" /\ pending # <<>> /\ Head(pending) = u
      /\ phase' = "introspecting" /\ pending' = Tail(pending)
      /\ bases' = [bases EXCEPT ![u] = IF @ = "none" THEN "document" ELSE @]
      /\ UNCHANGED <<world, config>>
  BY DEF SInv, Introspects
<1>2. /\ pending' \in Seq(Upstream)
      /\ \A v \in Range(pending) : v = u \/ v \in Range(pending')
  BY <1>1, TailKeeps DEF SInv
<1>3. /\ bases' \in [Upstream -> {"none", "config", "document"}]
      /\ bases'[u] # "none" /\ \A v \in Upstream : bases[v] # "none" => bases'[v] # "none"
      /\ \A v \in Upstream : v # u => bases'[v] = bases[v]
  BY <1>1 DEF SInv
<1>4. BasesOK'
  BY <1>1, <1>2, <1>3 DEF SInv, BasesOK
<1> QED
  BY <1>1, <1>2, <1>3, <1>4 DEF SInv

\* The other steps leave the bases and what is pending alone.
LEMMA OthersKeep ==
  ASSUME SInv, UNCHANGED <<config, pending, bases>>, \E S \in Worlds : world' \in S,
         \/ phase' = phase
         \/ phase = "introspecting" /\ pending # <<>> /\ phase' = "resolving"
         \/ phase = "introspecting" /\ pending = <<>> /\ phase' = "building"
         \/ phase = "building" /\ phase' = "up"
  PROVE  SInv'
<1>1. pending = <<>> => Range(pending) = {}
  BY DEF Range
<1>2. BasesOK'
  BY <1>1 DEF SInv, BasesOK
<1> QED
  BY <1>2 DEF SInv

LEMMA SKeeps == SInv /\ [Next]_vars => SInv'
<1> SUFFICES ASSUME SInv, [Next]_vars PROVE SInv'
  OBVIOUS
<1>1. CASE Starts
  BY <1>1, StartsKeeps
<1>2. CASE Exits
  BY <1>2, ExitsKeeps
<1>3. ASSUME NEW u \in Upstream, Skips(u) PROVE SInv'
  BY <1>3, SkipsKeeps
<1>4. ASSUME NEW u \in Upstream, Introspects(u) PROVE SInv'
  BY <1>4, IntrospectsKeeps
<1>5. ASSUME NEW u \in Upstream, IntrospectsSchema(u) PROVE SInv'
  BY <1>5, IntrospectsSchemaKeeps
<1>6. ASSUME NEW u \in Upstream, ReadsDocument(u) PROVE SInv'
  BY <1>6, OthersKeep DEF ReadsDocument, AtTurn, SInv
<1>7. CASE Resolves
  BY <1>7, OthersKeep DEF Resolves, processVars, SInv
<1>8. CASE HasIntrospected
  BY <1>8, OthersKeep DEF HasIntrospected, SInv
<1>9. CASE Serves
  BY <1>9, OthersKeep DEF Serves, SInv
<1>10. CASE Changes
  <2>1. UNCHANGED <<phase, config, pending, bases>> /\ world' \in Edits(world)
    BY <1>10 DEF Changes, processVars
  <2>2. \E S \in Worlds : world' \in S
    BY <2>1, WorldsAssumption DEF SInv
  <2> QED
    BY <2>1, <2>2, OthersKeep
<1>11. CASE UNCHANGED <<world, processVars>>
  BY <1>11, OthersKeep DEF processVars, SInv
<1> QED
  BY <1>1, <1>2, <1>3, <1>4, <1>5, <1>6, <1>7, <1>8, <1>9, <1>10, <1>11
     DEF Next, CannotRead, CannotIntrospect, CannotServe, Stops, Lists, CallsAnything, Calls, vars

\* The strengthening that the theorems below read their claims from.
LEMMA SInvariant == Spec => []SInv
  BY Begun, SKeeps, PTL DEF Spec

(***************************************************************************)
(* The references                                                          *)
(***************************************************************************)

\* What the gateway does to the resolver is a step of the resolver, or none.
LEMMA ResolverSteps == SInv /\ [Next]_vars => [RefsNext]_refsVars
<1> SUFFICES ASSUME SInv, [Next]_vars PROVE [RefsNext]_refsVars
  OBVIOUS
<1>1. ASSUME NEW u \in Upstream, ReadsDocument(u) PROVE RefsNext
  <2>1. /\ phase = "introspecting"
        /\ Begins(world.documents[u].graph, config.upstreams[u].consent)
    BY <1>1 DEF ReadsDocument, AtTurn
  <2>2. world.documents[u].graph \in Graphs
    BY WorldsAssumption DEF SInv, WellFormed
  <2>3. config.upstreams[u].consent \in Consents
    BY <2>1, WorldsAssumption DEF SInv
  <2> QED
    BY <2>1, <2>2, <2>3 DEF RefsNext
<1>2. CASE Resolves
  BY <1>2 DEF Resolves, RefsNext
<1>3. CASE UNCHANGED refsVars
  BY <1>3
<1> QED
  BY <1>1, <1>2, <1>3
     DEF Next, Starts, Skips, CannotRead, Introspects, CannotIntrospect, IntrospectsSchema,
         HasIntrospected, Serves, CannotServe, Stops, Changes, Lists, CallsAnything, Calls, Exits, vars

\* introspect_upstreams makes a resolver for each document and reads the next one
\* when it is done (introspect.py:33-61): the gateway's behaviour is the resolver's,
\* restarts and edits included.
THEOREM ResolverImplemented == Spec => RefsSpec
  BY Begun, SInvariant, ResolverSteps, PTL DEF Spec, RefsSpec

\* However often a schema is used, a start of the gateway walks it once
\* (refs.py:87-103).
THEOREM StartWalksOnce == Spec => []WalkedOnce
  BY ResolverImplemented, NodesWalkedOnce, PTL

\* Only recursion is replaced with open objects in the schemas of tools
\* (refs.py:83-86).
THEOREM StartCutsCyclesOnly == Spec => []OnlyCyclesAreCut
  BY ResolverImplemented, OnlyRecursionCut, PTL

\* The schemas of tools are finite (refs.py:101-103).
THEOREM StartResolvesFinitely == Spec => []ResultIsFinite
  BY ResolverImplemented, ResolvedIsFinite, PTL

(***************************************************************************)
(* The upstreams                                                           *)
(***************************************************************************)

\* Whichever way each upstream is introspected, if at all, and in whichever mode, a
\* gateway that serves can call each of them (models.py:186-202, 432-466,
\* introspect.py:34-54).
THEOREM UpstreamsServable == Spec => []UpstreamsCanBeCalled
<1>1. SInv => UpstreamsCanBeCalled
  BY DEF SInv, BasesOK, UpstreamsCanBeCalled, Loads, SubjectsToExchange
<1> QED
  BY <1>1, SInvariant, PTL

(***************************************************************************)
(* The operations and what is made of them                                 *)
(***************************************************************************)

\* The fields that every operation has, and no others.
IsOperation(op) ==
  /\ op = [id |-> op.id, upstream |-> op.upstream, name |-> op.name, tags |-> op.tags,
           effect |-> op.effect, sensitivity |-> op.sensitivity, binding |-> op.binding]
  /\ Labelled(op)

\* A binding whose arguments have the names they keep.
Bound(b, c) ==
  \/ IsGraphQl(b)
  \/ /\ IsHttp(b)
     /\ Flattens(b) /\ ResolveArgNames(b) = b
     /\ ~DeclaresDenied(b, CredentialHeaders(c))

\* An operation that was introspected.
Discovered(op, c) ==
  /\ IsOperation(op) /\ op.upstream \in Upstream
  /\ op.effect = EffectOf[op.binding.method]
  /\ Bound(op.binding, c)

\* An operation that an entry of the config declares.
Declared(op, c) ==
  /\ IsOperation(op) /\ op.upstream \in Upstream
  /\ \E e \in Range(c.operations) :
       /\ e.id = op.id /\ e.sensitivity = op.sensitivity
       /\ op.effect = EffectOf[op.binding.method] \/ op.effect = e.effect
  /\ Bound(op.binding, c)

FoundOK ==
  /\ phase = "down" => found = <<>>
  /\ IsList(found) /\ \A f \in Range(found) : Discovered(f, config)
  /\ DOMAIN documents = Upstream
  /\ phase = "resolving" =>
       \E S \in Worlds : \E w \in S : documents[Head(pending)] = w.documents[Head(pending)]

ServedOK ==
  /\ phase = "up" =>
       /\ Builds
       /\ served = [operations |-> Kept, tools |-> ByName(Kept, config.naming),
                    transports |-> [u \in Upstream |-> Protocols(Kept, u)]]
  /\ phase # "up" => served = NothingServed

AnswerOK ==
  answer # NoAnswer =>
    /\ phase = "up" /\ answer.operation \in Range(Kept)
    /\ Schema(answer.operation.binding).required \subseteq DOMAIN answer.args
    /\ answer.requests = RequestOf(answer.operation, answer.args)

ToolsInv == SInv /\ FoundOK /\ ServedOK /\ AnswerOK

\* What a list holds when it is filtered is held by the list.
LEMMA FilteredRange ==
  ASSUME NEW s, IsList(s), NEW Keep \in SUBSET DOMAIN s
  PROVE  IsList(Filtered(s, Keep)) /\ Range(Filtered(s, Keep)) = {s[i] : i \in Keep}
<1> DEFINE t == Filtered(s, Keep)
<1> DEFINE S == Range(s)
<1>0. s \in Seq(S)
  BY DEF IsList
<1> HIDE DEF S
<1>1. t \in Seq(S) /\ ToSet(t) = {s[i] : i \in Keep}
  BY <1>0, FilteredHolds
<1> HIDE DEF t
<1>2. Range(t) = ToSet(t)
  BY DEF Range, ToSet
<1>3. t \in Seq(Range(t))
  BY <1>1 DEF Range
<1> QED
  BY <1>1, <1>2, <1>3 DEF t, IsList

\* Two lists, one behind the other.
LEMMA JoinedRange ==
  ASSUME NEW s, IsList(s), NEW t, IsList(t)
  PROVE  IsList(s \o t) /\ Range(s \o t) = Range(s) \cup Range(t)
<1> DEFINE S == Range(s) \cup Range(t)
<1>1. s \in Seq(S) /\ t \in Seq(S)
  BY DEF IsList
<1> HIDE DEF S
<1>2. s \o t \in Seq(S) /\ ToSet(s \o t) = ToSet(s) \cup ToSet(t)
  BY <1>1, Joined
<1>3. \A x : Range(x) = ToSet(x)
  BY DEF Range, ToSet
<1> QED
  BY <1>2, <1>3 DEF S, IsList

\* A list made of another one, element by element.
LEMMA MappedRange ==
  ASSUME NEW s, IsList(s), NEW t, DOMAIN t = DOMAIN s, t = [i \in DOMAIN s |-> t[i]]
  PROVE  IsList(t)
<1>1. Len(s) \in Nat /\ DOMAIN s = 1 .. Len(s)
  BY DEF IsList
<1>2. t \in [1 .. Len(s) -> Range(t)]
  BY <1>1 DEF Range
<1> QED
  BY <1>1, <1>2 DEF IsList

\* Names that are resolved stay as they are.
LEMMA Resolved ==
  ASSUME NEW raw \in HttpBinding, Flattens(raw)
  PROVE  LET r == ResolveArgNames(raw)
         IN  /\ r \in HttpBinding /\ r.method = raw.method /\ r.route = raw.route
             /\ Flattens(r) /\ ResolveArgNames(r) = r
             /\ \A H : DeclaresDenied(r, H) = DeclaresDenied(raw, H)
<1> DEFINE r == ResolveArgNames(raw)
           ps == raw.parameters
           qs == r.parameters
<1>1. ps \in Seq(Parameter) /\ Len(ps) \in Nat /\ DOMAIN ps = 1 .. Len(ps) /\ \A i \in DOMAIN ps : ps[i] \in Parameter
  BY DEF HttpBinding
<1>2. /\ qs = [i \in DOMAIN ps |-> IF Collides(raw, ps[i].arg)
                                     THEN [ps[i] EXCEPT !.arg = <<ps[i].location>> \o @] ELSE ps[i]]
      /\ r = [raw EXCEPT !.parameters = qs]
  BY DEF ResolveArgNames, HttpBinding
<1>3. ASSUME NEW i \in DOMAIN ps
      PROVE  /\ qs[i] \in Parameter /\ qs[i].location = ps[i].location
             /\ qs[i].wire = ps[i].wire /\ qs[i].required = ps[i].required
  <2>1. <<ps[i].location>> \o ps[i].arg \in Name
    <3> DEFINE n == <<ps[i].location>> \o ps[i].arg
    <3>1. ps[i].arg \in Seq(Part) /\ ps[i].location \in Part
          /\ ps[i].location # "credential" /\ ps[i].location # "application"
      <4>1. ps[i] \in Parameter
        BY <1>1
      <4>2. ps[i].arg \in Name /\ ps[i].location \in Location
        BY <4>1 DEF Parameter
      <4>3. ps[i].arg \in Seq(Part)
        BY <4>2 DEF Name
      <4>4. ps[i].location \in Part
        BY <4>2, PartAssumption
      <4>5. ps[i].location # "credential" /\ ps[i].location # "application"
        BY <4>2 DEF Location
      <4> QED
        BY <4>3, <4>4, <4>5
    <3>2. n \in Seq(Part) /\ n[1] = ps[i].location /\ n # <<>>
      BY <3>1
    <3> HIDE DEF n
    <3>3. n # Credential /\ n # BodyType /\ n # NoHeader
      BY <3>1, <3>2 DEF Credential, BodyType, NoHeader
    <3> QED
      BY <3>2, <3>3 DEF Name, n
  <2>2. [ps[i] EXCEPT !.arg = <<ps[i].location>> \o @] \in Parameter
    BY <2>1, <1>1 DEF Parameter
  <2> QED
    BY <2>2, <1>1, <1>2 DEF Parameter
<1> HIDE DEF r, qs
<1>4. qs \in [1 .. Len(ps) -> Parameter] /\ qs \in Seq(Parameter) /\ DOMAIN qs = 1 .. Len(ps)
  <2>1. DOMAIN qs = DOMAIN ps /\ \A i \in DOMAIN ps : qs[i] \in Parameter
    BY <1>2, <1>3
  <2>2. qs = [i \in DOMAIN ps |-> qs[i]]
    BY <1>2
  <2>3. qs \in [1 .. Len(ps) -> Parameter]
    BY <1>1, <2>1, <2>2
  <2> QED
    BY <1>1, <2>3
<1>5. r \in HttpBinding /\ r.method = raw.method /\ r.route = raw.route /\ r.body = raw.body /\ r.placeholders = raw.placeholders
      /\ r.parameters = qs
  BY <1>2, <1>4 DEF HttpBinding
<1>6. \A location : At(r, location) = At(raw, location)
  BY <1>3, <1>4, <1>5, <1>1 DEF At
<1>7. \A H : DeclaresDenied(r, H) = DeclaresDenied(raw, H)
  BY <1>1, <1>3, <1>5, <1>6 DEF DeclaresDenied, At
<1>8. PathFits(r)
  <2>1. PathFits(raw)
    BY DEF Flattens
  <2>2. \A i \in At(raw, "path") : i \in DOMAIN ps
    BY DEF At
  <2>3. \A i \in At(raw, "path") : qs[i].wire = ps[i].wire /\ qs[i].required = ps[i].required
    BY <2>2, <1>3
  <2> QED
    BY <2>1, <2>3, <1>5, <1>6 DEF PathFits
<1>9. BodyNames(r) = BodyNames(raw)
  BY <1>5 DEF BodyNames
<1>10. \A n \in BodyNames(r) \cup {qs[i].arg : i \in DOMAIN qs} : ~Collides(r, n)
  BY <1>5 DEF Flattens, NamesAreUnique, r
<1>11. ResolveArgNames(r) = r
  <2>1. \A i \in DOMAIN qs : ~Collides(r, qs[i].arg)
    BY <1>10
  <2>2. [i \in DOMAIN qs |-> LET p == qs[i] IN IF Collides(r, p.arg) THEN [p EXCEPT !.arg = <<p.location>> \o @] ELSE p] = qs
    BY <2>1, <1>4
  <2> QED
    BY <2>2, <1>5 DEF ResolveArgNames, HttpBinding
<1>12. NamesAreUnique(r)
  BY <1>10, <1>11, <1>5 DEF NamesAreUnique
<1>13. Flattens(r)
  BY <1>5, <1>8, <1>12 DEF Flattens
<1> QED
  BY <1>5, <1>7, <1>11, <1>13 DEF r

\* An operation of some source, with all its fields.
LEMMA Made ==
  ASSUME NEW u, NEW source, Labelled(source), NEW b
  PROVE  LET op == Operation(u, source, b)
         IN  /\ IsOperation(op) /\ op.id = source.id /\ op.upstream = u
             /\ op.sensitivity = source.sensitivity /\ op.effect = EffectOf[b.method] /\ op.binding = b
BY DEF Operation, IsOperation, Labelled

\* What OpenApiSource makes of a document.
LEMMA DocumentRead ==
  ASSUME NEW u \in Upstream, NEW c, NEW document, IsList(document.operations),
         \A raw \in Range(document.operations) : Labelled(raw) /\ IsHttp(raw.binding)
  PROVE  LET ops == OpenApiOperations(u, document, c)
         IN  /\ IsList(ops)
             /\ \A op \in Range(ops) :
                  Discovered(op, c) /\ op.upstream = u /\ op.binding.protocol = "http"
<1> DEFINE Keep == {i \in DOMAIN document.operations :
                      /\ Extracted(document.operations[i], c.upstreams[u])
                      /\ Usable(document.operations[i], CredentialHeaders(c))}
           kept == Filtered(document.operations, Keep)
           ops == [i \in DOMAIN kept |-> Operation(u, kept[i], ResolveArgNames(kept[i].binding))]
<1>1. ops = OpenApiOperations(u, document, c)
  BY DEF OpenApiOperations, Where
<1>2. /\ IsList(kept)
      /\ \A raw \in Range(kept) :
           Labelled(raw) /\ IsHttp(raw.binding) /\ Usable(raw, CredentialHeaders(c))
  <2>1. Keep \in SUBSET DOMAIN document.operations
    OBVIOUS
  <2>2. \A i \in Keep : /\ Usable(document.operations[i], CredentialHeaders(c))
                        /\ Labelled(document.operations[i]) /\ IsHttp(document.operations[i].binding)
    BY DEF Range
  <2> HIDE DEF Keep
  <2> QED
    BY <2>1, <2>2, FilteredRange
<1> HIDE DEF kept
<1>3. IsList(ops)
  <2>1. DOMAIN ops = DOMAIN kept /\ ops = [i \in DOMAIN kept |-> ops[i]]
    OBVIOUS
  <2> HIDE DEF ops
  <2> QED
    BY <1>2, <2>1, MappedRange
<1>4. ASSUME NEW i \in DOMAIN kept 
      PROVE  Discovered(ops[i], c) /\ ops[i].upstream = u /\ ops[i].binding.protocol = "http"
  <2> DEFINE raw == kept[i].binding
             b == ResolveArgNames(raw)
  <2>1. /\ Labelled(kept[i]) /\ IsHttp(raw)
        /\ Flattens(raw) /\ ~DeclaresDenied(raw, CredentialHeaders(c))
    BY <1>2 DEF Usable, Range
  <2>2. /\ IsHttp(b) /\ Flattens(b) /\ ResolveArgNames(b) = b
        /\ ~DeclaresDenied(b, CredentialHeaders(c))
    <3> HIDE DEF raw
    <3> QED
      BY <2>1, Resolved DEF IsHttp
  <2>3. Bound(b, c) /\ b.protocol = "http"
    BY <2>2 DEF Bound, IsHttp, HttpBinding
  <2> HIDE DEF b
  <2>4. ops[i] = Operation(u, kept[i], b)
    BY DEF b
  <2> QED
    BY <2>1, <2>3, <2>4, Made DEF Discovered
<1> HIDE DEF ops
<1>5. \A op \in Range(ops) : \E i \in DOMAIN kept : op = ops[i]
  BY DEF Range, ops
<1> QED
  BY <1>1, <1>3, <1>4, <1>5

\* What GraphQlSource makes of a schema.
LEMMA SchemaRead ==
  ASSUME NEW u \in Upstream, NEW c, NEW document, IsList(document.fields),
         \A field \in Range(document.fields) :
           field.id \in DOMAIN Words /\ field.variables \subseteq Name
  PROVE  LET ops == GraphQlOperations(u, document, c)
         IN  /\ IsList(ops)
             /\ \A op \in Range(ops) :
                  /\ Discovered(op, c) /\ op.upstream = u
                  /\ \E field \in Range(document.fields) :
                       op.binding = GraphQlBinding(field, document.types, c.upstreams[u].typePolicy)
<1> DEFINE policy == c.upstreams[u].typePolicy
           Keep == {i \in DOMAIN document.fields :
                      \/ document.fields[i].returns = Leaf
                      \/ Selectable(document.types, policy, document.fields[i].returns)}
           kept == Filtered(document.fields, Keep)
           source(f) == [id |-> f.id, name |-> NoName, tags |-> <<>>, sensitivity |-> "normal"]
           ops == [i \in DOMAIN kept |->
                     Operation(u, source(kept[i]), GraphQlBinding(kept[i], document.types, policy))]
<1>1. ops = GraphQlOperations(u, document, c)
  BY DEF GraphQlOperations, Where
<1>2. /\ IsList(kept)
      /\ \A field \in Range(kept) :
           /\ field \in Range(document.fields)
           /\ field.id \in DOMAIN Words /\ field.variables \subseteq Name
  <2>1. Keep \in SUBSET DOMAIN document.fields
    OBVIOUS
  <2>2. \A i \in Keep : /\ document.fields[i] \in Range(document.fields)
                        /\ document.fields[i].id \in DOMAIN Words
                        /\ document.fields[i].variables \subseteq Name
    BY DEF Range
  <2> HIDE DEF Keep
  <2> QED
    BY <2>1, <2>2, FilteredRange
<1> HIDE DEF kept, policy
<1>3. IsList(ops)
  <2>1. DOMAIN ops = DOMAIN kept /\ ops = [i \in DOMAIN kept |-> ops[i]]
    OBVIOUS
  <2> HIDE DEF ops
  <2> QED
    BY <1>2, <2>1, MappedRange
<1>4. ASSUME NEW i \in DOMAIN kept
      PROVE  /\ Discovered(ops[i], c) /\ ops[i].upstream = u
             /\ \E field \in Range(document.fields) :
                  ops[i].binding = GraphQlBinding(field, document.types, policy)
  <2> DEFINE b == GraphQlBinding(kept[i], document.types, policy)
  <2>1. /\ kept[i] \in Range(document.fields) /\ kept[i].variables \subseteq Name
        /\ Labelled(source(kept[i]))
    BY <1>2 DEF Range, Labelled
  <2>2. b.protocol = "graphql" /\ b.variables = kept[i].variables
    BY DEF GraphQlBinding
  <2> HIDE DEF b
  <2>3. Bound(b, c)
    BY <2>1, <2>2 DEF Bound, IsGraphQl
  <2> HIDE DEF source
  <2>4. ops[i] = Operation(u, source(kept[i]), b)
    BY DEF b
  <2>5. \E field \in Range(document.fields) : b = GraphQlBinding(field, document.types, policy)
    BY <2>1 DEF b
  <2> QED
    BY <2>1, <2>3, <2>4, <2>5, Made DEF Discovered
<1> HIDE DEF ops
<1>5. \A op \in Range(ops) : \E i \in DOMAIN kept : op = ops[i]
  BY DEF Range, ops
<1> QED
  BY <1>1, <1>3, <1>4, <1>5 DEF policy

\* What ExplicitSource makes of a config that loads and whose entries flatten.
LEMMA EntriesRead ==
  ASSUME NEW c, Loads(c), EntriesFlatten(c), IsList(c.operations),
         \A e \in Range(c.operations) : Labelled(e) /\ (IsHttp(e.binding) \/ IsGraphQl(e.binding))
  PROVE  LET ops == ExplicitOperations(c)
         IN  IsList(ops) /\ \A op \in Range(ops) : Declared(op, c)
<1> DEFINE Keep == {i \in DOMAIN c.operations : Exposed(c.operations[i].binding)}
           kept == Filtered(c.operations, Keep)
           resolved(b) == IF b.protocol = "http" THEN ResolveArgNames(b) ELSE b
           build(e) == Operation(e.upstream, e, resolved(e.binding))
           ops == [i \in DOMAIN kept |->
                     IF kept[i].effect = "derived" THEN build(kept[i])
                     ELSE [build(kept[i]) EXCEPT !.effect = kept[i].effect]]
<1>1. ops = ExplicitOperations(c)
  BY DEF ExplicitOperations, Where
<1>2. IsList(kept) /\ \A e \in Range(kept) : e \in Range(c.operations) /\ Exposed(e.binding)
  <2>1. Keep \in SUBSET DOMAIN c.operations
    OBVIOUS
  <2>2. \A i \in Keep : c.operations[i] \in Range(c.operations) /\ Exposed(c.operations[i].binding)
    BY DEF Range
  <2> HIDE DEF Keep
  <2> QED
    BY <2>1, <2>2, FilteredRange
<1> HIDE DEF kept
<1>3. IsList(ops)
  <2> HIDE DEF build
  <2>1. DOMAIN ops = DOMAIN kept /\ ops = [i \in DOMAIN kept |-> ops[i]]
    OBVIOUS
  <2> HIDE DEF ops
  <2> QED
    BY <1>2, <2>1, MappedRange
<1>4. ASSUME NEW i \in DOMAIN kept PROVE Declared(ops[i], c)
  <2> DEFINE e == kept[i]
             b == resolved(e.binding)
             op == build(e)
  <2>1. e \in Range(c.operations) /\ Exposed(e.binding) /\ Labelled(e)
    BY <1>2 DEF Range
  <2>2. ASSUME IsGraphQl(e.binding)
        PROVE  Bound(b, c)
    BY <2>2 DEF Bound, IsGraphQl
  <2>3. ASSUME IsHttp(e.binding)
        PROVE  Bound(b, c)
    <3> DEFINE raw == e.binding
    <3>1. IsHttp(raw) /\ raw.protocol = "http"
      BY <2>3 DEF IsHttp, HttpBinding
    <3>2. Flattens(raw) /\ ~DeclaresDenied(raw, CredentialHeaders(c))
      BY <2>1, <3>1 DEF EntriesFlatten, Loads
    <3> HIDE DEF raw
    <3>3. LET r == ResolveArgNames(raw)
          IN  /\ IsHttp(r) /\ Flattens(r) /\ ResolveArgNames(r) = r
              /\ ~DeclaresDenied(r, CredentialHeaders(c))
      BY <3>1, <3>2, Resolved DEF IsHttp
    <3>4. Bound(ResolveArgNames(raw), c)
      BY <3>3 DEF Bound
    <3> QED
      BY <3>1, <3>4 DEF raw
  <2>4. Bound(b, c)
    BY <2>1, <2>2, <2>3
  <2> HIDE DEF b, e, resolved
  <2>5. op = Operation(e.upstream, e, b)
    BY DEF b
  <2>6. /\ IsOperation(op) /\ op.id = e.id /\ op.upstream = e.upstream
        /\ op.sensitivity = e.sensitivity /\ op.effect = EffectOf[b.method] /\ op.binding = b
    BY <2>1, <2>5, Made
  <2>7. e.upstream \in Upstream
    BY <2>1 DEF Loads
  <2> HIDE DEF op, build
  <2>8. ops[i] = IF e.effect = "derived" THEN op ELSE [op EXCEPT !.effect = e.effect]
    BY DEF e, op
  <2>9. /\ IsOperation(ops[i]) /\ ops[i].id = e.id /\ ops[i].upstream = e.upstream
        /\ ops[i].sensitivity = e.sensitivity /\ ops[i].binding = b
        /\ ops[i].effect = EffectOf[b.method] \/ ops[i].effect = e.effect
    <3> HIDE DEF ops
    <3>1. CASE e.effect = "derived"
      BY <3>1, <2>6, <2>8
    <3>2. CASE e.effect # "derived"
      BY <3>2, <2>6, <2>8 DEF IsOperation, Labelled
    <3> QED
      BY <3>1, <3>2
  <2> HIDE DEF ops
  <2> QED
    BY <2>1, <2>4, <2>7, <2>9 DEF Declared
<1> HIDE DEF ops
<1>5. \A op \in Range(ops) : \E i \in DOMAIN kept : op = ops[i]
  BY DEF Range, ops
<1> QED
  BY <1>1, <1>3, <1>4, <1>5

LEMMA ToolsBegin == Init => ToolsInv
<1> SUFFICES ASSUME Init PROVE ToolsInv
  OBVIOUS
<1>1. /\ phase = "down" /\ found = <<>> /\ answer = NoAnswer
      /\ documents = [u \in Upstream |-> NoDocument]
  BY DEF Init
<1>2. IsList(<<>>) /\ Range(<<>>) = {}
  BY DEF IsList, Range
<1>3. FoundOK
  BY <1>1, <1>2 DEF FoundOK
<1>4. ServedOK /\ AnswerOK
  BY <1>1 DEF Init, ServedOK, AnswerOK
<1> QED
  BY <1>3, <1>4, Begun DEF ToolsInv

\* A process that has exited has found nothing and serves nothing.
LEMMA ToolsExit == ToolsInv /\ Exits => FoundOK' /\ ServedOK' /\ AnswerOK'
<1> SUFFICES ASSUME ToolsInv, Exits PROVE FoundOK' /\ ServedOK' /\ AnswerOK'
  OBVIOUS
<1>1. /\ phase' = "down" /\ found' = <<>> /\ answer' = NoAnswer /\ served' = NothingServed
      /\ documents' = [u \in Upstream |-> NoDocument]
  BY DEF Exits
<1>2. IsList(<<>>) /\ Range(<<>>) = {}
  BY DEF IsList, Range
<1>3. FoundOK'
  BY <1>1, <1>2 DEF FoundOK
<1>4. ServedOK'
  BY <1>1 DEF ServedOK, NothingServed
<1> QED
  BY <1>1, <1>3, <1>4 DEF AnswerOK

\* What a process starts with, it has found nothing with.
LEMMA ToolsStart == ToolsInv /\ Starts => FoundOK' /\ ServedOK' /\ AnswerOK'
<1> SUFFICES ASSUME ToolsInv, Starts PROVE FoundOK' /\ ServedOK' /\ AnswerOK'
  OBVIOUS
<1>1. /\ phase = "down" /\ phase' \in {"building", "introspecting"}
      /\ UNCHANGED <<documents, found, served, answer>>
  BY DEF Starts, clientVars
<1>2. found' = <<>> /\ answer' = NoAnswer /\ served' = NothingServed
  BY <1>1 DEF ToolsInv, FoundOK, ServedOK, AnswerOK
<1>3. IsList(<<>>) /\ Range(<<>>) = {}
  BY DEF IsList, Range
<1>4. FoundOK'
  BY <1>1, <1>2, <1>3 DEF ToolsInv, FoundOK
<1> QED
  BY <1>1, <1>2, <1>4 DEF ServedOK, NothingServed, AnswerOK

\* What is introspected joins what was found.
LEMMA ToolsFound ==
  ASSUME ToolsInv, phase \in {"introspecting", "resolving"}, phase' = "introspecting",
         NEW ops, IsList(ops), \A op \in Range(ops) : Discovered(op, config),
         found' = found \o ops, UNCHANGED <<config, served, answer>>, DOMAIN documents' = Upstream
  PROVE  FoundOK' /\ ServedOK' /\ AnswerOK'
<1>1. IsList(found') /\ Range(found') = Range(found) \cup Range(ops)
  BY JoinedRange DEF ToolsInv, FoundOK
<1>2. FoundOK'
  BY <1>1 DEF ToolsInv, FoundOK
<1> QED
  BY <1>2 DEF ToolsInv, ServedOK, NothingServed, AnswerOK

LEMMA ToolsIntrospected ==
  ASSUME ToolsInv, NEW u \in Upstream, Introspects(u)
  PROVE  FoundOK' /\ ServedOK' /\ AnswerOK'
<1>1. /\ phase = "resolving" /\ phase' = "introspecting" /\ Head(pending) = u
      /\ found' = found \o OpenApiOperations(u, documents[u], config)
      /\ UNCHANGED <<config, answer, served, documents>>
  BY DEF Introspects, clientVars
<1>2. PICK S \in Worlds : \E w \in S : documents[u] = w.documents[u]
  BY <1>1 DEF ToolsInv, FoundOK
<1>3. PICK w \in S : documents[u] = w.documents[u]
  BY <1>2
<1>4. WellFormed(w)
  BY WorldsAssumption
<1>5. /\ IsList(documents[u].operations)
      /\ \A raw \in Range(documents[u].operations) : Labelled(raw) /\ IsHttp(raw.binding)
  BY <1>3, <1>4 DEF WellFormed
<1> DEFINE ops == OpenApiOperations(u, documents[u], config)
<1>6. IsList(ops) /\ \A op \in Range(ops) : Discovered(op, config)
  BY <1>5, DocumentRead
<1>7. DOMAIN documents' = Upstream
  BY <1>1 DEF ToolsInv, FoundOK
<1> HIDE DEF ops
<1> QED
  BY <1>1, <1>6, <1>7, ToolsFound DEF ops

LEMMA ToolsIntrospectedSchema ==
  ASSUME ToolsInv, NEW u \in Upstream, IntrospectsSchema(u)
  PROVE  FoundOK' /\ ServedOK' /\ AnswerOK'
<1> DEFINE document == world.documents[u]
           ops == GraphQlOperations(u, document, config)
<1>1. /\ phase = "introspecting" /\ found' = found \o ops
      /\ documents' = [documents EXCEPT ![u] = document]
      /\ UNCHANGED <<phase, config, served, answer>>
  BY DEF IntrospectsSchema, AtTurn, clientVars
<1>2. WellFormed(world)
  BY WorldsAssumption DEF ToolsInv, SInv
<1>3. /\ IsList(document.fields)
      /\ \A field \in Range(document.fields) :
           field.id \in DOMAIN Words /\ field.variables \subseteq Name
  BY <1>2 DEF WellFormed
<1> HIDE DEF document
<1>4. IsList(ops) /\ \A op \in Range(ops) : Discovered(op, config)
  BY <1>3, SchemaRead
<1>5. DOMAIN documents' = Upstream
  BY <1>1 DEF ToolsInv, FoundOK
<1> HIDE DEF ops
<1> QED
  BY <1>1, <1>4, <1>5, ToolsFound

\* The tools are built from what was found.
LEMMA ToolsServed == ToolsInv /\ Serves => FoundOK' /\ ServedOK' /\ AnswerOK'
<1> SUFFICES ASSUME ToolsInv, Serves PROVE FoundOK' /\ ServedOK' /\ AnswerOK'
  OBVIOUS
<1>1. /\ phase = "building" /\ Builds /\ phase' = "up"
      /\ served' = [operations |-> Kept, tools |-> ByName(Kept, config.naming),
                    transports |-> [u \in Upstream |-> Protocols(Kept, u)]]
      /\ UNCHANGED <<config, pending, documents, found, answer>>
  BY DEF Serves, clientVars
<1>2. Kept' = Kept
  BY <1>1 DEF Kept, Merged
<1>3. Builds'
  BY <1>1, <1>2 DEF Builds
<1>4. ServedOK'
  BY <1>1, <1>2, <1>3 DEF ServedOK
<1>5. FoundOK'
  BY <1>1 DEF ToolsInv, FoundOK
<1>6. answer = NoAnswer
  BY <1>1 DEF ToolsInv, AnswerOK
<1> QED
  BY <1>1, <1>4, <1>5, <1>6 DEF AnswerOK

\* A tool is one of the operations that were kept.
LEMMA ToolsCalled ==
  ASSUME ToolsInv, NEW name, NEW args, Calls(name, args)
  PROVE  FoundOK' /\ ServedOK' /\ AnswerOK'
<1> DEFINE op == served.tools[name]
<1>1. /\ phase = "up" /\ name \in DOMAIN served.tools
      /\ Schema(op.binding).required \subseteq DOMAIN args
      /\ answer' = [operation |-> op, args |-> args, requests |-> RequestOf(op, args)]
      /\ UNCHANGED <<phase, config, pending, documents, found, served>>
  BY DEF Calls, processVars
<1>2. Kept' = Kept
  BY <1>1 DEF Kept, Merged
<1>3. served.tools = ByName(Kept, config.naming)
  BY <1>1 DEF ToolsInv, ServedOK
<1>4. op \in Range(Kept)
  <2>1. name \in {ToolName(q, Kept, config.naming) : q \in Range(Kept)}
    BY <1>1, <1>3 DEF ByName
  <2>2. op = CHOOSE q \in Range(Kept) : ToolName(q, Kept, config.naming) = name
    BY <1>3, <2>1 DEF ByName
  <2> QED
    BY <2>1, <2>2
<1> HIDE DEF op
<1>5. RequestOf(op, args)' = RequestOf(op, args)
  BY <1>1 DEF RequestOf, op
<1>6. AnswerOK'
  BY <1>1, <1>2, <1>4 DEF AnswerOK, RequestOf
<1>7. FoundOK'
  BY <1>1 DEF ToolsInv, FoundOK
<1>8. ServedOK'
  <2>1. Builds' = Builds
    BY <1>1, <1>2 DEF Builds
  <2> QED
    BY <1>1, <1>2, <2>1 DEF ToolsInv, ServedOK
<1> QED
  BY <1>6, <1>7, <1>8

\* The other steps leave them alone.
LEMMA ToolsOthers ==
  ASSUME ToolsInv, UNCHANGED <<config, found>>, DOMAIN documents' = Upstream,
         \/ phase' = phase /\ UNCHANGED <<pending, documents, served>> /\ answer' \in {answer, NoAnswer}
         \/ /\ phase = "introspecting" /\ phase' \in {"introspecting", "building"}
            /\ UNCHANGED <<served, answer>>
         \/ /\ phase = "introspecting" /\ phase' = "resolving" /\ UNCHANGED <<served, answer>>
            /\ \E S \in Worlds : \E w \in S : documents'[Head(pending')] = w.documents[Head(pending')]
  PROVE  FoundOK' /\ ServedOK' /\ AnswerOK'
<1>1. Kept' = Kept
  BY DEF Kept, Merged
<1>2. Builds' = Builds
  BY <1>1 DEF Builds
<1>3. FoundOK'
  BY DEF ToolsInv, FoundOK
<1>4. ServedOK'
  BY <1>1, <1>2 DEF ToolsInv, ServedOK, NothingServed
<1>5. AnswerOK'
  BY <1>1 DEF ToolsInv, AnswerOK, RequestOf
<1> QED
  BY <1>3, <1>4, <1>5

LEMMA ToolsKeep == ToolsInv /\ [Next]_vars => ToolsInv'
<1> SUFFICES ASSUME ToolsInv, [Next]_vars PROVE FoundOK' /\ ServedOK' /\ AnswerOK'
  BY SKeeps DEF ToolsInv
<1>1. CASE Starts
  BY <1>1, ToolsStart
<1>2. CASE Exits
  BY <1>2, ToolsExit
<1>3. ASSUME NEW u \in Upstream, Introspects(u) PROVE FoundOK' /\ ServedOK' /\ AnswerOK'
  BY <1>3, ToolsIntrospected
<1>4. ASSUME NEW u \in Upstream, IntrospectsSchema(u) PROVE FoundOK' /\ ServedOK' /\ AnswerOK'
  BY <1>4, ToolsIntrospectedSchema
<1>5. CASE Serves
  BY <1>5, ToolsServed
<1>6. CASE CallsAnything
  BY <1>6, ToolsCalled DEF CallsAnything
<1>7. DOMAIN documents = Upstream
  BY DEF ToolsInv, FoundOK
<1>8. ASSUME NEW u \in Upstream, Skips(u) PROVE FoundOK' /\ ServedOK' /\ AnswerOK'
  BY <1>7, <1>8, ToolsOthers DEF Skips, AtTurn, clientVars
<1>9. ASSUME NEW u \in Upstream, ReadsDocument(u) PROVE FoundOK' /\ ServedOK' /\ AnswerOK'
  <2>1. /\ phase = "introspecting" /\ Head(pending) = u /\ phase' = "resolving"
        /\ documents' = [documents EXCEPT ![u] = world.documents[u]]
        /\ UNCHANGED <<config, pending, found, served, answer>>
    BY <1>9 DEF ReadsDocument, AtTurn, clientVars
  <2>2. DOMAIN documents' = Upstream /\ documents'[u] = world.documents[u]
    BY <1>7, <2>1
  <2>3. \E S \in Worlds : world \in S
    BY DEF ToolsInv, SInv
  <2> QED
    BY <2>1, <2>2, <2>3, ToolsOthers
<1>10. CASE HasIntrospected
  BY <1>7, <1>10, ToolsOthers DEF HasIntrospected, clientVars
<1>11. CASE Resolves \/ Changes \/ Lists \/ UNCHANGED vars
  BY <1>7, <1>11, ToolsOthers DEF Resolves, Changes, Lists, processVars, clientVars, vars
<1> QED
  BY <1>1, <1>2, <1>3, <1>4, <1>5, <1>6, <1>8, <1>9, <1>10, <1>11
     DEF Next, CannotRead, CannotIntrospect, CannotServe, Stops

\* The strengthening that the theorems below read their claims from.
LEMMA ToolsInvariant == Spec => []ToolsInv
  BY ToolsBegin, ToolsKeep, PTL DEF Spec

\* A rule changes what it is about, and nothing else.
LEMMA ReclassifiedBy ==
  ASSUME NEW op, IsOperation(op), NEW rule
  PROVE  LET x == Reclassify(op, rule)
         IN  /\ IsOperation(x) /\ x.id = op.id /\ x.upstream = op.upstream /\ x.name = op.name
             /\ x.tags = op.tags /\ x.binding = op.binding
             /\ x.effect = op.effect \/ x.effect = rule.effect
             /\ x.sensitivity = op.sensitivity \/ x.sensitivity = rule.sensitivity
             /\ Matches(op, rule.match) =>
                  /\ rule.effect # "keep" => x.effect = rule.effect
                  /\ rule.sensitivity # "keep" => x.sensitivity = rule.sensitivity
<1> DEFINE effect == IF rule.effect = "keep" THEN op.effect ELSE rule.effect
           sensitivity == IF rule.sensitivity = "keep" THEN op.sensitivity ELSE rule.sensitivity
           x == Reclassify(op, rule)
<1>1. x = IF ~Matches(op, rule.match) THEN op
          ELSE [op EXCEPT !.effect = effect, !.sensitivity = sensitivity]
  BY DEF Reclassify, IsOperation
<1> HIDE DEF effect, sensitivity, x
<1>2. CASE ~Matches(op, rule.match)
  BY <1>1, <1>2 DEF x
<1>3. CASE Matches(op, rule.match)
  <2>1. x = [id |-> op.id, upstream |-> op.upstream, name |-> op.name, tags |-> op.tags,
             effect |-> effect, sensitivity |-> sensitivity, binding |-> op.binding]
    BY <1>1, <1>3 DEF IsOperation
  <2>2. IsOperation(x)
    BY <2>1 DEF IsOperation, Labelled
  <2> QED
    BY <2>1, <2>2 DEF effect, sensitivity, x
<1> QED
  BY <1>2, <1>3

\* The operation after each of the rules.
LEMMA ClassifiedStepwise ==
  ASSUME NEW op, NEW rules, IsList(rules)
  PROVE  \E after : /\ after[0] = op
                    /\ \A k \in 1 .. Len(rules) : after[k] = Reclassify(after[k - 1], rules[k])
                    /\ Classified(op, rules) = after[Len(rules)]
<1> DEFINE n == Len(rules)
           step(f, k) == IF k = 0 THEN op ELSE Reclassify(f[k - 1], rules[k])
           S == {m \in 0 .. n : \E f : f = [k \in 0 .. m |-> step(f, k)]}
<1>1. n \in Nat
  BY DEF IsList
<1> HIDE DEF n
<1>2. 0 \in S
  <2> DEFINE f == [k \in 0 .. 0 |-> op]
  <2>1. f = [k \in 0 .. 0 |-> step(f, k)]
    OBVIOUS
  <2> HIDE DEF f, step
  <2>2. \E g : g = [k \in 0 .. 0 |-> step(g, k)]
    BY <2>1
  <2> QED
    BY <1>1, <2>2
<1>3. ASSUME NEW m \in 1 .. n, m - 1 \in S PROVE m \in S
  <2>1. PICK f : f = [k \in 0 .. m - 1 |-> step(f, k)]
    BY <1>3
  <2> DEFINE g == [k \in 0 .. m |-> IF k = m THEN step(f, m) ELSE f[k]]
  <2>2. ASSUME NEW k \in 0 .. m PROVE g[k] = step(g, k)
    <3>1. CASE k = m
      <4>1. g[m] = step(f, m) /\ m # 0 /\ m - 1 \in 0 .. m /\ m - 1 # m
        OBVIOUS
      <4>2. g[m - 1] = f[m - 1]
        BY <4>1
      <4> QED
        BY <3>1, <4>1, <4>2
    <3>2. CASE k # m
      <4>1. k \in 0 .. m - 1 /\ g[k] = f[k]
        BY <3>2
      <4>2. f[k] = step(f, k)
        BY <2>1, <4>1
      <4>3. k # 0 => k - 1 \in 0 .. m /\ k - 1 # m
        BY <4>1
      <4>4. k # 0 => g[k - 1] = f[k - 1]
        BY <4>3
      <4> QED
        BY <4>1, <4>2, <4>4
    <3> QED
      BY <3>1, <3>2
  <2>3. DOMAIN g = 0 .. m /\ g = [k \in 0 .. m |-> g[k]]
    OBVIOUS
  <2> HIDE DEF g, step
  <2>4. g = [k \in 0 .. m |-> step(g, k)]
    BY <2>2, <2>3
  <2> QED
    BY <1>1, <2>4
<1> HIDE DEF S
<1>4. n \in S
  BY <1>1, <1>2, <1>3, Inherited
<1> DEFINE after == CHOOSE f : f = [k \in 0 .. n |-> step(f, k)]
<1>5. after = [k \in 0 .. n |-> step(after, k)]
  <2>1. \E f : f = [k \in 0 .. n |-> step(f, k)]
    BY <1>4 DEF S
  <2> HIDE DEF step
  <2> QED
    BY <2>1
<1>6. Classified(op, rules) = after[n]
  BY DEF Classified, n
<1> HIDE DEF after
<1>7. after[0] = op /\ \A k \in 1 .. n : after[k] = Reclassify(after[k - 1], rules[k])
  BY <1>1, <1>5
<1> QED
  BY <1>6, <1>7 DEF n

\* What the rules do to an operation together: its effect and its sensitivity are
\* those it had or those a rule gives it, and a rule that is about it has its way
\* unless a later one gives it what it has in the end.
LEMMA ClassifiedBy ==
  ASSUME NEW op, IsOperation(op), NEW rules, IsList(rules)
  PROVE  LET x == Classified(op, rules)
             about(i) == LET m == rules[i].match
                         IN  m.ids \subseteq {op.id} /\ m.tags = {} /\ m.upstreams = {} /\ m.effects = {}
         IN  /\ IsOperation(x) /\ x.id = op.id /\ x.upstream = op.upstream /\ x.name = op.name
             /\ x.tags = op.tags /\ x.binding = op.binding
             /\ x.effect = op.effect \/ \E r \in Range(rules) : r.effect = x.effect
             /\ x.sensitivity = op.sensitivity \/ \E r \in Range(rules) : r.sensitivity = x.sensitivity
             /\ \A i \in DOMAIN rules : about(i) /\ rules[i].effect # "keep" =>
                  \/ x.effect = rules[i].effect
                  \/ \E j \in DOMAIN rules : j > i /\ rules[j].effect = x.effect
             /\ \A i \in DOMAIN rules : about(i) /\ rules[i].sensitivity # "keep" =>
                  \/ x.sensitivity = rules[i].sensitivity
                  \/ \E j \in DOMAIN rules : j > i /\ rules[j].sensitivity = x.sensitivity
<1> DEFINE n == Len(rules)
           about(i) == LET m == rules[i].match
                       IN  m.ids \subseteq {op.id} /\ m.tags = {} /\ m.upstreams = {} /\ m.effects = {}
           x == Classified(op, rules)
<1>1. n \in Nat /\ DOMAIN rules = 1 .. n
  BY DEF IsList
<1>2. PICK after : /\ after[0] = op
                   /\ \A k \in 1 .. n : after[k] = Reclassify(after[k - 1], rules[k])
                   /\ x = after[n]
  BY ClassifiedStepwise
<1> HIDE DEF n, x
<1> DEFINE Same == {k \in 0 .. n :
                      /\ IsOperation(after[k]) /\ after[k].id = op.id
                      /\ after[k].upstream = op.upstream /\ after[k].name = op.name
                      /\ after[k].tags = op.tags /\ after[k].binding = op.binding}
<1>3. 0 .. n \subseteq Same
  <2>1. 0 \in Same
    BY <1>1, <1>2
  <2>2. ASSUME NEW k \in 1 .. n, k - 1 \in Same PROVE k \in Same
    <3>1. PICK before : before = after[k - 1]
      OBVIOUS
    <3>2. k \in 0 .. n /\ after[k] = Reclassify(before, rules[k])
      BY <1>1, <1>2, <3>1
    <3>3. /\ IsOperation(before) /\ before.id = op.id
          /\ before.upstream = op.upstream /\ before.name = op.name
          /\ before.tags = op.tags /\ before.binding = op.binding
      BY <2>2, <3>1
    <3> DEFINE y == Reclassify(before, rules[k])
    <3>4. /\ IsOperation(y) /\ y.id = before.id /\ y.upstream = before.upstream
          /\ y.name = before.name /\ y.tags = before.tags /\ y.binding = before.binding
      BY <3>3, ReclassifiedBy
    <3> HIDE DEF y
    <3> QED
      BY <3>2, <3>3, <3>4 DEF y
  <2> HIDE DEF Same
  <2> QED
    BY <1>1, <2>1, <2>2, Inherited
<1>4. ASSUME NEW k \in 1 .. n
      PROVE  /\ after[k].effect = after[k - 1].effect \/ after[k].effect = rules[k].effect
             /\ after[k].sensitivity = after[k - 1].sensitivity \/ after[k].sensitivity = rules[k].sensitivity
             /\ about(k) /\ rules[k].effect # "keep" => after[k].effect = rules[k].effect
             /\ about(k) /\ rules[k].sensitivity # "keep" => after[k].sensitivity = rules[k].sensitivity
  <2>1. after[k] = Reclassify(after[k - 1], rules[k])
    BY <1>1, <1>2
  <2>2. IsOperation(after[k - 1]) /\ after[k - 1].id = op.id
    <3>1. k - 1 \in Same
      BY <1>1, <1>3
    <3> QED
      BY <3>1
  <2>3. about(k) => Matches(after[k - 1], rules[k].match)
    BY <2>2 DEF Matches
  <2>4. PICK before : before = after[k - 1]
    OBVIOUS
  <2> DEFINE y == Reclassify(before, rules[k])
  <2>5. /\ y.effect = before.effect \/ y.effect = rules[k].effect
        /\ y.sensitivity = before.sensitivity \/ y.sensitivity = rules[k].sensitivity
        /\ Matches(before, rules[k].match) =>
             /\ rules[k].effect # "keep" => y.effect = rules[k].effect
             /\ rules[k].sensitivity # "keep" => y.sensitivity = rules[k].sensitivity
    <3>1. IsOperation(before)
      BY <2>2, <2>4
    <3>2. PICK rule : rule = rules[k]
      OBVIOUS
    <3> DEFINE z == Reclassify(before, rule)
    <3>3. /\ z.effect = before.effect \/ z.effect = rule.effect
          /\ z.sensitivity = before.sensitivity \/ z.sensitivity = rule.sensitivity
      BY <3>1, ReclassifiedBy
    <3>4. Matches(before, rule.match) =>
            /\ rule.effect # "keep" => z.effect = rule.effect
            /\ rule.sensitivity # "keep" => z.sensitivity = rule.sensitivity
      BY <3>1, ReclassifiedBy
    <3>5. y = z
      BY <3>2
    <3> HIDE DEF about, y, z
    <3> QED
      BY <3>2, <3>3, <3>4, <3>5
  <2> HIDE DEF y, about
  <2> QED
    BY <2>1, <2>3, <2>4, <2>5 DEF y
<1>5. /\ IsOperation(x) /\ x.id = op.id /\ x.upstream = op.upstream /\ x.name = op.name
      /\ x.tags = op.tags /\ x.binding = op.binding
  <2>1. n \in Same
    BY <1>1, <1>3
  <2> QED
    BY <1>2, <2>1
<1> HIDE DEF Same, about
<1>6. x.effect = op.effect \/ \E k \in 1 .. n : rules[k].effect = x.effect
  <2> DEFINE S == {m \in 0 .. n : \/ after[m].effect = op.effect
                                 \/ \E k \in 1 .. n : rules[k].effect = after[m].effect}
  <2>1. 0 \in S /\ \A m \in 1 .. n : m - 1 \in S => m \in S
    BY <1>1, <1>2, <1>4
  <2> HIDE DEF S
  <2>2. n \in S
    BY <1>1, <2>1, Inherited
  <2> QED
    BY <1>2, <2>2 DEF S
<1>7. x.sensitivity = op.sensitivity \/ \E k \in 1 .. n : rules[k].sensitivity = x.sensitivity
  <2> DEFINE S == {m \in 0 .. n : \/ after[m].sensitivity = op.sensitivity
                                 \/ \E k \in 1 .. n : rules[k].sensitivity = after[m].sensitivity}
  <2>1. 0 \in S /\ \A m \in 1 .. n : m - 1 \in S => m \in S
    BY <1>1, <1>2, <1>4
  <2> HIDE DEF S
  <2>2. n \in S
    BY <1>1, <2>1, Inherited
  <2> QED
    BY <1>2, <2>2 DEF S
<1>8. ASSUME NEW i \in 1 .. n, about(i), rules[i].effect # "keep"
      PROVE  x.effect = rules[i].effect \/ \E j \in 1 .. n : j > i /\ rules[j].effect = x.effect
  <2> DEFINE S == {m \in 0 .. n : m >= i =>
                     \/ after[m].effect = rules[i].effect
                     \/ \E j \in 1 .. n : j > i /\ rules[j].effect = after[m].effect}
  <2>1. 0 \in S
    BY <1>1
  <2>2. ASSUME NEW m \in 1 .. n, m - 1 \in S PROVE m \in S
    <3>1. CASE m < i
      BY <1>1, <3>1
    <3>2. CASE m = i
      BY <1>1, <1>4, <1>8, <3>2
    <3>3. CASE m > i
      BY <1>1, <1>4, <2>2, <3>3
    <3> QED
      BY <1>1, <3>1, <3>2, <3>3
  <2> HIDE DEF S
  <2>3. n \in S
    BY <1>1, <2>1, <2>2, Inherited
  <2> QED
    BY <1>1, <1>2, <2>3 DEF S
<1>9. ASSUME NEW i \in 1 .. n, about(i), rules[i].sensitivity # "keep"
      PROVE  x.sensitivity = rules[i].sensitivity
             \/ \E j \in 1 .. n : j > i /\ rules[j].sensitivity = x.sensitivity
  <2> DEFINE S == {m \in 0 .. n : m >= i =>
                     \/ after[m].sensitivity = rules[i].sensitivity
                     \/ \E j \in 1 .. n : j > i /\ rules[j].sensitivity = after[m].sensitivity}
  <2>1. 0 \in S
    BY <1>1
  <2>2. ASSUME NEW m \in 1 .. n, m - 1 \in S PROVE m \in S
    <3>1. CASE m < i
      BY <1>1, <3>1
    <3>2. CASE m = i
      BY <1>1, <1>4, <1>9, <3>2
    <3>3. CASE m > i
      BY <1>1, <1>4, <2>2, <3>3
    <3> QED
      BY <1>1, <3>1, <3>2, <3>3
  <2> HIDE DEF S
  <2>3. n \in S
    BY <1>1, <2>1, <2>2, Inherited
  <2> QED
    BY <1>1, <1>2, <2>3 DEF S
<1>10. \A k \in 1 .. n : rules[k] \in Range(rules)
  BY <1>1 DEF Range
<1>11. /\ x.effect = op.effect \/ \E r \in Range(rules) : r.effect = x.effect
       /\ x.sensitivity = op.sensitivity \/ \E r \in Range(rules) : r.sensitivity = x.sensitivity
  BY <1>6, <1>7, <1>10
<1>12. \A i \in DOMAIN rules :
         /\ about(i) /\ rules[i].effect # "keep" =>
              \/ x.effect = rules[i].effect
              \/ \E j \in DOMAIN rules : j > i /\ rules[j].effect = x.effect
         /\ about(i) /\ rules[i].sensitivity # "keep" =>
              \/ x.sensitivity = rules[i].sensitivity
              \/ \E j \in DOMAIN rules : j > i /\ rules[j].sensitivity = x.sensitivity
  BY <1>1, <1>8, <1>9
<1> QED
  BY <1>5, <1>11, <1>12 DEF x, about

\* What is merged was found or is declared.
LEMMA MergedFrom ==
  ASSUME NEW ops, IsList(ops), NEW explicit, IsList(explicit)
  PROVE  /\ IsList(Merge(ops, explicit))
         /\ Range(Merge(ops, explicit)) \subseteq Range(ops) \cup Range(explicit)
<1> DEFINE entry(id) == {e \in Range(explicit) : e.id = id}
           first == [i \in DOMAIN ops |->
                       IF entry(ops[i].id) = {} THEN ops[i] ELSE CHOOSE e \in entry(ops[i].id) : TRUE]
           New == {i \in DOMAIN explicit : \A f \in Range(ops) : f.id # explicit[i].id}
           second == Filtered(explicit, New)
<1>1. Merge(ops, explicit) = first \o second
  BY DEF Merge, Where
<1>2. IsList(first)
  <2>1. DOMAIN first = DOMAIN ops /\ first = [i \in DOMAIN ops |-> first[i]]
    OBVIOUS
  <2> HIDE DEF first
  <2> QED
    BY <2>1, MappedRange
<1>3. IsList(second) /\ Range(second) \subseteq Range(explicit)
  <2>1. New \in SUBSET DOMAIN explicit
    OBVIOUS
  <2> HIDE DEF New
  <2>2. IsList(second) /\ Range(second) = {explicit[i] : i \in New}
    BY <2>1, FilteredRange
  <2> QED
    BY <2>1, <2>2 DEF Range
<1>4. Range(first) \subseteq Range(ops) \cup Range(explicit)
  <2> SUFFICES ASSUME NEW i \in DOMAIN ops PROVE first[i] \in Range(ops) \cup Range(explicit)
    BY DEF Range
  <2>1. ops[i] \in Range(ops)
    BY DEF Range
  <2> DEFINE E == entry(ops[i].id)
  <2>2. E \subseteq Range(explicit)
    OBVIOUS
  <2>3. first[i] = IF E = {} THEN ops[i] ELSE CHOOSE e \in E : TRUE
    OBVIOUS
  <2> HIDE DEF E, first
  <2> QED
    BY <2>1, <2>2, <2>3
<1> HIDE DEF first, second
<1> QED
  BY <1>1, <1>2, <1>3, <1>4, JoinedRange

\* What is kept is something of that as the rules leave it, if it may be shown.
LEMMA KeptFrom ==
  ASSUME ToolsInv, phase = "up"
  PROVE  /\ IsList(config.classification)
         /\ \A op \in Range(Kept) :
              /\ Presentable(op, config.mode)
              /\ \E m : /\ op = Classified(m, config.classification)
                        /\ \/ m \in Range(found) /\ Discovered(m, config)
                           \/ Declared(m, config)
<1>1. PICK w : WellFormed(w) /\ config = w.config
  BY WorldsAssumption DEF ToolsInv, SInv
<1>2. IsList(config.classification)
  BY <1>1 DEF WellFormed
<1> DEFINE explicit == ExplicitOperations(config)
<1>3. IsList(explicit) /\ \A x \in Range(explicit) : Declared(x, config)
  <2>1. Loads(config) /\ EntriesFlatten(config)
    BY DEF ToolsInv, SInv, ServedOK, Builds
  <2>2. /\ IsList(config.operations)
        /\ \A e \in Range(config.operations) :
             Labelled(e) /\ (IsHttp(e.binding) \/ IsGraphQl(e.binding))
    BY <1>1 DEF WellFormed
  <2> QED
    BY <2>1, <2>2, EntriesRead
<1> HIDE DEF explicit
<1>4. IsList(found) /\ \A f \in Range(found) : Discovered(f, config)
  BY DEF ToolsInv, FoundOK
<1>5. IsList(Merged) /\ Range(Merged) \subseteq Range(found) \cup Range(explicit)
  BY <1>3, <1>4, MergedFrom DEF Merged, explicit
<1> DEFINE classified == Classify(Merged, config.classification)
           Keep == {i \in DOMAIN classified : /\ Presentable(classified[i], config.mode)
                                              /\ Selected(classified[i], config.selection)}
<1>6. Kept = Filtered(classified, Keep)
  BY DEF Kept, Survivors, Where
<1>7. classified = [i \in DOMAIN Merged |-> Classified(Merged[i], config.classification)]
  BY DEF Classify
<1>8. IsList(classified)
  <2>1. DOMAIN classified = DOMAIN Merged /\ classified = [i \in DOMAIN Merged |-> classified[i]]
    BY <1>7
  <2> HIDE DEF classified
  <2> QED
    BY <1>5, <2>1, MappedRange
<1>9. Range(Kept) = {classified[i] : i \in Keep}
  <2>1. Keep \in SUBSET DOMAIN classified
    OBVIOUS
  <2> HIDE DEF classified, Keep
  <2> QED
    BY <1>6, <1>8, <2>1, FilteredRange
<1>10. ASSUME NEW i \in Keep
       PROVE  /\ Presentable(classified[i], config.mode)
              /\ \E m : /\ classified[i] = Classified(m, config.classification)
                        /\ \/ m \in Range(found) /\ Discovered(m, config)
                           \/ Declared(m, config)
  <2>1. Presentable(classified[i], config.mode) /\ i \in DOMAIN Merged
    BY <1>7
  <2>2. Merged[i] \in Range(Merged) /\ classified[i] = Classified(Merged[i], config.classification)
    BY <1>7, <2>1 DEF Range
  <2> HIDE DEF classified
  <2> QED
    BY <1>3, <1>4, <1>5, <2>1, <2>2
<1> HIDE DEF Keep, classified
<1> QED
  BY <1>2, <1>9, <1>10

\* It is of an upstream of the config, and its binding has names that it keeps.
LEMMA KeptBound ==
  ASSUME ToolsInv, phase = "up", NEW op \in Range(Kept)
  PROVE  IsOperation(op) /\ op.upstream \in Upstream /\ Bound(op.binding, config)
<1>1. IsList(config.classification)
  BY KeptFrom
<1>2. PICK m : /\ op = Classified(m, config.classification)
               /\ Discovered(m, config) \/ Declared(m, config)
  BY KeptFrom
<1>3. IsOperation(m) /\ m.upstream \in Upstream /\ Bound(m.binding, config)
  BY <1>2 DEF Discovered, Declared
<1>4. IsOperation(op) /\ op.upstream = m.upstream /\ op.binding = m.binding
  BY <1>1, <1>2, <1>3, ClassifiedBy
<1> QED
  BY <1>3, <1>4

\* Validation and introspection (models.py:186-202, 432-466, introspect.py:34-54)
\* leave no operation, found or declared, however merged and classified, without a
\* server, a transport or a token: loader.py:3-4 holds for every config and document.
THEOREM ToolsCanBeCalled == Spec => []EveryToolCanBeCalled
<1>1. ASSUME ToolsInv, phase = "up", NEW op \in Range(served.operations)
      PROVE  /\ bases[op.upstream] # "none"
             /\ op.binding.protocol \in served.transports[op.upstream]
             /\ config.upstreams[op.upstream].outbound = "token_exchange" =>
                  config.transport = "http" /\ config.inbound
  <2>1. /\ served.operations = Kept
        /\ served.transports = [u \in Upstream |-> Protocols(Kept, u)]
    BY <1>1 DEF ToolsInv, ServedOK
  <2>2. op \in Range(Kept) /\ op.upstream \in Upstream
    BY <1>1, <2>1, KeptBound
  <2>3. op.binding.protocol \in Protocols(Kept, op.upstream)
    BY <2>2 DEF Protocols
  <2>4. UpstreamsCanBeCalled
    <3>1. SInv
      BY <1>1 DEF ToolsInv
    <3> QED
      BY <3>1 DEF SInv, BasesOK, UpstreamsCanBeCalled, Loads, SubjectsToExchange
  <2> QED
    BY <1>1, <2>1, <2>2, <2>3, <2>4 DEF UpstreamsCanBeCalled
<1>2. ToolsInv => EveryToolCanBeCalled
  BY <1>1 DEF EveryToolCanBeCalled
<1> QED
  BY <1>2, ToolsInvariant, PTL

\* Classification is cumulative and comes before the posture (registry.py:39-66):
\* for any list of rules, each looking at what those before it left, what the safe
\* mode serves is read-only and normal by its source or by the operator's word.
THEOREM SafeMode == Spec => []SafeModeIsSafe
<1>1. ASSUME ToolsInv, phase = "up", config.mode = "introspect-safe",
             NEW op \in Range(served.operations)
      PROVE  LET rules == Range(config.classification)
                 entries == {e \in Range(config.operations) : e.id = op.id}
                 says(field, value) == \E r \in rules \cup entries : r[field] = value
                 about(i) == LET m == config.classification[i].match
                             IN  m.ids \subseteq {op.id} /\ m.tags = {} /\ m.upstreams = {} /\ m.effects = {}
                 its == {f \in Range(found) : f.id = op.id}
                 lastWord(field, value) ==
                   \A i \in DOMAIN config.classification :
                     about(i) /\ config.classification[i][field] \notin {"keep", value} =>
                       \E j \in DOMAIN config.classification : j > i /\ config.classification[j][field] = value
             IN  /\ EffectOf[op.binding.method] = "read_only" \/ says("effect", "read_only")
                 /\ its # {} /\ (\A f \in its : f.sensitivity = "sensitive") => says("sensitivity", "normal")
                 /\ lastWord("effect", "read_only") /\ lastWord("sensitivity", "normal")
  <2> DEFINE rules == config.classification
             entries == {e \in Range(config.operations) : e.id = op.id}
             about(i) == LET m == rules[i].match
                         IN  m.ids \subseteq {op.id} /\ m.tags = {} /\ m.upstreams = {} /\ m.effects = {}
  <2>1. op \in Range(Kept)
    BY <1>1 DEF ToolsInv, ServedOK
  <2>2. IsList(rules) /\ op.effect = "read_only" /\ op.sensitivity = "normal"
    BY <1>1, <2>1, KeptFrom DEF Presentable
  <2>3. PICK m : /\ op = Classified(m, rules)
                 /\ \/ m \in Range(found) /\ Discovered(m, config)
                    \/ Declared(m, config)
    BY <1>1, <2>1, KeptFrom
  <2>4. IsOperation(m)
    BY <2>3 DEF Discovered, Declared
  <2> HIDE DEF rules
  <2>5. op.id = m.id /\ op.binding = m.binding
    BY <2>2, <2>3, <2>4, ClassifiedBy
  <2>6. /\ op.effect = m.effect \/ \E r \in Range(rules) : r.effect = op.effect
        /\ op.sensitivity = m.sensitivity \/ \E r \in Range(rules) : r.sensitivity = op.sensitivity
    BY <2>2, <2>3, <2>4, ClassifiedBy
  <2>7. \A i \in DOMAIN rules : about(i) /\ rules[i].effect # "keep" =>
                  \/ op.effect = rules[i].effect
                  \/ \E j \in DOMAIN rules : j > i /\ rules[j].effect = op.effect
    BY <2>2, <2>3, <2>4, <2>5, ClassifiedBy
  <2>8. \A i \in DOMAIN rules : about(i) /\ rules[i].sensitivity # "keep" =>
                  \/ op.sensitivity = rules[i].sensitivity
                  \/ \E j \in DOMAIN rules : j > i /\ rules[j].sensitivity = op.sensitivity
    BY <2>2, <2>3, <2>4, <2>5, ClassifiedBy
  <2>9. \/ EffectOf[op.binding.method] = "read_only"
        \/ \E r \in Range(rules) \cup entries : r.effect = "read_only"
    <3>1. CASE Discovered(m, config)
      BY <2>2, <2>5, <2>6, <3>1 DEF Discovered
    <3>2. CASE Declared(m, config)
      BY <2>2, <2>5, <2>6, <3>2 DEF Declared
    <3> QED
      BY <2>3, <3>1, <3>2
  <2>10. ASSUME NEW f \in Range(found), f.id = op.id,
                \A g \in Range(found) : g.id = op.id => g.sensitivity = "sensitive"
         PROVE  \E r \in Range(rules) \cup entries : r.sensitivity = "normal"
    <3>1. CASE m \in Range(found)
      BY <2>2, <2>5, <2>6, <2>10, <3>1
    <3>2. CASE Declared(m, config)
      BY <2>2, <2>5, <2>6, <3>2 DEF Declared
    <3> QED
      BY <2>3, <3>1, <3>2
  <2> HIDE DEF about, entries
  <2>11. \A i \in DOMAIN rules : about(i) /\ rules[i].effect \notin {"keep", "read_only"} =>
           \E j \in DOMAIN rules : j > i /\ rules[j].effect = "read_only"
    BY <2>2, <2>7
  <2>12. \A i \in DOMAIN rules : about(i) /\ rules[i].sensitivity \notin {"keep", "normal"} =>
           \E j \in DOMAIN rules : j > i /\ rules[j].sensitivity = "normal"
    BY <2>2, <2>8
  <2> QED
    BY <2>9, <2>10, <2>11, <2>12 DEF rules, about, entries
<1>2. ToolsInv => SafeModeIsSafe
  BY <1>1 DEF SafeModeIsSafe
<1> QED
  BY <1>2, ToolsInvariant, PTL

\* All of a location's parameters are sent that a call gives a value, but for
\* exploded empty lists in the query.
LEMMA SentSupplied ==
  ASSUME NEW b, NEW args, NEW location
  PROVE  /\ Sent(b, args, location) \subseteq Supplied(b, args, location)
         /\ location # "query" => Sent(b, args, location) = Supplied(b, args, location)
         /\ Supplied(b, args, location) \subseteq At(b, location)
         /\ At(b, location) \subseteq DOMAIN b.parameters
BY DEF Sent, Supplied, At

\* What one parameter puts where, in a request whose wire names do not overlap.
LEMMA OnWire ==
  ASSUME NEW b \in HttpBinding, NEW args, NEW location, NEW i \in Sent(b, args, location),
         \A j \in DOMAIN b.parameters : b.parameters[j].arg = b.parameters[i].arg => j = i
  PROVE  LET n == b.parameters[i].arg
             wires == Wires(b, args, location)
         IN  {w \in DOMAIN wires : n \in wires[w]} = {b.parameters[i].wire}
<1> DEFINE ps == b.parameters
           given == Sent(b, args, location)
           wires == Wires(b, args, location)
           n == ps[i].arg
<1>1. /\ DOMAIN wires = {ps[j].wire : j \in given}
      /\ \A w \in DOMAIN wires : wires[w] = {ps[j].arg : j \in {k \in given : ps[k].wire = w}}
  BY DEF Wires
<1>2. given \subseteq DOMAIN ps
  BY SentSupplied
<1> HIDE DEF wires, given
<1>3. \A w \in DOMAIN wires : n \in wires[w] <=> w = ps[i].wire
  BY <1>1, <1>2 DEF given
<1>4. ps[i].wire \in DOMAIN wires
  BY <1>1 DEF given
<1> QED
  BY <1>3, <1>4 DEF wires

\* An argument that none of a location's parameters sends is not there.
LEMMA OffWire ==
  ASSUME NEW b, NEW args, NEW location, NEW n,
         \A j \in Sent(b, args, location) : b.parameters[j].arg # n
  PROVE  LET wires == Wires(b, args, location)
         IN  {w \in DOMAIN wires : n \in wires[w]} = {}
BY DEF Wires

\* The headers of a request, if its parameters do not overlap.
LEMMA HeadersSet ==
  ASSUME NEW b \in HttpBinding, ~HeadersOverlap(b), NEW args, NEW credential
  PROVE  LET headers == Headers(b, args, credential)
             given == {b.parameters[j].wire : j \in Supplied(b, args, "header")}
         IN  /\ credential # NoHeader => credential \in DOMAIN headers
             /\ given \subseteq DOMAIN headers
             /\ \A w \in DOMAIN headers :
                  \/ w = credential /\ headers[w] = Credential
                  \/ w # credential /\ headers[w] = BodyType
                  \/ w # credential /\ w \in given
             /\ \A j \in Supplied(b, args, "header") :
                  b.parameters[j].wire # credential =>
                    headers[b.parameters[j].wire] = b.parameters[j].arg
<1> DEFINE ps == b.parameters
           given == Supplied(b, args, "header")
           of(w) == {i \in given : ps[i].wire = w}
           last(w) == ps[Max(of(w))].arg
           typed == IF b.body.mode = "none" THEN {} ELSE {CONTENT_TYPE}
           headers == Headers(b, args, credential)
           all == {ps[j].wire : j \in given} \cup typed \cup ({credential} \ {NoHeader})
<1>1. headers = [w \in all |-> CASE w = credential -> Credential
                                 [] w # credential /\ w \in typed -> BodyType
                                 [] OTHER -> last(w)]
  BY DEF Headers
<1>2. given \subseteq DOMAIN ps /\ DOMAIN ps = 1 .. Len(ps) /\ given \subseteq At(b, "header")
  <2>1. ps \in Seq(Parameter)
    BY DEF HttpBinding
  <2> QED
    BY <2>1 DEF Supplied, At
<1>3. /\ \A i, j \in At(b, "header") : ps[i].wire = ps[j].wire => i = j
      /\ \A i \in At(b, "header") : ps[i].wire \notin typed
  BY DEF HeadersOverlap
<1>4. ASSUME NEW j \in given PROVE last(ps[j].wire) = ps[j].arg
  <2>1. of(ps[j].wire) = {j}
    BY <1>2, <1>3
  <2>2. j \in Int /\ j >= j
    BY <1>2
  <2>3. Max({j}) = j
    BY <2>2 DEF Max
  <2> HIDE DEF of
  <2> QED
    BY <2>1, <2>3
<1> HIDE DEF last, headers, typed, given
<1>5. /\ DOMAIN headers = all
      /\ \A w \in all : /\ w = credential => headers[w] = Credential
                        /\ w # credential /\ w \in typed => headers[w] = BodyType
                        /\ w # credential /\ w \notin typed => headers[w] = last(w)
  BY <1>1
<1>6. \A j \in given : ps[j].wire # credential => headers[ps[j].wire] = ps[j].arg
  BY <1>2, <1>3, <1>4, <1>5
<1>7. \A w \in all : w = credential \/ w \in typed \/ w \in {ps[j].wire : j \in given}
  OBVIOUS
<1> HIDE DEF all
<1>8. \A w \in DOMAIN headers : \/ w = credential /\ headers[w] = Credential
                                \/ w # credential /\ headers[w] = BodyType
                                \/ w # credential /\ w \in {ps[j].wire : j \in given}
  BY <1>5, <1>7
<1> QED
  BY <1>5, <1>6, <1>8 DEF headers, given, all

\* One name, one contributor.
LEMMA OneContributor ==
  ASSUME NEW b \in HttpBinding, NEW n, ~Collides(b, n),
         n \in BodyNames(b) \/ \E i \in DOMAIN b.parameters : b.parameters[i].arg = n
  PROVE  \/ n \in BodyNames(b) /\ \A i \in DOMAIN b.parameters : b.parameters[i].arg # n
         \/ /\ n \notin BodyNames(b)
            /\ \E i \in DOMAIN b.parameters :
                 /\ b.parameters[i].arg = n
                 /\ \A j \in DOMAIN b.parameters : b.parameters[j].arg = n => j = i
<1> DEFINE ps == b.parameters
           its == {i \in DOMAIN ps : ps[i].arg = n}
<1>1. IsFiniteSet(its) /\ Cardinality(its) \in Nat
  <2>1. ps \in Seq(Parameter)
    BY DEF HttpBinding
  <2>2. Len(ps) \in Nat /\ DOMAIN ps = 1 .. Len(ps)
    BY <2>1
  <2>3. IsFiniteSet(DOMAIN ps)
    BY <2>2, FS_Interval
  <2>4. its \in SUBSET DOMAIN ps
    OBVIOUS
  <2> HIDE DEF its
  <2>5. IsFiniteSet(its)
    BY <2>3, <2>4, FS_Subset
  <2> QED
    BY <2>5, FS_CardinalityType
<1>2. /\ Cardinality(its) <= 1
      /\ n \in BodyNames(b) => Cardinality(its) = 0
  BY <1>1 DEF Collides
<1>3. ASSUME NEW i \in its PROVE its = {i} /\ Cardinality(its) = 1
  <2>1. {i} \in SUBSET its
    OBVIOUS
  <2> HIDE DEF its
  <2>2. Cardinality({i}) = 1
    BY FS_Singleton
  <2>3. Cardinality({i}) <= Cardinality(its) /\ (Cardinality({i}) = Cardinality(its) => {i} = its)
    BY <1>1, <2>1, FS_Subset
  <2> QED
    BY <1>1, <1>2, <2>2, <2>3
<1>4. CASE its = {}
  BY <1>4
<1>5. CASE its # {}
  <2>1. PICK i \in its : TRUE
    BY <1>5
  <2>2. its = {i} /\ Cardinality(its) = 1
    BY <2>1, <1>3
  <2>3. n \notin BodyNames(b)
    <3> HIDE DEF its
    <3> QED
      BY <1>2, <2>2
  <2> QED
    BY <2>1, <2>2, <2>3
<1> QED
  BY <1>4, <1>5

\* An argument of the schema goes to one place, or to none if it vanishes.
LEMMA PlacedOnce ==
  ASSUME NEW b \in HttpBinding, Flattens(b), ResolveArgNames(b) = b, ~HeadersOverlap(b),
         NEW credential,
         \A i \in At(b, "header") : b.parameters[i].wire # credential,
         NEW args, NEW n \in DOMAIN args, n \in InputSchema(b).properties
  PROVE  Cardinality(Places(BuildRequest(b, args, credential), n)) =
           IF Vanishes(b, args, n) THEN 0 ELSE 1
<1> DEFINE ps == b.parameters
           request == BuildRequest(b, args, credential)
           onPath == {w \in DOMAIN request.path : n \in request.path[w]}
           inQuery == {w \in DOMAIN request.query : n \in request.query[w]}
           asHeader == {w \in DOMAIN request.headers : request.headers[w] = n}
<1>1. /\ request.path = Wires(b, args, "path") /\ request.query = Wires(b, args, "query")
      /\ request.headers = Headers(b, args, credential) /\ request.body = DOMAIN args \cap BodyNames(b)
  BY DEF BuildRequest
<1>2. ps \in Seq(Parameter) /\ \A i \in DOMAIN ps : ps[i] \in Parameter
  BY DEF HttpBinding
<1>3. n \in BodyNames(b) \/ \E i \in DOMAIN ps : ps[i].arg = n
  BY DEF InputSchema, Range
<1>4. ~Collides(b, n)
  BY <1>3 DEF Flattens, NamesAreUnique
<1>5. n # Credential /\ n # BodyType
  <2>1. CASE \E i \in DOMAIN ps : ps[i].arg = n
    BY <2>1, <1>2 DEF Parameter, Name
  <2>2. CASE n \in BodyNames(b)
    <3>1. BODY_ARG # Credential /\ BODY_ARG # BodyType
      BY DEF BODY_ARG, Credential, BodyType
    <3>2. b.body.properties \subseteq Name
      BY DEF HttpBinding, BodySpec
    <3> QED
      BY <2>2, <3>1, <3>2 DEF BodyNames, Name
  <2> QED
    BY <1>3, <2>1, <2>2
<1>6. Places(request, n) = {<<"path", w>> : w \in onPath} \cup {<<"query", w>> : w \in inQuery} \cup
                           {<<"header", w>> : w \in asHeader} \cup
                           (IF n \in request.body THEN {<<"body", n>>} ELSE {})
  BY DEF Places
<1>7. /\ {ps[j].wire : j \in Supplied(b, args, "header")} \subseteq DOMAIN request.headers
      /\ \A w \in DOMAIN request.headers :
           \/ request.headers[w] \in {Credential, BodyType}
           \/ w # credential /\ \E j \in Supplied(b, args, "header") : w = ps[j].wire
      /\ \A j \in Supplied(b, args, "header") : request.headers[ps[j].wire] = ps[j].arg
  <2>1. \A j \in Supplied(b, args, "header") : j \in At(b, "header")
    BY DEF Supplied
  <2> HIDE DEF request
  <2> QED
    BY <1>1, <2>1, HeadersSet
<1>8. \A location : /\ Sent(b, args, location) \subseteq At(b, location)
                    /\ Supplied(b, args, location) \subseteq At(b, location)
                    /\ At(b, location) \subseteq DOMAIN ps
  BY SentSupplied
<1> HIDE DEF request
<1>9. ASSUME n \in BodyNames(b), \A i \in DOMAIN ps : ps[i].arg # n
      PROVE  Places(request, n) = {<<"body", n>>}
  <2>1. onPath = {} /\ inQuery = {}
    BY <1>1, <1>8, <1>9, OffWire
  <2>2. asHeader = {}
    BY <1>5, <1>7, <1>8, <1>9
  <2>3. n \in request.body
    BY <1>1, <1>9
  <2> HIDE DEF onPath, inQuery, asHeader
  <2> QED
    BY <1>6, <2>1, <2>2, <2>3
<1>10. ASSUME n \notin BodyNames(b), NEW i \in DOMAIN ps, ps[i].arg = n,
              \A j \in DOMAIN ps : ps[j].arg = n => j = i
       PROVE  Places(request, n) =
                IF Vanishes(b, args, n) THEN {} ELSE {<<ps[i].location, ps[i].wire>>}
  <2>1. ps[i].location \in {"path", "query", "header"}
    BY <1>2, <1>10 DEF Parameter, Location
  <2>2. n \notin request.body
    BY <1>1, <1>10
  <2>3. \A location : \/ ps[i].location = location /\ i \in Supplied(b, args, location)
                      \/ ps[i].location # location /\ \A j \in At(b, location) : ps[j].arg # n
    BY <1>10 DEF Supplied, At
  <2>4. Vanishes(b, args, n) <=>
           ps[i].location = "query" /\ ps[i].explode /\ args[n] = "empty list"
    BY <1>10 DEF Vanishes, Filled, Range
  <2>5. ps[i].location = "query" => (i \in Sent(b, args, "query") <=> ~Vanishes(b, args, n))
    BY <1>10, <2>3, <2>4 DEF Sent
  <2>6. ps[i].location = "path" => i \in Sent(b, args, "path")
    BY <2>3, SentSupplied
  <2>7. onPath = IF ps[i].location = "path" THEN {ps[i].wire} ELSE {}
    <3>1. CASE ps[i].location = "path"
      BY <1>1, <1>10, <2>6, <3>1, OnWire
    <3>2. CASE ps[i].location # "path"
      BY <1>1, <1>8, <2>3, <3>2, OffWire
    <3> QED
      BY <3>1, <3>2
  <2>8. inQuery =
          IF ps[i].location = "query" /\ ~Vanishes(b, args, n) THEN {ps[i].wire} ELSE {}
    <3>1. CASE i \in Sent(b, args, "query")
      <4>1. ps[i].location = "query"
        BY <1>8, <1>10, <2>3, <3>1
      <4> QED
        BY <1>1, <1>10, <2>5, <3>1, <4>1, OnWire
    <3>2. CASE i \notin Sent(b, args, "query")
      <4>1. \A j \in Sent(b, args, "query") : ps[j].arg # n
        BY <1>8, <1>10, <3>2
      <4> QED
        BY <1>1, <2>5, <3>2, <4>1, OffWire
    <3> QED
      BY <3>1, <3>2
  <2>9. asHeader = IF ps[i].location = "header" THEN {ps[i].wire} ELSE {}
    <3>1. CASE ps[i].location = "header"
      <4>1. i \in Supplied(b, args, "header")
        BY <2>3, <3>1
      <4>2. \A w \in asHeader : w = ps[i].wire
        BY <1>5, <1>7, <1>8, <1>10
      <4>3. ps[i].wire \in asHeader
        BY <1>7, <1>10, <4>1
      <4> QED
        BY <3>1, <4>2, <4>3
    <3>2. CASE ps[i].location # "header"
      <4>1. asHeader = {}
        BY <1>5, <1>7, <1>8, <2>3, <3>2
      <4> QED
        BY <3>2, <4>1
    <3> QED
      BY <3>1, <3>2
  <2> HIDE DEF onPath, inQuery, asHeader
  <2>10. CASE ps[i].location = "path"
    BY <1>6, <2>2, <2>7, <2>8, <2>9, <2>10, <2>4
  <2>11. CASE ps[i].location = "query"
    BY <1>6, <2>2, <2>7, <2>8, <2>9, <2>11
  <2>12. CASE ps[i].location = "header"
    BY <1>6, <2>2, <2>7, <2>8, <2>9, <2>12, <2>4
  <2> QED
    BY <2>1, <2>10, <2>11, <2>12
<1>11. ASSUME n \in BodyNames(b), \A i \in DOMAIN ps : ps[i].arg # n
       PROVE  ~Vanishes(b, args, n)
  BY <1>11 DEF Vanishes, Filled, Range
<1>12. \E place : Places(request, n) = IF Vanishes(b, args, n) THEN {} ELSE {place}
  BY <1>3, <1>4, <1>9, <1>10, <1>11, OneContributor
<1> QED
  BY <1>12, FS_Singleton, FS_EmptySet DEF request

\* A request that can be built has one argument in each place of its path.
LEMMA PathFilled ==
  ASSUME NEW b \in HttpBinding, PathFits(b), NEW args, Buildable(b, args)
  PROVE  LET path == Wires(b, args, "path")
         IN  /\ DOMAIN path = Range(b.placeholders)
             /\ \A w \in DOMAIN path : Cardinality(path[w]) = 1
<1> DEFINE ps == b.parameters
           given == Supplied(b, args, "path")
           path == Wires(b, args, "path")
<1>1. given = At(b, "path") /\ given \subseteq DOMAIN ps
  BY DEF PathFits, Buildable, Supplied, At
<1>2. given = Sent(b, args, "path")
  BY SentSupplied
<1>3. /\ {ps[i].wire : i \in given} = Range(b.placeholders)
      /\ \A i, j \in given : ps[i].wire = ps[j].wire => i = j
  BY <1>1 DEF PathFits
<1>4. /\ DOMAIN path = {ps[j].wire : j \in given}
      /\ \A w \in DOMAIN path : path[w] = {ps[j].arg : j \in {k \in given : ps[k].wire = w}}
  BY <1>2 DEF Wires
<1> HIDE DEF path, given
<1>5. ASSUME NEW i \in given PROVE Cardinality(path[ps[i].wire]) = 1
  <2>1. {k \in given : ps[k].wire = ps[i].wire} = {i}
    BY <1>3
  <2>2. path[ps[i].wire] = {ps[i].arg}
    BY <1>4, <2>1
  <2> QED
    BY <2>2, FS_Singleton
<1> QED
  BY <1>3, <1>4, <1>5 DEF path

\* An HTTP request holds what a validated call supplies.
LEMMA HttpArrives ==
  ASSUME NEW b \in HttpBinding, Flattens(b), ResolveArgNames(b) = b, ~HeadersOverlap(b),
         b.body.mode = "object" => b.body.required \subseteq b.body.properties,
         NEW credential, \A i \in At(b, "header") : b.parameters[i].wire # credential,
         NEW args, InputSchema(b).required \subseteq DOMAIN args
  PROVE  LET request == BuildRequest(b, args, credential)
         IN  /\ Buildable(b, args) <=> ~Unfit(b, args)
             /\ \A n \in DOMAIN args \cap InputSchema(b).properties :
                  Cardinality(Places(request, n)) = IF Vanishes(b, args, n) THEN 0 ELSE 1
             /\ Buildable(b, args) =>
                  /\ DOMAIN request.path = Range(b.placeholders)
                  /\ \A w \in DOMAIN request.path : Cardinality(request.path[w]) = 1
             /\ credential # NoHeader => request.headers[credential] = Credential
<1> DEFINE request == BuildRequest(b, args, credential)
<1>1. Buildable(b, args) <=> ~Unfit(b, args)
  <2>1. \A i \in DOMAIN b.parameters :
          b.parameters[i].required => b.parameters[i].arg \in DOMAIN args
    BY DEF InputSchema, Range
  <2>2. b.body.mode = "single" => BODY_ARG \in DOMAIN args
    BY DEF InputSchema, BodyNames
  <2>3. b.body.mode = "object" => b.body.required \subseteq DOMAIN args
    BY DEF InputSchema
  <2>4. Unfit(b, args) <=> Collapses(b, args) \/ BreaksHeader(b, args)
    BY DEF Unfit, Filled, Range, Collapses, BreaksHeader, Supplied, At
  <2> QED
    BY <2>1, <2>2, <2>3, <2>4 DEF Buildable
<1>2. \A n \in DOMAIN args \cap InputSchema(b).properties :
        Cardinality(Places(request, n)) = IF Vanishes(b, args, n) THEN 0 ELSE 1
  <2> HIDE DEF request
  <2> QED
    BY PlacedOnce DEF request
<1>3. request.path = Wires(b, args, "path") /\ request.headers = Headers(b, args, credential)
  BY DEF BuildRequest
<1> HIDE DEF request
<1>4. Buildable(b, args) =>
        /\ DOMAIN request.path = Range(b.placeholders)
        /\ \A w \in DOMAIN request.path : Cardinality(request.path[w]) = 1
  BY <1>3, PathFilled DEF Flattens
<1>5. credential # NoHeader => request.headers[credential] = Credential
  <2>1. \A j \in Supplied(b, args, "header") : b.parameters[j].wire # credential
    BY DEF Supplied
  <2>2. credential # NoHeader => credential \in DOMAIN Headers(b, args, credential)
    BY HeadersSet
  <2>3. \A w \in DOMAIN Headers(b, args, credential) :
          w = credential => Headers(b, args, credential)[w] = Credential
    BY HeadersSet
  <2> QED
    BY <1>3, <2>2, <2>3
<1> QED
  BY <1>1, <1>2, <1>4, <1>5 DEF request

\* So does a GraphQL request: all of it goes into the body.
LEMMA GraphQlArrives ==
  ASSUME NEW b, b.variables \subseteq Name, NEW args, NEW credential
  PROVE  LET request == BuildGraphQlRequest(b, args, credential)
         IN  /\ \A n \in DOMAIN args \cap b.variables : Cardinality(Places(request, n)) = 1
             /\ DOMAIN request.path = {}
             /\ credential # NoHeader => request.headers[credential] = Credential
<1> DEFINE request == BuildGraphQlRequest(b, args, credential)
<1>1. /\ DOMAIN request.path = {} /\ DOMAIN request.query = {}
      /\ \A w \in DOMAIN request.headers : request.headers[w] \in {Credential, BodyType}
      /\ request.body = DOMAIN args \cap b.variables
      /\ credential # NoHeader => request.headers[credential] = Credential
  BY DEF BuildGraphQlRequest
<1> HIDE DEF request
<1>2. ASSUME NEW n \in DOMAIN args \cap b.variables PROVE Places(request, n) = {<<"body", n>>}
  <2>1. n # Credential /\ n # BodyType
    BY DEF Name
  <2> QED
    BY <1>1, <2>1 DEF Places
<1> QED
  BY <1>1, <1>2, FS_Singleton DEF request

\* Flattening is reversible (flatten.py:3-7): for every binding that flattens, with
\* any parameters, wire names and body, and every call that passes its validation, a
\* request is built exactly if no value is unfit for its place (http.py:94-97,
\* 112-117), puts each argument into one place but those that vanish from the query
\* (101-106), fills the path, and carries the gateway's own credential.
THEOREM ArgumentsArrive == Spec => []EveryArgumentArrives
<1> DEFINE b == answer.operation.binding
           header == config.upstreams[answer.operation.upstream].header
           whole == b.protocol = "http" =>
                      ~HeadersOverlap(b) /\ (b.body.mode = "object" => b.body.required \subseteq b.body.properties)
<1>1. ASSUME ToolsInv, answer # NoAnswer, phase = "up", whole
      PROVE  /\ answer.requests = {} <=> b.protocol = "http" /\ Unfit(b, answer.args)
             /\ \A request \in answer.requests :
                  /\ \A n \in DOMAIN answer.args \cap Schema(b).properties :
                       Cardinality(Places(request, n)) =
                         IF b.protocol = "http" /\ Vanishes(b, answer.args, n) THEN 0 ELSE 1
                  /\ b.protocol = "http" => DOMAIN request.path = Range(b.placeholders)
                  /\ \A w \in DOMAIN request.path : Cardinality(request.path[w]) = 1
                  /\ header # NoHeader => request.headers[header] = Credential
  <2>1. /\ answer.operation \in Range(Kept) /\ Schema(b).required \subseteq DOMAIN answer.args
        /\ answer.requests = RequestOf(answer.operation, answer.args)
    BY <1>1 DEF ToolsInv, AnswerOK
  <2>2. answer.operation.upstream \in Upstream /\ Bound(b, config)
    BY <1>1, <2>1, KeptBound
  <2>3. DOMAIN config.upstreams = Upstream
    <3>1. \E w : WellFormed(w) /\ config = w.config
      BY <1>1, WorldsAssumption DEF ToolsInv, SInv
    <3> QED
      BY <3>1 DEF WellFormed
  <2>4. header # NoHeader => header \in CredentialHeaders(config)
    BY <2>2, <2>3 DEF CredentialHeaders
  <2>5. answer.requests =
          IF b.protocol = "graphql" THEN {BuildGraphQlRequest(b, answer.args, header)}
          ELSE IF Buildable(b, answer.args) THEN {BuildRequest(b, answer.args, header)} ELSE {}
    BY <2>1 DEF RequestOf
  <2> HIDE DEF header
  <2>6. CASE IsGraphQl(b)
    <3>1. answer.requests = {BuildGraphQlRequest(b, answer.args, header)}
      BY <2>5, <2>6 DEF IsGraphQl
    <3>2. Schema(b).properties = b.variables /\ b.protocol # "http"
      BY <2>6 DEF Schema, IsGraphQl
    <3> HIDE DEF b
    <3> QED
      BY <2>6, <3>1, <3>2, GraphQlArrives DEF IsGraphQl
  <2>7. CASE /\ b \in HttpBinding /\ Flattens(b) /\ ResolveArgNames(b) = b
             /\ ~DeclaresDenied(b, CredentialHeaders(config))
    <3>1. b.protocol = "http"
      BY <2>7 DEF HttpBinding
    <3>2. Schema(b) = InputSchema(b)
      BY <3>1 DEF Schema
    <3>3. ~HeadersOverlap(b) /\ (b.body.mode = "object" => b.body.required \subseteq b.body.properties)
      BY <1>1, <3>1
    <3>4. \A i \in At(b, "header") : b.parameters[i].wire # header
      <4>1. \A i \in At(b, "header") : b.parameters[i].wire # NoHeader
        <5>1. b.parameters \in Seq(Parameter)
          BY <2>7 DEF HttpBinding
        <5> HIDE DEF b
        <5>2. \A i \in DOMAIN b.parameters : b.parameters[i] \in Parameter
          BY <5>1
        <5>3. \A p \in Parameter : p.wire # NoHeader
          BY DEF Parameter, Name
        <5> QED
          BY <5>2, <5>3 DEF At
      <4> QED
        BY <2>4, <2>7, <4>1 DEF DeclaresDenied
    <3> HIDE DEF b
    <3>5. LET request == BuildRequest(b, answer.args, header)
          IN  /\ Buildable(b, answer.args) <=> ~Unfit(b, answer.args)
              /\ \A n \in DOMAIN answer.args \cap InputSchema(b).properties :
                   Cardinality(Places(request, n)) = IF Vanishes(b, answer.args, n) THEN 0 ELSE 1
              /\ Buildable(b, answer.args) =>
                   /\ DOMAIN request.path = Range(b.placeholders)
                   /\ \A w \in DOMAIN request.path : Cardinality(request.path[w]) = 1
              /\ header # NoHeader => request.headers[header] = Credential
      BY <2>1, <2>7, <3>2, <3>3, <3>4, HttpArrives
    <3>6. answer.requests =
            IF Buildable(b, answer.args) THEN {BuildRequest(b, answer.args, header)} ELSE {}
      BY <2>5, <3>1
    <3> QED
      BY <3>1, <3>2, <3>5, <3>6
  <2> QED
    BY <2>2, <2>6, <2>7 DEF Bound, IsHttp
<1>2. ToolsInv => EveryArgumentArrives
  BY <1>1 DEF EveryArgumentArrives
<1> QED
  BY <1>2, ToolsInvariant, PTL
(***************************************************************************)
(* Names over time                                                         *)
(***************************************************************************)

\* What a list is shortened to.
LEMMA TrimmedList ==
  ASSUME NEW W, NEW name \in Seq(W)
  PROVE  Trimmed(name) \in Seq(W)
<1> DEFINE m == Min({Len(name), MaxWords - 1})
<1>1. Len(name) \in Nat /\ MaxWords - 1 \in Nat
  BY WordsAssumption
<1>2. m \in Nat /\ m <= Len(name)
  BY <1>1 DEF Min
<1> HIDE DEF m
<1>3. SubSeq(name, 1, m) \in Seq(W)
  BY <1>1, <1>2
<1> QED
  BY <1>3 DEF Trimmed, m

\* A suffix says whose it is.
LEMMA HashTells ==
  ASSUME NEW s, NEW t, Hash(<<s>>) = Hash(<<t>>)
  PROVE  s = t
<1> DEFINE S == {"#", s, t}
<1>1. <<"#">> \in Seq(S) /\ <<s>> \in Seq(S) /\ <<t>> \in Seq(S)
  OBVIOUS
<1>2. (<<"#">> \o <<s>>)[2] = s /\ (<<"#">> \o <<t>>)[2] = t
  BY <1>1
<1> QED
  BY <1>2 DEF Hash

\* A name that ends with a suffix.
LEMMA Suffixed ==
  ASSUME NEW base, IsList(base), NEW word
  PROVE  LET name == Append(Trimmed(base), word)
         IN  name[Len(name)] = word /\ word \in Range(name)
<1> DEFINE W == Range(base) \cup {word}
           t == Trimmed(base)
           name == Append(t, word)
<1>1. base \in Seq(W) /\ word \in W
  BY DEF IsList
<1> HIDE DEF W
<1>2. t \in Seq(W)
  BY <1>1, TrimmedList
<1> HIDE DEF t
<1>3. Len(name) = Len(t) + 1 /\ Len(name) \in DOMAIN name /\ name[Len(name)] = word
  BY <1>1, <1>2
<1> QED
  BY <1>3 DEF Range, t

\* A base name is a list of words.
LEMMA BaseListed ==
  ASSUME NEW op, Labelled(op), op.upstream \in DOMAIN Words,
         op.binding.protocol = "http" => op.binding.route \in DOMAIN Words,
         NEW naming
  PROVE  IsList(Base(op, naming))
<1> DEFINE end == {<<"op">>, Hash(<<op.id>>), Hash(Text(BaseName(op, naming)))}
           W == Seq(STRING) \cup end
<1>1. \A text \in DOMAIN Words : Words[text] \in Seq(W)
  BY WordsAssumption
<1>2. op.id \in DOMAIN Words /\ (op.tags # <<>> => op.tags[1] \in DOMAIN Words)
  BY DEF Labelled
<1>3. <<"op">> \in W /\ Hash(<<op.id>>) \in W /\ Hash(Text(BaseName(op, naming))) \in W
  OBVIOUS
<1> HIDE DEF W
<1>4. BaseName(op, naming) \in Seq(W)
  <2> DEFINE core == IF naming.strategy = "method_path" /\ op.binding.protocol = "http"
                       THEN Words[op.binding.route] ELSE Words[op.id]
             upstream == IF naming.prefixUpstream THEN Words[op.upstream] ELSE <<>>
             tag == IF naming.prefixTag /\ op.tags # <<>> THEN Words[op.tags[1]] ELSE <<>>
  <2>1. core \in Seq(W) /\ upstream \in Seq(W) /\ tag \in Seq(W)
    BY <1>1, <1>2
  <2>2. BaseName(op, naming) = LET base == (upstream \o tag) \o core
                               IN  IF base = <<>> THEN <<<<"op">>, Hash(<<op.id>>)>> ELSE base
    BY DEF BaseName
  <2> HIDE DEF core, upstream, tag
  <2>3. (upstream \o tag) \o core \in Seq(W) /\ <<<<"op">>, Hash(<<op.id>>)>> \in Seq(W)
    BY <1>3, <2>1
  <2> QED
    BY <2>2, <2>3
<1> DEFINE base == Base(op, naming)
<1>5. base \in Seq(W)
  <2> DEFINE name == BaseName(op, naming)
  <2>1. Trimmed(name) \in Seq(W)
    BY <1>4, TrimmedList
  <2> QED
    BY <1>3, <1>4, <2>1 DEF Base, Cap
<1> HIDE DEF base
<1>6. Len(base) \in Nat /\ base \in [1 .. Len(base) -> Range(base)]
  BY <1>5 DEF Range
<1>7. base \in Seq(Range(base))
  BY <1>6
<1> QED
  BY <1>7 DEF IsList, base

\* An operation that is kept has a base name that is a list.
LEMMA KeptNamed ==
  ASSUME ToolsInv, phase = "up", NEW op \in Range(Kept), NEW naming
  PROVE  IsList(Base(op, naming))
<1>1. IsOperation(op) /\ op.upstream \in Upstream /\ Bound(op.binding, config)
  BY KeptBound
<1>2. Labelled(op) /\ op.upstream \in DOMAIN Words
  BY <1>1, StartupAssumption DEF IsOperation
<1>3. op.binding.protocol = "http" => op.binding.route \in DOMAIN Words
  BY <1>1 DEF Bound, IsGraphQl, IsHttp
<1> QED
  BY <1>2, <1>3, BaseListed

\* Whom a name reaches, and what a generated name is.
LEMMA ToolNamed ==
  ASSUME ToolsInv, phase = "up", NEW n \in DOMAIN served.tools
  PROVE  LET op == served.tools[n]
             base == Base(op, config.naming)
         IN  /\ op \in Range(Kept)
             /\ op.name = NoName =>
                  \/ n = Append(Trimmed(base), Hash(<<op.id>>))
                  \/ n = base /\ \A q \in Unnamed(Kept) : Base(q, config.naming) = base => q = op
<1> DEFINE named(x) == ToolName(x, Kept, config.naming)
           op == served.tools[n]
           base == Base(op, config.naming)
           sharing == {q \in Unnamed(Kept) : Base(q, config.naming) = base}
<1>1. served.tools = [m \in {named(x) : x \in Range(Kept)} |-> CHOOSE x \in Range(Kept) : named(x) = m]
  BY DEF ToolsInv, ServedOK, ByName
<1>2. \E x \in Range(Kept) : named(x) = n
  BY <1>1
<1>3. op = CHOOSE x \in Range(Kept) : named(x) = n
  BY <1>1
<1> HIDE DEF op
<1>4. op \in Range(Kept) /\ named(op) = n
  BY <1>2, <1>3
<1>5. ASSUME op.name = NoName
      PROVE  \/ n = Append(Trimmed(base), Hash(<<op.id>>))
             \/ n = base /\ \A q \in Unnamed(Kept) : Base(q, config.naming) = base => q = op
  <2>1. n = GeneratedName(op, Kept, config.naming)
    BY <1>4, <1>5 DEF ToolName
  <2>2. op \in sharing
    BY <1>4, <1>5 DEF Unnamed
  <2>3. Twins(op, Kept, config.naming) = IF sharing = {op} THEN {} ELSE sharing
    BY DEF Twins
  <2>4. n = IF sharing = {op} THEN base ELSE Append(Trimmed(base), Hash(<<op.id>>))
    BY <2>1, <2>2, <2>3 DEF GeneratedName
  <2> QED
    BY <2>4
<1> QED
  BY <1>4, <1>5 DEF op

\* A client remembers base names, or such names with the suffix of their operation.
ListedOK ==
  \A seen \in listed :
    LET meant == seen.operation
        base == Base(meant, seen.naming)
    IN  meant.name = NoName =>
          /\ IsList(base)
          /\ seen.name \in {base, Append(Trimmed(base), Hash(<<meant.id>>))}

LEMMA ListedKeeps == ToolsInv /\ ListedOK /\ [Next]_vars => ListedOK'
<1> SUFFICES ASSUME ToolsInv, ListedOK, [Next]_vars PROVE ListedOK'
  OBVIOUS
<1>1. CASE Lists
  <2>1. /\ phase = "up"
        /\ listed' = {[name |-> n, operation |-> served.tools[n], naming |-> config.naming] :
                        n \in DOMAIN served.tools}
    BY <1>1 DEF Lists
  <2>2. ASSUME NEW n \in DOMAIN served.tools, served.tools[n].name = NoName
        PROVE  LET base == Base(served.tools[n], config.naming)
               IN  /\ IsList(base)
                   /\ n \in {base, Append(Trimmed(base), Hash(<<served.tools[n].id>>))}
    BY <2>1, <2>2, ToolNamed, KeptNamed
  <2> QED
    BY <2>1, <2>2 DEF ListedOK
<1>2. CASE UNCHANGED listed
  BY <1>2 DEF ListedOK
<1>3. Lists \/ UNCHANGED listed
  BY DEF Next, vars, clientVars, Starts, Exits, Skips, ReadsDocument, CannotRead, Resolves,
         Introspects, CannotIntrospect, IntrospectsSchema, HasIntrospected, Serves,
         CannotServe, Stops, Changes, CallsAnything, Calls
<1> QED
  BY <1>1, <1>2, <1>3

LEMMA NamesInvariant == Spec => [](ToolsInv /\ ListedOK)
<1>1. Init => ListedOK
  BY DEF Init, ListedOK
<1> QED
  BY <1>1, ToolsBegin, ToolsKeep, ListedKeeps, PTL DEF Spec

\* Names are assigned among what is served now (naming.py:51-66, registry.py:7-9), and
\* the config, the documents and the tools kept all change between a listing and a call:
\* of any two naming rounds, a generated name shown in the one reaches another operation
\* in the other only where a declared name, a base name that holds the other's suffix,
\* or the loss of the operation or of its base name explains it.
THEOREM StaleNames == Spec => []StaleNameReachesSameOrNone
<1>1. ASSUME ToolsInv, ListedOK, NEW seen \in listed, seen.name \in DOMAIN served.tools,
             seen.operation.name = NoName, served.tools[seen.name].name = NoName,
             served.tools[seen.name].id # seen.operation.id,
             Hash(<<seen.operation.id>>) \notin Range(Base(served.tools[seen.name], config.naming)),
             Hash(<<served.tools[seen.name].id>>) \notin Range(Base(seen.operation, seen.naming)),
             NEW q \in Unnamed(served.operations), q.id = seen.operation.id,
             Base(q, config.naming) = Base(seen.operation, seen.naming)
      PROVE  FALSE
  <2> DEFINE n == seen.name
             op == served.tools[n]
             meant == seen.operation
             base == Base(op, config.naming)
             before == Base(meant, seen.naming)
  <2>1. phase = "up"
    BY <1>1 DEF ToolsInv, ServedOK, NothingServed
  <2>2. q \in Unnamed(Kept)
    BY <1>1, <2>1 DEF ToolsInv, ServedOK
  <2>3. IsList(before) /\ n \in {before, Append(Trimmed(before), Hash(<<meant.id>>))}
    BY <1>1 DEF ListedOK
  <2>4. /\ op \in Range(Kept)
        /\ \/ n = Append(Trimmed(base), Hash(<<op.id>>))
           \/ n = base /\ \A x \in Unnamed(Kept) : Base(x, config.naming) = base => x = op
    BY <1>1, <2>1, ToolNamed
  <2>5. IsList(base)
    BY <1>1, <2>1, <2>4, KeptNamed
  <2>6. /\ op.id # meant.id /\ q.id = meant.id /\ Base(q, config.naming) = before
        /\ Hash(<<meant.id>>) \notin Range(base) /\ Hash(<<op.id>>) \notin Range(before)
    BY <1>1
  <2> HIDE DEF n, op, meant, base, before
  <2> DEFINE old == Append(Trimmed(before), Hash(<<meant.id>>))
             new == Append(Trimmed(base), Hash(<<op.id>>))
  <2>7. /\ old[Len(old)] = Hash(<<meant.id>>) /\ Hash(<<meant.id>>) \in Range(old)
        /\ new[Len(new)] = Hash(<<op.id>>) /\ Hash(<<op.id>>) \in Range(new)
    BY <2>3, <2>5, Suffixed
  <2>8. CASE n = before /\ n = base /\ \A x \in Unnamed(Kept) : Base(x, config.naming) = base => x = op
    BY <2>2, <2>6, <2>8
  <2>9. CASE n = before /\ n = new
    BY <2>6, <2>7, <2>9
  <2>10. CASE n = old /\ n = base
    BY <2>6, <2>7, <2>10
  <2>11. CASE n = old /\ n = new
    BY <2>6, <2>7, <2>11, HashTells
  <2> QED
    BY <2>3, <2>4, <2>8, <2>9, <2>10, <2>11
<1>2. ToolsInv /\ ListedOK => StaleNameReachesSameOrNone
  BY <1>1 DEF StaleNameReachesSameOrNone
<1> QED
  BY <1>2, NamesInvariant, PTL

(***************************************************************************)
(* What a GraphQL operation selects                                        *)
(***************************************************************************)

Paths == Cardinality(ObjectType)

\* A path of types is a list of them that holds none twice, and is no longer than
\* there are types.
LEMMA PathShape ==
  ASSUME NEW p
  PROVE  p \in SimplePaths <=>
           /\ p \in Seq(ObjectType) /\ Len(p) \in 1 .. Paths
           /\ \A i, j \in 1 .. Len(p) : p[i] = p[j] => i = j
<1>1. ASSUME p \in SimplePaths
      PROVE  /\ p \in Seq(ObjectType) /\ Len(p) \in 1 .. Paths
             /\ \A i, j \in 1 .. Len(p) : p[i] = p[j] => i = j
  <2>1. PICK n \in 1 .. Paths : p \in [1 .. n -> ObjectType] /\ IsInjective(p)
    BY <1>1 DEF SimplePaths, Paths
  <2>2. p \in Seq(ObjectType) /\ Len(p) = n /\ DOMAIN p = 1 .. n
    BY <2>1
  <2> QED
    BY <2>1, <2>2 DEF IsInjective
<1>2. ASSUME p \in Seq(ObjectType), Len(p) \in 1 .. Paths,
             \A i, j \in 1 .. Len(p) : p[i] = p[j] => i = j
      PROVE  p \in SimplePaths
  <2>1. p \in [1 .. Len(p) -> ObjectType] /\ IsInjective(p)
    BY <1>2 DEF IsInjective
  <2> QED
    BY <1>2, <2>1 DEF SimplePaths, Paths
<1> QED
  BY <1>1, <1>2

\* A path goes on to each type that is not on it.
LEMMA PathGoesOn ==
  ASSUME NEW p \in SimplePaths, NEW t \in ObjectType \ Range(p)
  PROVE  Append(p, t) \in SimplePaths /\ Len(Append(p, t)) = Len(p) + 1
<1> DEFINE m == Len(p)
           q == Append(p, t)
<1>1. /\ p \in Seq(ObjectType) /\ m \in Nat /\ m >= 1
      /\ \A i, j \in 1 .. m : p[i] = p[j] => i = j
  BY PathShape
<1>2. /\ q \in Seq(ObjectType) /\ Len(q) = m + 1 /\ q[m + 1] = t
      /\ \A i \in 1 .. m : q[i] = p[i]
  BY <1>1
<1>3. \A i \in 1 .. m : p[i] # t
  BY <1>1 DEF Range
<1> HIDE DEF q, m
<1>4. \A i, j \in 1 .. m + 1 : q[i] = q[j] => i = j
  <2> SUFFICES ASSUME NEW i \in 1 .. m + 1, NEW j \in 1 .. m + 1, q[i] = q[j] PROVE i = j
    OBVIOUS
  <2>1. CASE i \in 1 .. m /\ j \in 1 .. m
    BY <1>1, <1>2, <2>1
  <2>2. CASE i = m + 1 /\ j \in 1 .. m
    BY <1>1, <1>2, <1>3, <2>2
  <2>3. CASE i \in 1 .. m /\ j = m + 1
    BY <1>1, <1>2, <1>3, <2>3
  <2> QED
    BY <1>1, <2>1, <2>2, <2>3
<1>5. q \in Injection(1 .. m + 1, ObjectType)
  BY <1>1, <1>2, <1>4 DEF Injection, IsInjective
<1>6. Cardinality(1 .. m + 1) <= Paths
  BY <1>5, FS_Injection, SelectionAssumption DEF Paths
<1>7. Cardinality(1 .. m + 1) = m + 1
  BY <1>1, FS_Interval
<1>8. Paths \in Nat
  BY FS_CardinalityType, SelectionAssumption DEF Paths
<1>9. Len(q) \in 1 .. Paths
  BY <1>1, <1>2, <1>6, <1>7, <1>8
<1> QED
  BY <1>1, <1>2, <1>4, <1>9, PathShape DEF m, q

\* The paths that go on from p, p among them.
Extending(p) == {q \in SimplePaths : Len(q) >= Len(p) /\ \A i \in 1 .. Len(p) : q[i] = p[i]}

\* The fields that may lead from the last type of p down q, and on from there.
Ways(schema, policy, p, q) ==
  {fs \in [1 .. Len(q) - Len(p) + 1 -> FieldName] :
     \A i \in Len(p) .. Len(q) - 1 :
       Leads(schema, policy, fs[i - Len(p) + 1], q[i], q[i + 1])}

\* Those that end at a leaf, and those that end where a type of q occurs again.
Endings(schema, policy, p, q) ==
  LET ends(fs, target) == Leads(schema, policy, fs[Len(q) - Len(p) + 1], q[Len(q)], target)
  IN  {fs \in Ways(schema, policy, p, q) : ends(fs, Leaf)} \cup
      {Append(fs, TYPENAME) :
         fs \in {gs \in Ways(schema, policy, p, q) : \E t \in Range(q) : ends(gs, t)}}

\* What is to be selected of the last type of p.
Below(schema, policy, p) == UNION {Endings(schema, policy, p, q) : q \in Extending(p)}

LEMMA ReferenceBelow ==
  ASSUME NEW schema, NEW policy, NEW type
  PROVE  Reference(schema, policy, type) = Below(schema, policy, <<type>>)
<1>1. Extending(<<type>>) = {p \in SimplePaths : p[1] = type}
  <2>1. \A p \in SimplePaths : Len(p) \in Nat /\ Len(p) >= 1
    BY PathShape
  <2> QED
    BY <2>1 DEF Extending
<1>2. ASSUME NEW p \in SimplePaths
      PROVE  /\ Ways(schema, policy, <<type>>, p) = Along(schema, policy, p)
             /\ Len(p) - Len(<<type>>) + 1 = Len(p)
  <2>1. Len(p) \in Nat /\ Len(<<type>>) = 1 /\ Len(p) - 1 + 1 = Len(p)
    BY PathShape
  <2>2. \A i \in 1 .. Len(p) - 1 : i - 1 + 1 = i
    BY <2>1
  <2> QED
    BY <2>1, <2>2 DEF Ways, Along
<1> DEFINE from == {p \in SimplePaths : p[1] = type}
           ends(fs, p, target) == Leads(schema, policy, fs[Len(p)], p[Len(p)], target)
           selects(p) == {fs \in Along(schema, policy, p) : ends(fs, p, Leaf)} \cup
                         {Append(fs, TYPENAME) :
                            fs \in {gs \in Along(schema, policy, p) :
                                      \E t \in Range(p) : ends(gs, p, t)}}
<1>3. \A p \in from : Endings(schema, policy, <<type>>, p) = selects(p)
  BY <1>2 DEF Endings
<1>4. Reference(schema, policy, type) = UNION {selects(p) : p \in from}
  BY DEF Reference
<1>5. Below(schema, policy, <<type>>) = UNION {Endings(schema, policy, <<type>>, p) : p \in from}
  BY <1>1 DEF Below
<1> HIDE DEF selects, from
<1> QED
  BY <1>3, <1>4, <1>5
\* A path that goes on from p is p, or goes on from p and one type more.
LEMMA ExtendingSplit ==
  ASSUME NEW p \in SimplePaths
  PROVE  /\ p \in Extending(p)
         /\ \A q \in Extending(p) :
              q = p \/ \E t \in ObjectType \ Range(p) : q \in Extending(Append(p, t))
         /\ \A t \in ObjectType \ Range(p) : Extending(Append(p, t)) \subseteq Extending(p)
<1> DEFINE m == Len(p)
<1>1. p \in Seq(ObjectType) /\ m \in Nat /\ m >= 1
  BY PathShape
<1>2. p \in Extending(p)
  BY <1>1 DEF Extending
<1>3. ASSUME NEW q \in Extending(p), q # p
      PROVE  \E t \in ObjectType \ Range(p) : q \in Extending(Append(p, t))
  <2>1. /\ q \in Seq(ObjectType) /\ Len(q) \in Nat /\ Len(q) >= m
        /\ \A i, j \in 1 .. Len(q) : q[i] = q[j] => i = j
        /\ \A i \in 1 .. m : q[i] = p[i]
    BY PathShape DEF Extending
  <2>2. Len(q) # m
    BY <1>1, <1>3, <2>1
  <2> DEFINE t == q[m + 1]
             r == Append(p, t)
  <2>3. m + 1 \in 1 .. Len(q) /\ t \in ObjectType
    BY <1>1, <2>1, <2>2
  <2>4. \A i \in 1 .. m : p[i] # t
    BY <1>1, <2>1, <2>3
  <2>5. t \notin Range(p)
    BY <1>1, <2>4 DEF Range
  <2>6. Len(r) = m + 1 /\ r[m + 1] = t /\ \A i \in 1 .. m : r[i] = p[i]
    BY <1>1, <2>3
  <2>7. \A i \in 1 .. Len(r) : q[i] = r[i]
    BY <1>1, <2>1, <2>6
  <2> HIDE DEF t, r
  <2>8. q \in Extending(r)
    BY <1>1, <2>1, <2>3, <2>6, <2>7 DEF Extending
  <2> QED
    BY <2>3, <2>5, <2>8 DEF r
<1>4. ASSUME NEW t \in ObjectType \ Range(p), NEW q \in Extending(Append(p, t)) PROVE q \in Extending(p)
  <2> DEFINE r == Append(p, t)
  <2>1. Len(r) = m + 1 /\ \A i \in 1 .. m : r[i] = p[i]
    BY <1>1
  <2>2. q \in SimplePaths /\ Len(q) >= Len(r) /\ \A i \in 1 .. Len(r) : q[i] = r[i]
    BY <1>4 DEF Extending
  <2>3. Len(q) \in Nat
    BY <2>2, PathShape
  <2> HIDE DEF r
  <2> QED
    BY <1>1, <2>1, <2>2, <2>3 DEF Extending
<1> QED
  BY <1>2, <1>3, <1>4

LEMMA Paired ==
  ASSUME NEW x, NEW y
  PROVE  Append(<<x>>, y) = <<x, y>>
<1> DEFINE S == {x, y}
<1>1. \A s \in Seq(S), k \in S :
        LET r == Append(s, k)
        IN  r \in Seq(S) /\ Len(r) = Len(s) + 1 /\ r[Len(s) + 1] = k /\ \A i \in 1 .. Len(s) : r[i] = s[i]
  OBVIOUS
<1>2. <<x>> \in Seq(S) /\ y \in S /\ Len(<<x>>) = 1 /\ <<x>>[1] = x
  OBVIOUS
<1> DEFINE r == Append(<<x>>, y)
<1>3. r \in Seq(S) /\ Len(r) = 2 /\ r[2] = y /\ r[1] = x
  <2> HIDE DEF S
  <2> QED
    BY <1>1, <1>2
<1> HIDE DEF r
<1>4. r = <<r[1], r[2]>>
  BY <1>3
<1> QED
  BY <1>3, <1>4 DEF r

\* What ends on p itself.
LEMMA EndingsHere ==
  ASSUME NEW schema, IsSchema(schema), NEW policy, NEW p \in SimplePaths
  PROVE  LET type == p[Len(p)]
         IN  \A x : x \in Endings(schema, policy, p, p) <=>
               \E f \in Eligible(schema, policy, type) :
                 \/ schema[type][f].target = Leaf /\ x = <<f>>
                 \/ schema[type][f].target \in Range(p) /\ x = <<f, TYPENAME>>
<1> DEFINE type == p[Len(p)]
           ways == Ways(schema, policy, p, p)
<1>1. Len(p) \in Nat /\ Len(p) >= 1 /\ Len(p) - Len(p) + 1 = 1
  BY PathShape
<1>2. ways = [1 .. 1 -> FieldName]
  BY <1>1 DEF Ways
<1>3. Eligible(schema, policy, type) \subseteq FieldName
  BY DEF Eligible, IsSchema
<1>4. ASSUME NEW f \in FieldName
      PROVE  <<f>> \in ways /\ <<f>>[1] = f /\ Append(<<f>>, TYPENAME) = <<f, TYPENAME>>
  <2>1. <<f>> \in ways /\ <<f>>[1] = f
    BY <1>2
  <2>2. Append(<<f>>, TYPENAME) = <<f, TYPENAME>>
    BY Paired
  <2> QED
    BY <2>1, <2>2
<1>5. \A fs \in ways : fs[1] \in FieldName /\ fs = <<fs[1]>>
  BY <1>2
<1> HIDE DEF ways
<1> DEFINE leafs == {fs \in ways : Leads(schema, policy, fs[1], type, Leaf)}
           recurs == {gs \in ways : \E t \in Range(p) : Leads(schema, policy, gs[1], type, t)}
<1>6. Endings(schema, policy, p, p) = leafs \cup {Append(fs, TYPENAME) : fs \in recurs}
  BY <1>1 DEF Endings, ways
<1> HIDE DEF type
<1>7. \A x : x \in leafs <=>
        \E f \in Eligible(schema, policy, type) : schema[type][f].target = Leaf /\ x = <<f>>
  BY <1>3, <1>4, <1>5 DEF Leads
<1>8. \A x : x \in {Append(fs, TYPENAME) : fs \in recurs} <=>
        \E f \in Eligible(schema, policy, type) :
          schema[type][f].target \in Range(p) /\ x = <<f, TYPENAME>>
  <2>1. \A fs \in recurs : /\ fs[1] \in Eligible(schema, policy, type)
                           /\ schema[type][fs[1]].target \in Range(p)
                           /\ Append(fs, TYPENAME) = <<fs[1], TYPENAME>>
    BY <1>4, <1>5 DEF Leads
  <2>2. ASSUME NEW f \in Eligible(schema, policy, type), schema[type][f].target \in Range(p)
        PROVE  <<f>> \in recurs /\ Append(<<f>>, TYPENAME) = <<f, TYPENAME>>
    BY <1>3, <1>4, <2>2 DEF Leads
  <2> HIDE DEF recurs
  <2> QED
    BY <2>1, <2>2
<1> HIDE DEF leafs, recurs
<1> QED
  BY <1>6, <1>7, <1>8 DEF type

\* One field more in front.
LEMMA InFront ==
  ASSUME NEW S, NEW f \in S, NEW gs \in Seq(S)
  PROVE  /\ <<f>> \o gs \in Seq(S) /\ Len(<<f>> \o gs) = Len(gs) + 1
         /\ (<<f>> \o gs)[1] = f
         /\ \A i \in 1 .. Len(gs) : (<<f>> \o gs)[i + 1] = gs[i]
<1>1. <<f>> \in Seq(S) /\ Len(<<f>>) = 1 /\ <<f>>[1] = f
  OBVIOUS
<1> QED
  BY <1>1

\* What is appended stays behind.
LEMMA Behind ==
  ASSUME NEW S, NEW s \in Seq(S), NEW t \in Seq(S), NEW x
  PROVE  Append(s \o t, x) = s \o Append(t, x)
<1> DEFINE T == S \cup {x}
           a == Append(s \o t, x)
           b == s \o Append(t, x)
<1>1. s \in Seq(T) /\ t \in Seq(T) /\ x \in T /\ Len(s) \in Nat /\ Len(t) \in Nat
  OBVIOUS
<1> HIDE DEF T
<1>2. /\ a \in Seq(T) /\ Len(a) = Len(s) + Len(t) + 1
      /\ \A i \in 1 .. Len(a) : a[i] = IF i <= Len(s) THEN s[i]
                                       ELSE IF i <= Len(s) + Len(t) THEN t[i - Len(s)] ELSE x
  BY <1>1
<1>3. /\ b \in Seq(T) /\ Len(b) = Len(s) + Len(t) + 1
      /\ \A i \in 1 .. Len(b) : b[i] = IF i <= Len(s) THEN s[i]
                                       ELSE IF i <= Len(s) + Len(t) THEN t[i - Len(s)] ELSE x
  BY <1>1
<1> HIDE DEF a, b
<1>4. \A i \in 1 .. Len(a) : a[i] = b[i]
  BY <1>2, <1>3
<1>5. a = b
  BY <1>2, <1>3, <1>4
<1> QED
  BY <1>5 DEF a, b

\* Without the field in front.
LEMMA NotInFront ==
  ASSUME NEW S, NEW k \in Nat, NEW fs \in [1 .. k + 1 -> S]
  PROVE  LET gs == [i \in 1 .. k |-> fs[i + 1]]
         IN  gs \in [1 .. k -> S] /\ fs[1] \in S /\ fs = <<fs[1]>> \o gs
<1> DEFINE gs == [i \in 1 .. k |-> fs[i + 1]]
<1>1. gs \in [1 .. k -> S] /\ fs[1] \in S
  OBVIOUS
<1>2. \A i \in 1 .. k : gs[i] = fs[i + 1]
  OBVIOUS
<1> HIDE DEF gs
<1> DEFINE f == fs[1]
           hs == <<f>> \o gs
<1>3. hs \in [1 .. k + 1 -> S] /\ hs[1] = f /\ \A i \in 1 .. k : hs[i + 1] = gs[i]
  <2>1. f \in S /\ gs \in Seq(S) /\ Len(gs) = k
    BY <1>1
  <2> HIDE DEF f
  <2>2. hs \in Seq(S) /\ Len(hs) = k + 1 /\ hs[1] = f /\ \A i \in 1 .. k : hs[i + 1] = gs[i]
    BY <2>1, InFront
  <2> HIDE DEF hs
  <2> QED
    BY <2>2
<1> HIDE DEF hs
<1>4. ASSUME NEW i \in 1 .. k + 1 PROVE hs[i] = fs[i]
  <2>1. CASE i = 1
    BY <1>3, <2>1
  <2>2. CASE i # 1
    <3>1. i - 1 \in 1 .. k /\ (i - 1) + 1 = i
      BY <2>2
    <3> QED
      BY <1>2, <1>3, <3>1
  <2> QED
    BY <2>1, <2>2
<1>5. hs = fs
  BY <1>3, <1>4
<1> QED
  BY <1>1, <1>5 DEF gs, hs

\* What ends on a path that goes on from p to t: a field that leads to t, in front of
\* what ends there.
EndsBeyond(schema, policy, p, t, q) ==
  \A x : x \in Endings(schema, policy, p, q) <=>
    \E f : /\ Leads(schema, policy, f, p[Len(p)], t)
           /\ \E l \in Endings(schema, policy, Append(p, t), q) : x = <<f>> \o l

LEMMA EndingsBeyond ==
  ASSUME NEW schema, IsSchema(schema), NEW policy, NEW p \in SimplePaths,
         NEW t \in ObjectType \ Range(p), NEW q \in Extending(Append(p, t))
  PROVE  EndsBeyond(schema, policy, p, t, q)
<1> DEFINE m == Len(p)
           r == Append(p, t)
           k == Len(q) - m
           type == p[m]
           F == {f \in FieldName : Leads(schema, policy, f, type, t)}
           short == Ways(schema, policy, r, q)
           long == Ways(schema, policy, p, q)
           ends(f, target) == Leads(schema, policy, f, q[Len(q)], target)
<1>1. /\ p \in Seq(ObjectType) /\ m \in Nat /\ m >= 1
      /\ Len(r) = m + 1 /\ r[m + 1] = t /\ \A i \in 1 .. m : r[i] = p[i]
  BY PathShape
<1>2. /\ Len(q) \in Nat /\ Len(q) >= m + 1 /\ q[m] = type /\ q[m + 1] = t
  <2>1. q \in SimplePaths /\ Len(q) >= Len(r) /\ \A i \in 1 .. Len(r) : q[i] = r[i]
    BY DEF Extending
  <2>2. Len(q) \in Nat
    BY <2>1, PathShape
  <2> HIDE DEF r
  <2> QED
    BY <1>1, <2>1, <2>2
<1>3. \A f : Leads(schema, policy, f, type, t) => f \in FieldName
  BY DEF Leads, Eligible, IsSchema
<1>4. k \in Nat /\ k >= 1 /\ Len(q) - Len(r) + 1 = k /\ Len(q) - m + 1 = k + 1
  BY <1>1, <1>2
<1> HIDE DEF r
<1>5. ASSUME NEW f \in FieldName, NEW gs \in [1 .. k -> FieldName], NEW fs \in [1 .. k + 1 -> FieldName],
             fs[1] = f, \A i \in 1 .. k : fs[i + 1] = gs[i]
      PROVE  fs \in long <=> gs \in short /\ f \in F
  <2>1. gs \in short <=> \A i \in m + 1 .. Len(q) - 1 :
                           Leads(schema, policy, gs[i - (m + 1) + 1], q[i], q[i + 1])
    BY <1>1, <1>4 DEF Ways
  <2>2. fs \in long <=> \A i \in m .. Len(q) - 1 :
                          Leads(schema, policy, fs[i - m + 1], q[i], q[i + 1])
    BY <1>4 DEF Ways
  <2>3. ASSUME NEW i \in m + 1 .. Len(q) - 1
        PROVE  fs[i - m + 1] = gs[i - (m + 1) + 1]
    <3>1. i - m \in 1 .. k /\ i - (m + 1) + 1 = i - m
      BY <1>1, <1>2
    <3> QED
      BY <1>5, <3>1
  <2>4. m \in m .. Len(q) - 1 /\ fs[m - m + 1] = f
    BY <1>1, <1>2, <1>5
  <2>5. \A i \in m .. Len(q) - 1 : i = m \/ i \in m + 1 .. Len(q) - 1
    BY <1>1, <1>2
  <2>6. \A i \in m + 1 .. Len(q) - 1 : i \in m .. Len(q) - 1
    BY <1>1, <1>2
  <2>7. f \in F <=> Leads(schema, policy, f, q[m], q[m + 1])
    BY <1>2
  <2> HIDE DEF short, long, F, k, type, m
  <2> QED
    BY <2>1, <2>2, <2>3, <2>4, <2>5, <2>6, <2>7
<1>6. short \subseteq [1 .. k -> FieldName] /\ long \subseteq [1 .. k + 1 -> FieldName]
  BY <1>4 DEF Ways
<1>7. ASSUME NEW f \in F, NEW gs \in short
      PROVE  LET fs == <<f>> \o gs
             IN  /\ fs \in long /\ fs[k + 1] = gs[k]
                 /\ Append(fs, TYPENAME) = <<f>> \o Append(gs, TYPENAME)
  <2> DEFINE fs == <<f>> \o gs
  <2>1. f \in FieldName /\ gs \in [1 .. k -> FieldName]
    BY <1>6
  <2> HIDE DEF k
  <2>2. fs \in [1 .. k + 1 -> FieldName] /\ fs[1] = f /\ \A i \in 1 .. k : fs[i + 1] = gs[i]
    <3>1. gs \in Seq(FieldName) /\ Len(gs) = k
      BY <1>4, <2>1
    <3>2. fs \in Seq(FieldName) /\ Len(fs) = k + 1 /\ fs[1] = f /\ \A i \in 1 .. k : fs[i + 1] = gs[i]
      BY <2>1, <3>1, InFront
    <3> HIDE DEF fs
    <3> QED
      BY <3>2
  <2>3. <<f>> \in Seq(FieldName) /\ gs \in Seq(FieldName)
    BY <1>4, <2>1
  <2>4. Append(fs, TYPENAME) = <<f>> \o Append(gs, TYPENAME)
    BY <2>3, Behind
  <2> HIDE DEF fs, short, long, F
  <2>5. fs \in long
    BY <1>5, <1>7, <2>1, <2>2
  <2>6. fs[k + 1] = gs[k]
    BY <1>4, <2>2
  <2> QED
    BY <2>4, <2>5, <2>6 DEF fs
<1>8. ASSUME NEW fs \in long
      PROVE  \E f \in F, gs \in short : fs = <<f>> \o gs
  <2> DEFINE gs == [i \in 1 .. k |-> fs[i + 1]]
  <2>1. fs \in [1 .. k + 1 -> FieldName]
    BY <1>6
  <2>2. gs \in [1 .. k -> FieldName] /\ fs[1] \in FieldName /\ fs = <<fs[1]>> \o gs
    <3> HIDE DEF k
    <3> QED
      BY <1>4, <2>1, NotInFront
  <2>3. \A i \in 1 .. k : fs[i + 1] = gs[i]
    OBVIOUS
  <2> HIDE DEF gs, short, long, F, k
  <2>4. gs \in short /\ fs[1] \in F
    BY <1>5, <1>8, <2>1, <2>2, <2>3
  <2> QED
    BY <2>2, <2>4
<1>9. /\ Endings(schema, policy, p, q) =
           {fs \in long : ends(fs[k + 1], Leaf)} \cup
           {Append(fs, TYPENAME) : fs \in {hs \in long : \E s \in Range(q) : ends(hs[k + 1], s)}}
      /\ Endings(schema, policy, r, q) =
           {gs \in short : ends(gs[k], Leaf)} \cup
           {Append(gs, TYPENAME) : gs \in {hs \in short : \E s \in Range(q) : ends(hs[k], s)}}
  BY <1>4 DEF Endings
<1> HIDE DEF short, long, k, type, m
<1>10. ASSUME NEW x \in Endings(schema, policy, p, q)
       PROVE  \E f \in F : \E l \in Endings(schema, policy, r, q) : x = <<f>> \o l
  <2>1. CASE x \in long /\ ends(x[k + 1], Leaf)
    <3>1. PICK f \in F, gs \in short : x = <<f>> \o gs
      BY <1>8, <2>1
    <3>2. gs \in Endings(schema, policy, r, q)
      BY <1>7, <1>9, <2>1, <3>1
    <3> QED
      BY <3>1, <3>2
  <2>2. ASSUME NEW fs \in long, \E s \in Range(q) : ends(fs[k + 1], s), x = Append(fs, TYPENAME)
        PROVE  \E f \in F : \E l \in Endings(schema, policy, r, q) : x = <<f>> \o l
    <3>1. PICK f \in F, gs \in short : fs = <<f>> \o gs
      BY <1>8, <2>2
    <3>2. gs[k] = fs[k + 1] /\ x = <<f>> \o Append(gs, TYPENAME)
      BY <1>7, <2>2, <3>1
    <3>3. Append(gs, TYPENAME) \in Endings(schema, policy, r, q)
      BY <1>9, <2>2, <3>1, <3>2
    <3> QED
      BY <3>1, <3>2, <3>3
  <2> QED
    BY <1>9, <2>1, <2>2
<1>11. ASSUME NEW f \in F, NEW l \in Endings(schema, policy, r, q)
       PROVE  <<f>> \o l \in Endings(schema, policy, p, q)
  <2>1. CASE l \in short /\ ends(l[k], Leaf)
    BY <1>7, <1>9, <2>1
  <2>2. ASSUME NEW gs \in short, \E s \in Range(q) : ends(gs[k], s), l = Append(gs, TYPENAME)
        PROVE  <<f>> \o l \in Endings(schema, policy, p, q)
    BY <1>7, <1>9, <2>2
  <2> QED
    BY <1>9, <2>1, <2>2
<1> QED
  BY <1>3, <1>10, <1>11 DEF EndsBeyond, r, type, m

\* What _fields_for selects of the last type of a path, given what it selects below.
Step(schema, policy, fields, p) ==
  LET type == p[Len(p)]
      selected(f) ==
        LET target == schema[type][f].target
        IN  CASE target = Leaf       -> {<<f>>}
              [] target \in Range(p) -> {<<f, TYPENAME>>}
              [] OTHER               -> Nested(f, fields[Append(p, target)])
  IN  UNION {selected(f) : f \in Eligible(schema, policy, type)}

\* What is to be selected below a path is what one step makes of what is to be
\* selected below the paths that go on from it.
LEMMA BelowStep ==
  ASSUME NEW schema, IsSchema(schema), NEW policy, NEW p \in SimplePaths, NEW fields,
         \A t \in ObjectType \ Range(p) : fields[Append(p, t)] = Below(schema, policy, Append(p, t))
  PROVE  Below(schema, policy, p) = Step(schema, policy, fields, p)
<1> DEFINE type == p[Len(p)]
           target(f) == schema[type][f].target
           E == Eligible(schema, policy, type)
           selected(f) == CASE target(f) = Leaf       -> {<<f>>}
                            [] target(f) \in Range(p) -> {<<f, TYPENAME>>}
                            [] OTHER                  -> Nested(f, fields[Append(p, target(f))])
           New == ObjectType \ Range(p)
<1> SUFFICES ASSUME NEW x
             PROVE  x \in Below(schema, policy, p) <=> x \in Step(schema, policy, fields, p)
  OBVIOUS
<1>1. Step(schema, policy, fields, p) = UNION {selected(f) : f \in E}
  BY DEF Step
<1>2. Range(p) \subseteq ObjectType
  BY PathShape DEF Range
<1>3. \A f \in E : target(f) = Leaf \/ target(f) \in Range(p) \/ target(f) \in New
  BY DEF Eligible, IsSchema
<1>4. Leaf \notin ObjectType
  BY SelectionAssumption
<1>5. x \in Endings(schema, policy, p, p) <=>
        \E f \in E : \/ target(f) = Leaf /\ x = <<f>>
                     \/ target(f) \in Range(p) /\ x = <<f, TYPENAME>>
  BY EndingsHere
<1>6. ASSUME NEW t \in New
      PROVE  (\E q \in Extending(Append(p, t)) : x \in Endings(schema, policy, p, q)) <=>
               \E f \in E : /\ target(f) = t
                            /\ \E l \in Below(schema, policy, Append(p, t)) : x = <<f>> \o l
  <2> DEFINE r == Append(p, t)
  <2>1. \A q \in Extending(r) :
          x \in Endings(schema, policy, p, q) <=>
            \E f : /\ Leads(schema, policy, f, type, t)
                   /\ \E l \in Endings(schema, policy, r, q) : x = <<f>> \o l
    <3>1. t \in ObjectType \ Range(p)
      OBVIOUS
    <3>2. \A q \in Extending(r) : EndsBeyond(schema, policy, p, t, q)
      BY <3>1, EndingsBeyond
    <3> QED
      BY <3>2 DEF EndsBeyond
  <2>2. \A l : l \in Below(schema, policy, r) <=>
                 \E q \in Extending(r) : l \in Endings(schema, policy, r, q)
    BY DEF Below
  <2>3. \A f : Leads(schema, policy, f, type, t) <=> f \in E /\ target(f) = t
    BY DEF Leads
  <2> HIDE DEF r, E, New, type
  <2>4. (\E q \in Extending(r) : x \in Endings(schema, policy, p, q)) <=>
          \E f \in E : target(f) = t /\ \E l \in Below(schema, policy, r) : x = <<f>> \o l
    BY <2>1, <2>2, <2>3
  <2> QED
    BY <2>4 DEF r
<1>7. x \in Below(schema, policy, p) <=>
        \/ x \in Endings(schema, policy, p, p)
        \/ \E t \in New : \E q \in Extending(Append(p, t)) : x \in Endings(schema, policy, p, q)
  <2>1. x \in Below(schema, policy, p) <=> \E q \in Extending(p) : x \in Endings(schema, policy, p, q)
    BY DEF Below
  <2> QED
    BY <2>1, ExtendingSplit
<1>8. ASSUME NEW f \in E
      PROVE  x \in selected(f) <=>
               \/ target(f) = Leaf /\ x = <<f>>
               \/ target(f) \in Range(p) /\ x = <<f, TYPENAME>>
               \/ /\ target(f) \in New
                  /\ \E l \in Below(schema, policy, Append(p, target(f))) : x = <<f>> \o l
  <2>1. CASE target(f) = Leaf
    BY <1>2, <1>4, <2>1
  <2>2. CASE target(f) \in Range(p)
    BY <1>2, <1>4, <2>2
  <2>3. CASE target(f) \in New
    <3>1. selected(f) = Nested(f, Below(schema, policy, Append(p, target(f))))
      BY <1>4, <2>3
    <3> HIDE DEF selected
    <3> QED
      BY <1>4, <2>3, <3>1 DEF Nested
  <2> QED
    BY <1>3, <2>1, <2>2, <2>3
<1>9. x \in Step(schema, policy, fields, p) <=>
        \E f \in E : \/ target(f) = Leaf /\ x = <<f>>
                     \/ target(f) \in Range(p) /\ x = <<f, TYPENAME>>
                     \/ /\ target(f) \in New
                        /\ \E l \in Below(schema, policy, Append(p, target(f))) : x = <<f>> \o l
  <2>1. x \in Step(schema, policy, fields, p) <=> \E f \in E : x \in selected(f)
    BY <1>1
  <2> HIDE DEF E, New, selected
  <2> QED
    BY <1>8, <2>1
<1> HIDE DEF type, E, New
<1>10. ASSUME NEW t \in New, NEW q \in Extending(Append(p, t)), x \in Endings(schema, policy, p, q)
       PROVE  \E f \in E : /\ target(f) \in New
                           /\ \E l \in Below(schema, policy, Append(p, target(f))) : x = <<f>> \o l
  <2>1. \E r \in Extending(Append(p, t)) : x \in Endings(schema, policy, p, r)
    BY <1>10
  <2>2. PICK f \in E : target(f) = t /\ \E l \in Below(schema, policy, Append(p, t)) : x = <<f>> \o l
    BY <1>6, <2>1
  <2> QED
    BY <2>2
<1>11. ASSUME NEW f \in E, target(f) \in New,
              \E l \in Below(schema, policy, Append(p, target(f))) : x = <<f>> \o l
       PROVE  \E t \in New : \E q \in Extending(Append(p, t)) : x \in Endings(schema, policy, p, q)
  <2>1. PICK t \in New : t = target(f)
    BY <1>11
  <2>2. \E l \in Below(schema, policy, Append(p, t)) : x = <<f>> \o l
    BY <1>11, <2>1
  <2> QED
    BY <1>6, <2>1, <2>2
<1> QED
  BY <1>5, <1>7, <1>9, <1>10, <1>11

\* _fields_for selects what is to be selected, below every path.
LEMMA FieldsBelow ==
  ASSUME NEW schema, IsSchema(schema), NEW policy
  PROVE  \A p \in SimplePaths : FieldsFor(schema, policy)[p] = Below(schema, policy, p)
<1> DEFINE whole == [p \in SimplePaths |-> Below(schema, policy, p)]
           fields == CHOOSE f : f = [p \in SimplePaths |-> Step(schema, policy, f, p)]
<1>1. FieldsFor(schema, policy) = fields
  BY DEF FieldsFor, Step
<1>2. whole = [p \in SimplePaths |-> Step(schema, policy, whole, p)]
  <2>1. ASSUME NEW p \in SimplePaths PROVE whole[p] = Step(schema, policy, whole, p)
    <3>1. \A t \in ObjectType \ Range(p) : whole[Append(p, t)] = Below(schema, policy, Append(p, t))
      BY PathGoesOn
    <3>2. whole[p] = Below(schema, policy, p)
      OBVIOUS
    <3> HIDE DEF whole
    <3> QED
      BY <3>1, <3>2, BelowStep
  <2>2. whole = [p \in SimplePaths |-> whole[p]]
    OBVIOUS
  <2> HIDE DEF whole
  <2> QED
    BY <2>1, <2>2
<1>3. fields = [p \in SimplePaths |-> Step(schema, policy, fields, p)]
  <2>1. \E f : f = [p \in SimplePaths |-> Step(schema, policy, f, p)]
    <3> HIDE DEF whole
    <3> QED
      BY <1>2
  <2> QED
    BY <2>1
<1> HIDE DEF fields
<1> DEFINE S == {k \in 0 .. Paths : \A p \in SimplePaths :
                   Len(p) + k >= Paths => fields[p] = Below(schema, policy, p)}
<1>4. Paths \in Nat
  BY FS_CardinalityType, SelectionAssumption DEF Paths
<1>5. ASSUME NEW p \in SimplePaths,
             \A t \in ObjectType \ Range(p) : fields[Append(p, t)] = Below(schema, policy, Append(p, t))
      PROVE  fields[p] = Below(schema, policy, p)
  BY <1>3, <1>5, BelowStep
<1>6. 0 \in S
  <2> SUFFICES ASSUME NEW p \in SimplePaths, Len(p) + 0 >= Paths
               PROVE  fields[p] = Below(schema, policy, p)
    BY <1>4
  <2>1. Len(p) \in 1 .. Paths /\ Len(p) = Paths
    BY <1>4, PathShape
  <2>2. ASSUME NEW t \in ObjectType \ Range(p) PROVE FALSE
    <3>1. Len(Append(p, t)) \in 1 .. Paths /\ Len(Append(p, t)) = Len(p) + 1
      BY PathGoesOn, PathShape
    <3> QED
      BY <1>4, <2>1, <3>1
  <2> QED
    BY <1>5, <2>2
<1>7. ASSUME NEW k \in 1 .. Paths, k - 1 \in S PROVE k \in S
  <2> SUFFICES ASSUME NEW p \in SimplePaths, Len(p) + k >= Paths
               PROVE  fields[p] = Below(schema, policy, p)
    BY <1>4
  <2>1. Len(p) \in Nat
    BY PathShape
  <2>2. ASSUME NEW t \in ObjectType \ Range(p)
        PROVE  fields[Append(p, t)] = Below(schema, policy, Append(p, t))
    <3>1. Append(p, t) \in SimplePaths /\ Len(Append(p, t)) = Len(p) + 1
      BY PathGoesOn
    <3>2. Len(Append(p, t)) + (k - 1) >= Paths
      BY <1>4, <2>1, <3>1
    <3> QED
      BY <1>7, <3>1, <3>2
  <2> QED
    BY <1>5, <2>2
<1>8. 0 .. Paths \subseteq S
  <2> HIDE DEF S
  <2> QED
    BY <1>4, <1>6, <1>7, Inherited
<1> SUFFICES ASSUME NEW p \in SimplePaths PROVE fields[p] = Below(schema, policy, p)
  BY <1>1
<1>9. Paths \in 0 .. Paths /\ Len(p) + Paths >= Paths
  BY <1>4, PathShape
<1> QED
  BY <1>8, <1>9

\* An upstream's operations are found when its turn has come, from the document that
\* stays.
SelectedOK ==
  /\ IsInjective(pending)
  /\ \A f \in Range(found) :
       /\ f.upstream \notin Range(pending)
       /\ f.binding.protocol = "graphql" =>
            LET document == documents[f.upstream]
            IN  /\ IsSchema(document.types)
                /\ \E field : /\ field.returns \in ObjectType \cup {Leaf}
                              /\ f.binding = GraphQlBinding(field, document.types,
                                               config.upstreams[f.upstream].typePolicy)

\* The head comes once.
LEMMA HeadIsGone ==
  ASSUME NEW S, NEW s \in Seq(S), s # <<>>, IsInjective(s)
  PROVE  /\ IsInjective(Tail(s)) /\ Range(Tail(s)) \subseteq Range(s)
         /\ Head(s) \in Range(s) /\ Head(s) \notin Range(Tail(s))
<1>1. /\ Len(s) \in Nat /\ Len(s) >= 1 /\ DOMAIN s = 1 .. Len(s) /\ Head(s) = s[1]
      /\ DOMAIN Tail(s) = 1 .. Len(s) - 1 /\ \A i \in 1 .. Len(s) - 1 : Tail(s)[i] = s[i + 1]
  OBVIOUS
<1>2. \A i \in 1 .. Len(s) - 1 : i + 1 \in 1 .. Len(s) /\ i + 1 # 1
  BY <1>1
<1>3. \A i, j \in 1 .. Len(s) : s[i] = s[j] => i = j
  BY <1>1 DEF IsInjective
<1>4. \A i, j \in 1 .. Len(s) - 1 : s[i + 1] = s[j + 1] => i + 1 = j + 1
  BY <1>2, <1>3
<1>5. \A i, j \in 1 .. Len(s) - 1 : i + 1 = j + 1 => i = j
  OBVIOUS
<1>6. IsInjective(Tail(s))
  BY <1>1, <1>4, <1>5 DEF IsInjective
<1>7. 1 \in 1 .. Len(s)
  BY <1>1
<1> QED
  BY <1>1, <1>2, <1>3, <1>6, <1>7 DEF Range

LEMMA SelectedBegins == Init => SelectedOK
  BY DEF Init, SelectedOK, IsInjective, Range

\* What is found last is of an upstream whose turn is over, from its document.
LEMMA SelectedFound ==
  ASSUME ToolsInv, SelectedOK, NEW u \in Upstream, pending # <<>>, Head(pending) = u,
         pending' = Tail(pending), UNCHANGED config,
         \A v \in Upstream \ {u} : documents'[v] = documents[v],
         NEW ops, IsList(ops), found' = found \o ops,
         \A op \in Range(ops) :
           /\ op.upstream = u
           /\ op.binding.protocol = "graphql" =>
                /\ IsSchema(documents'[u].types)
                /\ \E field : /\ field.returns \in ObjectType \cup {Leaf}
                              /\ op.binding = GraphQlBinding(field, documents'[u].types,
                                                config.upstreams[u].typePolicy)
  PROVE  SelectedOK'
<1>1. IsList(found) /\ \A f \in Range(found) : f.upstream \in Upstream
  BY DEF ToolsInv, FoundOK, Discovered
<1>2. Range(found') = Range(found) \cup Range(ops)
  BY <1>1, JoinedRange
<1>3. /\ IsInjective(pending') /\ Range(pending') \subseteq Range(pending)
      /\ u \in Range(pending) /\ u \notin Range(pending')
  BY HeadIsGone DEF ToolsInv, SInv, SelectedOK
<1>4. \A f \in Range(found) : f.upstream \in Upstream \ {u}
  BY <1>1, <1>3 DEF SelectedOK
<1> QED
  BY <1>2, <1>3, <1>4 DEF SelectedOK

\* Nothing is found, and only the document of the upstream at its turn may change.
LEMMA SelectedOthers ==
  ASSUME SelectedOK, ToolsInv, UNCHANGED <<config, found>>,
         \/ UNCHANGED <<pending, documents>>
         \/ pending # <<>> /\ pending' = Tail(pending) /\ UNCHANGED documents
         \/ /\ pending # <<>> /\ UNCHANGED pending
            /\ \A v \in Upstream \ {Head(pending)} : documents'[v] = documents[v]
  PROVE  SelectedOK'
<1>1. pending # <<>> =>
        /\ IsInjective(Tail(pending)) /\ Range(Tail(pending)) \subseteq Range(pending)
        /\ Head(pending) \in Range(pending)
  BY HeadIsGone DEF ToolsInv, SInv, SelectedOK
<1>2. \A f \in Range(found) : f.upstream \in Upstream /\ f.upstream \notin Range(pending)
  BY DEF ToolsInv, FoundOK, Discovered, SelectedOK
<1>3. CASE UNCHANGED <<pending, documents>>
  BY <1>3 DEF SelectedOK
<1>4. CASE pending # <<>> /\ pending' = Tail(pending) /\ UNCHANGED documents
  BY <1>1, <1>4 DEF SelectedOK
<1>5. CASE /\ pending # <<>> /\ UNCHANGED pending
           /\ \A v \in Upstream \ {Head(pending)} : documents'[v] = documents[v]
  <2>1. \A f \in Range(found) : documents'[f.upstream] = documents[f.upstream]
    BY <1>1, <1>2, <1>5
  <2> QED
    BY <1>5, <2>1 DEF SelectedOK
<1> QED
  BY <1>3, <1>4, <1>5

LEMMA SelectedKeeps == ToolsInv /\ SelectedOK /\ [Next]_vars => SelectedOK'
<1> SUFFICES ASSUME ToolsInv, SelectedOK, [Next]_vars PROVE SelectedOK'
  OBVIOUS
<1>1. CASE Starts
  <2>1. found' = <<>> /\ pending' \in {<<>>, Order}
    BY <1>1 DEF Starts, ToolsInv, FoundOK
  <2>2. IsInjective(pending')
    BY <2>1, StartupAssumption DEF IsInjective
  <2> QED
    BY <2>1, <2>2 DEF SelectedOK, Range
<1>2. CASE Exits
  BY <1>2 DEF Exits, SelectedOK, IsInjective, Range
<1>3. ASSUME NEW u \in Upstream, Introspects(u) PROVE SelectedOK'
  <2> DEFINE ops == OpenApiOperations(u, documents[u], config)
  <2>1. /\ phase = "resolving" /\ pending # <<>> /\ Head(pending) = u /\ pending' = Tail(pending)
        /\ found' = found \o ops /\ UNCHANGED <<config, documents>>
    BY <1>3 DEF Introspects, ToolsInv, SInv
  <2>2. \E S \in Worlds : \E w \in S : documents[u] = w.documents[u] /\ WellFormed(w)
    BY <2>1, WorldsAssumption DEF ToolsInv, FoundOK
  <2>3. /\ IsList(documents[u].operations)
        /\ \A raw \in Range(documents[u].operations) : Labelled(raw) /\ IsHttp(raw.binding)
    BY <2>2 DEF WellFormed
  <2>4. IsList(ops) /\ \A op \in Range(ops) : op.upstream = u /\ op.binding.protocol # "graphql"
    BY <2>3, DocumentRead
  <2> HIDE DEF ops
  <2> QED
    BY <2>1, <2>4, SelectedFound
<1>4. ASSUME NEW u \in Upstream, IntrospectsSchema(u) PROVE SelectedOK'
  <2> DEFINE document == world.documents[u]
             ops == GraphQlOperations(u, document, config)
             policy == config.upstreams[u].typePolicy
  <2>1. /\ pending # <<>> /\ Head(pending) = u /\ pending' = Tail(pending)
        /\ documents' = [documents EXCEPT ![u] = document]
        /\ found' = found \o ops /\ UNCHANGED config
    BY <1>4 DEF IntrospectsSchema, AtTurn
  <2>2. documents'[u] = document /\ \A v \in Upstream \ {u} : documents'[v] = documents[v]
    BY <2>1 DEF ToolsInv, FoundOK
  <2>3. WellFormed(world)
    BY WorldsAssumption DEF ToolsInv, SInv
  <2>4. /\ IsSchema(document.types) /\ IsList(document.fields)
        /\ \A field \in Range(document.fields) :
             /\ field.id \in DOMAIN Words /\ field.variables \subseteq Name
             /\ field.returns \in ObjectType \cup {Leaf}
    BY <2>3 DEF WellFormed
  <2> HIDE DEF document
  <2>5. /\ IsList(ops)
        /\ \A op \in Range(ops) :
             /\ op.upstream = u
             /\ \E field \in Range(document.fields) :
                  op.binding = GraphQlBinding(field, document.types, policy)
    BY <2>4, SchemaRead
  <2>6. \A op \in Range(ops) :
          /\ op.upstream = u
          /\ op.binding.protocol = "graphql" =>
               /\ IsSchema(documents'[u].types)
               /\ \E field : /\ field.returns \in ObjectType \cup {Leaf}
                             /\ op.binding = GraphQlBinding(field, documents'[u].types, policy)
    BY <2>2, <2>4, <2>5
  <2> HIDE DEF ops
  <2> QED
    BY <2>1, <2>2, <2>5, <2>6, SelectedFound
<1>5. ASSUME NEW u \in Upstream, Skips(u) PROVE SelectedOK'
  BY <1>5, SelectedOthers DEF Skips, AtTurn
<1>6. ASSUME NEW u \in Upstream, ReadsDocument(u) PROVE SelectedOK'
  <2>1. /\ pending # <<>> /\ Head(pending) = u /\ UNCHANGED <<pending, found, config>>
        /\ documents' = [documents EXCEPT ![u] = world.documents[u]]
    BY <1>6 DEF ReadsDocument, AtTurn
  <2>2. \A v \in Upstream \ {u} : documents'[v] = documents[v]
    BY <2>1 DEF ToolsInv, FoundOK
  <2> QED
    BY <2>1, <2>2, SelectedOthers
<1>7. CASE UNCHANGED <<config, found, pending, documents>>
  BY <1>7, SelectedOthers
<1> QED
  BY <1>1, <1>2, <1>3, <1>4, <1>5, <1>6, <1>7
     DEF Next, CannotRead, CannotIntrospect, CannotServe, Stops, Resolves, HasIntrospected, Serves,
         Changes, Lists, CallsAnything, Calls, processVars, vars

\* _fields_for (graphql_selection.py:20-60) recurs into types until one recurs: for
\* every schema and policy, mutually recursive or incomplete, the document it writes
\* selects what the definition by paths says, and that of an upstream's operations is
\* made from the schema the upstream published when its turn came.
THEOREM WholeSelections == Spec => []SelectionsAreWhole
<1>1. ASSUME SelectedOK, NEW op \in Range(found), op.binding.protocol = "graphql",
             op.binding.returns # Leaf
      PROVE  LET wanted == Reference(documents[op.upstream].types,
                                     config.upstreams[op.upstream].typePolicy, op.binding.returns)
             IN  op.binding.selection = IF wanted = {} THEN {<<TYPENAME>>} ELSE wanted
  <2> DEFINE schema == documents[op.upstream].types
             policy == config.upstreams[op.upstream].typePolicy
             type == op.binding.returns
  <2>1. PICK field : /\ field.returns \in ObjectType \cup {Leaf}
                     /\ op.binding = GraphQlBinding(field, schema, policy)
    BY <1>1 DEF SelectedOK
  <2>2. IsSchema(schema)
    BY <1>1 DEF SelectedOK
  <2>3. /\ type = field.returns
        /\ op.binding.selection = IF field.returns = Leaf THEN {}
                                  ELSE SelectionSet(schema, policy, field.returns)
    BY <2>1 DEF GraphQlBinding
  <2>4. type \in ObjectType /\ op.binding.selection = SelectionSet(schema, policy, type)
    BY <1>1, <2>1, <2>3
  <2> HIDE DEF schema, policy, type
  <2>5. <<type>> \in SimplePaths
    <3>1. Cardinality(ObjectType) \in Nat /\ Cardinality(ObjectType) # 0
      BY <2>4, SelectionAssumption, FS_CardinalityType, FS_EmptySet
    <3>2. <<type>> \in Seq(ObjectType) /\ Len(<<type>>) = 1 /\ 1 \in 1 .. Paths
      BY <2>4, <3>1 DEF Paths
    <3> DEFINE p == <<type>>
    <3> HIDE DEF p
    <3>3. \A i, j \in 1 .. Len(p) : p[i] = p[j] => i = j
      BY <3>2 DEF p
    <3>4. p \in Seq(ObjectType) /\ Len(p) \in 1 .. Paths
      BY <3>2 DEF p
    <3>5. p \in SimplePaths
      BY <3>3, <3>4, PathShape
    <3> QED
      BY <3>5 DEF p
  <2>6. FieldsFor(schema, policy)[<<type>>] = Reference(schema, policy, type)
    BY <2>2, <2>5, FieldsBelow, ReferenceBelow
  <2> QED
    BY <2>4, <2>6 DEF SelectionSet, schema, policy, type
<1>2. SelectedOK => SelectionsAreWhole
  BY <1>1 DEF SelectionsAreWhole
<1>3. Spec => []SelectedOK
  BY SelectedBegins, SelectedKeeps, ToolsInvariant, PTL DEF Spec
<1> QED
  BY <1>2, <1>3, PTL
=============================================================================
