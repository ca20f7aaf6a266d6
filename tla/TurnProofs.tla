----------------------------- MODULE TurnProofs -----------------------------
(***************************************************************************)
(* Proofs about the two parts that stop or redirect a running turn: its    *)
(* tree of cancellation tokens (CancelTree) and the steering mailbox with  *)
(* the Esc key (Steer).                                                    *)
(***************************************************************************)
EXTENDS CancelTree, Steer, FiniteSetTheorems, SequenceTheorems, TLAPS

(* Proofs about CancelTree, for any tokens and any cancelling threads.       *)

\* Derived tokens hang together: whoever is beneath a live token is linked to
\* it by a child of its own, and that child is on the list cancel() walks.
Shape ==
    /\ \A t \in Roots : Live(t)
    /\ \A t \in Tokens : status[t] = "unborn" => above[t] = {}
    /\ \A t \in Tokens : status[t] \in {"birth", "live"} => \A a \in above[t] : Live(a)
    /\ \A t \in Tokens : \A a \in above[t] : status[a] \in {"live", "gone"}
    /\ \A t \in Kids : status[t] # "unborn" => parent[t] \in above[t]
    /\ \A t \in Tokens : \A a \in above[t] :
          \E k \in Kids : parent[k] = a /\ Beneath(t, k)
    /\ \A k \in Kids : Live(k) => k \in children[parent[k]]
    /\ \A p \in Tokens : \A k \in children[p] :
          parent[k] = p /\ status[k] \in {"live", "gone"}

FlagShape == \A t \in Tokens : flag[t] => status[t] # "unborn"

Frames(c) == ToSet(stack[c])
Due(t) == (\E c \in Cancellers : target[c] = t) \/ (t \in Kids /\ flag[parent[t]])

\* A call of cancel() on the stack has a reason.
CallShape ==
    \A c \in Cancellers : \A x \in Frames(c) :
        /\ status[x.tok] \in {"live", "gone"}
        /\ Due(x.tok)
        /\ x.at # "swap" => flag[x.tok]

\* What is not cancelled yet is beneath a call still to be done.
Coverage ==
    \A c \in Cancellers : \A t \in reach[c] :
        /\ status[t] \in {"live", "gone"}
        /\ \/ status[t] = "gone"
           \/ flag[t]
           \/ \E x \in Frames(c) : Beneath(t, x.tok)

CancelInv == TypeOK /\ Shape /\ FlagShape /\ DownwardOnly /\ CallShape /\ Coverage

---------------------------------------------------------------------------
(* The stack of calls: a call is replaced by others.                        *)

\* Replacing the head of a sequence of calls keeps the rest.
LEMMA ReplaceHead ==
  ASSUME NEW s \in Seq(Calls), s # <<>>, NEW q \in Seq(Calls)
  PROVE  /\ q \o Tail(s) \in Seq(Calls)
         /\ ToSet(q \o Tail(s)) \subseteq ToSet(q) \cup ToSet(s)
         /\ ToSet(q) \subseteq ToSet(q \o Tail(s))
         /\ ToSet(s) \subseteq {Head(s)} \cup ToSet(q \o Tail(s))
         /\ Head(s) \in ToSet(s) /\ Head(s) \in Calls
<1> DEFINE t == Tail(s)
           r == q \o t
<1>1. /\ t \in Seq(Calls) /\ Len(t) = Len(s) - 1
      /\ Head(s) = s[1] /\ Len(s) \in Nat /\ Len(s) >= 1
      /\ \A j \in 1..(Len(s) - 1) : t[j] = s[j + 1]
  OBVIOUS
<1> HIDE DEF t
<1>2. /\ r \in Seq(Calls) /\ Len(r) = Len(q) + Len(t)
      /\ Len(q) \in Nat /\ Len(t) \in Nat
      /\ \A i \in 1..Len(r) : r[i] = IF i <= Len(q) THEN q[i] ELSE t[i - Len(q)]
  <2>1. Len(q) \in Nat /\ Len(t) \in Nat
    BY <1>1
  <2>2. /\ r \in Seq(Calls) /\ Len(r) = Len(q) + Len(t)
        /\ \A i \in 1..Len(q) + Len(t) : r[i] = IF i <= Len(q) THEN q[i] ELSE t[i - Len(q)]
    BY <1>1, ConcatProperties, ZenonT(60)
  <2> HIDE DEF r
  <2> QED BY <2>1, <2>2
<1>3. DOMAIN s = 1..Len(s) /\ DOMAIN q = 1..Len(q) /\ DOMAIN t = 1..Len(t)
      /\ DOMAIN r = 1..Len(r)
  BY <1>1, <1>2
<1> HIDE DEF r
<1>4. \A i \in 1..Len(r) : r[i] \in ToSet(q) \cup ToSet(s)
  <2> TAKE i \in 1..Len(r)
  <2>1. CASE i <= Len(q)
    BY <1>2, <1>3, <2>1 DEF ToSet
  <2>2. CASE ~(i <= Len(q))
    <3> DEFINE j == i - Len(q)
    <3>1. r[i] = t[j]
      BY <1>2, <2>2
    <3>2. j \in 1..(Len(s) - 1)
      BY <1>1, <1>2, <2>2
    <3> HIDE DEF j
    <3>3. r[i] = s[j + 1] /\ j + 1 \in 1..Len(s)
      BY <3>1, <3>2, <1>1
    <3> QED BY <3>3, <1>3 DEF ToSet
  <2> QED BY <2>1, <2>2
<1>5. \A j \in 1..Len(q) : q[j] \in ToSet(r)
  BY <1>2, <1>3 DEF ToSet
<1>6. \A j \in 1..Len(s) : s[j] = Head(s) \/ s[j] \in ToSet(r)
  <2> TAKE j \in 1..Len(s)
  <2>1. CASE j = 1
    BY <1>1, <2>1
  <2>2. CASE j # 1
    <3> DEFINE i == Len(q) + (j - 1)
    <3>1. i \in 1..Len(r) /\ ~(i <= Len(q)) /\ i - Len(q) = j - 1
      BY <1>1, <1>2, <2>2
    <3>2. r[i] = t[j - 1]
      BY <3>1, <1>2
    <3>3. t[j - 1] = s[j]
      BY <1>1, <2>2
    <3> QED BY <3>1, <3>2, <3>3, <1>3 DEF ToSet
  <2> QED BY <2>1, <2>2
<1>7. Head(s) \in ToSet(s) /\ Head(s) \in Calls
  BY <1>1, <1>3, SMTT(30) DEF ToSet
<1>8. ToSet(r) \subseteq ToSet(q) \cup ToSet(s)
  BY <1>3, <1>4 DEF ToSet
<1>9. ToSet(q) \subseteq ToSet(r)
  BY <1>3, <1>5 DEF ToSet
<1>10. ToSet(s) \subseteq {Head(s)} \cup ToSet(r)
  BY <1>3, <1>6 DEF ToSet
<1> QED BY <1>2, <1>7, <1>8, <1>9, <1>10 DEF r, t

\* A call that moves to its next phase stays on the stack, the others with it.
LEMMA FramesAfterGoTo ==
  ASSUME TypeOK, NEW c \in Cancellers, NEW ph \in Phases, stack[c] # <<>>, GoTo(c, ph)
  PROVE  /\ stack' \in [Cancellers -> Seq(Calls)]
         /\ \A d \in Cancellers : d # c => Frames(d)' = Frames(d)
         /\ Top(c) \in Frames(c) /\ Top(c) \in Calls
         /\ \A x \in Frames(c)' : x = [Top(c) EXCEPT !.at = ph] \/ x \in Frames(c)
         /\ \A x \in Frames(c) : \E y \in Frames(c)' : y.tok = x.tok
<1> DEFINE y == [Top(c) EXCEPT !.at = ph]
           q == <<y>>
<1>1. stack[c] \in Seq(Calls) /\ Top(c) = Head(stack[c])
  BY DEF TypeOK, Top
<1>2. Top(c) \in Calls /\ y \in Calls /\ y.tok = Top(c).tok
  <2>1. Top(c) \in Calls
    BY <1>1, ReplaceHead
  <2> QED BY <2>1 DEF Calls
<1>3. q \in Seq(Calls) /\ ToSet(q) = {y}
  BY <1>2 DEF ToSet
<1>4. stack' = [stack EXCEPT ![c] = q \o Tail(stack[c])]
  BY DEF GoTo
<1> HIDE DEF q, y
<1>5. /\ stack'[c] = q \o Tail(stack[c])
      /\ \A d \in Cancellers : d # c => stack'[d] = stack[d]
  BY <1>4 DEF TypeOK
<1>6. /\ stack'[c] \in Seq(Calls)
      /\ ToSet(stack'[c]) \subseteq ToSet(q) \cup ToSet(stack[c])
      /\ ToSet(q) \subseteq ToSet(stack'[c])
      /\ ToSet(stack[c]) \subseteq {Top(c)} \cup ToSet(stack'[c])
      /\ Top(c) \in ToSet(stack[c])
  BY ReplaceHead, <1>1, <1>3, <1>5
<1>7. stack' \in [Cancellers -> Seq(Calls)]
  BY <1>4, <1>5, <1>6 DEF TypeOK
<1>8. \A d \in Cancellers : d # c => Frames(d)' = Frames(d)
  BY <1>5 DEF Frames
<1>9. Frames(c)' = ToSet(stack'[c])
  BY DEF Frames
<1>10. \A x \in Frames(c)' : x = y \/ x \in Frames(c)
  BY <1>3, <1>6, <1>9 DEF Frames
<1>11. \A x \in Frames(c) : \E z \in Frames(c)' : z.tok = x.tok
  BY <1>2, <1>3, <1>6, <1>9 DEF Frames
<1>12. Top(c) \in Frames(c)
  BY <1>6 DEF Frames
<1> QED BY <1>2, <1>7, <1>8, <1>10, <1>11, <1>12 DEF y

\* A collected call is replaced by one call per child.
LEMMA FramesAfterCollect ==
  ASSUME TypeOK, NEW c \in Cancellers, stack[c] # <<>>, Collect(c)
  PROVE  /\ stack' \in [Cancellers -> Seq(Calls)]
         /\ \A d \in Cancellers : d # c => Frames(d)' = Frames(d)
         /\ Top(c) \in Frames(c) /\ Top(c) \in Calls
         /\ \A x \in Frames(c)' : \/ x \in Frames(c)
                                  \/ \E k \in Collected(Top(c).tok) : x = Call(k)
         /\ \A x \in Frames(c) : x = Top(c) \/ x \in Frames(c)'
         /\ \A k \in Collected(Top(c).tok) : Call(k) \in Frames(c)'
<1> DEFINE S == Collected(Top(c).tok)
<1>1. stack[c] \in Seq(Calls) /\ Top(c) = Head(stack[c])
  BY DEF TypeOK, Top
<1>2. Top(c) \in Calls
  BY <1>1, ReplaceHead
<1>3. S \subseteq Kids
  BY <1>2 DEF Collected, LiveOf, TypeOK, Calls
<1>4. IsFiniteSet(S) /\ Cardinality(S) \in Nat
  BY <1>3, KidsFinite, FS_Subset, FS_CardinalityType
<1>5. PICK kids \in SetToSeqs(S) :
        stack' = [stack EXCEPT ![c] = [i \in DOMAIN kids |-> Call(kids[i])] \o Tail(@)]
  BY DEF Collect
<1>6. kids \in [1..Cardinality(S) -> S] /\ \A i, j \in 1..Cardinality(S) : i # j => kids[i] # kids[j]
  BY <1>5 DEF SetToSeqs
<1>7. \A k \in S : \E i \in DOMAIN kids : kids[i] = k
  <2> DEFINE n == Cardinality(S)
  <2>1. IsFiniteSet(1..n) /\ Cardinality(1..n) = n
    BY <1>4, FS_Interval
  <2>2. kids \in Injection(1..n, S)
    BY <1>6 DEF Injection, IsInjective
  <2>3. kids \in Surjection(1..n, S)
    BY <1>4, <2>1, <2>2, FS_Injection, FS_SameCardinalityBij
  <2> QED BY <1>6, <2>3 DEF Surjection
<1> DEFINE q == [i \in DOMAIN kids |-> Call(kids[i])]
<1>8. q \in Seq(Calls) /\ ToSet(q) = {Call(k) : k \in S}
  <2>1. \A k \in S : Call(k) \in Calls
    BY <1>3 DEF Calls, Call, Phases, Tokens
  <2>2. DOMAIN kids = 1..Cardinality(S) /\ \A i \in DOMAIN kids : kids[i] \in S
    BY <1>6
  <2>3. q \in [1..Cardinality(S) -> Calls]
    BY <2>1, <2>2
  <2> QED BY <2>2, <2>3, <1>4, <1>7 DEF ToSet
<1> HIDE DEF q, S
<1>9. /\ stack'[c] = q \o Tail(stack[c])
      /\ \A d \in Cancellers : d # c => stack'[d] = stack[d]
  BY <1>5 DEF TypeOK, q
<1>10. /\ stack'[c] \in Seq(Calls)
       /\ ToSet(stack'[c]) \subseteq ToSet(q) \cup ToSet(stack[c])
       /\ ToSet(q) \subseteq ToSet(stack'[c])
       /\ ToSet(stack[c]) \subseteq {Top(c)} \cup ToSet(stack'[c])
       /\ Top(c) \in ToSet(stack[c])
  BY ReplaceHead, <1>1, <1>8, <1>9
<1>11. stack' \in [Cancellers -> Seq(Calls)]
  BY <1>5, <1>9, <1>10 DEF TypeOK
<1>12. Frames(c)' = ToSet(stack'[c]) /\ Frames(c) = ToSet(stack[c])
  BY DEF Frames
<1>13. \A x \in Frames(c)' : x \in Frames(c) \/ \E k \in S : x = Call(k)
  BY <1>8, <1>10, <1>12
<1>14. /\ \A x \in Frames(c) : x = Top(c) \/ x \in Frames(c)'
       /\ \A k \in S : Call(k) \in Frames(c)'
       /\ Top(c) \in Frames(c)
  BY <1>8, <1>10, <1>12
<1>15. \A d \in Cancellers : d # c => Frames(d)' = Frames(d)
  BY <1>9 DEF Frames
<1> QED BY <1>2, <1>11, <1>13, <1>14, <1>15 DEF S

\* Every frame is a call on a token.
LEMMA FramesAreCalls ==
  ASSUME TypeOK
  PROVE  \A c \in Cancellers : \A x \in Frames(c) : x \in Calls /\ x.tok \in Tokens
<1> SUFFICES ASSUME NEW c \in Cancellers, NEW x \in Frames(c)
             PROVE  x \in Calls /\ x.tok \in Tokens
  OBVIOUS
<1>1. stack[c] \in Seq(Calls)
  BY DEF TypeOK
<1>2. PICK i \in DOMAIN stack[c] : x = stack[c][i]
  BY DEF Frames, ToSet
<1>3. x \in Calls
  BY <1>1, <1>2
<1> QED BY <1>3 DEF Calls

---------------------------------------------------------------------------
(* One step of each kind preserves the invariant.                           *)

\* Deriving a token: only the unborn token changes, and nothing points at it.
LEMMA DeriveStep ==
  ASSUME CancelInv, NEW p \in Tokens, NEW t \in Kids, Derive(p, t)
  PROVE  CancelInv'
<1> USE DEF Live, Beneath, Due
<1>1. t \in Tokens /\ status[p] = "live" /\ status[t] = "unborn" /\ p # t
  BY DEF Derive, Tokens
<1>2. /\ status' = [status EXCEPT ![t] = "birth"]
      /\ parent' = [parent EXCEPT ![t] = p]
      /\ above' = [above EXCEPT ![t] = above[p] \cup {p}]
      /\ flag' = [flag EXCEPT ![t] = flag[p]]
      /\ UNCHANGED <<children, wait, woken, stack, target, reach>>
  BY DEF Derive, waiter, cancel
<1>3. TypeOK'
  BY <1>1, <1>2 DEF CancelInv, TypeOK, States
<1>4. \A x \in Tokens :
        /\ status'[x] = IF x = t THEN "birth" ELSE status[x]
        /\ parent'[x] = IF x = t THEN p ELSE parent[x]
        /\ above'[x] = IF x = t THEN above[p] \cup {p} ELSE above[x]
        /\ flag'[x] = IF x = t THEN flag[p] ELSE flag[x]
  BY <1>1, <1>2 DEF CancelInv, TypeOK
<1>5. Tokens = Roots \cup Kids /\ above \in [Tokens -> SUBSET Tokens]
      /\ children \in [Tokens -> SUBSET Kids]
  BY DEF CancelInv, TypeOK, Tokens
<1>6. \A x \in Tokens : t \notin above[x]
  BY <1>1 DEF CancelInv, Shape
<1>7. Shape'
  <2>1. \A x \in Roots : Live(x)'
    BY <1>1, <1>4, <1>5 DEF CancelInv, Shape
  <2>2. \A x \in Tokens : status'[x] = "unborn" => above'[x] = {}
    BY <1>4 DEF CancelInv, Shape
  <2>3. \A x \in Tokens : status'[x] \in {"birth", "live"} => \A a \in above'[x] : Live(a)'
    BY <1>1, <1>4, <1>5, <1>6 DEF CancelInv, Shape
  <2>4. \A x \in Tokens : \A a \in above'[x] : status'[a] \in {"live", "gone"}
    BY <1>1, <1>4, <1>5, <1>6 DEF CancelInv, Shape
  <2>5. \A x \in Kids : status'[x] # "unborn" => parent'[x] \in above'[x]
    BY <1>1, <1>4, <1>5 DEF CancelInv, Shape
  <2>6. \A x \in Tokens : \A a \in above'[x] : \E k \in Kids : parent'[k] = a /\ Beneath(x, k)'
    <3> TAKE x \in Tokens
    <3> TAKE a \in above'[x]
    <3>1. CASE x # t
      <4>1. PICK k \in Kids : parent[k] = a /\ Beneath(x, k)
        BY <3>1, <1>4, <1>5 DEF CancelInv, Shape
      <4>2. k # t
        BY <4>1, <3>1, <1>6
      <4> QED BY <4>1, <4>2, <3>1, <1>4, <1>5
    <3>2. CASE x = t /\ a = p
      BY <3>2, <1>1, <1>4
    <3>3. CASE x = t /\ a # p
      <4>1. a \in above[p]
        BY <3>3, <1>4
      <4>2. PICK k \in Kids : parent[k] = a /\ Beneath(p, k)
        BY <4>1 DEF CancelInv, Shape
      <4>3. k # t /\ k \in above'[t]
        BY <4>2, <1>1, <1>4, <1>6
      <4> QED BY <4>2, <4>3, <3>3, <1>4, <1>5
    <3> QED BY <3>1, <3>2, <3>3
  <2>7. \A k \in Kids : Live(k)' => k \in children'[parent'[k]]
    BY <1>2, <1>4, <1>5 DEF CancelInv, Shape
  <2>8. \A x \in Tokens : \A k \in children'[x] :
            parent'[k] = x /\ status'[k] \in {"live", "gone"}
    BY <1>1, <1>2, <1>4, <1>5 DEF CancelInv, Shape
  <2> QED BY <2>1, <2>2, <2>3, <2>4, <2>5, <2>6, <2>7, <2>8 DEF Shape
<1>8. FlagShape'
  BY <1>1, <1>4 DEF CancelInv, FlagShape
<1>9. \A x \in Kids : status[x] # "unborn" => parent[x] \in Tokens /\ parent[x] # t
  BY <1>5, <1>6 DEF CancelInv, Shape
<1>10. DownwardOnly'
  BY <1>1, <1>2, <1>4, <1>5, <1>9 DEF CancelInv, DownwardOnly, FlagShape
<1>11. \A c \in Cancellers : Frames(c)' = Frames(c)
  BY <1>2 DEF Frames
<1>12. \A c \in Cancellers : \A x \in Frames(c) : x \in Calls /\ x.tok \in Tokens
  BY FramesAreCalls DEF CancelInv
<1>13. CallShape'
  <2> SUFFICES ASSUME NEW c \in Cancellers, NEW x \in Frames(c)
               PROVE  /\ status'[x.tok] \in {"live", "gone"}
                      /\ Due(x.tok)'
                      /\ x.at # "swap" => flag'[x.tok]
    BY <1>11 DEF CallShape
  <2>1. /\ status[x.tok] \in {"live", "gone"} /\ Due(x.tok)
        /\ x.at # "swap" => flag[x.tok]
    BY DEF CancelInv, CallShape
  <2>2. x.tok # t /\ x.tok \in Tokens
    BY <2>1, <1>1, <1>12
  <2> QED BY <2>1, <2>2, <1>2, <1>4, <1>9
<1>14. Coverage'
  <2> SUFFICES ASSUME NEW c \in Cancellers, NEW x \in reach[c]
               PROVE  /\ status'[x] \in {"live", "gone"}
                      /\ \/ status'[x] = "gone"
                         \/ flag'[x]
                         \/ \E y \in Frames(c) : Beneath(x, y.tok)'
    BY <1>2, <1>11 DEF Coverage
  <2>1. x \in Tokens /\ x # t
    BY <1>1 DEF CancelInv, Coverage, TypeOK
  <2> QED BY <2>1, <1>4 DEF CancelInv, Coverage
<1> QED BY <1>3, <1>7, <1>8, <1>10, <1>13, <1>14 DEF CancelInv

\* Handing a token out: it goes on its parent's list, from which only
\* finished tokens disappear.
LEMMA HandOutStep ==
  ASSUME CancelInv, NEW t \in Kids, HandOut(t)
  PROVE  CancelInv'
<1> USE DEF Live, Beneath, Due
<1>1. /\ t \in Tokens /\ status[t] = "birth" /\ parent[t] \in Tokens /\ status[parent[t]] = "live"
  BY DEF HandOut, Tokens, CancelInv, Shape, TypeOK
<1>2. /\ status' = [status EXCEPT ![t] = "live"]
      /\ children' = [children EXCEPT ![parent[t]] = LiveOf(children[parent[t]]) \cup {t}]
      /\ UNCHANGED <<parent, above, flag, wait, woken, stack, target, reach>>
  BY DEF HandOut, Register, waiter, cancel
<1>3. TypeOK'
  BY <1>1, <1>2 DEF CancelInv, TypeOK, States, LiveOf
<1>4. \A x \in Tokens :
        /\ status'[x] = IF x = t THEN "live" ELSE status[x]
        /\ children'[x] = IF x = parent[t] THEN {k \in children[x] : status[k] # "gone"} \cup {t}
                                          ELSE children[x]
  BY <1>1, <1>2 DEF CancelInv, TypeOK, LiveOf
<1>5. Tokens = Roots \cup Kids /\ above \in [Tokens -> SUBSET Tokens]
      /\ children \in [Tokens -> SUBSET Kids]
  BY DEF CancelInv, TypeOK, Tokens
<1>6. Shape'
  <2>1. \A x \in Roots : Live(x)'
    BY <1>4, <1>5, ZenonT(60) DEF CancelInv, Shape
  <2>2. \A x \in Tokens : status'[x] = "unborn" => above'[x] = {}
    BY <1>2, <1>4 DEF CancelInv, Shape
  <2>3. \A x \in Tokens : status'[x] \in {"birth", "live"} => \A a \in above'[x] : Live(a)'
    BY <1>1, <1>2, <1>4, <1>5 DEF CancelInv, Shape
  <2>4. \A x \in Tokens : \A a \in above'[x] : status'[a] \in {"live", "gone"}
    BY <1>2, <1>4, <1>5 DEF CancelInv, Shape
  <2>5. \A x \in Kids : status'[x] # "unborn" => parent'[x] \in above'[x]
    BY <1>1, <1>2, <1>4, <1>5 DEF CancelInv, Shape
  <2>6. \A x \in Tokens : \A a \in above'[x] : \E k \in Kids : parent'[k] = a /\ Beneath(x, k)'
    BY <1>2 DEF CancelInv, Shape
  <2>7. \A k \in Kids : Live(k)' => k \in children'[parent'[k]]
    <3> SUFFICES ASSUME NEW k \in Kids, status'[k] = "live"
                 PROVE  k \in children'[parent[k]]
      BY <1>2
    <3>1. parent[k] \in Tokens
      BY <1>1, <1>4, <1>5, ZenonT(60) DEF CancelInv, Shape
    <3>2. CASE k = t
      BY <3>2, <1>1, <1>4
    <3>3. CASE k # t
      <4>1. k \in Tokens
        BY <1>5
      <4>2. status[k] = "live"
        BY <3>3, <4>1, <1>4
      <4>3. k \in children[parent[k]]
        BY <4>2 DEF CancelInv, Shape
      <4> QED BY <3>1, <4>2, <4>3, <1>4
    <3> QED BY <3>2, <3>3
  <2>8. \A x \in Tokens : \A k \in children'[x] :
            parent'[k] = x /\ status'[k] \in {"live", "gone"}
    <3> SUFFICES ASSUME NEW x \in Tokens, NEW k \in children'[x]
                 PROVE  parent[k] = x /\ status'[k] \in {"live", "gone"}
      BY <1>2
    <3>1. CASE k = t /\ x = parent[t]
      BY <3>1, <1>1, <1>4
    <3>2. CASE k \in children[x]
      <4>1. k \in Tokens /\ parent[k] = x /\ status[k] \in {"live", "gone"}
        BY <3>2, <1>5 DEF CancelInv, Shape
      <4> QED BY <4>1, <1>4
    <3> QED BY <3>1, <3>2, <1>4
  <2> QED BY <2>1, <2>2, <2>3, <2>4, <2>5, <2>6, <2>7, <2>8 DEF Shape
<1>7. FlagShape' /\ DownwardOnly'
  BY <1>1, <1>2, <1>4 DEF CancelInv, FlagShape, DownwardOnly
<1>8. \A c \in Cancellers : Frames(c)' = Frames(c)
  BY <1>2 DEF Frames
<1>9. CallShape'
  BY <1>1, <1>2, <1>4, <1>8, FramesAreCalls DEF CancelInv, CallShape
<1>10. Coverage'
  <2>1. \A c \in Cancellers : \A x \in reach[c] : x \in Tokens
    BY DEF CancelInv, TypeOK
  <2> QED BY <2>1, <1>1, <1>2, <1>4, <1>8 DEF CancelInv, Coverage
<1> QED BY <1>3, <1>6, <1>7, <1>9, <1>10 DEF CancelInv

\* Finishing: nobody beneath the token is left, so no link is cut.
LEMMA FinishStep ==
  ASSUME CancelInv, NEW t \in Kids, Finish(t)
  PROVE  CancelInv'
<1> USE DEF Live, Beneath, Due
<1>1. t \in Tokens /\ status[t] = "live" /\ \A k \in Kids : parent[k] = t => status[k] = "gone"
  BY DEF Finish, Tokens
<1>2. /\ status' = [status EXCEPT ![t] = "gone"]
      /\ UNCHANGED <<parent, above, children, flag, wait, woken, stack, target, reach>>
  BY DEF Finish, waiter, cancel
<1>3. TypeOK'
  BY <1>2 DEF CancelInv, TypeOK, States
<1>4. \A x \in Tokens : status'[x] = IF x = t THEN "gone" ELSE status[x]
  BY <1>1, <1>2 DEF CancelInv, TypeOK
<1>5. Tokens = Roots \cup Kids /\ above \in [Tokens -> SUBSET Tokens]
      /\ children \in [Tokens -> SUBSET Kids]
  BY DEF CancelInv, TypeOK, Tokens
<1>6. \A x \in Tokens : status[x] \in {"birth", "live"} => t \notin above[x]
  <2> SUFFICES ASSUME NEW x \in Tokens, status[x] \in {"birth", "live"}, t \in above[x]
               PROVE  FALSE
    OBVIOUS
  <2>1. PICK k \in Kids : parent[k] = t /\ Beneath(x, k)
    BY DEF CancelInv, Shape
  <2>2. status[k] = "gone"
    BY <2>1, <1>1
  <2>3. \A a \in above[x] : status[a] = "live"
    BY DEF CancelInv, Shape
  <2> QED BY <2>1, <2>2, <2>3
<1>7. Shape'
  <2>1. \A x \in Roots : Live(x)'
    BY <1>4, <1>5, RootsAreNotKids DEF CancelInv, Shape
  <2>2. \A x \in Tokens : status'[x] = "unborn" => above'[x] = {}
    BY <1>2, <1>4 DEF CancelInv, Shape
  <2>3. \A x \in Tokens : status'[x] \in {"birth", "live"} => \A a \in above'[x] : Live(a)'
    BY <1>2, <1>4, <1>5, <1>6 DEF CancelInv, Shape
  <2>4. \A x \in Tokens : \A a \in above'[x] : status'[a] \in {"live", "gone"}
    BY <1>2, <1>4, <1>5 DEF CancelInv, Shape
  <2>5. \A x \in Kids : status'[x] # "unborn" => parent'[x] \in above'[x]
    BY <1>1, <1>2, <1>4, <1>5 DEF CancelInv, Shape
  <2>6. \A x \in Tokens : \A a \in above'[x] : \E k \in Kids : parent'[k] = a /\ Beneath(x, k)'
    BY <1>2 DEF CancelInv, Shape
  <2>7. \A k \in Kids : Live(k)' => k \in children'[parent'[k]]
    BY <1>2, <1>4, <1>5 DEF CancelInv, Shape
  <2>8. \A x \in Tokens : \A k \in children'[x] :
            parent'[k] = x /\ status'[k] \in {"live", "gone"}
    BY <1>2, <1>4, <1>5 DEF CancelInv, Shape
  <2> QED BY <2>1, <2>2, <2>3, <2>4, <2>5, <2>6, <2>7, <2>8 DEF Shape
<1>8. FlagShape' /\ DownwardOnly'
  BY <1>1, <1>2, <1>4 DEF CancelInv, FlagShape, DownwardOnly
<1>9. \A c \in Cancellers : Frames(c)' = Frames(c)
  BY <1>2 DEF Frames
<1>10. CallShape'
  BY <1>1, <1>2, <1>4, <1>9, FramesAreCalls DEF CancelInv, CallShape
<1>11. Coverage'
  <2>1. \A c \in Cancellers : \A x \in reach[c] : x \in Tokens
    BY DEF CancelInv, TypeOK
  <2> QED BY <2>1, <1>1, <1>2, <1>4, <1>9 DEF CancelInv, Coverage
<1> QED BY <1>3, <1>7, <1>8, <1>10, <1>11 DEF CancelInv

\* A thread calls cancel(): everything live beneath the target is beneath the
\* one call on its stack.
LEMMA AskStep ==
  ASSUME CancelInv, NEW c \in Cancellers, NEW t \in Tokens, Ask(c, t)
  PROVE  CancelInv'
<1> USE DEF Live, Beneath, Due
<1>1. target[c] = NoToken /\ status[t] = "live"
  BY DEF Ask
<1>2. /\ stack' = [stack EXCEPT ![c] = <<Call(t)>>]
      /\ target' = [target EXCEPT ![c] = t]
      /\ reach' = [reach EXCEPT ![c] = {k \in Tokens : status[k] = "live" /\ Beneath(k, t)}]
      /\ UNCHANGED <<status, parent, above, children, flag, wait, woken>>
  BY DEF Ask, tree, waiter
<1>3. Call(t) \in Calls /\ Call(t).tok = t /\ Call(t).at = "swap" /\ <<Call(t)>> \in Seq(Calls)
  <2>1. Call(t) \in Calls /\ Call(t).tok = t /\ Call(t).at = "swap"
    BY DEF Call, Calls, Phases
  <2> QED BY <2>1
<1>4. TypeOK'
  BY <1>2, <1>3 DEF CancelInv, TypeOK
<1>5. /\ \A d \in Cancellers : d # c =>
            Frames(d)' = Frames(d) /\ target'[d] = target[d] /\ reach'[d] = reach[d]
      /\ target'[c] = t
      /\ reach'[c] = {k \in Tokens : status[k] = "live" /\ Beneath(k, t)}
  BY <1>2 DEF CancelInv, TypeOK, Frames
<1>6. Frames(c)' = {Call(t)}
  <2>1. stack'[c] = <<Call(t)>>
    BY <1>2 DEF CancelInv, TypeOK
  <2> QED BY <2>1 DEF Frames, ToSet
<1>7. Shape' /\ FlagShape'
  BY <1>2 DEF CancelInv, Shape, FlagShape
<1>8. \A x \in Tokens : Due(x) => Due(x)'
  BY <1>1, <1>2, <1>5, NoTokenIsNone DEF CancelInv, TypeOK
<1>9. DownwardOnly'
  BY <1>2, <1>8 DEF CancelInv, DownwardOnly
<1>10. CallShape'
  <2> SUFFICES ASSUME NEW d \in Cancellers, NEW x \in Frames(d)'
               PROVE  /\ status[x.tok] \in {"live", "gone"}
                      /\ Due(x.tok)'
                      /\ x.at # "swap" => flag[x.tok]
    BY <1>2 DEF CallShape
  <2>1. CASE d = c
    BY <2>1, <1>1, <1>3, <1>5, <1>6
  <2>2. CASE d # c
    BY <2>2, <1>5, <1>8, FramesAreCalls DEF CancelInv, CallShape
  <2> QED BY <2>1, <2>2
<1>11. Coverage'
  BY <1>2, <1>3, <1>5, <1>6 DEF CancelInv, Coverage
<1> QED BY <1>4, <1>7, <1>9, <1>10, <1>11 DEF CancelInv

\* A step that changes flags or stacks only leaves the tree as it is.
LEMMA TreeUnchanged ==
  ASSUME CancelInv, UNCHANGED tree
  PROVE  Shape'
<1> USE DEF Live, Beneath
<1> QED BY DEF CancelInv, Shape, tree

\* The swap: a flag is set, for a reason that holds already.
LEMMA SwapStep ==
  ASSUME CancelInv, NEW c \in Cancellers, Swap(c)
  PROVE  CancelInv'
<1> USE DEF Live, Beneath, Due
<1> DEFINE t == Top(c).tok
           ph == IF flag[t] THEN "collect" ELSE "notify"
<1>1. /\ stack[c] # <<>> /\ GoTo(c, ph)
      /\ flag' = [flag EXCEPT ![t] = TRUE]
      /\ UNCHANGED <<status, parent, above, children, wait, woken, target, reach>>
  BY DEF Swap, tree, waiter
<1>2. ph \in Phases /\ ph # "swap"
  BY DEF Phases
<1>3. /\ stack' \in [Cancellers -> Seq(Calls)]
      /\ \A d \in Cancellers : d # c => Frames(d)' = Frames(d)
      /\ Top(c) \in Frames(c) /\ Top(c) \in Calls
      /\ \A x \in Frames(c)' : x = [Top(c) EXCEPT !.at = ph] \/ x \in Frames(c)
      /\ \A x \in Frames(c) : \E y \in Frames(c)' : y.tok = x.tok
  <2>1. TypeOK
    BY DEF CancelInv
  <2> HIDE DEF ph
  <2> QED BY <1>1, <1>2, <2>1, FramesAfterGoTo
<1>4. t \in Tokens /\ Top(c).tok = t
  BY <1>3, FramesAreCalls DEF CancelInv
<1>5. [Top(c) EXCEPT !.at = ph].tok = t
  BY <1>3 DEF Calls
<1> HIDE DEF ph, t
<1>6. \A x \in Tokens : flag'[x] = (x = t \/ flag[x])
  BY <1>1, <1>4 DEF CancelInv, TypeOK
<1>7. TypeOK'
  BY <1>1, <1>3, <1>4 DEF CancelInv, TypeOK
<1>8. Shape'
  BY <1>1, TreeUnchanged DEF tree
<1>9. status[t] \in {"live", "gone"} /\ Due(t)
  BY <1>3, <1>4 DEF CancelInv, CallShape
<1>10. FlagShape'
  BY <1>1, <1>6, <1>9 DEF CancelInv, FlagShape
<1>11. \A x \in Tokens : status[x] # "unborn" /\ Due(x) => Due(x)'
  <2> SUFFICES ASSUME NEW x \in Tokens, status[x] # "unborn", Due(x) PROVE Due(x)'
    OBVIOUS
  <2>1. x \in Kids => parent[x] \in Tokens
    BY DEF CancelInv, Shape, TypeOK
  <2> QED BY <2>1, <1>1, <1>6
<1>12. DownwardOnly'
  <2> SUFFICES ASSUME NEW x \in Tokens, flag'[x] PROVE Due(x)'
    BY DEF DownwardOnly
  <2>1. status[x] # "unborn" /\ Due(x)
    BY <1>6, <1>9 DEF CancelInv, FlagShape, DownwardOnly
  <2> QED BY <2>1, <1>11
<1>13. CallShape'
  <2> SUFFICES ASSUME NEW d \in Cancellers, NEW x \in Frames(d)'
               PROVE  /\ status[x.tok] \in {"live", "gone"}
                      /\ Due(x.tok)'
                      /\ x.at # "swap" => flag'[x.tok]
    BY <1>1 DEF CallShape
  <2>1. CASE x \in Frames(d)
    <3>1. /\ x.tok \in Tokens /\ status[x.tok] \in {"live", "gone"} /\ Due(x.tok)
          /\ x.at # "swap" => flag[x.tok]
      BY <2>1, FramesAreCalls DEF CancelInv, CallShape
    <3> QED BY <3>1, <1>6, <1>11
  <2>2. CASE x = [Top(c) EXCEPT !.at = ph]
    <3>1. x.tok = t
      BY <2>2, <1>5
    <3>2. x.tok \in Tokens /\ status[x.tok] \in {"live", "gone"} /\ Due(x.tok)
      BY <3>1, <1>4, <1>9
    <3>3. Due(x.tok)'
      BY <3>2, <1>11
    <3>4. flag'[x.tok]
      BY <3>1, <3>2, <1>6
    <3> QED BY <3>2, <3>3, <3>4
  <2> QED BY <2>1, <2>2, <1>3
<1>14. Coverage'
  <2> SUFFICES ASSUME NEW d \in Cancellers, NEW x \in reach[d]
               PROVE  /\ status[x] \in {"live", "gone"}
                      /\ \/ status[x] = "gone"
                         \/ flag'[x]
                         \/ \E y \in Frames(d)' : Beneath(x, y.tok)
    BY <1>1 DEF Coverage
  <2>1. x \in Tokens
    BY DEF CancelInv, TypeOK
  <2>2. \A z \in Frames(d) : \E y \in Frames(d)' : y.tok = z.tok
    BY <1>3
  <2>3. /\ status[x] \in {"live", "gone"}
        /\ status[x] = "gone" \/ flag[x] \/ \E z \in Frames(d) : x = z.tok \/ z.tok \in above[x]
    BY DEF CancelInv, Coverage
  <2>4. above' = above
    BY <1>1
  <2> QED BY <2>1, <2>2, <2>3, <2>4, <1>6
<1> QED BY <1>7, <1>8, <1>10, <1>12, <1>13, <1>14 DEF CancelInv

\* The notification touches waiters only.
LEMMA NotifyStep ==
  ASSUME CancelInv, NEW c \in Cancellers, Notify(c)
  PROVE  CancelInv'
<1> USE DEF Live, Beneath, Due
<1>1. /\ stack[c] # <<>> /\ Top(c).at = "notify" /\ GoTo(c, "collect")
      /\ woken' \in [Tokens -> BOOLEAN]
      /\ UNCHANGED <<status, parent, above, children, flag, wait, target, reach>>
  BY DEF Notify, tree, CancelInv, TypeOK
<1>2. /\ stack' \in [Cancellers -> Seq(Calls)]
      /\ \A d \in Cancellers : d # c => Frames(d)' = Frames(d)
      /\ Top(c) \in Frames(c) /\ Top(c) \in Calls
      /\ \A x \in Frames(c)' : x = [Top(c) EXCEPT !.at = "collect"] \/ x \in Frames(c)
      /\ \A x \in Frames(c) : \E y \in Frames(c)' : y.tok = x.tok
  BY <1>1, FramesAfterGoTo DEF CancelInv, Phases
<1>3. TypeOK'
  BY <1>1, <1>2 DEF CancelInv, TypeOK
<1>4. Shape' /\ FlagShape' /\ DownwardOnly'
  BY <1>1, TreeUnchanged DEF CancelInv, FlagShape, DownwardOnly, tree
<1>5. [Top(c) EXCEPT !.at = "collect"].tok = Top(c).tok
  BY <1>2 DEF Calls
<1>6. /\ status[Top(c).tok] \in {"live", "gone"} /\ Due(Top(c).tok) /\ flag[Top(c).tok]
  BY <1>1, <1>2 DEF CancelInv, CallShape
<1>7. CallShape'
  <2> SUFFICES ASSUME NEW d \in Cancellers, NEW x \in Frames(d)'
               PROVE  status[x.tok] \in {"live", "gone"} /\ Due(x.tok) /\ (x.at # "swap" => flag[x.tok])
    BY <1>1 DEF CallShape
  <2>1. CASE x \in Frames(d)
    BY <2>1 DEF CancelInv, CallShape
  <2>2. CASE x = [Top(c) EXCEPT !.at = "collect"]
    BY <2>2, <1>5, <1>6
  <2> QED BY <2>1, <2>2, <1>2
<1>8. Coverage'
  <2> SUFFICES ASSUME NEW d \in Cancellers, NEW x \in reach[d]
               PROVE  /\ status[x] \in {"live", "gone"}
                      /\ \/ status[x] = "gone"
                         \/ flag[x]
                         \/ \E y \in Frames(d)' : Beneath(x, y.tok)
    BY <1>1 DEF Coverage
  <2>1. \A z \in Frames(d) : \E y \in Frames(d)' : y.tok = z.tok
    BY <1>2
  <2> QED BY <2>1 DEF CancelInv, Coverage
<1> QED BY <1>3, <1>4, <1>7, <1>8 DEF CancelInv

\* Collecting: what is beneath the collected token is that token itself, which
\* is cancelled, or beneath one of the children collected.
LEMMA CollectStep ==
  ASSUME CancelInv, NEW c \in Cancellers, Collect(c)
  PROVE  CancelInv'
<1> USE DEF Live, Beneath, Due
<1> DEFINE t == Top(c).tok
<1>1. /\ stack[c] # <<>> /\ Top(c).at = "collect"
      /\ UNCHANGED <<status, parent, above, children, flag, wait, woken, target, reach>>
  BY DEF Collect, tree, waiter
<1>2. /\ stack' \in [Cancellers -> Seq(Calls)]
      /\ \A d \in Cancellers : d # c => Frames(d)' = Frames(d)
      /\ Top(c) \in Frames(c) /\ Top(c) \in Calls
      /\ \A x \in Frames(c)' : x \in Frames(c) \/ \E k \in Collected(t) : x = Call(k)
      /\ \A x \in Frames(c) : x = Top(c) \/ x \in Frames(c)'
      /\ \A k \in Collected(t) : Call(k) \in Frames(c)'
  BY <1>1, FramesAfterCollect DEF CancelInv
<1>3. TypeOK'
  BY <1>1, <1>2 DEF CancelInv, TypeOK
<1>4. Shape' /\ FlagShape' /\ DownwardOnly'
  BY <1>1, TreeUnchanged DEF CancelInv, FlagShape, DownwardOnly, tree
<1>5. t \in Tokens /\ Top(c).tok = t
  BY <1>2, FramesAreCalls DEF CancelInv
<1> HIDE DEF t
<1>6. flag[t]
  BY <1>1, <1>2, <1>5 DEF CancelInv, CallShape
<1>7. Collected(t) = {k \in children[t] : status[k] # "gone"} /\ children[t] \subseteq Kids
  BY <1>5 DEF Collected, LiveOf, CancelInv, TypeOK
<1>8. \A k \in Collected(t) : Call(k).tok = k /\ Call(k).at = "swap"
  BY DEF Call
<1>9. CallShape'
  <2> SUFFICES ASSUME NEW d \in Cancellers, NEW x \in Frames(d)'
               PROVE  status[x.tok] \in {"live", "gone"} /\ Due(x.tok) /\ (x.at # "swap" => flag[x.tok])
    BY <1>1 DEF CallShape
  <2>1. CASE x \in Frames(d)
    BY <2>1 DEF CancelInv, CallShape
  <2>2. ASSUME NEW k \in Collected(t), x = Call(k) PROVE x.tok \in Kids /\ status[x.tok] = "live" /\ parent[x.tok] = t /\ x.at = "swap"
    BY <2>2, <1>5, <1>7, <1>8 DEF CancelInv, Shape
  <2> QED BY <2>1, <2>2, <1>2, <1>6
<1>10. Coverage'
  <2> SUFFICES ASSUME NEW d \in Cancellers, NEW x \in reach[d]
               PROVE  /\ status[x] \in {"live", "gone"}
                      /\ \/ status[x] = "gone"
                         \/ flag[x]
                         \/ \E y \in Frames(d)' : x = y.tok \/ y.tok \in above[x]
    BY <1>1 DEF Coverage
  <2>1. x \in Tokens /\ status[x] \in {"live", "gone"}
    BY DEF CancelInv, TypeOK, Coverage
  <2>2. CASE status[x] = "gone" \/ flag[x]
    BY <2>1, <2>2
  <2>3. CASE status[x] = "live" /\ ~flag[x]
    <3>1. PICK z \in Frames(d) : x = z.tok \/ z.tok \in above[x]
      BY <2>3 DEF CancelInv, Coverage
    <3>2. CASE d # c \/ z # Top(c)
      BY <3>1, <3>2, <2>1, <1>2
    <3>3. CASE d = c /\ z = Top(c)
      <4>1. t \in above[x]
        BY <3>1, <3>3, <2>3, <1>5, <1>6
      <4>2. PICK k \in Kids : parent[k] = t /\ (x = k \/ k \in above[x])
        BY <4>1, <2>1 DEF CancelInv, Shape
      <4>3. status[k] = "live"
        BY <4>2, <2>1, <2>3 DEF CancelInv, Shape
      <4>4. k \in Collected(t)
        BY <4>2, <4>3, <1>7 DEF CancelInv, Shape
      <4> QED BY <4>2, <4>4, <3>3, <2>1, <1>2, <1>8
    <3> QED BY <3>2, <3>3
  <2> QED BY <2>1, <2>2, <2>3
<1> QED BY <1>3, <1>4, <1>9, <1>10 DEF CancelInv

\* Waiting reads flags and changes nothing the invariant is about.
LEMMA WaitStep ==
  ASSUME CancelInv, NEW t \in Tokens, StartWait(t) \/ Wait(t)
  PROVE  CancelInv'
<1> USE DEF Live, Beneath, Due
<1>1. UNCHANGED <<status, parent, above, children, flag, stack, target, reach>>
  BY DEF StartWait, Wait, Check, Create, Recheck, Resume, tree, cancel
<1>2. wait' \in [Tokens -> Waits] /\ woken' \in [Tokens -> BOOLEAN]
  <2>1. CASE StartWait(t) \/ Check(t) \/ Recheck(t) \/ Resume(t)
    BY <2>1 DEF StartWait, Check, Recheck, Resume, StepTo, CancelInv, TypeOK, Waits
  <2>2. CASE Create(t)
    BY <2>2 DEF Create, StepTo, CancelInv, TypeOK, Waits
  <2> QED BY <2>1, <2>2 DEF Wait
<1>3. TypeOK'
  BY <1>1, <1>2 DEF CancelInv, TypeOK
<1>4. Shape' /\ FlagShape' /\ DownwardOnly'
  BY <1>1, TreeUnchanged DEF CancelInv, FlagShape, DownwardOnly, tree
<1>5. \A c \in Cancellers : Frames(c)' = Frames(c)
  BY <1>1 DEF Frames
<1>6. CallShape' /\ Coverage'
  BY <1>1, <1>5 DEF CancelInv, CallShape, Coverage
<1> QED BY <1>3, <1>4, <1>6 DEF CancelInv

---------------------------------------------------------------------------
\* CancelInv holds initially: there are only roots, and nobody cancels.
LEMMA InitCancelInv == Init => CancelInv
<1> SUFFICES ASSUME Init PROVE CancelInv
  OBVIOUS
<1> USE DEF Init
<1>1. TypeOK
  BY DEF TypeOK, States, Waits, Tokens
<1>2. Shape
  BY RootsAreNotKids DEF Shape, Live, Beneath, Tokens
<1>3. FlagShape /\ DownwardOnly
  BY DEF FlagShape, DownwardOnly
<1>4. \A c \in Cancellers : Frames(c) = {} /\ reach[c] = {}
  BY DEF Frames, ToSet
<1>5. CallShape /\ Coverage
  BY <1>4 DEF CallShape, Coverage
<1> QED BY <1>1, <1>2, <1>3, <1>5 DEF CancelInv

\* Every step preserves CancelInv.
LEMMA NextCancelInv == CancelInv /\ [Next]_vars => CancelInv'
<1> SUFFICES ASSUME CancelInv, [Next]_vars PROVE CancelInv'
  OBVIOUS
<1>1. ASSUME NEW p \in Tokens, NEW t \in Kids, Derive(p, t) PROVE CancelInv'
  BY <1>1, DeriveStep
<1>2. ASSUME NEW t \in Kids, HandOut(t) PROVE CancelInv'
  BY <1>2, HandOutStep
<1>3. ASSUME NEW t \in Kids, Finish(t) PROVE CancelInv'
  BY <1>3, FinishStep
<1>4. ASSUME NEW c \in Cancellers, NEW t \in Tokens, Ask(c, t) PROVE CancelInv'
  BY <1>4, AskStep
<1>5. ASSUME NEW c \in Cancellers, Cancel(c) PROVE CancelInv'
  BY <1>5, SwapStep, NotifyStep, CollectStep DEF Cancel
<1>6. ASSUME NEW t \in Tokens, StartWait(t) \/ Wait(t) PROVE CancelInv'
  BY <1>6, WaitStep
<1>7. CASE UNCHANGED vars
  <2>1. UNCHANGED <<status, parent, above, children, flag, wait, woken, stack, target, reach>>
    BY <1>7 DEF vars, tree, waiter, cancel
  <2>2. TypeOK'
    BY <2>1 DEF CancelInv, TypeOK
  <2>3. Shape' /\ FlagShape' /\ DownwardOnly'
    BY <2>1, TreeUnchanged DEF CancelInv, FlagShape, DownwardOnly, tree
  <2>4. \A c \in Cancellers : Frames(c)' = Frames(c)
    BY <2>1 DEF Frames
  <2>5. CallShape' /\ Coverage'
    BY <2>1, <2>4 DEF CancelInv, CallShape, Coverage, Due, Beneath
  <2> QED BY <2>2, <2>3, <2>5 DEF CancelInv
<1> QED BY <1>1, <1>2, <1>3, <1>4, <1>5, <1>6, <1>7 DEF Next

\* The invariant of any number of tokens and cancelling threads.
THEOREM CancelInvariant == Spec => []CancelInv
<1> QED BY InitCancelInv, NextCancelInv, PTL DEF Spec

\* Every variable keeps its type.
THEOREM CancelTypeOK == Spec => []TypeOK
<1>1. CancelInv => TypeOK
  BY DEF CancelInv
<1> QED BY <1>1, CancelInvariant, PTL

\* Cancellation flows down only, whatever tokens are derived and cancelled.
THEOREM CancelDownwardOnly == Spec => []DownwardOnly
<1>1. CancelInv => DownwardOnly
  BY DEF CancelInv
<1> QED BY <1>1, CancelInvariant, PTL

\* When cancel() returns it has reached everything live beneath its target.
THEOREM CancelReachesAll == Spec => []ReachesAll
<1>1. CancelInv => ReachesAll
  <2> SUFFICES ASSUME CancelInv, NEW c \in Cancellers, stack[c] = <<>>, NEW t \in reach[c]
               PROVE  flag[t] \/ status[t] = "gone"
    BY DEF ReachesAll
  <2>1. Frames(c) = {}
    BY DEF Frames, ToSet
  <2> QED BY <2>1 DEF CancelInv, Coverage
<1> QED BY <1>1, CancelInvariant, PTL

-----------------------------------------------------------------------------
(* Proofs about Steer: any number of messages, steps, Esc presses, any size  *)
(* of the mailbox.                                                           *)

(* The inductive invariant.  Whose hands hold what: the REPL's, by where it  *)
(* is, and the keyboard's, which holds the newest message.                   *)
Fetching == {"clear", "zero", "open", "prep"}
Folding  == {"top", "look", "take", "reset", "model"}
Emptied  == ReplStates \ (Fetching \cup {"reset", "settle", "inject"})
HandsOK ==
    /\ rpc \in Fetching => Len(hand) = 1
    /\ rpc \in Emptied => hand = <<>>
    /\ kpc \in {"boxing", "queueing"} => typing = <<typed>>
    /\ kpc \notin {"boxing", "queueing"} => typing = <<>>

(* A turn under way has its part of the history, and steps left.             *)
TurnOK ==
    /\ rpc \in Folding \cup {"seated"} => history # <<>>
    /\ rpc \in Folding \ {"top"} => iters < MaxIters

(* What the running turn was given is older than what it is about to be, and *)
(* that is older than what waits in the mailbox.                             *)
Rising(s) == \A i, j \in DOMAIN s : i < j => s[i] < s[j]
Older(s, t) == \A i \in DOMAIN s, j \in DOMAIN t : s[i] < t[j]
This == history[Len(history)]
OrderOK ==
    /\ Rising(mailbox) /\ \A t \in DOMAIN history : Rising(history[t])
    /\ rpc \in {"zero", "open", "prep", "reset"} => Older(hand, mailbox)
    /\ rpc \in Folding \cup {"seated"} => Older(This, mailbox)
    /\ rpc = "reset" => Rising(hand) /\ Older(This, hand)

SteerInv == SteerTypeOK /\ OnePlace /\ HandsOK /\ TurnOK /\ OrderOK

-----------------------------------------------------------------------------
(* Sequences: what is in them, and that it is in them once.                  *)
LEMMA EmptyList == ToSet(<<>>) = {} /\ Once(<<>>) /\ Rising(<<>>)
<1>1. <<>> \in Seq(Int) /\ Len(<<>>) = 0 BY EmptySeq
<1>2. DOMAIN <<>> = 1..0 BY <1>1, LenProperties
<1>3. DOMAIN <<>> = {} BY <1>2
<1> QED BY <1>3 DEF ToSet, Once, Rising

LEMMA SingleList == ASSUME NEW x PROVE ToSet(<<x>>) = {x} /\ Once(<<x>>) /\ Rising(<<x>>)
<1>1. DOMAIN <<x>> = {1} /\ <<x>>[1] = x OBVIOUS
<1> QED BY <1>1 DEF ToSet, Once, Rising

LEMMA JoinLists ==
    ASSUME NEW S, NEW s \in Seq(S), NEW t \in Seq(S)
    PROVE  /\ s \o t \in Seq(S) /\ ToSet(s \o t) = ToSet(s) \cup ToSet(t)
           /\ Once(s) /\ Once(t) /\ ToSet(s) \cap ToSet(t) = {} => Once(s \o t)
<1>1. /\ s \o t \in Seq(S) /\ Len(s \o t) = Len(s) + Len(t)
      /\ \A i \in DOMAIN s : i \in DOMAIN (s \o t) /\ (s \o t)[i] = s[i]
      /\ \A i \in DOMAIN t : Len(s) + i \in DOMAIN (s \o t) /\ (s \o t)[Len(s) + i] = t[i]
  OBVIOUS
<1>2. ASSUME NEW i \in DOMAIN (s \o t)
      PROVE  \/ i \in DOMAIN s /\ (s \o t)[i] = s[i]
             \/ i - Len(s) \in DOMAIN t /\ i = Len(s) + (i - Len(s)) /\ (s \o t)[i] = t[i - Len(s)]
  <2>1. DOMAIN s = 1..Len(s) /\ DOMAIN t = 1..Len(t) /\ Len(s) \in Nat /\ Len(t) \in Nat
    OBVIOUS
  <2>2. i \in 1..(Len(s) + Len(t)) BY <1>1
  <2>3. CASE i <= Len(s) BY <1>1, <2>1, <2>2, <2>3
  <2>4. CASE i > Len(s)
    <3>1. i - Len(s) \in DOMAIN t /\ i = Len(s) + (i - Len(s)) BY <2>1, <2>2, <2>4
    <3> QED BY <1>1, <3>1
  <2> QED BY <2>1, <2>2, <2>3, <2>4
<1>3. ToSet(s \o t) = ToSet(s) \cup ToSet(t)
  <2>1. PICK u : u = s \o t OBVIOUS
  <2>2. \A i \in DOMAIN u : u[i] \in ToSet(s) \cup ToSet(t) BY <1>2, <2>1 DEF ToSet
  <2>3. /\ \A i \in DOMAIN s : \E k \in DOMAIN u : u[k] = s[i]
        /\ \A i \in DOMAIN t : \E k \in DOMAIN u : u[k] = t[i]
    BY <1>1, <2>1
  <2>4. ToSet(u) = ToSet(s) \cup ToSet(t) BY <2>2, <2>3 DEF ToSet
  <2> QED BY <2>1, <2>4
<1>4. ASSUME Once(s), Once(t), ToSet(s) \cap ToSet(t) = {},
             NEW i \in DOMAIN (s \o t), NEW j \in DOMAIN (s \o t), (s \o t)[i] = (s \o t)[j]
      PROVE  i = j
  <2>1. \A k \in DOMAIN s, l \in DOMAIN t : s[k] # t[l] BY <1>4 DEF ToSet
  <2>2. CASE i \in DOMAIN s /\ (s \o t)[i] = s[i] BY <1>2, <1>4, <2>1, <2>2 DEF Once
  <2>3. CASE i - Len(s) \in DOMAIN t /\ i = Len(s) + (i - Len(s)) /\ (s \o t)[i] = t[i - Len(s)]
    BY <1>2, <1>4, <2>1, <2>3 DEF Once
  <2> QED BY <1>2, <2>2, <2>3
<1> QED BY <1>1, <1>3, <1>4 DEF Once

LEMMA RisingJoin ==
    ASSUME NEW s \in Seq(Int), NEW t \in Seq(Int), Rising(s), Rising(t), Older(s, t)
    PROVE  Rising(s \o t)
<1> SUFFICES ASSUME NEW i \in DOMAIN (s \o t), NEW j \in DOMAIN (s \o t), i < j
             PROVE  (s \o t)[i] < (s \o t)[j]
  BY DEF Rising
<1>1. ASSUME NEW k \in DOMAIN (s \o t)
      PROVE  \/ k \in DOMAIN s /\ (s \o t)[k] = s[k]
             \/ k > Len(s) /\ k - Len(s) \in DOMAIN t /\ (s \o t)[k] = t[k - Len(s)]
  OBVIOUS
<1>2. CASE i \in DOMAIN s /\ (s \o t)[i] = s[i]
  BY <1>1, <1>2 DEF Rising, Older
<1>3. CASE i > Len(s) /\ i - Len(s) \in DOMAIN t /\ (s \o t)[i] = t[i - Len(s)]
  <2>1. j > Len(s) /\ j - Len(s) \in DOMAIN t /\ (s \o t)[j] = t[j - Len(s)]
    BY <1>1, <1>3
  <2>2. i - Len(s) < j - Len(s) BY <1>3, <2>1
  <2> QED BY <1>3, <2>1, <2>2 DEF Rising
<1> QED BY <1>1, <1>2, <1>3

LEMMA OlderSets ==
    ASSUME NEW s, NEW t
    PROVE  Older(s, t) <=> \A x \in ToSet(s), y \in ToSet(t) : x < y
BY DEF Older, ToSet

LEMMA HeadAndTail ==
    ASSUME NEW S, NEW s \in Seq(S), s # <<>>, Once(s)
    PROVE  /\ Head(s) \in S /\ Tail(s) \in Seq(S)
           /\ Head(s) \in ToSet(s) /\ ToSet(Tail(s)) = ToSet(s) \ {Head(s)} /\ Once(Tail(s))
<1>1. /\ Head(s) \in S /\ Tail(s) \in Seq(S) /\ 1 \in DOMAIN s /\ Head(s) = s[1]
      /\ \A i \in DOMAIN Tail(s) : i + 1 \in DOMAIN s /\ i + 1 # 1 /\ Tail(s)[i] = s[i + 1]
      /\ \A j \in DOMAIN s : j # 1 => j - 1 \in DOMAIN Tail(s) /\ Tail(s)[j - 1] = s[j]
      /\ \A i \in DOMAIN Tail(s) : i \in Int
  OBVIOUS
<1>2. Head(s) \in ToSet(s) BY <1>1 DEF ToSet
<1>3. ToSet(Tail(s)) \subseteq ToSet(s) \ {Head(s)} BY <1>1 DEF ToSet, Once
<1>4. ToSet(s) \ {Head(s)} \subseteq ToSet(Tail(s))
  <2> SUFFICES ASSUME NEW j \in DOMAIN s, s[j] # Head(s) PROVE s[j] \in ToSet(Tail(s))
    BY DEF ToSet
  <2>1. j # 1 BY <1>1
  <2>2. j - 1 \in DOMAIN Tail(s) /\ Tail(s)[j - 1] = s[j] BY <1>1, <2>1
  <2> QED BY <2>2 DEF ToSet
<1>5. Once(Tail(s))
  <2> SUFFICES ASSUME NEW i \in DOMAIN Tail(s), NEW j \in DOMAIN Tail(s), Tail(s)[i] = Tail(s)[j]
               PROVE  i = j
    BY DEF Once
  <2>1. i + 1 = j + 1 BY <1>1 DEF Once
  <2> QED BY <1>1, <2>1
<1> QED BY <1>1, <1>2, <1>3, <1>4, <1>5

LEMMA AppendIsJoin ==
    ASSUME NEW S, NEW s \in Seq(S), NEW x \in S
    PROVE  Append(s, x) = s \o <<x>> /\ <<x>> \in Seq(S)
OBVIOUS

-----------------------------------------------------------------------------
(* Messages move from one place to another.                                  *)
LEMMA MovedSets ==
    ASSUME NEW P, NEW Q, NEW N, NEW a \in N, NEW b \in N, a # b, NEW X, X \subseteq P[a],
           Q[a] = P[a] \ X, Q[b] = P[b] \cup X, \A k \in N \ {a, b} : Q[k] = P[k],
           \A k, l \in N : k # l => P[k] \cap P[l] = {}
    PROVE  /\ UNION {Q[k] : k \in N} = UNION {P[k] : k \in N}
           /\ \A k, l \in N : k # l => Q[k] \cap Q[l] = {}
<1>1. \A x, k : k \in N /\ x \in Q[k] => \E l \in N : x \in P[l] OBVIOUS
<1>2. \A x, k : k \in N /\ x \in P[k] => \E l \in N : x \in Q[l]
  <2> SUFFICES ASSUME NEW x, NEW k \in N, x \in P[k] PROVE \E l \in N : x \in Q[l] OBVIOUS
  <2>1. CASE k = a /\ x \in X BY <2>1
  <2>2. CASE k = a /\ x \notin X BY <2>2
  <2>3. CASE k = b BY <2>3
  <2>4. CASE k \notin {a, b} BY <2>4
  <2> QED BY <2>1, <2>2, <2>3, <2>4
<1>3. ASSUME NEW k \in N, NEW l \in N, k # l, NEW x, x \in Q[k], x \in Q[l] PROVE FALSE
  <2>1. \A m \in N \ {a, b} : (m = k \/ m = l) => x \in P[m] BY <1>3
  <2>2. (k = a \/ l = a) => (x \in P[a] /\ x \notin X) BY <1>3
  <2>3. (k = b \/ l = b) => (x \in P[b] \/ (x \in P[a] /\ x \in X)) BY <1>3
  <2>4. CASE k = b BY <1>3, <2>1, <2>2, <2>3, <2>4
  <2>5. CASE l = b BY <1>3, <2>1, <2>2, <2>3, <2>5
  <2>6. CASE k # b /\ l # b
    <3>1. x \in P[k] /\ x \in P[l] BY <2>1, <2>2, <2>6
    <3> QED BY <1>3, <3>1
  <2> QED BY <2>4, <2>5, <2>6
<1> QED BY <1>1, <1>2, <1>3

LEMMA PlacesAre ==
    /\ DOMAIN Places = 1..7
    /\ Places[1] = Given /\ Places[2] = ToSet(hand) /\ Places[3] = ToSet(mailbox)
    /\ Places[4] = ToSet(queue) /\ Places[5] = ToSet(typing)
    /\ Places[6] = dropped /\ Places[7] = erased
BY DEF Places

LEMMA PlacesNext ==
    /\ (DOMAIN Places)' = 1..7
    /\ Places'[1] = Given' /\ Places'[2] = ToSet(hand') /\ Places'[3] = ToSet(mailbox')
    /\ Places'[4] = ToSet(queue') /\ Places'[5] = ToSet(typing')
    /\ Places'[6] = dropped' /\ Places'[7] = erased'
BY DEF Places

\* Each list holds its messages once, and no two turns share one.
ListsOnce ==
    /\ Once(hand) /\ Once(mailbox) /\ Once(queue) /\ Once(typing)
    /\ \A t \in DOMAIN history : Once(history[t])
    /\ \A t, u \in DOMAIN history : t # u => ToSet(history[t]) \cap ToSet(history[u]) = {}

\* The messages X go from place a to place b.
Moves(a, b, X) ==
    /\ {a, b} \subseteq 1..7 /\ a # b /\ X \subseteq Places[a]
    /\ Places'[a] = Places[a] \ X /\ Places'[b] = Places[b] \cup X
    /\ \A k \in (1..7) \ {a, b} : Places'[k] = Places[k]

LEMMA MoveStep ==
    ASSUME OnePlace, ListsOnce', typed' = typed, NEW a, NEW b, NEW X, Moves(a, b, X)
    PROVE  OnePlace'
<1>1. DOMAIN Places = 1..7 /\ (DOMAIN Places)' = 1..7 BY PlacesAre, PlacesNext
<1>2. \A k, l \in 1..7 : k # l => Places[k] \cap Places[l] = {} BY <1>1 DEF OnePlace
<1>3. PICK N, P, Q : N = 1..7 /\ P = Places /\ Q = Places' OBVIOUS
<1>4. /\ a \in N /\ b \in N /\ X \subseteq P[a] /\ Q[a] = P[a] \ X /\ Q[b] = P[b] \cup X
      /\ \A k \in N \ {a, b} : Q[k] = P[k]
      /\ \A k, l \in N : k # l => P[k] \cap P[l] = {}
  BY <1>2, <1>3 DEF Moves
<1>5. /\ UNION {Q[k] : k \in N} = UNION {P[k] : k \in N}
      /\ \A k, l \in N : k # l => Q[k] \cap Q[l] = {}
  BY <1>4, MovedSets DEF Moves
<1>6. UNION {P[k] : k \in N} = 1..typed BY <1>1, <1>3 DEF OnePlace
<1>7. (UNION {Places[k] : k \in DOMAIN Places} = 1..typed)' BY <1>1, <1>3, <1>5, <1>6
<1>8. (\A k, l \in DOMAIN Places : k # l => Places[k] \cap Places[l] = {})' BY <1>1, <1>3, <1>5
<1> QED BY <1>7, <1>8 DEF OnePlace, ListsOnce

LEMMA StayPut ==
    ASSUME OnePlace, UNCHANGED <<history, hand, mailbox, queue, typing, dropped, erased, typed>>
    PROVE  OnePlace'
BY DEF OnePlace, Places, Given

LEMMA Unmoved ==
    /\ history' = history => Places'[1] = Places[1]
    /\ hand' = hand => Places'[2] = Places[2]
    /\ mailbox' = mailbox => Places'[3] = Places[3]
    /\ queue' = queue => Places'[4] = Places[4]
    /\ typing' = typing => Places'[5] = Places[5]
    /\ dropped' = dropped => Places'[6] = Places[6]
    /\ erased' = erased => Places'[7] = Places[7]
BY PlacesAre, PlacesNext DEF Given

LEMMA Listed == ASSUME OnePlace PROVE ListsOnce
BY DEF OnePlace, ListsOnce

\* A message in the keyboard's hands is newer than any in another place.
LEMMA Newest ==
    ASSUME OnePlace, typed \in Nat, typing = <<typed>>
    PROVE  /\ \A x \in ToSet(hand) \cup ToSet(mailbox) : x < typed
           /\ \A t \in DOMAIN history : \A x \in ToSet(history[t]) : x < typed
<1>1. typed \in ToSet(typing) BY SingleList
<1>2. UNION {Places[k] : k \in 1..7} = 1..typed BY PlacesAre DEF OnePlace
<1>3. \A k, l \in 1..7 : k # l => Places[k] \cap Places[l] = {} BY PlacesAre DEF OnePlace
<1>4. ASSUME NEW k \in {1, 2, 3}, NEW x \in Places[k] PROVE x < typed
  <2>1. x \in 1..typed BY <1>2
  <2>2. x # typed BY <1>1, <1>3, PlacesAre
  <2> QED BY <2>1, <2>2
<1>5. \A t \in DOMAIN history : ToSet(history[t]) \subseteq Given BY DEF Given
<1> QED BY <1>4, <1>5, PlacesAre

-----------------------------------------------------------------------------
(* The REPL thread.                                                          *)
LEMMA StartTurnStep == ASSUME SteerInv, StartTurn PROVE SteerInv'
<1>0. ListsOnce /\ queue \in Seq(Msgs) /\ queue # <<>> /\ Once(queue) /\ hand = <<>>
  BY Listed DEF SteerInv, SteerTypeOK, HandsOK, ListsOnce, StartTurn, Emptied, ReplStates, Fetching
<1>1. /\ Head(queue) \in Msgs /\ Tail(queue) \in Seq(Msgs)
      /\ Head(queue) \in ToSet(queue) /\ ToSet(queue') = ToSet(queue) \ {Head(queue)}
      /\ Once(queue')
  BY <1>0, HeadAndTail DEF StartTurn
<1>2. hand' = <<Head(queue)>> /\ ToSet(hand') = {Head(queue)} /\ Once(hand') /\ ToSet(hand) = {}
  BY <1>0, SingleList, EmptyList DEF StartTurn
<1>3. SteerTypeOK' BY <1>1 DEF SteerInv, SteerTypeOK, StartTurn, box, ghosts, kbd, ReplStates
<1>4. OnePlace'
  <2>1. UNCHANGED <<history, mailbox, typing, dropped, erased, typed>>
    BY DEF StartTurn, box, ghosts, kbd
  <2>2. ListsOnce' BY <1>0, <1>1, <1>2, <2>1 DEF ListsOnce
  <2>3. Moves(4, 2, {Head(queue)})
    BY <1>1, <1>2, <2>1, PlacesAre, PlacesNext, Unmoved DEF Moves
  <2> QED BY <2>1, <2>2, <2>3, MoveStep DEF SteerInv
<1>5. HandsOK' /\ TurnOK'
  BY <1>2 DEF SteerInv, HandsOK, TurnOK, Emptied, Folding, Fetching, StartTurn, kbd
<1>6. OrderOK' BY DEF SteerInv, OrderOK, Folding, StartTurn, box, ghosts
<1> QED BY <1>3, <1>4, <1>5, <1>6 DEF SteerInv

LEMMA ArmStep == ASSUME SteerInv, Arm PROVE SteerInv'
<1>0. ListsOnce /\ mailbox \in Seq(Msgs) BY Listed DEF SteerInv, SteerTypeOK
<1>1. CASE ArmClear /\ UNCHANGED <<armed, pending>>
  <2>1. mailbox' = <<>> /\ ToSet(mailbox') = {} /\ Once(mailbox') /\ Rising(mailbox')
    BY <1>1, EmptyList DEF ArmClear
  <2>2. erased' = erased \cup ToSet(mailbox) /\ ToSet(mailbox) \subseteq Msgs
    <3>1. ToSet(mailbox) \subseteq Msgs BY <1>0 DEF ToSet
    <3> QED BY <1>1, <3>1 DEF ArmClear
  <2>3. UNCHANGED <<history, hand, queue, typing, dropped, typed>> BY DEF Arm, kbd
  <2>4. SteerTypeOK'
    <3>1. <<>> \in Seq(Msgs) /\ Len(<<>>) = 0 OBVIOUS
    <3>2. (UNION {dropped, erased, landed} \subseteq Msgs)' BY <2>2, <2>3 DEF SteerInv, SteerTypeOK, Arm
    <3>3. /\ UNCHANGED <<armed, pending, queue, token, wake, hand, site, pass, iters, stopped,
                          typing, typed, escs, kpc, history>>
          /\ rpc' = "zero"
      BY <1>1, <2>3 DEF Arm, ArmClear, kbd
    <3> QED BY <2>1, <3>1, <3>2, <3>3, SteerConstants DEF SteerInv, SteerTypeOK, ReplStates
  <2>5. OnePlace'
    <3>1. ListsOnce' BY <1>0, <2>1, <2>3 DEF ListsOnce
    <3>2. Moves(3, 7, ToSet(mailbox))
      BY <2>1, <2>2, <2>3, PlacesAre, PlacesNext, Unmoved DEF Moves
    <3> QED BY <2>3, <3>1, <3>2, MoveStep DEF SteerInv
  <2>6. HandsOK' /\ TurnOK'
    BY <1>1, <2>3 DEF SteerInv, HandsOK, TurnOK, Emptied, Folding, Fetching, Arm, ArmClear, kbd
  <2>7. Older(hand, <<>>) BY OlderSets, EmptyList
  <2>8. OrderOK'
    BY <1>1, <2>1, <2>3, <2>7 DEF SteerInv, OrderOK, Folding, Fetching, This, Arm, ArmClear
  <2> QED BY <2>4, <2>5, <2>6, <2>8 DEF SteerInv
<1>2. CASE ~(ArmClear /\ UNCHANGED <<armed, pending>>)
  <2>1. /\ UNCHANGED <<history, hand, mailbox, queue, typing, dropped, erased, typed>>
        /\ UNCHANGED <<token, wake, site, pass, iters, stopped, escs, kpc, landed>>
        /\ pending' \in {pending, 0}
        /\ \/ rpc = "zero" /\ rpc' = "open"
           \/ rpc = "open" /\ rpc' = "prep"
    BY <1>2 DEF Arm, kbd
  <2>2. SteerTypeOK'
    <3>1. armed' \in BOOLEAN BY <1>2, Zenon DEF SteerInv, SteerTypeOK, Arm
    <3>2. pending' \in 0..MAX_PENDING BY <2>1, SteerConstants DEF SteerInv, SteerTypeOK
    <3> QED BY <2>1, <3>1, <3>2 DEF SteerInv, SteerTypeOK, ReplStates
  <2>3. OnePlace' BY <2>1, StayPut DEF SteerInv
  <2>4. HandsOK' /\ TurnOK'
    BY <2>1 DEF SteerInv, HandsOK, TurnOK, Emptied, Folding, Fetching
  <2>5. OrderOK' BY <2>1 DEF SteerInv, OrderOK, Folding
  <2> QED BY <2>2, <2>3, <2>4, <2>5 DEF SteerInv
<1> QED BY <1>1, <1>2

LEMMA AbortPrepStep == ASSUME SteerInv, AbortPrep PROVE SteerInv'
<1>0. ListsOnce /\ hand \in Seq(Msgs) BY Listed DEF SteerInv, SteerTypeOK
<1>1. /\ rpc = "prep" /\ rpc' = "close" /\ hand' = <<>> /\ ToSet(hand') = {} /\ Once(hand')
      /\ dropped' = dropped \cup ToSet(hand) /\ ToSet(hand) \subseteq Msgs
      /\ UNCHANGED <<history, mailbox, queue, typing, erased, typed, kpc, iters>>
  <2>1. ToSet(hand) \subseteq Msgs BY <1>0 DEF ToSet
  <2> QED BY <2>1, EmptyList DEF AbortPrep, box, kbd
<1>2. SteerTypeOK'
  <2>1. <<>> \in Seq(Msgs) OBVIOUS
  <2>2. (UNION {dropped, erased, landed} \subseteq Msgs)' BY <1>1 DEF SteerInv, SteerTypeOK, AbortPrep
  <2>3. wake' \in BOOLEAN BY DEF SteerInv, SteerTypeOK, AbortPrep
  <2> QED BY <1>1, <2>1, <2>2, <2>3 DEF SteerInv, SteerTypeOK, AbortPrep, box, kbd, ReplStates
<1>3. OnePlace'
  <2>1. ListsOnce' BY <1>0, <1>1 DEF ListsOnce
  <2>2. Moves(2, 6, ToSet(hand)) BY <1>1, PlacesAre, PlacesNext, Unmoved DEF Moves
  <2> QED BY <1>1, <2>1, <2>2, MoveStep DEF SteerInv
<1>4. HandsOK' /\ TurnOK'
  BY <1>1 DEF SteerInv, HandsOK, TurnOK, Emptied, Folding, Fetching
<1>5. OrderOK' BY <1>1 DEF SteerInv, OrderOK, Folding
<1> QED BY <1>2, <1>3, <1>4, <1>5 DEF SteerInv

\* A turn of the past, left as it was.
Earlier(t) == t \in DOMAIN history /\ history'[t] = history[t]

\* A turn begins with a message of its own.
LEMMA NewTurn ==
    ASSUME history \in Seq(Seq(Msgs)), hand \in Seq(Msgs), history' = Append(history, hand)
    PROVE  /\ history' \in Seq(Seq(Msgs)) /\ history' # <<>> /\ This' = hand
           /\ Given' = Given \cup ToSet(hand)
           /\ \A t \in DOMAIN history' : history'[t] = hand \/ Earlier(t)
           /\ \A t, u \in DOMAIN history' : t # u => Earlier(t) \/ Earlier(u)
<1>1. /\ history' \in Seq(Seq(Msgs)) /\ Len(history) \in Nat /\ Len(history') = Len(history) + 1
      /\ DOMAIN history = 1..Len(history) /\ DOMAIN history' = 1..Len(history')
      /\ history'[Len(history')] = hand
      /\ \A t \in DOMAIN history : history'[t] = history[t]
  OBVIOUS
<1>2. \A t \in DOMAIN history' : t \in DOMAIN history \/ t = Len(history') BY <1>1
<1>3. \A t \in DOMAIN history : t \in DOMAIN history' BY <1>1
<1>4. Len(history') \in DOMAIN history' BY <1>1
<1>5. Given' = Given \cup ToSet(hand)
  <2>1. \A x \in Given' : x \in Given \cup ToSet(hand) BY <1>1, <1>2 DEF Given
  <2>2. \A x \in Given \cup ToSet(hand) : x \in Given' BY <1>1, <1>3, <1>4 DEF Given
  <2> QED BY <2>1, <2>2
<1>6. history' # <<>> BY <1>1
<1>7. This' = hand BY <1>1 DEF This
<1>8. \A t \in DOMAIN history' : history'[t] = hand \/ Earlier(t) BY <1>1, <1>2 DEF Earlier
<1>9. \A t, u \in DOMAIN history' : t # u => Earlier(t) \/ Earlier(u) BY <1>1, <1>2 DEF Earlier
<1> QED BY <1>1, <1>5, <1>6, <1>7, <1>8, <1>9

LEMMA SeatStep == ASSUME SteerInv, Seat PROVE SteerInv'
<1>0. /\ ListsOnce /\ hand \in Seq(Msgs) /\ Len(hand) = 1 /\ history \in Seq(Seq(Msgs))
      /\ rpc = "prep" /\ rpc' = "seated" /\ history' = Append(history, hand) /\ hand' = <<>>
      /\ UNCHANGED <<mailbox, queue, typing, erased, dropped, typed, kpc, iters>>
  BY Listed DEF SteerInv, SteerTypeOK, HandsOK, Fetching, Seat, box, kbd
<1>1. ToSet(hand') = {} /\ Once(hand') BY <1>0, EmptyList
<1>2. /\ history' \in Seq(Seq(Msgs)) /\ history' # <<>> /\ This' = hand
      /\ Given' = Given \cup ToSet(hand)
      /\ \A t \in DOMAIN history' : history'[t] = hand \/ Earlier(t)
      /\ \A t, u \in DOMAIN history' : t # u => Earlier(t) \/ Earlier(u)
  BY <1>0, NewTurn
<1>3. SteerTypeOK'
  <2>1. <<>> \in Seq(Msgs) OBVIOUS
  <2> QED BY <1>0, <1>2, <2>1 DEF SteerInv, SteerTypeOK, Seat, box, kbd, ReplStates
<1>4. OnePlace'
  <2>1. Given \cap ToSet(hand) = {} BY PlacesAre DEF SteerInv, OnePlace
  <2>2. \A t \in DOMAIN history : ToSet(history[t]) \cap ToSet(hand) = {} BY <2>1 DEF Given
  <2>3. ASSUME NEW t \in DOMAIN history', NEW u \in DOMAIN history', t # u
        PROVE  ToSet(history'[t]) \cap ToSet(history'[u]) = {}
    BY <1>0, <1>2, <2>2, <2>3 DEF ListsOnce, Earlier
  <2>4. ListsOnce' BY <1>0, <1>1, <1>2, <2>3 DEF ListsOnce, Earlier
  <2>5. Moves(2, 1, ToSet(hand)) BY <1>0, <1>1, <1>2, PlacesAre, PlacesNext, Unmoved DEF Moves
  <2> QED BY <1>0, <2>4, <2>5, MoveStep DEF SteerInv
<1>5. HandsOK' /\ TurnOK'
  BY <1>0, <1>2 DEF SteerInv, HandsOK, TurnOK, Emptied, Folding, Fetching
<1>6. OrderOK'
  <2>1. Rising(hand) BY <1>0 DEF Rising
  <2>2. Older(This', mailbox) BY <1>0, <1>2 DEF SteerInv, OrderOK
  <2> QED BY <1>0, <1>2, <2>1, <2>2 DEF SteerInv, OrderOK, Folding, Earlier
<1> QED BY <1>3, <1>4, <1>5, <1>6 DEF SteerInv

\* A step that moves no message.
LEMMA StillStep ==
    ASSUME SteerInv, SteerTypeOK', HandsOK', TurnOK',
           UNCHANGED <<history, hand, mailbox, queue, typing, dropped, erased, typed>>,
           rpc' \in {"zero", "open", "prep"} => rpc \in {"zero", "open", "prep"},
           rpc' \in Folding \cup {"seated"} => rpc \in Folding \cup {"seated"},
           rpc' = "reset" => rpc = "reset"
    PROVE  SteerInv'
<1>1. OnePlace' BY StayPut DEF SteerInv
<1>2. OrderOK' BY DEF SteerInv, OrderOK, This
<1> QED BY <1>1, <1>2 DEF SteerInv

LEMMA LaunchStep == ASSUME SteerInv, Launch PROVE SteerInv'
<1>1. /\ UNCHANGED <<history, hand, mailbox, queue, typing, dropped, erased, typed>>
      /\ UNCHANGED <<kpc, iters>> /\ rpc = "seated" /\ rpc' = "top"
  BY DEF Launch, box, kbd, ghosts
<1>2. SteerTypeOK' BY DEF SteerInv, SteerTypeOK, Launch, box, kbd, ghosts, ReplStates
<1>3. HandsOK' /\ TurnOK' BY <1>1 DEF SteerInv, HandsOK, TurnOK, Emptied, Folding, Fetching, ReplStates
<1> QED BY <1>1, <1>2, <1>3, StillStep DEF Folding

LEMMA LoopTopStep == ASSUME SteerInv, LoopTop PROVE SteerInv'
<1>1. /\ UNCHANGED <<history, hand, mailbox, queue, typing, dropped, erased, typed>>
      /\ UNCHANGED <<kpc, iters>> /\ rpc = "top" /\ rpc' \in {"ended", "look"}
      /\ rpc' = "look" => iters < MaxIters
  BY SteerConstants DEF SteerInv, SteerTypeOK, LoopTop, EndsAt, box, kbd, ghosts
<1>2. SteerTypeOK' BY DEF SteerInv, SteerTypeOK, LoopTop, EndsAt, box, kbd, ghosts, ReplStates
<1>3. HandsOK' /\ TurnOK' BY <1>1 DEF SteerInv, HandsOK, TurnOK, Emptied, Folding, Fetching, ReplStates
<1> QED BY <1>1, <1>2, <1>3, StillStep DEF Folding

\* Where drain() leaves the turn, a step counted or the turn over.
LEMMA DrainedTo ==
    ASSUME SteerTypeOK, iters < MaxIters, Drained
    PROVE  /\ rpc' \in {"model", "top", "ended"} /\ iters' \in 0..MaxIters /\ stopped' \in BOOLEAN
           /\ rpc' = "model" => iters' = iters
<1>1. /\ rpc' \in {"model", "top", "ended"} /\ stopped' \in BOOLEAN
      /\ iters' = iters \/ iters' = iters + 1
      /\ rpc' = "model" => iters' = iters
  BY DEF SteerTypeOK, Drained, EndsAt
<1>2. iters' \in 0..MaxIters BY <1>1, SteerConstants DEF SteerTypeOK
<1> QED BY <1>1, <1>2

LEMMA LookStep == ASSUME SteerInv, Look PROVE SteerInv'
<1>1. /\ UNCHANGED <<history, hand, mailbox, queue, typing, dropped, erased, typed>>
      /\ UNCHANGED <<box, token, wake, site, pass, kbd, landed>> /\ rpc = "look"
  BY DEF Look, box, kbd, ghosts
<1>2. iters < MaxIters /\ SteerTypeOK /\ hand = <<>> /\ history # <<>>
  BY <1>1 DEF SteerInv, TurnOK, HandsOK, Emptied, Folding, Fetching, ReplStates
<1>3. /\ rpc' \in {"model", "top", "ended", "take"}
      /\ iters' \in 0..MaxIters /\ stopped' \in BOOLEAN
      /\ rpc' \in {"model", "take"} => iters' = iters
  <2>1. CASE pending = 0 BY <1>2, <2>1, DrainedTo DEF Look
  <2>2. CASE pending # 0 BY <1>2, <2>2 DEF Look, SteerTypeOK
  <2> QED BY <2>1, <2>2
<1>4. SteerTypeOK' BY <1>1, <1>3 DEF SteerInv, SteerTypeOK, box, kbd, ReplStates
<1>5. HandsOK' /\ TurnOK'
  BY <1>1, <1>2, <1>3 DEF SteerInv, HandsOK, TurnOK, Emptied, Folding, Fetching, ReplStates, kbd
<1> QED BY <1>1, <1>3, <1>4, <1>5, StillStep DEF Folding

LEMMA TakeStep == ASSUME SteerInv, Take PROVE SteerInv'
<1>1. /\ UNCHANGED <<history, queue, typing, dropped, erased, typed, kpc, iters>>
      /\ rpc = "take" /\ rpc' = "reset" /\ hand' = mailbox /\ mailbox' = <<>>
  BY DEF Take, kbd, ghosts
<1>2. ListsOnce /\ hand = <<>> /\ mailbox \in Seq(Msgs) /\ <<>> \in Seq(Msgs) /\ Len(<<>>) = 0
  BY <1>1, Listed DEF SteerInv, SteerTypeOK, HandsOK, Emptied, Fetching, ReplStates
<1>3. ToSet(hand) = {} /\ ToSet(mailbox') = {} /\ Once(mailbox') /\ Rising(mailbox')
  BY <1>1, <1>2, EmptyList
<1>4. SteerTypeOK' BY <1>1, <1>2, SteerConstants DEF SteerInv, SteerTypeOK, Take, kbd, ghosts, ReplStates
<1>5. OnePlace'
  <2>1. ListsOnce' BY <1>1, <1>2, <1>3 DEF ListsOnce
  <2>2. Moves(3, 2, ToSet(mailbox)) BY <1>1, <1>3, PlacesAre, PlacesNext, Unmoved DEF Moves
  <2> QED BY <1>1, <2>1, <2>2, MoveStep DEF SteerInv
<1>6. HandsOK' /\ TurnOK'
  BY <1>1 DEF SteerInv, HandsOK, TurnOK, Emptied, Folding, Fetching
<1>7. OrderOK'
  <2>1. Older(hand', mailbox') /\ Older(This, mailbox') BY <1>1, <1>3, OlderSets
  <2>2. Rising(hand') /\ Older(This, hand') BY <1>1 DEF SteerInv, OrderOK, Folding
  <2>3. This' = This BY <1>1 DEF This
  <2> QED BY <1>1, <1>3, <2>1, <2>2, <2>3 DEF SteerInv, OrderOK, Folding
<1> QED BY <1>4, <1>5, <1>6, <1>7 DEF SteerInv

\* A steer is folded into the running turn.
LEMMA FoldedTurn ==
    ASSUME history \in Seq(Seq(Msgs)), history # <<>>, hand \in Seq(Msgs),
           history' = [history EXCEPT ![Len(history)] = @ \o hand]
    PROVE  /\ history' \in Seq(Seq(Msgs)) /\ history' # <<>> /\ DOMAIN history' = DOMAIN history
           /\ Len(history) \in DOMAIN history /\ This' = This \o hand /\ This \in Seq(Msgs)
           /\ history'[Len(history)] = This \o hand
           /\ \A t \in DOMAIN history : t # Len(history) => history'[t] = history[t]
           /\ Given' = Given \cup ToSet(hand)
<1>1. /\ Len(history) \in DOMAIN history /\ This \in Seq(Msgs)
      /\ DOMAIN history = 1..Len(history) /\ Len(history) \in Nat
  BY DEF This
<1>2. This \o hand \in Seq(Msgs) /\ ToSet(This \o hand) = ToSet(This) \cup ToSet(hand)
  BY <1>1, JoinLists
<1>3. history' = [history EXCEPT ![Len(history)] = This \o hand] BY DEF This
<1>4. /\ history' \in Seq(Seq(Msgs)) /\ Len(history') = Len(history)
      /\ DOMAIN history' = DOMAIN history
      /\ history'[Len(history)] = This \o hand
      /\ \A t \in DOMAIN history : t # Len(history) => history'[t] = history[t]
  <2>1. PICK n, w : n = Len(history) /\ w = This \o hand OBVIOUS
  <2>2. n \in 1..Len(history) /\ w \in Seq(Msgs) /\ history' = [history EXCEPT ![n] = w]
    BY <1>1, <1>2, <1>3, <2>1
  <2>3. /\ history' \in Seq(Seq(Msgs)) /\ Len(history') = Len(history)
        /\ DOMAIN history' = DOMAIN history /\ history'[n] = w
        /\ \A t \in DOMAIN history : t # n => history'[t] = history[t]
    <3>1. DOMAIN history' = DOMAIN history BY <2>2
    <3>2. n \in DOMAIN history BY <1>1, <2>2
    <3>3. history'[n] = w /\ \A t \in DOMAIN history : t # n => history'[t] = history[t]
      BY <2>2, <3>2
    <3> DEFINE S == Seq(Msgs)
    <3>5. history \in Seq(S) /\ w \in S BY <2>2
    <3>6. [history EXCEPT ![n] = w] \in Seq(S) /\ Len([history EXCEPT ![n] = w]) = Len(history)
      <4> HIDE DEF S
      <4> QED BY <2>2, <3>5, ExceptSeq
    <3> QED BY <2>2, <3>1, <3>3, <3>6
  <2> QED BY <2>1, <2>3
<1>5. This' = This \o hand /\ history' # <<>> BY <1>1, <1>4 DEF This
<1>6. Given' = Given \cup ToSet(hand)
  <2>1. \A t \in DOMAIN history' : ToSet(history'[t]) \subseteq Given \cup ToSet(hand)
    <3>1. ToSet(This) \subseteq Given BY <1>1 DEF Given, This
    <3>2. \A t \in DOMAIN history : ToSet(history[t]) \subseteq Given BY DEF Given
    <3> QED BY <1>2, <1>4, <3>1, <3>2
  <2>2. \A x \in Given : x \in Given' BY <1>1, <1>2, <1>4 DEF Given, This
  <2>3. \A x \in ToSet(hand) : x \in Given' BY <1>1, <1>2, <1>4 DEF Given
  <2>4. Given' \subseteq Given \cup ToSet(hand) BY <2>1 DEF Given
  <2> QED BY <2>2, <2>3, <2>4
<1> QED BY <1>1, <1>4, <1>5, <1>6

LEMMA InjectStep == ASSUME SteerInv, Inject PROVE SteerInv'
<1>1. /\ UNCHANGED <<mailbox, queue, typing, dropped, erased, typed, kpc>>
      /\ UNCHANGED <<armed, token, wake, site, pass, escs, landed>>
      /\ rpc = "reset" /\ hand' = <<>> /\ pending' = 0
      /\ history' = [history EXCEPT ![Len(history)] = @ \o hand]
  BY DEF Inject, kbd
<1>2. /\ ListsOnce /\ SteerTypeOK /\ hand \in Seq(Msgs) /\ <<>> \in Seq(Msgs)
      /\ history \in Seq(Seq(Msgs)) /\ history # <<>> /\ iters < MaxIters
  BY <1>1, Listed DEF SteerInv, SteerTypeOK, TurnOK, Folding
<1>3. /\ rpc' \in {"model", "top", "ended"} /\ iters' \in 0..MaxIters /\ stopped' \in BOOLEAN
      /\ rpc' = "model" => iters' = iters
  BY <1>2, DrainedTo DEF Inject
<1>4. /\ history' \in Seq(Seq(Msgs)) /\ history' # <<>> /\ DOMAIN history' = DOMAIN history
      /\ Len(history) \in DOMAIN history /\ This' = This \o hand /\ This \in Seq(Msgs)
      /\ history'[Len(history)] = This \o hand
      /\ \A t \in DOMAIN history : t # Len(history) => history'[t] = history[t]
      /\ Given' = Given \cup ToSet(hand)
  BY <1>1, <1>2, FoldedTurn
<1>5. ToSet(hand') = {} /\ Once(hand') BY <1>1, EmptyList
<1>6. SteerTypeOK'
  <2>1. pending' \in 0..MAX_PENDING BY <1>1, SteerConstants
  <2> QED BY <1>1, <1>2, <1>3, <1>4, <2>1 DEF SteerTypeOK, ReplStates
<1>7. OnePlace'
  <2>1. Given \cap ToSet(hand) = {} BY PlacesAre DEF SteerInv, OnePlace
  <2>2. \A t \in DOMAIN history : ToSet(history[t]) \cap ToSet(hand) = {} BY <2>1 DEF Given
  <2>3. This = history[Len(history)] BY DEF This
  <2>4. ToSet(This \o hand) = ToSet(This) \cup ToSet(hand) /\ Once(This \o hand)
    <3>1. Once(This) /\ Once(hand) /\ ToSet(This) \cap ToSet(hand) = {}
      BY <1>2, <1>4, <2>2, <2>3 DEF ListsOnce
    <3> QED BY <1>2, <1>4, <3>1, JoinLists
  <2>5. \A t \in DOMAIN history' : Once(history'[t]) BY <1>2, <1>4, <2>4 DEF ListsOnce
  <2>6. ASSUME NEW t \in DOMAIN history', NEW u \in DOMAIN history', t # u
        PROVE  ToSet(history'[t]) \cap ToSet(history'[u]) = {}
    <3>1. CASE t = Len(history) BY <1>2, <1>4, <2>2, <2>3, <2>4, <2>6, <3>1 DEF ListsOnce
    <3>2. CASE u = Len(history) BY <1>2, <1>4, <2>2, <2>3, <2>4, <2>6, <3>2 DEF ListsOnce
    <3>3. CASE t # Len(history) /\ u # Len(history) BY <1>2, <1>4, <2>6, <3>3 DEF ListsOnce
    <3> QED BY <3>1, <3>2, <3>3
  <2>7. ListsOnce' BY <1>1, <1>2, <1>5, <2>5, <2>6 DEF ListsOnce
  <2>8. Moves(2, 1, ToSet(hand)) BY <1>1, <1>4, <1>5, PlacesAre, PlacesNext, Unmoved DEF Moves
  <2> QED BY <1>1, <2>7, <2>8, MoveStep DEF SteerInv
<1>8. HandsOK' /\ TurnOK'
  BY <1>1, <1>2, <1>3, <1>4 DEF SteerInv, HandsOK, TurnOK, Emptied, Folding, Fetching, ReplStates
<1>9. OrderOK'
  <2>1. /\ Older(This, mailbox) /\ Older(hand, mailbox) /\ Rising(hand) /\ Older(This, hand)
        /\ \A t \in DOMAIN history : Rising(history[t])
    BY <1>1 DEF SteerInv, OrderOK, Folding
  <2>2. Rising(This \o hand)
    <3>1. Rising(This) BY <1>4, <2>1 DEF This
    <3>2. This \in Seq(Int) /\ hand \in Seq(Int)
      <4>1. Msgs \subseteq Int BY DEF Msgs
      <4> QED BY <1>2, <1>4, <4>1, SeqMonotonic
    <3> QED BY <2>1, <3>1, <3>2, RisingJoin
  <2>3. Older(This \o hand, mailbox)
    <3>1. ToSet(This \o hand) = ToSet(This) \cup ToSet(hand) BY <1>2, <1>4, JoinLists
    <3> QED BY <2>1, <3>1, OlderSets
  <2>4. \A t \in DOMAIN history' : Rising(history'[t]) BY <1>4, <2>1, <2>2
  <2> QED BY <1>1, <1>3, <1>4, <2>3, <2>4 DEF SteerInv, OrderOK, Folding
<1> QED BY <1>6, <1>7, <1>8, <1>9 DEF SteerInv

LEMMA ModelStep == ASSUME SteerInv, Model PROVE SteerInv'
<1>1. /\ UNCHANGED <<history, hand, mailbox, queue, typing, dropped, erased, typed>>
      /\ UNCHANGED <<box, token, pass, kbd, landed>> /\ rpc = "model"
  BY DEF Model, box, kbd, ghosts
<1>2. iters < MaxIters BY <1>1 DEF SteerInv, TurnOK, Folding
<1>3. /\ rpc' \in {"top", "look", "ended"} /\ iters' \in 0..MaxIters
      /\ rpc' = "look" => iters' = iters
  <2>1. /\ rpc' \in {"top", "look", "ended"}
        /\ iters' = iters \/ iters' = iters + 1
        /\ rpc' = "look" => iters' = iters
    BY DEF Model, EndsAt
  <2> QED BY <1>2, <2>1, SteerConstants DEF SteerInv, SteerTypeOK
<1>4. stopped' \in BOOLEAN /\ wake' \in BOOLEAN /\ site' \in {"top", "final"}
  BY DEF SteerInv, SteerTypeOK, Model, EndsAt
<1>5. SteerTypeOK' BY <1>1, <1>3, <1>4 DEF SteerInv, SteerTypeOK, box, kbd, ReplStates
<1>6. HandsOK' /\ TurnOK'
  BY <1>1, <1>2, <1>3 DEF SteerInv, HandsOK, TurnOK, Emptied, Folding, Fetching, ReplStates, kbd
<1> QED BY <1>1, <1>3, <1>5, <1>6, StillStep DEF Folding

LEMMA EndTurnStep == ASSUME SteerInv, EndTurn PROVE SteerInv'
<1>1. /\ UNCHANGED <<history, hand, mailbox, queue, typing, dropped, erased, typed>>
      /\ UNCHANGED <<kpc, iters>> /\ rpc = "ended" /\ rpc' = "close"
  BY DEF EndTurn, box, kbd, ghosts
<1>2. SteerTypeOK' BY DEF SteerInv, SteerTypeOK, EndTurn, box, kbd, ghosts, ReplStates
<1>3. HandsOK' /\ TurnOK' BY <1>1 DEF SteerInv, HandsOK, TurnOK, Emptied, Folding, Fetching, ReplStates
<1> QED BY <1>1, <1>2, <1>3, StillStep DEF Folding

LEMMA ReleaseStep == ASSUME SteerInv, Release PROVE SteerInv'
<1>1. /\ UNCHANGED <<history, hand, mailbox, queue, typing, dropped, erased, typed>>
      /\ UNCHANGED kpc /\ rpc = "release" /\ rpc' = "idle"
  BY DEF Release, box, kbd, ghosts
<1>2. SteerTypeOK'
  <2>1. /\ UNCHANGED <<armed, pending, wake, landed, escs>>
        /\ token' = "none" /\ pass' = 1 /\ iters' = 0 /\ site' = "top" /\ stopped' \in BOOLEAN
    BY DEF Release, box, kbd, ghosts
  <2>2. iters' \in 0..MaxIters BY <2>1, SteerConstants
  <2> QED BY <1>1, <2>1, <2>2 DEF SteerInv, SteerTypeOK, ReplStates
<1>3. HandsOK' /\ TurnOK' BY <1>1 DEF SteerInv, HandsOK, TurnOK, Emptied, Folding, Fetching, ReplStates
<1> QED BY <1>1, <1>2, <1>3, StillStep DEF Folding

LEMMA GatherStep ==
    ASSUME SteerInv, Disarm, rpc = "collect", rpc' = "settle", Gather PROVE SteerInv'
<1>1. /\ UNCHANGED <<history, queue, typing, dropped, erased, typed, kpc, iters>>
      /\ UNCHANGED <<armed, pending, token, wake, site, pass, stopped, escs, landed>>
      /\ hand' = mailbox /\ mailbox' = <<>>
  BY DEF Disarm, Gather, kbd, ghosts
<1>2. ListsOnce /\ hand = <<>> /\ mailbox \in Seq(Msgs) /\ <<>> \in Seq(Msgs) /\ Len(<<>>) = 0
  BY <1>1, Listed DEF SteerInv, SteerTypeOK, HandsOK, Emptied, Fetching, ReplStates
<1>3. ToSet(hand) = {} /\ ToSet(mailbox') = {} /\ Once(mailbox') /\ Rising(mailbox')
  BY <1>1, <1>2, EmptyList
<1>4. SteerTypeOK' BY <1>1, <1>2, SteerConstants DEF SteerInv, SteerTypeOK, ReplStates
<1>5. OnePlace'
  <2>1. ListsOnce' BY <1>1, <1>2, <1>3 DEF ListsOnce
  <2>2. Moves(3, 2, ToSet(mailbox)) BY <1>1, <1>3, PlacesAre, PlacesNext, Unmoved DEF Moves
  <2> QED BY <1>1, <2>1, <2>2, MoveStep DEF SteerInv
<1>6. HandsOK' /\ TurnOK'
  BY <1>1 DEF SteerInv, HandsOK, TurnOK, Emptied, Folding, Fetching
<1>7. OrderOK' BY <1>1, <1>3 DEF SteerInv, OrderOK, Folding
<1> QED BY <1>4, <1>5, <1>6, <1>7 DEF SteerInv

LEMMA DisarmStep == ASSUME SteerInv, Disarm PROVE SteerInv'
<1>1. CASE rpc = "collect" /\ rpc' = "settle" /\ Gather BY <1>1, GatherStep
<1>2. CASE ~(rpc = "collect" /\ rpc' = "settle" /\ Gather)
  <2>1. /\ UNCHANGED <<history, hand, mailbox, queue, typing, dropped, erased, typed>>
        /\ UNCHANGED <<token, wake, site, pass, iters, stopped, escs, kpc, landed>>
        /\ pending' \in {pending, 0}
        /\ \/ rpc = "close" /\ rpc' = "collect"
           \/ rpc = "settle" /\ rpc' = "inject"
    BY <1>2 DEF Disarm, kbd, ghosts
  <2>2. SteerTypeOK'
    <3>1. armed' \in BOOLEAN BY <1>2, Zenon DEF SteerInv, SteerTypeOK, Disarm
    <3>2. pending' \in 0..MAX_PENDING BY <2>1, SteerConstants DEF SteerInv, SteerTypeOK
    <3> QED BY <2>1, <3>1, <3>2 DEF SteerInv, SteerTypeOK, ReplStates
  <2>3. HandsOK' /\ TurnOK'
    BY <2>1 DEF SteerInv, HandsOK, TurnOK, Emptied, Folding, Fetching, ReplStates
  <2> QED BY <2>1, <2>2, <2>3, StillStep DEF Folding
<1> QED BY <1>1, <1>2

LEMMA RequeueStep == ASSUME SteerInv, Requeue PROVE SteerInv'
<1>1. CASE hand # <<>>
  <2>1. /\ UNCHANGED <<history, mailbox, typing, dropped, erased, typed, kpc, iters>>
        /\ UNCHANGED <<armed, pending, rpc, token, wake, site, pass, stopped, escs, landed>>
        /\ rpc = "inject" /\ hand' = Tail(hand) /\ queue' = Append(queue, Head(hand))
    BY <1>1 DEF Requeue, box, kbd, ghosts
  <2>2. ListsOnce /\ hand \in Seq(Msgs) /\ queue \in Seq(Msgs) /\ Once(hand) /\ Once(queue)
    BY Listed DEF SteerInv, SteerTypeOK, ListsOnce
  <2>3. /\ Head(hand) \in Msgs /\ hand' \in Seq(Msgs) /\ Head(hand) \in ToSet(hand)
        /\ ToSet(hand') = ToSet(hand) \ {Head(hand)} /\ Once(hand')
    BY <1>1, <2>1, <2>2, HeadAndTail
  <2>4. queue' = queue \o <<Head(hand)>> /\ <<Head(hand)>> \in Seq(Msgs)
    BY <2>1, <2>2, <2>3, AppendIsJoin
  <2>5. ToSet(queue) \cap {Head(hand)} = {}
    <3>1. ToSet(hand) \cap ToSet(queue) = {} BY PlacesAre DEF SteerInv, OnePlace
    <3> QED BY <2>3, <3>1
  <2>6. queue' \in Seq(Msgs) /\ ToSet(queue') = ToSet(queue) \cup {Head(hand)} /\ Once(queue')
    <3>1. PICK w : w = <<Head(hand)>> OBVIOUS
    <3>2. ToSet(w) = {Head(hand)} /\ Once(w) BY <3>1, SingleList
    <3>3. w \in Seq(Msgs) /\ queue' = queue \o w BY <2>4, <3>1
    <3> QED BY <2>2, <2>5, <3>2, <3>3, JoinLists
  <2>7. SteerTypeOK' BY <2>1, <2>3, <2>6 DEF SteerInv, SteerTypeOK
  <2>8. OnePlace'
    <3>1. ListsOnce' BY <2>1, <2>2, <2>3, <2>6 DEF ListsOnce
    <3>2. Moves(2, 4, {Head(hand)})
      BY <2>1, <2>3, <2>6, PlacesAre, PlacesNext, Unmoved DEF Moves
    <3> QED BY <2>1, <3>1, <3>2, MoveStep DEF SteerInv
  <2>9. HandsOK' /\ TurnOK' /\ OrderOK'
    BY <2>1 DEF SteerInv, HandsOK, TurnOK, OrderOK, Emptied, Folding, Fetching
  <2> QED BY <2>7, <2>8, <2>9 DEF SteerInv
<1>2. CASE hand = <<>>
  <2>1. /\ UNCHANGED <<history, hand, mailbox, queue, typing, dropped, erased, typed>>
        /\ UNCHANGED <<armed, pending, token, wake, site, iters, stopped, escs, kpc, landed>>
        /\ rpc' \in {"release", "flush", "close"} /\ pass' = 2
    BY <1>2 DEF Requeue, box, kbd, ghosts
  <2>2. SteerTypeOK' BY <2>1 DEF SteerInv, SteerTypeOK, ReplStates
  <2>3. HandsOK' /\ TurnOK'
    BY <1>2, <2>1 DEF SteerInv, HandsOK, TurnOK, Emptied, Folding, Fetching, ReplStates
  <2> QED BY <2>1, <2>2, <2>3, StillStep DEF Folding
<1> QED BY <1>1, <1>2

LEMMA FlushStep == ASSUME SteerInv, Flush PROVE SteerInv'
<1>1. CASE queue # <<>>
  <2>1. /\ UNCHANGED <<history, hand, mailbox, typing, erased, typed, kpc, iters>>
        /\ UNCHANGED <<armed, pending, rpc, token, wake, site, pass, stopped, escs, landed>>
        /\ rpc = "flush" /\ queue' = Tail(queue) /\ dropped' = dropped \cup {Head(queue)}
    BY <1>1 DEF Flush, box, kbd
  <2>2. ListsOnce /\ queue \in Seq(Msgs) /\ Once(queue)
    BY Listed DEF SteerInv, SteerTypeOK, ListsOnce
  <2>3. /\ Head(queue) \in Msgs /\ queue' \in Seq(Msgs) /\ Head(queue) \in ToSet(queue)
        /\ ToSet(queue') = ToSet(queue) \ {Head(queue)} /\ Once(queue')
    BY <1>1, <2>1, <2>2, HeadAndTail
  <2>4. (UNION {dropped, erased, landed} \subseteq Msgs)' BY <2>1, <2>3 DEF SteerInv, SteerTypeOK
  <2>5. SteerTypeOK' BY <2>1, <2>3, <2>4 DEF SteerInv, SteerTypeOK
  <2>6. OnePlace'
    <3>1. ListsOnce' BY <2>1, <2>2, <2>3 DEF ListsOnce
    <3>2. Moves(4, 6, {Head(queue)})
      BY <2>1, <2>3, PlacesAre, PlacesNext, Unmoved DEF Moves
    <3> QED BY <2>1, <3>1, <3>2, MoveStep DEF SteerInv
  <2>7. HandsOK' /\ TurnOK' /\ OrderOK'
    BY <2>1 DEF SteerInv, HandsOK, TurnOK, OrderOK, Emptied, Folding, Fetching
  <2> QED BY <2>5, <2>6, <2>7 DEF SteerInv
<1>2. CASE queue = <<>>
  <2>1. /\ UNCHANGED <<history, hand, mailbox, queue, typing, dropped, erased, typed>>
        /\ UNCHANGED <<armed, pending, token, wake, site, pass, iters, stopped, escs, kpc, landed>>
        /\ rpc = "flush" /\ rpc' = "close"
    BY <1>2 DEF Flush, box, kbd
  <2>2. SteerTypeOK' BY <2>1 DEF SteerInv, SteerTypeOK, ReplStates
  <2>3. HandsOK' /\ TurnOK'
    BY <2>1 DEF SteerInv, HandsOK, TurnOK, Emptied, Folding, Fetching, ReplStates
  <2> QED BY <2>1, <2>2, <2>3, StillStep DEF Folding
<1> QED BY <1>1, <1>2

-----------------------------------------------------------------------------
(* The keyboard thread.                                                      *)
\* A message is typed: it is in the keyboard's hands and nowhere else.
LEMMA NewMessage ==
    ASSUME OnePlace, typed \in Nat, typing = <<>>, typing' = <<typed + 1>>, typed' = typed + 1,
           UNCHANGED <<history, hand, mailbox, queue, dropped, erased>>
    PROVE  OnePlace'
<1>1. ToSet(typing) = {} /\ ToSet(typing') = {typed + 1} /\ Once(typing')
  BY EmptyList, SingleList
<1>2. PICK N, P, Q : N = 1..7 /\ P = Places /\ Q = Places' OBVIOUS
<1>3. /\ 5 \in N /\ P[5] = {} /\ Q[5] = {typed + 1} /\ \A k \in N \ {5} : Q[k] = P[k]
  BY <1>1, <1>2, PlacesAre, PlacesNext, Unmoved
<1>4. /\ UNION {P[k] : k \in N} = 1..typed
      /\ \A k, l \in N : k # l => P[k] \cap P[l] = {}
  BY <1>2, PlacesAre DEF OnePlace
<1>5. UNION {Q[k] : k \in N} = 1..(typed + 1)
  <2>1. 1..(typed + 1) = (1..typed) \cup {typed + 1} OBVIOUS
  <2>2. \A k \in N : Q[k] \subseteq (1..typed) \cup {typed + 1} BY <1>3, <1>4
  <2>3. ASSUME NEW x \in 1..typed PROVE \E k \in N : x \in Q[k]
    <3>1. PICK k \in N : x \in P[k] BY <1>4
    <3> QED BY <1>3, <3>1
  <2> QED BY <1>3, <2>1, <2>2, <2>3
<1>6. \A k, l \in N : k # l => Q[k] \cap Q[l] = {}
  <2>1. \A k \in N \ {5} : typed + 1 \notin Q[k]
    <3>1. \A k \in N : P[k] \subseteq 1..typed BY <1>4
    <3>2. typed + 1 \notin 1..typed OBVIOUS
    <3> QED BY <1>3, <3>1, <3>2
  <2> QED BY <1>3, <1>4, <2>1
<1>7. (UNION {Places[k] : k \in DOMAIN Places} = 1..typed)' BY <1>2, <1>5, PlacesNext
<1>8. (\A k, l \in DOMAIN Places : k # l => Places[k] \cap Places[l] = {})'
  BY <1>2, <1>6, PlacesNext
<1>9. ListsOnce' BY <1>1, Listed DEF ListsOnce
<1> QED BY <1>7, <1>8, <1>9 DEF OnePlace, ListsOnce

LEMMA TypeStep ==
    ASSUME SteerInv, NEW goal \in {"boxing", "queueing"}, Type(goal) PROVE SteerInv'
<1>1. /\ UNCHANGED <<history, hand, mailbox, queue, dropped, erased>>
      /\ UNCHANGED <<armed, pending, rpc, token, wake, site, pass, iters, stopped, escs, landed>>
      /\ kpc = "ready" /\ kpc' = goal /\ typed < MaxMsgs
      /\ typed' = typed + 1 /\ typing' = <<typed + 1>>
  BY DEF Type, box, repl, ghosts
<1>2. typing = <<>> /\ typed \in 0..MaxMsgs BY <1>1 DEF SteerInv, SteerTypeOK, HandsOK
<1>3. typed \in Nat /\ typed + 1 \in Msgs /\ typed + 1 \in 0..MaxMsgs
  BY <1>1, <1>2, SteerConstants DEF Msgs
<1>4. SteerTypeOK'
  <2>1. typing' \in Seq(Msgs) BY <1>1, <1>3
  <2>2. kpc' \in KbdStates BY <1>1 DEF KbdStates
  <2> QED BY <1>1, <1>3, <2>1, <2>2 DEF SteerInv, SteerTypeOK
<1>5. OnePlace' BY <1>1, <1>2, <1>3, NewMessage DEF SteerInv
<1>6. HandsOK' /\ TurnOK' /\ OrderOK'
  BY <1>1 DEF SteerInv, HandsOK, TurnOK, OrderOK, This
<1> QED BY <1>4, <1>5, <1>6 DEF SteerInv

LEMMA PushStep == ASSUME SteerInv, Push PROVE SteerInv'
<1>1. CASE Full
  <2>1. /\ UNCHANGED <<history, hand, mailbox, queue, typing, dropped, erased, typed>>
        /\ UNCHANGED <<armed, pending, rpc, token, wake, site, pass, iters, stopped, escs, landed>>
        /\ kpc = "boxing" /\ kpc' = "queueing"
    BY <1>1 DEF Push, repl
  <2>2. SteerTypeOK' BY <2>1 DEF SteerInv, SteerTypeOK, KbdStates
  <2>3. HandsOK' /\ TurnOK' BY <2>1 DEF SteerInv, HandsOK, TurnOK
  <2> QED BY <2>1, <2>2, <2>3, StillStep
<1>2. CASE ~Full
  <2>1. /\ UNCHANGED <<history, hand, queue, dropped, erased, typed>>
        /\ UNCHANGED <<armed, rpc, token, wake, site, pass, iters, stopped, escs>>
        /\ kpc = "boxing" /\ kpc' = "ready" /\ typing' = <<>> /\ mailbox' = mailbox \o typing
        /\ pending' = Len(mailbox') /\ landed' \subseteq landed \cup ToSet(typing)
        /\ Len(mailbox) < MAX_PENDING
    <3>1. Len(mailbox) < MAX_PENDING BY <1>2, SteerConstants DEF Full, SteerInv, SteerTypeOK
    <3>2. landed' \subseteq landed \cup ToSet(typing) BY <1>2 DEF Push
    <3> QED BY <1>2, <3>1, <3>2 DEF Push, repl
  <2>2. /\ ListsOnce /\ mailbox \in Seq(Msgs) /\ Once(mailbox) /\ typing = <<typed>>
        /\ typing \in Seq(Msgs) /\ typed \in Nat
    BY <2>1, Listed, SteerConstants DEF SteerInv, SteerTypeOK, HandsOK, ListsOnce
  <2>3. ToSet(typing) = {typed} /\ Once(typing) /\ Rising(typing) /\ Len(typing) = 1
    BY <2>2, SingleList
  <2>4. ToSet(typing') = {} /\ Once(typing') BY <2>1, EmptyList
  <2>5. /\ \A x \in ToSet(hand) \cup ToSet(mailbox) : x < typed
        /\ \A t \in DOMAIN history : \A x \in ToSet(history[t]) : x < typed
    BY <2>2, Newest DEF SteerInv
  <2>6. /\ mailbox' \in Seq(Msgs) /\ ToSet(mailbox') = ToSet(mailbox) \cup {typed}
        /\ Once(mailbox') /\ Len(mailbox') = Len(mailbox) + 1
    <3>1. ToSet(mailbox) \cap ToSet(typing) = {} BY <2>2, <2>3, <2>5
    <3>2. Len(mailbox \o typing) = Len(mailbox) + 1 BY <2>2, <2>3
    <3>3. /\ mailbox \o typing \in Seq(Msgs) /\ Once(mailbox \o typing)
          /\ ToSet(mailbox \o typing) = ToSet(mailbox) \cup ToSet(typing)
      <4>1. PICK s, t : s = mailbox /\ t = typing OBVIOUS
      <4>2. s \in Seq(Msgs) /\ t \in Seq(Msgs) /\ Once(s) /\ Once(t) /\ ToSet(s) \cap ToSet(t) = {}
        BY <2>2, <2>3, <3>1, <4>1
      <4> QED BY <4>1, <4>2, JoinLists
    <3> QED BY <2>1, <2>3, <3>2, <3>3
  <2>7. SteerTypeOK'
    <3>1. pending' \in 0..MAX_PENDING /\ Len(mailbox') <= MAX_PENDING
      BY <2>1, <2>2, <2>6, SteerConstants
    <3>2. (UNION {dropped, erased, landed} \subseteq Msgs)'
      <4>1. ToSet(typing) \subseteq Msgs BY <2>2 DEF ToSet
      <4> QED BY <2>1, <4>1 DEF SteerInv, SteerTypeOK
    <3>3. typing' \in Seq(Msgs) BY <2>1
    <3> QED BY <2>1, <2>6, <3>1, <3>2, <3>3 DEF SteerInv, SteerTypeOK, KbdStates
  <2>8. OnePlace'
    <3>1. ListsOnce' BY <2>1, <2>2, <2>4, <2>6 DEF ListsOnce
    <3>2. Moves(5, 3, {typed})
      BY <2>1, <2>3, <2>4, <2>6, PlacesAre, PlacesNext, Unmoved DEF Moves
    <3> QED BY <2>1, <3>1, <3>2, MoveStep DEF SteerInv
  <2>9. HandsOK' /\ TurnOK' BY <2>1 DEF SteerInv, HandsOK, TurnOK
  <2>10. OrderOK'
    <3>1. Rising(mailbox')
      <4>1. mailbox \in Seq(Int) /\ typing \in Seq(Int)
        <5>1. Msgs \subseteq Int BY DEF Msgs
        <5> QED BY <2>2, <5>1, SeqMonotonic
      <4>2. Older(mailbox, typing) BY <2>3, <2>5, OlderSets
      <4>3. Rising(mailbox) BY DEF SteerInv, OrderOK
      <4> QED BY <2>1, <2>3, <4>1, <4>2, <4>3, RisingJoin
    <3>2. ASSUME NEW s, Older(s, mailbox), \A x \in ToSet(s) : x < typed PROVE Older(s, mailbox')
      BY <2>6, <3>2, OlderSets
    <3>3. rpc \in {"zero", "open", "prep", "reset"} => Older(hand, mailbox')
      BY <2>5, <3>2 DEF SteerInv, OrderOK
    <3>4. rpc \in Folding \cup {"seated"} => Older(This, mailbox')
      <4>1. SUFFICES ASSUME rpc \in Folding \cup {"seated"} PROVE Older(This, mailbox')
        OBVIOUS
      <4>2. history # <<>> /\ history \in Seq(Seq(Msgs)) /\ Older(This, mailbox)
        BY <4>1 DEF SteerInv, SteerTypeOK, TurnOK, OrderOK
      <4>3. Len(history) \in DOMAIN history BY <4>2
      <4>4. \A x \in ToSet(This) : x < typed BY <2>5, <4>3 DEF This
      <4> QED BY <3>2, <4>2, <4>4
    <3> QED BY <2>1, <3>1, <3>3, <3>4 DEF SteerInv, OrderOK, This
  <2> QED BY <2>7, <2>8, <2>9, <2>10 DEF SteerInv
<1> QED BY <1>1, <1>2

LEMMA EnqueueStep == ASSUME SteerInv, Enqueue PROVE SteerInv'
<1>1. /\ UNCHANGED <<history, hand, mailbox, dropped, erased, typed>>
      /\ UNCHANGED <<armed, pending, rpc, token, wake, site, pass, iters, stopped, escs, landed>>
      /\ kpc = "queueing" /\ kpc' = "ready" /\ typing' = <<>> /\ queue' = queue \o typing
  BY DEF Enqueue, box, repl, ghosts
<1>2. /\ ListsOnce /\ queue \in Seq(Msgs) /\ Once(queue) /\ typing \in Seq(Msgs) /\ Once(typing)
  BY Listed DEF SteerInv, SteerTypeOK, ListsOnce
<1>3. ToSet(typing') = {} /\ Once(typing') BY <1>1, EmptyList
<1>4. queue' \in Seq(Msgs) /\ ToSet(queue') = ToSet(queue) \cup ToSet(typing) /\ Once(queue')
  <2>1. ToSet(queue) \cap ToSet(typing) = {} BY PlacesAre DEF SteerInv, OnePlace
  <2> QED BY <1>1, <1>2, <2>1, JoinLists
<1>5. SteerTypeOK'
  <2>1. typing' \in Seq(Msgs) BY <1>1
  <2> QED BY <1>1, <1>4, <2>1 DEF SteerInv, SteerTypeOK, KbdStates
<1>6. OnePlace'
  <2>1. ListsOnce' BY <1>1, <1>2, <1>3, <1>4 DEF ListsOnce
  <2>2. Moves(5, 4, ToSet(typing)) BY <1>1, <1>3, <1>4, PlacesAre, PlacesNext, Unmoved DEF Moves
  <2> QED BY <1>1, <2>1, <2>2, MoveStep DEF SteerInv
<1>7. HandsOK' /\ TurnOK' /\ OrderOK'
  BY <1>1 DEF SteerInv, HandsOK, TurnOK, OrderOK, This
<1> QED BY <1>5, <1>6, <1>7 DEF SteerInv

LEMMA EscStep == ASSUME SteerInv, PressEsc \/ RequestCancel \/ Wake PROVE SteerInv'
<1>1. /\ UNCHANGED <<history, hand, mailbox, queue, typing, dropped, erased, typed>>
      /\ UNCHANGED <<armed, pending, rpc, site, pass, iters, stopped, landed>>
      /\ kpc \notin {"boxing", "queueing"} /\ kpc' \in {"cancel", "wake", "wipe"}
  BY DEF PressEsc, RequestCancel, Wake, box, repl, ghosts
<1>2. /\ token' \in {"none", "live", "cancelled"} /\ wake' \in BOOLEAN
      /\ escs' \in 0..MaxEscs
  <2>1. token' \in {"none", "live", "cancelled"} /\ wake' \in BOOLEAN
    BY DEF SteerInv, SteerTypeOK, PressEsc, RequestCancel, Wake
  <2>2. escs' = escs \/ (escs < MaxEscs /\ escs' = escs + 1)
    BY DEF PressEsc, RequestCancel, Wake
  <2>3. escs' \in 0..MaxEscs BY <2>2, SteerConstants DEF SteerInv, SteerTypeOK
  <2> QED BY <2>1, <2>3
<1>3. SteerTypeOK' BY <1>1, <1>2 DEF SteerInv, SteerTypeOK, KbdStates
<1>4. HandsOK' /\ TurnOK' BY <1>1 DEF SteerInv, HandsOK, TurnOK
<1> QED BY <1>1, <1>3, <1>4, StillStep

LEMMA ClearSteersStep == ASSUME SteerInv, ClearSteers PROVE SteerInv'
<1>1. CASE kpc = "wipe"
  <2>1. /\ UNCHANGED <<history, hand, queue, typing, erased, typed>>
        /\ UNCHANGED <<armed, pending, rpc, token, wake, site, pass, iters, stopped, escs, landed>>
        /\ kpc' = "zero" /\ mailbox' = <<>> /\ dropped' = dropped \cup ToSet(mailbox)
    BY <1>1 DEF ClearSteers, repl
  <2>2. ListsOnce /\ mailbox \in Seq(Msgs) BY Listed DEF SteerInv, SteerTypeOK
  <2>3. ToSet(mailbox') = {} /\ Once(mailbox') /\ Rising(mailbox') BY <2>1, EmptyList
  <2>4. SteerTypeOK'
    <3>1. <<>> \in Seq(Msgs) /\ Len(<<>>) = 0 OBVIOUS
    <3>2. ToSet(mailbox) \subseteq Msgs BY <2>2 DEF ToSet
    <3>3. (UNION {dropped, erased, landed} \subseteq Msgs)' BY <2>1, <3>2 DEF SteerInv, SteerTypeOK
    <3> QED BY <2>1, <3>1, <3>3, SteerConstants DEF SteerInv, SteerTypeOK, KbdStates
  <2>5. OnePlace'
    <3>1. ListsOnce' BY <2>1, <2>2, <2>3 DEF ListsOnce
    <3>2. Moves(3, 6, ToSet(mailbox))
      BY <2>1, <2>3, PlacesAre, PlacesNext, Unmoved DEF Moves
    <3> QED BY <2>1, <3>1, <3>2, MoveStep DEF SteerInv
  <2>6. HandsOK' /\ TurnOK' BY <1>1, <2>1 DEF SteerInv, HandsOK, TurnOK
  <2>7. OrderOK'
    <3>1. Older(hand, mailbox') /\ Older(This, mailbox') BY <2>3, OlderSets
    <3> QED BY <2>1, <2>3, <3>1 DEF SteerInv, OrderOK, This
  <2> QED BY <2>4, <2>5, <2>6, <2>7 DEF SteerInv
<1>2. CASE kpc # "wipe"
  <2>1. /\ UNCHANGED <<history, hand, mailbox, queue, typing, dropped, erased, typed>>
        /\ UNCHANGED <<armed, rpc, token, wake, site, pass, iters, stopped, escs, landed>>
        /\ kpc = "zero" /\ kpc' = "ready" /\ pending' = 0
    BY <1>2 DEF ClearSteers, repl
  <2>2. SteerTypeOK'
    <3>1. pending' \in 0..MAX_PENDING BY <2>1, SteerConstants
    <3> QED BY <2>1, <3>1 DEF SteerInv, SteerTypeOK, KbdStates
  <2>3. HandsOK' /\ TurnOK' BY <2>1 DEF SteerInv, HandsOK, TurnOK
  <2> QED BY <2>1, <2>2, <2>3, StillStep
<1> QED BY <1>1, <1>2

-----------------------------------------------------------------------------
LEMMA SteerStarts == SteerInit => SteerInv
<1> SUFFICES ASSUME SteerInit PROVE SteerInv OBVIOUS
<1>1. <<>> \in Seq(Msgs) /\ <<>> \in Seq(Seq(Msgs)) /\ Len(<<>>) = 0 /\ DOMAIN <<>> = {}
  <2>1. DOMAIN <<>> = 1..0 /\ Len(<<>>) = 0 BY EmptySeq, LenProperties
  <2>2. DOMAIN <<>> = {} BY <2>1
  <2> QED BY <2>1, <2>2
<1>2. ToSet(<<>>) = {} /\ Once(<<>>) /\ Rising(<<>>) BY EmptyList
<1>3. SteerTypeOK
  <2>1. 0 \in 0..MAX_PENDING /\ 0 \in 0..MaxIters /\ 0 \in 0..MaxMsgs /\ 0 \in 0..MaxEscs
    BY SteerConstants
  <2>2. UNION {dropped, erased, landed} \subseteq Msgs BY DEF SteerInit
  <2>3. Len(mailbox) <= MAX_PENDING BY <1>1, SteerConstants DEF SteerInit
  <2>4. armed \in BOOLEAN /\ wake \in BOOLEAN /\ stopped \in BOOLEAN BY DEF SteerInit
  <2> QED BY <1>1, <2>1, <2>2, <2>3, <2>4 DEF SteerInit, SteerTypeOK, ReplStates, KbdStates
<1>4. OnePlace
  <2>1. Given = {} BY <1>1 DEF SteerInit, Given
  <2>2. \A k \in 1..7 : Places[k] = {} BY <1>2, <2>1, PlacesAre DEF SteerInit
  <2>3. UNION {Places[k] : k \in 1..7} = {} BY <2>2
  <2>4. 1..typed = {} BY DEF SteerInit
  <2> QED BY <1>1, <1>2, <2>2, <2>3, <2>4, PlacesAre DEF SteerInit, OnePlace
<1>5. HandsOK /\ TurnOK BY DEF SteerInit, HandsOK, TurnOK, Emptied, Folding, Fetching
<1>6. OrderOK BY <1>1, <1>2 DEF SteerInit, OrderOK, Folding
<1> QED BY <1>3, <1>4, <1>5, <1>6 DEF SteerInv

LEMMA SteerSteps == SteerInv /\ [SteerNext]_steerVars => SteerInv'
<1> SUFFICES ASSUME SteerInv, [SteerNext]_steerVars PROVE SteerInv' OBVIOUS
<1>1. CASE Repl
  BY <1>1, StartTurnStep, ArmStep, AbortPrepStep, SeatStep, LaunchStep, LoopTopStep, LookStep,
     TakeStep, InjectStep, ModelStep, EndTurnStep, DisarmStep, RequeueStep, FlushStep,
     ReleaseStep DEF Repl
<1>2. CASE Keyboard
  BY <1>2, PushStep, EnqueueStep, EscStep, ClearSteersStep DEF Keyboard
<1>3. CASE Key
  <2>1. (IF armed THEN "boxing" ELSE "queueing") \in {"boxing", "queueing"} OBVIOUS
  <2> QED BY <1>3, <2>1, TypeStep, EscStep DEF Key, Send, Offer
<1>4. CASE Rest \/ UNCHANGED steerVars
  <2>1. /\ UNCHANGED <<history, hand, mailbox, queue, typing, dropped, erased, typed>>
        /\ UNCHANGED <<armed, pending, token, wake, site, pass, iters, stopped, escs, landed>>
        /\ UNCHANGED <<rpc, kpc>>
    BY <1>4 DEF Rest, steerVars, box, repl, kbd, ghosts
  <2>2. SteerTypeOK' BY <2>1 DEF SteerInv, SteerTypeOK
  <2>3. HandsOK' /\ TurnOK' BY <2>1 DEF SteerInv, HandsOK, TurnOK
  <2> QED BY <2>1, <2>2, <2>3, StillStep
<1> QED BY <1>1, <1>2, <1>3, <1>4 DEF SteerNext

LEMMA SteerAlways == SteerSpec => []SteerInv
<1> QED BY SteerStarts, SteerSteps, PTL DEF SteerSpec

(* Every message typed is in one place, once, in every reachable state: what *)
(* drain, disarm, clear, push and the queue do with it neither loses nor     *)
(* doubles it, and the mailbox keeps within MAX_PENDING.                     *)
THEOREM SteersConserved == SteerSpec => []Conserved
<1>1. SteerInv => Conserved BY DEF SteerInv, Conserved
<1> QED BY <1>1, SteerAlways, PTL

(* Within a turn the model reads messages in the order they were typed, the  *)
(* message that started it before every steer folded into it.                *)
THEOREM SteersInTurnOrder == SteerSpec => []InTurnOrder
<1>1. SteerInv => InTurnOrder BY DEF SteerInv, OrderOK, Rising, InTurnOrder
<1> QED BY <1>1, SteerAlways, PTL

=============================================================================
