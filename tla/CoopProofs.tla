------------------------------ MODULE CoopProofs ------------------------------
(***************************************************************************)
(* Proofs about the cooperation ledger, for any sessions, coordinators,     *)
(* files and any number of turns: no edit is forgotten, overlaps are seen,  *)
(* a reconstructed file holds its session's sealed edits and no others, and *)
(* a commit is what was reviewed.                                           *)
(***************************************************************************)
EXTENDS Coop, FiniteSetTheorems, WellFoundedInduction, TLAPS

\* A set of numbers has a least one: the intervals below its members are finite,
\* and inclusion of finite sets is well-founded.
LEMMA LeastExists ==
    ASSUME NEW L \in SUBSET Nat, L # {}
    PROVE  \E x \in L : \A y \in L : x <= y
<1> DEFINE Below == {1..x : x \in L}
<1>1. Below \subseteq FiniteSubsetsOf(Nat)
  <2>1. \A x \in L : 1..x \in SUBSET Nat /\ IsFiniteSet(1..x) BY FS_Interval
  <2> QED BY <2>1 DEF FiniteSubsetsOf
<1>2. Below # {} OBVIOUS
<1>3. PICK U \in Below : \A V \in Below : ~(<<V, U>> \in StrictSubsetOrdering(Nat))
  <2>1. IsWellFoundedOn(StrictSubsetOrdering(Nat), FiniteSubsetsOf(Nat))
    BY FS_StrictSubsetOrderingWellFounded
  <2> HIDE DEF Below
  <2> QED BY <1>1, <1>2, <2>1, WFMin
<1>4. PICK x \in L : U = 1..x OBVIOUS
<1>5. ASSUME NEW y \in L, y < x PROVE FALSE
  <2>1. 1..y \in Below /\ 1..y \subseteq 1..x /\ x \notin 1..y /\ x \in 1..x BY <1>5
  <2>2. 1..y # 1..x BY <2>1
  <2>3. 1..y \in SUBSET Nat /\ 1..x \in SUBSET Nat OBVIOUS
  <2>4. <<1..y, 1..x>> \in StrictSubsetOrdering(Nat)
    BY <2>1, <2>2, <2>3 DEF StrictSubsetOrdering
  <2> QED BY <1>3, <1>4, <2>1, <2>4
<1> QED BY <1>5

---------------------------------------------------------------------------
\* The tree at the end of a turn is the one of the next boundary, or today's.
LEMMA AfterIsNext ==
    ASSUME TypeOK, NEW b \in Bases
    PROVE  \/ (\A x \in Boundaries : x <= b) /\ After(b) = tree
           \/ \E x \in Boundaries : /\ x > b /\ After(b) = ckpts[x]
                                    /\ \A y \in Boundaries : y > b => x <= y
<1> DEFINE later == {x \in Boundaries : x > b}
<1>1. Boundaries \subseteq Nat /\ Boundaries \subseteq Bases
  BY DEF Boundaries, TypeOK, Bases
<1>2. CASE later = {} BY <1>1, <1>2 DEF After
<1>3. CASE later # {}
  <2> DEFINE x == CHOOSE x \in later : \A y \in later : x <= y
  <2>1. \E z \in later : \A y \in later : z <= y BY <1>1, <1>3, LeastExists
  <2>2. x \in later /\ \A y \in later : x <= y BY <2>1
  <2>3. After(b) = ckpts[x] BY <1>3 DEF After
  <2> QED BY <2>2, <2>3
<1> QED BY <1>2, <1>3

LEMMA SplitType == ASSUME TypeOK, NEW s \in Sessions, NEW p \in Paths
                   PROVE  Split(s, p) \in SUBSET Edits
<1>1. \A b \in man[s].files[p] : b \in Bases BY DEF TypeOK
<1>2. Boundaries \subseteq Bases BY DEF Boundaries, TypeOK, Bases
<1>3. \A b \in Bases : ckpts[b] \in Content BY DEF TypeOK, Bases
<1>4. \A b \in Bases : After(b) \in Content
  <2>1. tree \in Content BY DEF TypeOK
  <2> QED BY <1>2, <1>3, <2>1, AfterIsNext
<1>5. \A b \in man[s].files[p] : After(b)[p] \ ckpts[b][p] \in SUBSET Edits
  BY <1>1, <1>3, <1>4 DEF Content
<1>6. head[p] \in SUBSET Edits BY DEF TypeOK, Content
<1> QED BY <1>5, <1>6 DEF Split

---------------------------------------------------------------------------
(* The inductive invariant, part by part.                                  *)

\* The base of a turn under way is in the manifest, that of an open seal in the
\* seal; who writes has the lease, and the last checkpoint is its own.
TurnInv == Len(ckpts) <= MaxTurns /\ \A s \in Sessions :
    /\ pc[s] \in {"write", "seal"} => man[s].base # 0
    /\ pc[s] \in {"idle", "wait", "measure", "claim"} => man[s].base = 0
    /\ Open(s) => turn[s].base # 0
    /\ pc[s] = "write" => lease = s /\ man[s].base = Len(ckpts)

\* A checkpoint is the tree without the edits of later turns.
TreeInv == \A p \in Paths :
    /\ \A e \in tree[p] : e[2] <= Len(ckpts)
    /\ \A k \in Bases : ckpts[k][p] = {e \in tree[p] : e[2] < k}

\* The turns that belong to a session.
TurnsOf(s) == (UNION {man[s].files[p] : p \in Paths}) \cup ({man[s].base, turn[s].base} \ {0})

\* A turn belongs to one session, which made the edits named for it.
OwnInv ==
    /\ \A a, b \in Sessions : a # b => TurnsOf(a) \cap TurnsOf(b) = {}
    /\ \A p \in Paths : \A e \in tree[p], s \in Sessions : e[2] \in TurnsOf(s) => e[1] = s
    /\ \A s \in Sessions, p \in Paths : man[s].base \notin man[s].files[p]

\* The second half of Accounted.
Listed == \A p \in Paths : \A e \in tree[p] :
    \/ e[2] \in man[e[1]].files[p] \cup {man[e[1]].base}
    \/ Open(e[1]) /\ e[2] = turn[e[1]].base
    \/ e[1] \in torn

\* What a seal has still to claim.
ChangedInv == \A s \in Sessions :
    turn[s].changed # {} => pc[s] = "claim" \/ (pc[s] = "gone" /\ s \in torn)

\* Until the first commit, who has claimed a path owns it or is known to share it,
\* and an owner is known to share it with whoever claimed it before.
ClaimInv == committed = {} => \A p \in Paths, a \in Sessions : Claimed(a, p) =>
    /\ owners[p] = a \/ (p \in Overlapping(a) /\ owners[p] # Nobody)
    /\ \A b \in Sessions : owners[p] = b /\ b # a => p \in Overlapping(b)

\* A coordinator that is at work has a session to commit.
PlanInv == \A c \in Coords : coord[c].pc # "idle" => coord[c].of \in Sessions

\* Who stages or commits has the lease, and commits the index it has reviewed.
StageInv == ~loose => \A c \in Coords :
    /\ coord[c].pc \in {"split", "commit"} => lease = c
    /\ coord[c].pc = "commit" => index = coord[c].seen

---------------------------------------------------------------------------
LEMMA CoopTypeInit == Init => TypeOK
<1> SUFFICES ASSUME Init PROVE TypeOK OBVIOUS
<1>1. [p \in Paths |-> {}] \in Content BY DEF Content
<1>2. {tree, index, head} \subseteq Content /\ ckpts \in Seq(Content)
  BY <1>1 DEF Init
<1>3. turn \in [Sessions -> [base : {0} \cup Bases, changed : SUBSET Paths]]
  BY DEF Init, NoTurn
<1>4. man \in [Sessions -> [ready : BOOLEAN, base : {0} \cup Bases,
                            files : [Paths -> SUBSET Bases]]]
  <2>1. Fresh \in [ready : BOOLEAN, base : {0} \cup Bases, files : [Paths -> SUBSET Bases]]
    BY DEF Fresh
  <2> QED BY <2>1 DEF Init
<1>5. coord \in [Coords -> [pc : {"idle", "add", "split", "review", "commit"},
                            of : Sessions \cup {Nobody}, paths : SUBSET Paths,
                            shared : SUBSET Paths, seen : Content]]
  BY <1>1 DEF Init, NoPlan
<1> QED BY <1>2, <1>3, <1>4, <1>5 DEF Init, TypeOK, Steps

\* The manifests and seals of a session, as the step of one session leaves them.
Manifests == [ready : BOOLEAN, base : {0} \cup Bases, files : [Paths -> SUBSET Bases]]
Seals     == [base : {0} \cup Bases, changed : SUBSET Paths]

\* What a seal writes: the manifest as it was, or merged, ready or not.
LEMMA MergeType ==
    ASSUME NEW m \in Manifests, NEW b \in Bases, NEW changed \in SUBSET Paths
    PROVE  /\ Merge(m, b, changed) \in Manifests
           /\ Merge(m, b, changed).base = m.base
           /\ \A p \in Paths : Merge(m, b, changed).files[p] =
                 IF p \in changed THEN m.files[p] \cup {b} ELSE m.files[p]
<1>1. DEFINE new == [p \in Paths |-> IF p \in changed THEN m.files[p] \cup {b}
                                     ELSE m.files[p]]
<1>2. new \in [Paths -> SUBSET Bases] BY DEF Manifests
<1>3. Merge(m, b, changed) = [m EXCEPT !.files = new] BY DEF Merge
<1> QED BY <1>2, <1>3 DEF Manifests

LEMMA SettledType ==
    ASSUME NEW m \in Manifests, NEW n \in Settled(m)
    PROVE  n \in Manifests /\ n.base = m.base /\ n.files = m.files
BY DEF Settled, Manifests

LEMMA SealTypes == ASSUME TypeOK, NEW s \in Sessions
                   PROVE  man[s] \in Manifests /\ turn[s] \in Seals
BY DEF TypeOK, Manifests, Seals

\* Every step of a session but the first write leaves the checkpoints alone and
\* changes nothing of the other sessions.
LEMMA SealStepType ==
    ASSUME TypeOK, NEW s \in Sessions, NEW m \in Manifests, NEW t \in Seals, NEW at \in Steps,
           man' = [man EXCEPT ![s] = m], turn' = [turn EXCEPT ![s] = t],
           pc' = [pc EXCEPT ![s] = at], files' = files
    PROVE  /\ pc' \in [Sessions -> Steps] /\ {tree, index, head}' \subseteq Content
           /\ ckpts' \in Seq(Content)
           /\ turn' \in [Sessions -> [base : {0} \cup Bases', changed : SUBSET Paths]]
           /\ man' \in [Sessions -> [ready : BOOLEAN, base : {0} \cup Bases',
                                     files : [Paths -> SUBSET Bases']]]
BY DEF TypeOK, Manifests, Seals, Bases, files

ChangedIn(s) == {p \in Paths : tree[p] # ckpts[turn[s].base][p]}

\* What the measurement leaves: the paths in the manifest, and a seal to claim them.
Measured(s, m, at) ==
    /\ man' = [man EXCEPT ![s] = m] /\ m.base = man[s].base
    /\ \A p \in Paths : m.files[p] =
          IF p \in ChangedIn(s) THEN man[s].files[p] \cup {turn[s].base}
          ELSE man[s].files[p]
    /\ pc' = [pc EXCEPT ![s] = at]
    /\ at = "idle" => ChangedIn(s) = {} /\ turn' = [turn EXCEPT ![s] = NoTurn]
    /\ at = "claim" => turn' = [turn EXCEPT ![s].changed = ChangedIn(s)]

LEMMA MeasureEffect ==
    ASSUME TypeOK, TurnInv, NEW s \in Sessions, Measure(s)
    PROVE  /\ turn[s].base \in Bases /\ pc[s] = "measure" /\ files' = files
           /\ \E m \in Manifests, at \in {"idle", "claim"} : Measured(s, m, at)
           /\ lease' = lease \/ (lease = s /\ lease' = Nobody)
           /\ UNCHANGED <<shared, coord, torn, missed, loose>>
<1> DEFINE b == turn[s].base
           m == Merge(man[s], b, ChangedIn(s))
<1>1. pc[s] = "measure" /\ files' = files /\ UNCHANGED <<shared, coord, torn, missed, loose>>
  BY DEF Measure, files
<1>2. b \in Bases BY <1>1, SealTypes DEF TurnInv, Open, Seals
<1>3. m \in Manifests /\ m.base = man[s].base
      /\ \A p \in Paths : m.files[p] =
            IF p \in ChangedIn(s) THEN man[s].files[p] \cup {b} ELSE man[s].files[p]
  <2>1. ChangedIn(s) \in SUBSET Paths BY DEF ChangedIn
  <2>2. man[s] \in Manifests BY SealTypes
  <2>3. m \in Manifests /\ m.base = man[s].base BY <1>2, <2>1, <2>2, MergeType
  <2>4. ASSUME NEW p \in Paths
        PROVE  m.files[p] = IF p \in ChangedIn(s) THEN man[s].files[p] \cup {b}
                            ELSE man[s].files[p]
    <3>1. ASSUME NEW n \in Manifests, NEW d \in Bases, NEW changed \in SUBSET Paths
          PROVE  Merge(n, d, changed).files[p] =
                    IF p \in changed THEN n.files[p] \cup {d} ELSE n.files[p]
      BY MergeType, SMTT(30)
    <3> HIDE DEF b
    <3> QED BY <1>2, <2>1, <2>2, <3>1, ZenonT(60)
  <2> HIDE DEF m
  <2> QED BY <2>3, <2>4
<1>4. CASE ChangedIn(s) = {}
  <2>1. /\ \E n \in Settled(m) : man' = [man EXCEPT ![s] = n]
        /\ pc' = [pc EXCEPT ![s] = "idle"] /\ turn' = [turn EXCEPT ![s] = NoTurn]
        /\ lease' = Released(s)
    BY <1>4 DEF Measure, ChangedIn
  <2>2. PICK n \in Settled(m) : man' = [man EXCEPT ![s] = n] BY <2>1
  <2>3. n \in Manifests /\ n.base = m.base /\ n.files = m.files
    BY <1>3, SettledType
  <2>4. \A p \in Paths : n.files[p] =
            IF p \in ChangedIn(s) THEN man[s].files[p] \cup {b} ELSE man[s].files[p]
    BY <1>3, <2>3
  <2>5. n.base = man[s].base BY <1>3, <2>3
  <2> HIDE DEF m
  <2>6. lease' = lease \/ (lease = s /\ lease' = Nobody) BY <2>1 DEF Released
  <2>7. Measured(s, n, "idle") BY <1>4, <2>1, <2>2, <2>4, <2>5 DEF Measured
  <2> QED BY <1>1, <1>2, <2>3, <1>3, <2>6, <2>7
<1>5. CASE ChangedIn(s) # {}
  <2>1. /\ pc' = [pc EXCEPT ![s] = "claim"]
        /\ turn' = [turn EXCEPT ![s].changed = ChangedIn(s)]
        /\ man' = [man EXCEPT ![s] = m] /\ lease' = lease
    BY <1>5 DEF Measure, ChangedIn
  <2> HIDE DEF m
  <2>2. Measured(s, m, "claim") BY <1>3, <2>1 DEF Measured
  <2> QED BY <1>1, <1>2, <1>3, <2>1, <2>2
<1> QED BY <1>4, <1>5

LEMMA CoopTypeStep == TypeOK /\ TurnInv /\ PlanInv /\ [Next]_vars => TypeOK'
<1> SUFFICES ASSUME TypeOK, TurnInv, PlanInv, [Next]_vars PROVE TypeOK'
  OBVIOUS
<1>1. ASSUME NEW s \in Sessions, FirstWrite(s) PROVE TypeOK'
  <2>1. Len(ckpts)' = Len(ckpts) + 1 /\ ckpts' \in Seq(Content)
    BY <1>1 DEF FirstWrite, TypeOK
  <2>2. Bases \subseteq Bases' /\ Len(ckpts) + 1 \in Bases' BY <2>1 DEF Bases, TypeOK
  <2>3. man' \in [Sessions -> [ready : BOOLEAN, base : {0} \cup Bases',
                               files : [Paths -> SUBSET Bases']]]
    <3> DEFINE M == [ready : BOOLEAN, base : {0} \cup Bases', files : [Paths -> SUBSET Bases']]
    <3>1. \A z \in Sessions : man[z] \in M BY <2>2 DEF TypeOK
    <3>2. [man[s] EXCEPT !.ready = FALSE, !.base = Len(ckpts) + 1] \in M BY <2>2, <3>1
    <3>3. man' = [man EXCEPT ![s] = [man[s] EXCEPT !.ready = FALSE, !.base = Len(ckpts) + 1]]
      BY <1>1 DEF FirstWrite
    <3>4. man \in [Sessions -> M] BY <3>1 DEF TypeOK
    <3> HIDE DEF M
    <3>5. man' \in [Sessions -> M] BY <3>2, <3>3, <3>4
    <3> QED BY <3>5 DEF M
  <2>4. turn' \in [Sessions -> [base : {0} \cup Bases', changed : SUBSET Paths]]
    BY <1>1, <2>2 DEF FirstWrite, TypeOK
  <2>5. pc' \in [Sessions -> Steps] BY <1>1 DEF FirstWrite, TypeOK, Steps
  <2> QED BY <1>1, <2>1, <2>3, <2>4, <2>5 DEF FirstWrite, TypeOK, shared
<1>2. ASSUME NEW s \in Sessions, NEW p \in Paths, Write(s, p) PROVE TypeOK'
  <2>1. man[s].base \in 1..MaxTurns
    <3>1. man[s].base # 0 BY <1>2 DEF Write, TurnInv
    <3> QED BY <3>1, CoopConstants, SealTypes DEF Manifests, Bases, TurnInv, TypeOK
  <2>2. <<s, man[s].base>> \in Edits BY <2>1 DEF Edits
  <2>3. tree[p] \cup {<<s, man[s].base>>} \in SUBSET Edits BY <2>2 DEF TypeOK, Content
  <2>4. tree' \in Content BY <1>2, <2>3 DEF Write, TypeOK, Content
  <2> QED BY <1>2, <2>4 DEF Write, TypeOK, Bases, shared
<1>3. ASSUME NEW s \in Sessions, NEW m \in Manifests, NEW t \in Seals, NEW at \in Steps,
             man' = [man EXCEPT ![s] = m], turn' = [turn EXCEPT ![s] = t],
             pc' = [pc EXCEPT ![s] = at], files' = files,
             lease' \in {lease, Nobody, s},
             torn' \subseteq torn \cup {s}, missed' \subseteq Sessions \X Paths,
             UNCHANGED <<shared, coord, loose>>
      PROVE  TypeOK'
  <2>1. /\ pc' \in [Sessions -> Steps] /\ {tree, index, head}' \subseteq Content
        /\ ckpts' \in Seq(Content)
        /\ turn' \in [Sessions -> [base : {0} \cup Bases', changed : SUBSET Paths]]
        /\ man' \in [Sessions -> [ready : BOOLEAN, base : {0} \cup Bases',
                                  files : [Paths -> SUBSET Bases']]]
    BY <1>3, SealStepType
  <2>2. lease' \in Sessions \cup Coords \cup {Nobody} /\ torn' \subseteq Sessions
    BY <1>3 DEF TypeOK
  <2> QED BY <1>3, <2>1, <2>2 DEF TypeOK, shared
<1>a. ASSUME NEW s \in Sessions
      PROVE  man[s] \in Manifests /\ turn[s] \in Seals /\ NoTurn \in Seals /\ pc[s] \in Steps
             /\ man = [man EXCEPT ![s] = man[s]] /\ turn = [turn EXCEPT ![s] = turn[s]]
             /\ missed \subseteq Sessions \X Paths
  BY SealTypes DEF NoTurn, Seals, TypeOK
<1>4. ASSUME NEW s \in Sessions, EndTurn(s) PROVE TypeOK'
  BY <1>3, <1>4, <1>a DEF EndTurn, Released, Steps
<1>5. ASSUME NEW s \in Sessions, Seal(s) PROVE TypeOK'
  <2>1. [man[s] EXCEPT !.base = 0] \in Manifests BY <1>a DEF Manifests
  <2>2. [turn[s] EXCEPT !.base = man[s].base] \in Seals BY <1>a DEF Manifests, Seals
  <2>3. /\ man' = [man EXCEPT ![s] = [man[s] EXCEPT !.base = 0]]
        /\ turn' = [turn EXCEPT ![s] = [turn[s] EXCEPT !.base = man[s].base]]
    BY <1>5 DEF Seal
  <2>4. /\ pc' = [pc EXCEPT ![s] = "wait"] /\ files' = files
        /\ UNCHANGED <<lease, shared, coord, torn, missed, loose>>
    BY <1>5 DEF Seal
  <2>5. "wait" \in Steps BY DEF Steps
  <2> HIDE DEF Manifests, Seals
  <2> QED BY <1>3, <1>a, <2>1, <2>2, <2>3, <2>4, <2>5
<1>6. ASSUME NEW s \in Sessions, SealLease(s) PROVE TypeOK'
  BY <1>3, <1>6, <1>a DEF SealLease, Steps
<1>7. ASSUME NEW s \in Sessions, Measure(s) PROVE TypeOK'
  <2>a. PICK m \in Manifests, at \in {"idle", "claim"} : Measured(s, m, at)
    BY <1>7, MeasureEffect
  <2>1. /\ man' = [man EXCEPT ![s] = m] /\ pc' = [pc EXCEPT ![s] = at]
        /\ at = "idle" => turn' = [turn EXCEPT ![s] = NoTurn]
        /\ at = "claim" => turn' = [turn EXCEPT ![s].changed = ChangedIn(s)]
      BY <2>a DEF Measured
  <2>2. files' = files /\ lease' \in {lease, Nobody} /\ UNCHANGED <<shared, coord, torn, missed, loose>>
    BY <1>7, MeasureEffect
  <2>3. [turn[s] EXCEPT !.changed = ChangedIn(s)] \in Seals BY <1>a DEF Seals, ChangedIn
  <2>4. PICK t \in Seals : turn' = [turn EXCEPT ![s] = t] BY <1>a, <2>1, <2>3
  <2>5. at \in Steps BY DEF Steps
  <2> QED BY <1>3, <1>a, <2>1, <2>2, <2>4, <2>5
<1>8. ASSUME NEW s \in Sessions, Unmeasured(s) PROVE TypeOK'
  <2>1. PICK m \in Settled(man[s]) : man' = [man EXCEPT ![s] = m] BY <1>8 DEF Unmeasured, Sealed
  <2>2. m \in Manifests BY <1>a, <2>1, SettledType
  <2>3. files' = files /\ UNCHANGED <<shared, coord, missed, loose>> BY <1>8 DEF Unmeasured, Sealed
  <2> QED BY <1>3, <1>8, <1>a, <2>1, <2>2, <2>3 DEF Unmeasured, Sealed, Released, Steps
<1>9. ASSUME NEW s \in Sessions, Claim(s) PROVE TypeOK'
  <2>1. PICK m \in Settled(man[s]) : man' = [man EXCEPT ![s] = m] BY <1>9 DEF Claim, Sealed
  <2>2. m \in Manifests BY <1>a, <2>1, SettledType
  <2>3. files' = files BY <1>9 DEF Claim
  <2>4. /\ pc' \in [Sessions -> Steps] /\ {tree, index, head}' \subseteq Content
        /\ ckpts' \in Seq(Content)
        /\ turn' \in [Sessions -> [base : {0} \cup Bases', changed : SUBSET Paths]]
        /\ man' \in [Sessions -> [ready : BOOLEAN, base : {0} \cup Bases',
                                  files : [Paths -> SUBSET Bases']]]
    BY <1>9, <1>a, <2>1, <2>2, <2>3, SealStepType DEF Claim, Sealed, Steps
  <2>5. \A o \in overlaps' : o.path \in Paths /\ o.by \subseteq Sessions
    <3>1. overlaps' = overlaps \cup NewOverlaps(s, turn[s].changed) BY <1>9 DEF Claim
    <3>2. turn[s].changed \subseteq Paths BY <1>a DEF Seals
    <3>3. \A p \in Paths : owners[p] \in Sessions \cup {Nobody} BY DEF TypeOK
    <3>4. ASSUME NEW p \in turn[s].changed, owners[p] \notin {Nobody, s}
          PROVE  /\ Overlap(p, owners[p], s).path \in Paths
                 /\ Overlap(p, owners[p], s).by \subseteq Sessions
      BY <3>2, <3>3, <3>4 DEF Overlap
    <3>5. \A o \in NewOverlaps(s, turn[s].changed) : o.path \in Paths /\ o.by \subseteq Sessions
      BY <3>4 DEF NewOverlaps
    <3>6. \A o \in overlaps : o.path \in Paths /\ o.by \subseteq Sessions BY DEF TypeOK
    <3> QED BY <3>1, <3>5, <3>6
  <2>6. owners' \in [Paths -> Sessions \cup {Nobody}] BY <1>9 DEF Claim, TypeOK
  <2>7. missed' \subseteq Sessions \X Paths BY <1>9, <1>a DEF Claim
  <2> QED BY <1>9, <2>4, <2>5, <2>6, <2>7 DEF Claim, Sealed, Released, TypeOK
<1>21. ASSUME NEW s \in Sessions, ClaimLost(s) PROVE TypeOK'
  <2>1. PICK m \in Settled(man[s]) : man' = [man EXCEPT ![s] = m] BY <1>21 DEF ClaimLost, Sealed
  <2>2. m \in Manifests BY <1>a, <2>1, SettledType
  <2>3. files' = files /\ torn' = torn /\ UNCHANGED <<shared, coord, loose>> BY <1>21 DEF ClaimLost
  <2>4. turn[s].changed \subseteq Paths BY <1>a DEF Seals
  <2>5. missed' \subseteq Sessions \X Paths BY <1>21, <1>a, <2>4 DEF ClaimLost
  <2>6. "idle" \in Steps /\ lease' \in {lease, Nobody, s} BY <1>21 DEF ClaimLost, Sealed, Released, Steps
  <2> HIDE DEF Manifests
  <2> QED BY <1>3, <1>21, <1>a, <2>1, <2>2, <2>3, <2>5, <2>6 DEF ClaimLost, Sealed
<1>10. ASSUME NEW s \in Sessions, Done(s) PROVE TypeOK'
  <2>1. [man[s] EXCEPT !.ready = TRUE] \in Manifests BY <1>a DEF Manifests
  <2>2. man' = [man EXCEPT ![s] = [man[s] EXCEPT !.ready = TRUE]] BY <1>10 DEF Done
  <2>3. pc' = [pc EXCEPT ![s] = "idle"] BY <1>10 DEF Done, TypeOK
  <2> HIDE DEF Manifests
  <2>4. /\ lease' = lease /\ torn' = torn /\ files' = files /\ turn' = turn
        /\ UNCHANGED <<shared, coord, missed, loose>>
    BY <1>10 DEF Done
  <2>5. "idle" \in Steps BY DEF Steps
  <2> QED BY <1>3, <1>a, <2>1, <2>2, <2>3, <2>4, <2>5
<1>11. ASSUME NEW s \in Sessions, Clear(s) PROVE TypeOK'
  <2>1. [man[s] EXCEPT !.ready = TRUE] \in Manifests BY <1>a DEF Manifests
  <2>2. man' = [man EXCEPT ![s] = [man[s] EXCEPT !.ready = TRUE]] BY <1>11 DEF Clear
  <2> HIDE DEF Manifests
  <2> QED BY <1>3, <1>11, <1>a, <2>1, <2>2, ZenonT(60) DEF Clear, Steps
<1>12. ASSUME NEW s \in Sessions, Crash(s) PROVE TypeOK'
  BY <1>3, <1>12, <1>a DEF Crash, Released, Steps
<1> DEFINE Plans == [pc : {"idle", "add", "split", "review", "commit"},
                    of : Sessions \cup {Nobody}, paths : SUBSET Paths,
                    shared : SUBSET Paths, seen : Content]
<1>13. ASSUME NEW c \in Coords, NEW k \in Plans, coord' = [coord EXCEPT ![c] = k],
              {index, head}' \subseteq Content, UNCHANGED <<tree, ckpts, pc, turn, man, torn, missed>>,
              lease' \in {lease, Nobody, c}, loose' \in BOOLEAN,
              owners' \in [Paths -> Sessions \cup {Nobody}], committed' \subseteq Sessions,
              overlaps' \subseteq overlaps
       PROVE  TypeOK'
  BY <1>13 DEF TypeOK, Bases
<1>b. /\ NoPlan \in Plans /\ \A c \in Coords : coord[c] \in Plans
      /\ loose \in BOOLEAN /\ \A c \in Coords : (loose \/ lease # Nobody) \in BOOLEAN
  BY CoopTypeInit DEF NoPlan, Content, TypeOK
<1>c. ASSUME NEW c \in Coords, NEW i \in Content
      PROVE  [p \in Paths |-> IF p \in coord[c].paths THEN i[p] ELSE index[p]] \in Content
  BY DEF TypeOK, Content
<1>14. ASSUME NEW c \in Coords, NEW s \in Sessions, Plan(c, s) PROVE TypeOK'
  <2> DEFINE k == [NoPlan EXCEPT !.pc = "add", !.of = s, !.paths = Touched(s),
                                 !.shared = Touched(s) \cap Overlapping(s)]
  <2>1. k \in Plans BY <1>b DEF Touched
  <2>2. coord' = [coord EXCEPT ![c] = k] BY <1>14 DEF Plan
  <2> HIDE DEF k, Plans
  <2> QED BY <1>13, <1>14, <1>b, <2>1, <2>2, ZenonT(60) DEF Plan, files, shared, TypeOK
<1>15. ASSUME NEW c \in Coords, Add(c) PROVE TypeOK'
  <2>1. [coord[c] EXCEPT !.pc = "split"] \in Plans BY <1>b
  <2>2. coord' = [coord EXCEPT ![c] = [coord[c] EXCEPT !.pc = "split"]] BY <1>15 DEF Add
  <2>3. index' \in Content BY <1>15, <1>c DEF Add, TypeOK
  <2> HIDE DEF Plans
  <2>4. lease' \in {lease, Nobody, c} /\ loose' \in BOOLEAN
    BY <1>15, <1>b DEF Add, CoordinatorLease
  <2> QED BY <1>13, <1>15, <2>1, <2>2, <2>3, <2>4, ZenonT(60) DEF Add, shared, TypeOK
<1>16. ASSUME NEW c \in Coords, NEW usable \in BOOLEAN, Separate(c, usable) PROVE TypeOK'
  <2> DEFINE s == coord[c].of
             new == [p \in Paths |-> IF p \in coord[c].shared THEN Split(s, p) ELSE index[p]]
  <2>1. lease' \in {lease, Nobody, c} /\ loose' \in BOOLEAN
        /\ UNCHANGED <<tree, head, ckpts, pc, turn, man, shared, torn, missed>>
    BY <1>16, <1>b DEF Separate, Released
  <2>2. CASE usable
    <3>1. index' = new /\ coord' = [coord EXCEPT ![c] = [coord[c] EXCEPT !.pc = "review", !.seen = new]]
      BY <1>16, <2>2 DEF Separate
    <3>2. new \in Content
      <4>1. s \in Sessions \/ coord[c].shared = {} BY <1>16 DEF PlanInv, Separate
      <4> QED BY <4>1, SplitType DEF TypeOK, Content
    <3> HIDE DEF new
    <3>3. [coord[c] EXCEPT !.pc = "review", !.seen = new] \in Plans BY <1>b, <3>2
    <3> HIDE DEF Plans
    <3> QED BY <1>13, <2>1, <3>1, <3>2, <3>3 DEF shared, TypeOK
  <2>3. CASE ~usable
    <3>1. index' = Unstaged(c) /\ coord' = [coord EXCEPT ![c] = NoPlan]
      BY <1>16, <2>3 DEF Separate
    <3>2. index' \in Content BY <1>c, <3>1 DEF Unstaged, TypeOK
    <3> HIDE DEF Plans
    <3> QED BY <1>13, <1>b, <2>1, <3>1, <3>2 DEF shared, TypeOK
  <2> QED BY <2>2, <2>3
<1>17. ASSUME NEW c \in Coords, Unstage(c) PROVE TypeOK'
  <2>1. index' \in Content BY <1>17, <1>c DEF Unstage, Unstaged, TypeOK
  <2> HIDE DEF Plans
  <2> QED BY <1>13, <1>17, <1>b, <2>1 DEF Unstage, shared, TypeOK
<1>18. ASSUME NEW c \in Coords, Check(c) PROVE TypeOK'
  <2>1. PICK k \in Plans : coord' = [coord EXCEPT ![c] = k]
    <3>1. [coord[c] EXCEPT !.pc = "commit"] \in Plans BY <1>b
    <3> HIDE DEF Plans
    <3> QED BY <1>18, <1>b, <3>1 DEF Check
  <2> HIDE DEF Plans
  <2>2. lease' \in {lease, Nobody, c} /\ loose' \in BOOLEAN
    BY <1>18, <1>b DEF Check, CoordinatorLease
  <2> QED BY <1>13, <1>18, <2>1, <2>2 DEF Check, files, shared, TypeOK
<1>19. ASSUME NEW c \in Coords, Commit(c) PROVE TypeOK'
  <2>1. committed' \subseteq Sessions BY <1>19 DEF PlanInv, Commit, TypeOK
  <2>2. owners' \in [Paths -> Sessions \cup {Nobody}] BY <1>19 DEF Commit, TypeOK
  <2>3. overlaps' \subseteq overlaps /\ lease' \in {lease, Nobody, c}
    BY <1>19 DEF Commit, Released
  <2> HIDE DEF Plans
  <2> QED BY <1>13, <1>19, <1>b, <2>1, <2>2, <2>3 DEF Commit, TypeOK
<1>20. CASE UNCHANGED vars
  BY <1>20 DEF vars, files, shared, TypeOK, Bases
<1> QED BY <1>21, <1>1, <1>2, <1>4, <1>5, <1>6, <1>7, <1>8, <1>9, <1>10, <1>11, <1>12,
           <1>14, <1>15, <1>16, <1>17, <1>18, <1>19, <1>20 DEF Next

---------------------------------------------------------------------------
\* A coordinator's step leaves the tree, the checkpoints and the sessions alone.
Coordinate == \E c \in Coords :
    \/ Add(c) \/ Unstage(c) \/ Check(c) \/ Commit(c)
    \/ \E s \in Sessions : Plan(c, s)
    \/ \E usable \in BOOLEAN : Separate(c, usable)

LEMMA CoordinateFrame ==
    ASSUME TypeOK, Coordinate
    PROVE  /\ UNCHANGED <<tree, ckpts, pc, turn, man, torn, missed>>
           /\ \A s \in Sessions : lease = s => lease' = s
<1>1. \A c \in Coords, s \in Sessions : c # s /\ s # Nobody BY CoopConstants
<1> QED BY <1>1 DEF Coordinate, Add, Unstage, Check, Commit, Plan, Separate, CoordinatorLease,
           Released, files, shared

LEMMA TurnStep == TypeOK /\ TurnInv /\ [Next]_vars => TurnInv'
<1> SUFFICES ASSUME TypeOK, TurnInv, [Next]_vars PROVE TurnInv'
  OBVIOUS
<1> USE DEF TurnInv, Open
<1>a. Nobody \notin Sessions /\ Len(ckpts) \in Nat BY CoopConstants DEF TypeOK
<1>b. \A z \in Sessions : man[z] \in Manifests /\ turn[z] \in Seals BY SealTypes
<1>1. ASSUME NEW s \in Sessions, FirstWrite(s) PROVE TurnInv'
  <2>1. Len(ckpts') = Len(ckpts) + 1 /\ Len(ckpts) < MaxTurns BY <1>1 DEF FirstWrite, TypeOK
  <2>2. man'[s].base = Len(ckpts) + 1 /\ pc'[s] = "write" BY <1>1 DEF FirstWrite, TypeOK
  <2>3. \A z \in Sessions \ {s} : man'[z] = man[z] /\ pc'[z] = pc[z]
    BY <1>1 DEF FirstWrite, TypeOK
  <2>4. \A z \in Sessions : turn'[z] = turn[z] /\ (pc[z] # "write" \/ lease = z)
    BY <1>1 DEF FirstWrite
  <2>5. lease' = s /\ lease = Nobody BY <1>1 DEF FirstWrite
  <2>6. Len(ckpts') <= MaxTurns BY <1>a, <2>1, CoopConstants
  <2>7. \A z \in Sessions \ {s} : pc[z] # "write" BY <1>a, <2>4, <2>5
  <2>8. Len(ckpts) + 1 # 0 BY <1>a
  <2> HIDE DEF TurnInv
  <2>9. \A z \in Sessions \ {s} :
           /\ pc[z] \in {"write", "seal"} => man[z].base # 0
           /\ pc[z] \in {"idle", "wait", "measure", "claim"} => man[z].base = 0
           /\ Open(z) => turn[z].base # 0
    BY DEF TurnInv
  <2> QED BY <2>1, <2>2, <2>3, <2>4, <2>5, <2>6, <2>7, <2>8, <2>9 DEF TurnInv
<1>2. ASSUME NEW s \in Sessions, NEW p \in Paths, Write(s, p) PROVE TurnInv'
  BY <1>2 DEF Write
<1>3. ASSUME NEW s \in Sessions, EndTurn(s) PROVE TurnInv'
  BY <1>3 DEF EndTurn, Released, files, TypeOK
<1>4. ASSUME NEW s \in Sessions, Seal(s) PROVE TurnInv'
  <2>1. /\ man'[s].base = 0 /\ turn'[s].base = man[s].base /\ pc'[s] = "wait"
        /\ pc[s] = "seal" /\ ckpts' = ckpts /\ lease' = lease
    BY <1>4, <1>b DEF Seal, files, TypeOK, Manifests, Seals
  <2>2. \A z \in Sessions \ {s} : man'[z] = man[z] /\ pc'[z] = pc[z] /\ turn'[z] = turn[z]
    BY <1>4 DEF Seal, TypeOK
  <2> QED BY <2>1, <2>2
<1>5. ASSUME NEW s \in Sessions, SealLease(s) PROVE TurnInv'
  BY <1>5, <1>a DEF SealLease, files, TypeOK
<1>6. ASSUME NEW s \in Sessions, Measure(s) PROVE TurnInv'
  <2>a. PICK m \in Manifests, at \in {"idle", "claim"} : Measured(s, m, at)
    BY <1>6, MeasureEffect
  <2>1. man' = [man EXCEPT ![s] = m] /\ m.base = man[s].base /\ pc' = [pc EXCEPT ![s] = at]
        /\ \A z \in Sessions \ {s} : turn'[z] = turn[z]
    BY <2>a DEF Measured, TypeOK
  <2>2. pc[s] = "measure" /\ files' = files /\ (lease' = lease \/ (lease = s /\ lease' = Nobody))
    BY <1>6, MeasureEffect
  <2> QED BY <2>1, <2>2 DEF files, TypeOK
<1>7. ASSUME NEW s \in Sessions, Unmeasured(s) PROVE TurnInv'
  <2>1. PICK m \in Settled(man[s]) : man' = [man EXCEPT ![s] = m] BY <1>7 DEF Unmeasured, Sealed
  <2>2. m.base = man[s].base BY <1>b, <2>1, SettledType
  <2> QED BY <1>7, <2>1, <2>2 DEF Unmeasured, Sealed, Released, files, TypeOK
<1>8. ASSUME NEW s \in Sessions, Claim(s) \/ ClaimLost(s) PROVE TurnInv'
  <2>1. PICK m \in Settled(man[s]) : man' = [man EXCEPT ![s] = m] BY <1>8 DEF Claim, ClaimLost, Sealed
  <2>2. m.base = man[s].base BY <1>b, <2>1, SettledType
  <2> QED BY <1>8, <2>1, <2>2 DEF Claim, ClaimLost, Sealed, Released, files, TypeOK
<1>9. ASSUME NEW s \in Sessions, Done(s) \/ Clear(s) PROVE TurnInv'
  <2>1. man'[s].base = man[s].base /\ pc'[s] \in {"idle", "gone"} /\ pc[s] = "idle"
    BY <1>9, <1>b DEF Done, Clear, TypeOK, Manifests
  <2>2. \A z \in Sessions \ {s} : man'[z] = man[z] /\ pc'[z] = pc[z]
    BY <1>9 DEF Done, Clear, TypeOK
  <2>3. turn' = turn /\ lease' = lease /\ ckpts' = ckpts BY <1>9 DEF Done, Clear, files
  <2> QED BY <2>1, <2>2, <2>3
<1>10. ASSUME NEW s \in Sessions, Crash(s) PROVE TurnInv'
  BY <1>10 DEF Crash, Released, files, TypeOK
<1>11. CASE Coordinate
  BY <1>11, CoordinateFrame
<1>12. CASE UNCHANGED vars
  BY <1>12 DEF vars, files
<1> QED BY <1>1, <1>2, <1>3, <1>4, <1>5, <1>6, <1>7, <1>8, <1>9, <1>10, <1>11, <1>12
        DEF Next, Coordinate

LEMMA PlanStep == TypeOK /\ PlanInv /\ [Next]_vars => PlanInv'
<1> SUFFICES ASSUME TypeOK, PlanInv, [Next]_vars PROVE PlanInv'
  OBVIOUS
<1>1. ASSUME NEW c \in Coords, NEW k, coord' = [coord EXCEPT ![c] = k],
             k.pc = "idle" \/ k.of \in Sessions
      PROVE  PlanInv'
  BY <1>1 DEF PlanInv, TypeOK
<1>2. ASSUME NEW c \in Coords, NEW s \in Sessions, Plan(c, s) PROVE PlanInv'
  BY <1>1, <1>2 DEF Plan, NoPlan
<1>3. ASSUME NEW c \in Coords, Add(c) PROVE PlanInv'
  BY <1>3 DEF Add, PlanInv, TypeOK
<1>4. ASSUME NEW c \in Coords, NEW usable \in BOOLEAN, Separate(c, usable) PROVE PlanInv'
  <2>1. \A i : [coord[c] EXCEPT !.pc = "review", !.seen = i].of \in Sessions
    BY <1>4 DEF Separate, PlanInv, TypeOK
  <2>2. \E i : coord' = [coord EXCEPT ![c] = [coord[c] EXCEPT !.pc = "review", !.seen = i]]
                \/ coord' = [coord EXCEPT ![c] = NoPlan]
    BY <1>4 DEF Separate
  <2>3. NoPlan.pc = "idle" BY DEF NoPlan
  <2> QED BY <1>1, <2>1, <2>2, <2>3
<1>5. ASSUME NEW c \in Coords, Unstage(c) \/ Commit(c) PROVE PlanInv'
  <2>1. NoPlan.pc = "idle" BY DEF NoPlan
  <2> QED BY <1>1, <1>5, <2>1 DEF Unstage, Commit
<1>6. ASSUME NEW c \in Coords, Check(c) PROVE PlanInv'
  <2>1. NoPlan.pc = "idle" BY DEF NoPlan
  <2> QED BY <1>6, <2>1, ZenonT(60) DEF Check, PlanInv, TypeOK
<1>7. CASE UNCHANGED coord
  BY <1>7 DEF PlanInv
<1> QED BY <1>2, <1>3, <1>4, <1>5, <1>6, <1>7 DEF Next, vars, FirstWrite, Write, EndTurn, Seal,
           SealLease, Measure, Unmeasured, Claim, ClaimLost, Sealed, Done, Clear, Crash

---------------------------------------------------------------------------
LEMMA EditTypes == TypeOK => \A p \in Paths : \A e \in tree[p] :
    e = <<e[1], e[2]>> /\ e[1] \in Sessions /\ e[2] \in Nat /\ e[2] # 0
BY DEF TypeOK, Content, Edits

\* The sessions that write are the only ones that change the tree or the checkpoints.
LEMMA TreeFrame ==
    ASSUME [Next]_vars
    PROVE  \/ UNCHANGED <<tree, ckpts>>
           \/ \E s \in Sessions : FirstWrite(s)
           \/ \E s \in Sessions, p \in Paths : Write(s, p)
BY ZenonT(60) DEF Next, vars, files, EndTurn, Seal, SealLease, Measure, Unmeasured, Claim, ClaimLost, Sealed, Done, Clear, Crash,
       Add, Unstage, Check, Commit, Plan, Separate

LEMMA TreeStep == TypeOK /\ TurnInv /\ TreeInv /\ [Next]_vars => TreeInv'
<1> SUFFICES ASSUME TypeOK, TurnInv, TreeInv, [Next]_vars PROVE TreeInv'
  OBVIOUS
<1>1. ASSUME NEW s \in Sessions, FirstWrite(s) PROVE TreeInv'
  <2> DEFINE n == Len(ckpts)
  <2>1. n \in Nat /\ Len(ckpts') = n + 1 /\ ckpts'[n + 1] = tree /\ tree' = tree
        /\ \A k \in Bases : ckpts'[k] = ckpts[k]
    BY <1>1 DEF FirstWrite, TypeOK, Bases
  <2>2. ASSUME NEW p \in Paths PROVE tree[p] = {e \in tree[p] : e[2] < n + 1}
    BY <2>1, EditTypes DEF TreeInv
  <2>3. ASSUME NEW p \in Paths, NEW k \in Bases'
        PROVE  ckpts'[k][p] = {e \in tree[p] : e[2] < k}
    BY <2>1, <2>2 DEF TreeInv, Bases
  <2>4. ASSUME NEW p \in Paths, NEW e \in tree[p] PROVE e[2] <= n + 1
    BY <2>1, EditTypes DEF TreeInv
  <2> QED BY <2>1, <2>3, <2>4 DEF TreeInv
<1>2. ASSUME NEW s \in Sessions, NEW q \in Paths, Write(s, q) PROVE TreeInv'
  <2> DEFINE new == <<s, man[s].base>>
  <2>1. /\ man[s].base = Len(ckpts) /\ ckpts' = ckpts /\ Len(ckpts) \in Nat
        /\ \A p \in Paths : tree'[p] = IF p = q THEN tree[p] \cup {new} ELSE tree[p]
    <3>1. tree \in [Paths -> SUBSET Edits] /\ Len(ckpts) \in Nat BY DEF TypeOK, Content
    <3>2. tree' = [tree EXCEPT ![q] = @ \cup {new}] /\ ckpts' = ckpts BY <1>2 DEF Write
    <3>3. man[s].base = Len(ckpts) BY <1>2 DEF Write, TurnInv
    <3> HIDE DEF new
    <3> QED BY <3>1, <3>2, <3>3
  <2>2. ASSUME NEW p \in Paths, NEW e \in tree'[p] PROVE e[2] <= Len(ckpts)
    <3>1. e \in tree[p] \/ e = new BY <2>1
    <3>2. new[2] <= Len(ckpts) BY <2>1
    <3> QED BY <3>1, <3>2 DEF TreeInv
  <2>3. ASSUME NEW p \in Paths, NEW k \in Bases
        PROVE  ckpts[k][p] = {e \in tree'[p] : e[2] < k}
    <3>1. ckpts[k][p] = {e \in tree[p] : e[2] < k} BY DEF TreeInv
    <3>2. ~(new[2] < k) BY <2>1 DEF Bases
    <3> QED BY <2>1, <3>1, <3>2
  <2> QED BY <2>1, <2>2, <2>3 DEF TreeInv, Bases
<1>3. CASE UNCHANGED <<tree, ckpts>>
  BY <1>3 DEF TreeInv, Bases
<1> QED BY <1>1, <1>2, <1>3, TreeFrame

\* The turns a session has, and how they move between its manifest and its seal.
LEMMA TurnsMember ==
    \A s \in Sessions : \A b : b \in TurnsOf(s) <=>
        \/ \E p \in Paths : b \in man[s].files[p]
        \/ b # 0 /\ (b = man[s].base \/ b = turn[s].base)
BY DEF TurnsOf

LEMMA OwnStep == TypeOK /\ TurnInv /\ TreeInv /\ OwnInv /\ [Next]_vars => OwnInv'
<1> SUFFICES ASSUME TypeOK, TurnInv, TreeInv, OwnInv, [Next]_vars PROVE OwnInv'
  OBVIOUS
<1>a. \A z \in Sessions : man[z] \in Manifests /\ turn[z] \in Seals BY SealTypes
<1>b. \A z \in Sessions : TurnsOf(z) \subseteq Bases
  BY <1>a, TurnsMember DEF Manifests, Seals
\* A step of one session that adds no turn to it.
<1>1. ASSUME NEW s \in Sessions, \A z \in Sessions : TurnsOf(z)' \subseteq TurnsOf(z), tree' = tree,
             \A z \in Sessions \ {s} : man'[z] = man[z],
             \A p \in Paths : man'[s].base \notin man'[s].files[p]
      PROVE  OwnInv'
  <2>1. \A z \in Sessions, p \in Paths : man'[z].base \notin man'[z].files[p]
    BY <1>1 DEF OwnInv
  <2>2. \A y, z \in Sessions : y # z => TurnsOf(y)' \cap TurnsOf(z)' = {}
    BY <1>1 DEF OwnInv
  <2>3. \A p \in Paths : \A e \in tree'[p], z \in Sessions : e[2] \in TurnsOf(z)' => e[1] = z
    BY <1>1 DEF OwnInv
  <2> QED BY <2>1, <2>2, <2>3 DEF OwnInv
<1>2. ASSUME NEW s \in Sessions, NEW m \in Manifests, NEW t \in Seals,
             man' = [man EXCEPT ![s] = m], turn' = [turn EXCEPT ![s] = t], tree' = tree,
             \A p \in Paths : m.files[p] \subseteq man[s].files[p] \cup ({turn[s].base} \ {0}),
             m.base \in {0, man[s].base}, t.base \in {0, man[s].base, turn[s].base},
             \A p \in Paths : m.base \notin m.files[p]
      PROVE  OwnInv'
  <2>1. man'[s] = m /\ turn'[s] = t BY <1>2 DEF TypeOK
  <2>2. \A z \in Sessions \ {s} : man'[z] = man[z] /\ turn'[z] = turn[z] BY <1>2 DEF TypeOK
  <2>3. \A z \in Sessions \ {s} : TurnsOf(z)' = TurnsOf(z) BY <2>2 DEF TurnsOf
  <2>4. ASSUME NEW b \in TurnsOf(s)' PROVE b \in TurnsOf(s)
    <3>1. (\E p \in Paths : b \in m.files[p]) \/ (b # 0 /\ (b = m.base \/ b = t.base))
      BY <2>1 DEF TurnsOf
    <3> QED BY <1>2, <3>1, TurnsMember
  <2> QED BY <1>1, <1>2, <2>1, <2>2, <2>3, <2>4
<1>3. ASSUME NEW s \in Sessions, FirstWrite(s) PROVE OwnInv'
  <2> DEFINE n == Len(ckpts) + 1
  <2>1. /\ man'[s].base = n /\ man'[s].files = man[s].files /\ turn' = turn /\ tree' = tree
        /\ \A z \in Sessions \ {s} : man'[z] = man[z]
    BY <1>3, <1>a DEF FirstWrite, TypeOK, Manifests
  <2>2. n \notin Bases /\ n # 0 BY DEF Bases, TypeOK
  <2>3. \A z \in Sessions \ {s} : TurnsOf(z)' = TurnsOf(z) BY <2>1 DEF TurnsOf
  <2>4. TurnsOf(s)' \subseteq TurnsOf(s) \cup {n} BY <2>1 DEF TurnsOf
  <2>5. \A p \in Paths : \A e \in tree[p] : e[2] # n
    BY EditTypes DEF TreeInv, TypeOK
  <2>6. \A z \in Sessions, p \in Paths : man'[z].base \notin man'[z].files[p]
    BY <1>a, <2>1, <2>2 DEF OwnInv, Manifests
  <2> HIDE DEF n
  <2>7. \A y, z \in Sessions : y # z => TurnsOf(y)' \cap TurnsOf(z)' = {}
    BY <1>b, <2>2, <2>3, <2>4 DEF OwnInv
  <2>8. \A p \in Paths : \A e \in tree'[p], z \in Sessions : e[2] \in TurnsOf(z)' => e[1] = z
    BY <2>1, <2>3, <2>4, <2>5 DEF OwnInv
  <2> QED BY <2>6, <2>7, <2>8 DEF OwnInv
<1>4. ASSUME NEW s \in Sessions, NEW q \in Paths, Write(s, q) PROVE OwnInv'
  <2>1. /\ UNCHANGED <<man, turn>> /\ man[s].base \in TurnsOf(s)
        /\ \A p \in Paths : tree'[p] \subseteq tree[p] \cup {<<s, man[s].base>>}
    BY <1>4, TurnsMember DEF Write, TurnInv, TypeOK
  <2>2. \A z \in Sessions : TurnsOf(z)' = TurnsOf(z) BY <2>1 DEF TurnsOf
  <2>3. \A p \in Paths : \A e \in tree'[p], z \in Sessions : e[2] \in TurnsOf(z)' => e[1] = z
    BY <2>1, <2>2 DEF OwnInv
  <2> QED BY <2>1, <2>2, <2>3 DEF OwnInv
<1>5. ASSUME NEW s \in Sessions, Seal(s) PROVE OwnInv'
  <2> DEFINE m == [man[s] EXCEPT !.base = 0]
             t == [turn[s] EXCEPT !.base = man[s].base]
  <2>1. m \in Manifests /\ m.base = 0 /\ m.files = man[s].files BY <1>a DEF Manifests
  <2>2. t \in Seals /\ t.base = man[s].base BY <1>a DEF Manifests, Seals
  <2>3. man' = [man EXCEPT ![s] = m] /\ turn' = [turn EXCEPT ![s] = t] /\ tree' = tree
    BY <1>5 DEF Seal, files
  <2>4. \A p \in Paths : m.base \notin m.files[p] BY <1>a, <2>1 DEF Manifests, Bases
  <2> HIDE DEF m, t
  <2> QED BY <1>2, <2>1, <2>2, <2>3, <2>4
<1>6. ASSUME NEW s \in Sessions, Measure(s) PROVE OwnInv'
  <2>a. PICK m \in Manifests, at \in {"idle", "claim"} : Measured(s, m, at)
    BY <1>6, MeasureEffect
  <2>1. /\ man' = [man EXCEPT ![s] = m] /\ m.base = man[s].base
        /\ \A p \in Paths : m.files[p] =
              IF p \in ChangedIn(s) THEN man[s].files[p] \cup {turn[s].base}
              ELSE man[s].files[p]
        /\ at = "idle" => turn' = [turn EXCEPT ![s] = NoTurn]
        /\ at = "claim" => turn' = [turn EXCEPT ![s].changed = ChangedIn(s)]
      BY <2>a DEF Measured
  <2>2. files' = files /\ turn[s].base \in Bases /\ pc[s] = "measure" BY <1>6, MeasureEffect
  <2>3. [turn[s] EXCEPT !.changed = ChangedIn(s)] \in Seals /\ NoTurn \in Seals
    BY <1>a DEF Seals, ChangedIn, NoTurn
  <2>4. PICK t \in Seals : turn' = [turn EXCEPT ![s] = t] /\ t.base \in {0, turn[s].base}
    BY <1>a, <2>1, <2>3 DEF NoTurn, Seals
  <2>5. m.base = 0 /\ \A p \in Paths : m.base \notin m.files[p]
    BY <1>6, <2>1, <2>2 DEF TurnInv, Manifests, Bases
  <2>6. \A p \in Paths : m.files[p] \subseteq man[s].files[p] \cup ({turn[s].base} \ {0})
    <3>1. turn[s].base # 0 BY <2>2 DEF Bases
    <3>2. \A p \in Paths : m.files[p] \subseteq man[s].files[p] \cup {turn[s].base} BY <2>1
    <3> QED BY <3>1, <3>2
  <2> QED BY <1>2, <2>1, <2>2, <2>4, <2>5, <2>6 DEF files
<1>7. ASSUME NEW s \in Sessions, Unmeasured(s) \/ Claim(s) \/ ClaimLost(s) PROVE OwnInv'
  <2>1. PICK m \in Settled(man[s]) : man' = [man EXCEPT ![s] = m]
    BY <1>7 DEF Unmeasured, Claim, ClaimLost, Sealed
  <2>2. m \in Manifests /\ m.base = man[s].base /\ m.files = man[s].files
    BY <1>a, <2>1, SettledType
  <2>3. turn' = [turn EXCEPT ![s] = NoTurn] /\ NoTurn \in Seals /\ NoTurn.base = 0 /\ tree' = tree
    BY <1>7 DEF Unmeasured, Claim, ClaimLost, Sealed, NoTurn, Seals, files
  <2>4. \A p \in Paths : m.base \notin m.files[p] BY <2>2 DEF OwnInv
  <2> QED BY <1>2, <2>1, <2>2, <2>3, <2>4
<1>8. ASSUME NEW s \in Sessions, Done(s) \/ Clear(s) PROVE OwnInv'
  <2> DEFINE m == [man[s] EXCEPT !.ready = TRUE]
  <2>1. m \in Manifests /\ m.base = man[s].base /\ m.files = man[s].files
    BY <1>a DEF Manifests
  <2>2. man' = [man EXCEPT ![s] = m] /\ turn' = turn /\ tree' = tree
    BY <1>8 DEF Done, Clear, files
  <2>3. turn' = [turn EXCEPT ![s] = turn[s]] BY <2>2 DEF TypeOK
  <2>4. \A p \in Paths : m.base \notin m.files[p] BY <2>1 DEF OwnInv
  <2> HIDE DEF m
  <2> QED BY <1>2, <1>a, <2>1, <2>2, <2>3, <2>4
<1>9. CASE UNCHANGED <<tree, man, turn>>
  BY <1>9 DEF OwnInv, TurnsOf
<1>10. CASE Coordinate
  BY <1>9, <1>10, CoordinateFrame
<1> QED BY <1>3, <1>4, <1>5, <1>6, <1>7, <1>8, <1>9, <1>10
        DEF Next, Coordinate, vars, files, EndTurn, SealLease, Crash

---------------------------------------------------------------------------
LEMMA ListedStep == TypeOK /\ TurnInv /\ TreeInv /\ Listed /\ [Next]_vars => Listed'
<1> SUFFICES ASSUME TypeOK, TurnInv, TreeInv, Listed, [Next]_vars PROVE Listed'
  OBVIOUS
<1> DEFINE Known(e, p) == \/ e[2] \in man[e[1]].files[p] \cup {man[e[1]].base}
                          \/ Open(e[1]) /\ e[2] = turn[e[1]].base
                          \/ e[1] \in torn
<1>a. \A z \in Sessions : man[z] \in Manifests /\ turn[z] \in Seals BY SealTypes
<1>b. \A p \in Paths : \A e \in tree[p] : Known(e, p) /\ e[1] \in Sessions /\ e[2] # 0
  BY EditTypes DEF Listed
<1>c. (\A p \in Paths : \A e \in tree'[p] : Known(e, p)') => Listed'
  BY DEF Listed
<1> HIDE DEF Known
\* A step of one session.
<1>1. ASSUME NEW s \in Sessions, tree' = tree,
             \A z \in Sessions \ {s} : /\ man'[z] = man[z] /\ turn'[z] = turn[z] /\ pc'[z] = pc[z]
                                       /\ z \in torn => z \in torn',
             \A p \in Paths : \A e \in tree[p] : e[1] = s => Known(e, p)'
      PROVE  Listed'
  <2>1. \A z \in Sessions \ {s} : Open(z)' <=> Open(z) BY <1>1 DEF Open
  <2>2. ASSUME NEW p \in Paths, NEW e \in tree[p], e[1] # s PROVE Known(e, p)'
    BY <1>1, <1>b, <2>1, <2>2 DEF Known
  <2> QED BY <1>1, <1>c, <2>2
<1>2. ASSUME NEW s \in Sessions, FirstWrite(s) PROVE Listed'
  <2>1. /\ man[s].base = 0 /\ man'[s].files = man[s].files /\ turn' = turn /\ torn' = torn
        /\ tree' = tree /\ ~Open(s)
    BY <1>2, <1>a DEF FirstWrite, TypeOK, Manifests, TurnInv, Open
  <2>2. \A p \in Paths : \A e \in tree[p] : e[1] = s => Known(e, p)'
    BY <1>b, <2>1 DEF Known
  <2> QED BY <1>1, <1>2, <2>1, <2>2 DEF FirstWrite, TypeOK
<1>3. ASSUME NEW s \in Sessions, NEW q \in Paths, Write(s, q) PROVE Listed'
  <2> DEFINE new == <<s, man[s].base>>
  <2>1. /\ UNCHANGED <<man, turn, pc, torn>>
        /\ \A p \in Paths : tree'[p] \subseteq tree[p] \cup {new}
    <3>1. tree \in [Paths -> SUBSET Edits] BY DEF TypeOK, Content
    <3>2. tree' = [tree EXCEPT ![q] = @ \cup {new}] BY <1>3 DEF Write
    <3> HIDE DEF new
    <3> QED BY <1>3, <3>1, <3>2 DEF Write
  <2>2. \A p \in Paths : \A e \in tree[p] : Known(e, p)' BY <1>b, <2>1 DEF Known, Open
  <2>3. \A p \in Paths : Known(new, p)' BY <2>1 DEF Known
  <2> QED BY <1>c, <2>1, <2>2, <2>3
<1>4. ASSUME NEW s \in Sessions, EndTurn(s) \/ SealLease(s) PROVE Listed'
  <2>1. UNCHANGED <<tree, man, turn, torn>> /\ Open(s)' = Open(s)
    BY <1>4 DEF EndTurn, SealLease, files, Open, TypeOK
  <2>2. \A p \in Paths : \A e \in tree[p] : e[1] = s => Known(e, p)'
    BY <1>b, <2>1 DEF Known
  <2> QED BY <1>1, <1>4, <2>1, <2>2 DEF EndTurn, SealLease, TypeOK
<1>5. ASSUME NEW s \in Sessions, Seal(s) PROVE Listed'
  <2>1. /\ man'[s].files = man[s].files /\ turn'[s].base = man[s].base
        /\ Open(s)' /\ ~Open(s) /\ torn' = torn /\ tree' = tree
    BY <1>5, <1>a DEF Seal, Manifests, Seals, TypeOK, files, Open
  <2>2. \A p \in Paths : \A e \in tree[p] : e[1] = s => Known(e, p)'
    BY <1>b, <2>1 DEF Known
  <2> QED BY <1>1, <1>5, <2>1, <2>2 DEF Seal, TypeOK
<1>6. ASSUME NEW s \in Sessions, Measure(s) PROVE Listed'
  <2>a. PICK m \in Manifests, at \in {"idle", "claim"} : Measured(s, m, at)
    BY <1>6, MeasureEffect
  <2>1. /\ man' = [man EXCEPT ![s] = m] /\ m.base = man[s].base
        /\ \A p \in Paths : m.files[p] =
              IF p \in ChangedIn(s) THEN man[s].files[p] \cup {turn[s].base}
              ELSE man[s].files[p]
        /\ pc' = [pc EXCEPT ![s] = at]
        /\ at = "idle" => turn' = [turn EXCEPT ![s] = NoTurn]
        /\ at = "claim" => turn' = [turn EXCEPT ![s].changed = ChangedIn(s)]
      BY <2>a DEF Measured
  <2>2. UNCHANGED <<tree, torn>> /\ turn[s].base \in Bases /\ pc[s] = "measure"
    <3>1. files' = files /\ turn[s].base \in Bases /\ pc[s] = "measure" BY <1>6, MeasureEffect
    <3>2. torn' = torn BY <1>6 DEF Measure
    <3> QED BY <3>1, <3>2 DEF files
  <2>3. ASSUME NEW p \in Paths, NEW e \in tree[p], e[2] = turn[s].base
        PROVE  p \in ChangedIn(s)
    <3>1. e \notin ckpts[turn[s].base][p] BY <2>2, <2>3, EditTypes DEF TreeInv
    <3> QED BY <3>1 DEF ChangedIn
  <2>4. ASSUME NEW p \in Paths, NEW e \in tree[p], e[1] = s PROVE Known(e, p)'
    <3>1. man'[s] = m BY <2>1 DEF TypeOK
    <3>2. man[s].files[p] \subseteq m.files[p] BY <2>1
    <3>3. e[2] = turn[s].base => e[2] \in m.files[p] BY <2>1, <2>3
    <3>4. Known(e, p) BY <1>b
    <3> QED BY <2>1, <2>2, <2>4, <3>1, <3>2, <3>3, <3>4 DEF Known
  <2>5. \A z \in Sessions \ {s} : man'[z] = man[z] /\ turn'[z] = turn[z] /\ pc'[z] = pc[z]
    BY <2>1 DEF TypeOK
  <2> QED BY <1>1, <2>2, <2>4, <2>5
<1>7. ASSUME NEW s \in Sessions, Unmeasured(s) PROVE Listed'
  <2>1. s \in torn' /\ tree' = tree /\ torn \subseteq torn' BY <1>7 DEF Unmeasured, Sealed, files
  <2>2. \A p \in Paths : \A e \in tree[p] : e[1] = s => Known(e, p)' BY <2>1 DEF Known
  <2> QED BY <1>1, <1>7, <2>1, <2>2 DEF Unmeasured, Sealed, TypeOK
<1>8. ASSUME NEW s \in Sessions, Claim(s) \/ ClaimLost(s) PROVE Listed'
  <2>1. PICK m \in Settled(man[s]) : man' = [man EXCEPT ![s] = m] BY <1>8 DEF Claim, ClaimLost, Sealed
  <2>2. man'[s].base = man[s].base /\ man'[s].files = man[s].files
    BY <1>a, <2>1, SettledType DEF TypeOK
  <2>3. torn' = torn /\ tree' = tree /\ ~Open(s) BY <1>8 DEF Claim, ClaimLost, files, Open
  <2>4. \A p \in Paths : \A e \in tree[p] : e[1] = s => Known(e, p)'
    BY <1>b, <2>2, <2>3 DEF Known
  <2> QED BY <1>1, <1>8, <2>3, <2>4 DEF Claim, ClaimLost, Sealed, TypeOK
<1>9. ASSUME NEW s \in Sessions, Done(s) \/ Clear(s) PROVE Listed'
  <2>1. /\ man'[s].base = man[s].base /\ man'[s].files = man[s].files
        /\ torn' = torn /\ turn' = turn /\ tree' = tree /\ ~Open(s)
    BY <1>9, <1>a DEF Done, Clear, files, Open, TypeOK, Manifests
  <2>2. \A p \in Paths : \A e \in tree[p] : e[1] = s => Known(e, p)'
    BY <1>b, <2>1 DEF Known
  <2> QED BY <1>1, <1>9, <2>1, <2>2 DEF Done, Clear, TypeOK
<1>10. ASSUME NEW s \in Sessions, Crash(s) PROVE Listed'
  <2>1. /\ UNCHANGED <<tree, man, turn>> /\ torn \subseteq torn'
        /\ Open(s) => s \in torn'
    BY <1>10 DEF Crash, files, Open
  <2>2. \A p \in Paths : \A e \in tree[p] : e[1] = s => Known(e, p)'
    BY <1>b, <2>1 DEF Known
  <2> QED BY <1>1, <1>10, <2>1, <2>2 DEF Crash, TypeOK
<1>11. CASE UNCHANGED <<tree, pc, man, turn, torn>>
  BY <1>11 DEF Listed, Open
<1>12. CASE Coordinate
  BY <1>11, <1>12, CoordinateFrame
<1> QED BY <1>2, <1>3, <1>4, <1>5, <1>6, <1>7, <1>8, <1>9, <1>10, <1>11, <1>12
        DEF Next, Coordinate, vars, files

---------------------------------------------------------------------------
LEMMA ChangedStep == TypeOK /\ TurnInv /\ ChangedInv /\ [Next]_vars => ChangedInv'
<1> SUFFICES ASSUME TypeOK, TurnInv, ChangedInv, [Next]_vars PROVE ChangedInv'
  OBVIOUS
<1>a. \A z \in Sessions : turn[z] \in Seals BY SealTypes
\* A step of one session.
<1>1. ASSUME NEW s \in Sessions, torn \subseteq torn',
             \A z \in Sessions \ {s} : turn'[z] = turn[z] /\ pc'[z] = pc[z],
             turn'[s].changed # {} => pc'[s] = "claim" \/ (pc'[s] = "gone" /\ s \in torn')
      PROVE  ChangedInv'
  BY <1>1 DEF ChangedInv
<1>2. ASSUME NEW s \in Sessions,
             FirstWrite(s) \/ EndTurn(s) \/ SealLease(s) \/ Done(s) \/ Clear(s)
      PROVE  ChangedInv'
  <2>1. pc[s] \notin {"claim", "gone"} /\ turn' = turn /\ torn' = torn
        /\ \A z \in Sessions \ {s} : pc'[z] = pc[z]
    BY <1>2 DEF FirstWrite, EndTurn, SealLease, Done, Clear, TypeOK
  <2>2. turn[s].changed = {} BY <2>1 DEF ChangedInv
  <2> QED BY <1>1, <2>1, <2>2
<1>3. ASSUME NEW s \in Sessions, NEW p \in Paths, Write(s, p) PROVE ChangedInv'
  BY <1>3 DEF Write, ChangedInv
<1>4. ASSUME NEW s \in Sessions, Seal(s) PROVE ChangedInv'
  <2>1. pc[s] = "seal" /\ turn'[s].changed = turn[s].changed /\ torn' = torn
        /\ \A z \in Sessions \ {s} : turn'[z] = turn[z] /\ pc'[z] = pc[z]
    BY <1>4, <1>a DEF Seal, TypeOK, Seals
  <2>2. turn[s].changed = {} BY <2>1 DEF ChangedInv
  <2> QED BY <1>1, <2>1, <2>2
<1>5. ASSUME NEW s \in Sessions, Measure(s) PROVE ChangedInv'
  <2>1. PICK m \in Manifests, at \in {"idle", "claim"} : Measured(s, m, at)
    BY <1>5, MeasureEffect
  <2>2. torn' = torn BY <1>5 DEF Measure
  <2>3. /\ \A z \in Sessions \ {s} : turn'[z] = turn[z] /\ pc'[z] = pc[z]
        /\ pc'[s] = at /\ (at = "idle" => turn'[s] = NoTurn)
    BY <2>1 DEF Measured, TypeOK
  <2> QED BY <1>1, <2>2, <2>3 DEF NoTurn
<1>6. ASSUME NEW s \in Sessions, Unmeasured(s) \/ Claim(s) \/ ClaimLost(s) PROVE ChangedInv'
  <2>1. /\ \A z \in Sessions \ {s} : turn'[z] = turn[z] /\ pc'[z] = pc[z]
        /\ turn'[s] = NoTurn /\ torn \subseteq torn'
    BY <1>6 DEF Unmeasured, Claim, ClaimLost, Sealed, TypeOK
  <2> QED BY <1>1, <2>1 DEF NoTurn
<1>7. ASSUME NEW s \in Sessions, Crash(s) PROVE ChangedInv'
  <2>1. /\ \A z \in Sessions \ {s} : pc'[z] = pc[z]
        /\ pc'[s] = "gone" /\ pc[s] # "gone" /\ turn' = turn /\ torn \subseteq torn'
        /\ pc[s] = "claim" => s \in torn'
    BY <1>7 DEF Crash, TypeOK
  <2>2. turn[s].changed # {} => s \in torn' BY <2>1 DEF ChangedInv
  <2> QED BY <1>1, <2>1, <2>2
<1>8. CASE UNCHANGED <<pc, turn, torn>>
  BY <1>8 DEF ChangedInv
<1>9. CASE Coordinate
  BY <1>8, <1>9, CoordinateFrame
<1> QED BY <1>2, <1>3, <1>4, <1>5, <1>6, <1>7, <1>8, <1>9 DEF Next, Coordinate, vars

LEMMA ClaimStep == TypeOK /\ TurnInv /\ ChangedInv /\ ClaimInv /\ [Next]_vars => ClaimInv'
<1> SUFFICES ASSUME TypeOK, TurnInv, ChangedInv, ClaimInv, [Next]_vars PROVE ClaimInv'
  OBVIOUS
<1>a. \A z \in Sessions : man[z] \in Manifests /\ turn[z] \in Seals BY SealTypes
<1>b. Nobody \notin Sessions BY CoopConstants
\* A step after which nobody has claimed more than before.
<1>1. ASSUME owners' = owners, overlaps' = overlaps, committed' = committed,
             \A a \in Sessions, p \in Paths : Claimed(a, p)' => Claimed(a, p)
      PROVE  ClaimInv'
  BY <1>1 DEF ClaimInv, Overlapping
\* A step of one session.
<1>2. ASSUME NEW s \in Sessions, UNCHANGED shared, torn \subseteq torn', missed \subseteq missed',
             \A z \in Sessions \ {s} : man'[z] = man[z] /\ turn'[z] = turn[z],
             \A p \in Paths : Claimed(s, p)' => Claimed(s, p)
      PROVE  ClaimInv'
  <2>1. \A a \in Sessions \ {s}, p \in Paths : Claimed(a, p)' => Claimed(a, p)
    BY <1>2 DEF Claimed, Touched
  <2> QED BY <1>1, <1>2, <2>1 DEF shared
<1>3. ASSUME NEW s \in Sessions, FirstWrite(s) \/ Done(s) \/ Clear(s) PROVE ClaimInv'
  <2>1. man'[s].files = man[s].files /\ turn' = turn /\ torn' = torn /\ missed' = missed
        /\ UNCHANGED shared /\ \A z \in Sessions \ {s} : man'[z] = man[z]
    BY <1>3, <1>a DEF FirstWrite, Done, Clear, TypeOK, Manifests
  <2>2. \A p \in Paths : Claimed(s, p)' => Claimed(s, p) BY <2>1 DEF Claimed, Touched
  <2> QED BY <1>2, <2>1, <2>2
<1>4. ASSUME NEW s \in Sessions, Seal(s) PROVE ClaimInv'
  <2>1. man'[s].files = man[s].files /\ turn'[s].changed = turn[s].changed /\ torn' = torn /\ missed' = missed
        /\ UNCHANGED shared /\ \A z \in Sessions \ {s} : man'[z] = man[z] /\ turn'[z] = turn[z]
    BY <1>4, <1>a DEF Seal, TypeOK, Manifests, Seals
  <2>2. \A p \in Paths : Claimed(s, p)' => Claimed(s, p) BY <2>1 DEF Claimed, Touched
  <2> QED BY <1>2, <2>1, <2>2
<1>5. ASSUME NEW s \in Sessions, Measure(s) PROVE ClaimInv'
  <2>1. PICK m \in Manifests, at \in {"idle", "claim"} : Measured(s, m, at)
    BY <1>5, MeasureEffect
  <2>2. torn' = torn /\ missed' = missed /\ UNCHANGED shared /\ pc[s] = "measure" BY <1>5 DEF Measure
  <2>3. turn[s].changed = {} BY <2>2 DEF ChangedInv
  <2>4. /\ \A z \in Sessions \ {s} : man'[z] = man[z] /\ turn'[z] = turn[z]
        /\ man'[s] = m
    BY <2>1 DEF Measured, TypeOK
  <2>5. at = "idle" => ChangedIn(s) = {} BY <2>1 DEF Measured
  <2>6. at = "claim" => turn'[s].changed = ChangedIn(s)
    <3>1. at = "claim" => turn' = [turn EXCEPT ![s] = [turn[s] EXCEPT !.changed = ChangedIn(s)]]
      BY <2>1 DEF Measured
    <3>2. [turn[s] EXCEPT !.changed = ChangedIn(s)].changed = ChangedIn(s)
      BY <1>a DEF Seals
    <3> QED BY <3>1, <3>2 DEF TypeOK
  <2>7. \A p \in Paths : p \notin ChangedIn(s) => m.files[p] = man[s].files[p]
    BY <2>1 DEF Measured
  <2>8. \A p \in Paths : Claimed(s, p)' => Claimed(s, p)
    BY <2>2, <2>3, <2>4, <2>5, <2>6, <2>7 DEF Claimed, Touched
  <2> QED BY <1>2, <2>2, <2>4, <2>8
<1>6. ASSUME NEW s \in Sessions, Unmeasured(s) PROVE ClaimInv'
  <2>1. s \in torn' /\ torn \subseteq torn' /\ missed' = missed /\ UNCHANGED shared
        /\ \A z \in Sessions \ {s} : man'[z] = man[z] /\ turn'[z] = turn[z]
    BY <1>6 DEF Unmeasured, Sealed, TypeOK
  <2> QED BY <1>2, <2>1 DEF Claimed
<1>7. ASSUME NEW s \in Sessions, Claim(s) PROVE ClaimInv'
  <2> DEFINE changed == turn[s].changed
  <2>1. /\ overlaps' = overlaps \cup NewOverlaps(s, changed)
        /\ owners' = [p \in Paths |-> IF p \in changed THEN s ELSE owners[p]]
        /\ committed' = committed /\ torn' = torn
        /\ missed' = missed \ ({s} \X changed)
    BY <1>7 DEF Claim
  <2>2. \A a \in Sessions : man'[a].files = man[a].files
    <3>1. PICK m \in Settled(man[s]) : man' = [man EXCEPT ![s] = m] BY <1>7 DEF Claim, Sealed
    <3>2. m.files = man[s].files BY <1>a, <3>1, SettledType
    <3> QED BY <3>1, <3>2 DEF TypeOK
  <2>3. \A a \in Sessions \ {s} : turn'[a] = turn[a] BY <1>7 DEF Claim, Sealed, TypeOK
  <2>4. ASSUME NEW a \in Sessions, NEW p \in Paths, Claimed(a, p)', a = s => p \notin changed
        PROVE  Claimed(a, p)
    BY <2>1, <2>2, <2>3, <2>4 DEF Claimed, Touched
  <2>5. \A a : Overlapping(a) \subseteq Overlapping(a)' BY <2>1 DEF Overlapping
  <2>6. ASSUME NEW p \in changed, NEW a \in Sessions, owners[p] = a, a # s
        PROVE  p \in Overlapping(a)' /\ p \in Overlapping(s)'
    <3>1. p \in Paths BY <1>a DEF Seals
    <3>2. Overlap(p, a, s) \in NewOverlaps(s, changed) BY <1>b, <2>6 DEF NewOverlaps
    <3>3. Overlap(p, a, s).path = p /\ Overlap(p, a, s).by = {a, s} BY DEF Overlap
    <3> QED BY <2>1, <3>1, <3>2, <3>3 DEF Overlapping
  <2>7. ASSUME NEW p \in Paths, NEW a \in Sessions, committed = {}, Claimed(a, p)'
        PROVE  /\ owners'[p] = a \/ (p \in Overlapping(a)' /\ owners'[p] # Nobody)
               /\ \A b \in Sessions : owners'[p] = b /\ b # a => p \in Overlapping(b)'
    <3>1. CASE p \notin changed
      <4>1. owners'[p] = owners[p] /\ Claimed(a, p) BY <2>1, <2>4, <2>7, <3>1
      <4> QED BY <2>5, <2>7, <4>1 DEF ClaimInv
    <3>2. CASE p \in changed /\ a = s BY <2>1, <3>2
    <3>3. CASE p \in changed /\ a # s
      <4>1. owners'[p] = s /\ Claimed(a, p) BY <2>1, <2>4, <2>7, <3>3
      <4>2. /\ owners[p] = a \/ (p \in Overlapping(a) /\ owners[p] # Nobody)
            /\ owners[p] = s => p \in Overlapping(s)
        BY <2>7, <3>3, <4>1 DEF ClaimInv
      <4>3. owners[p] \in Sessions BY <4>2 DEF TypeOK
      <4>4. p \in Overlapping(a)' BY <2>5, <2>6, <3>3, <4>2
      <4>5. p \in Overlapping(s)' BY <2>5, <2>6, <3>3, <4>2, <4>3
      <4> QED BY <1>b, <4>1, <4>4, <4>5
    <3> QED BY <3>1, <3>2, <3>3
  <2> QED BY <2>1, <2>7 DEF ClaimInv
<1>11. ASSUME NEW s \in Sessions, ClaimLost(s) PROVE ClaimInv'
  <2>1. PICK m \in Settled(man[s]) : man' = [man EXCEPT ![s] = m] BY <1>11 DEF ClaimLost, Sealed
  <2>2. man'[s].files = man[s].files /\ \A z \in Sessions \ {s} : man'[z] = man[z]
    BY <1>a, <2>1, SettledType DEF TypeOK
  <2>3. /\ torn' = torn /\ missed' = missed \cup ({s} \X turn[s].changed) /\ UNCHANGED shared
        /\ \A z \in Sessions \ {s} : turn'[z] = turn[z]
    BY <1>11 DEF ClaimLost, Sealed, TypeOK
  <2>4. \A p \in Paths : Claimed(s, p)' => Claimed(s, p) BY <2>2, <2>3 DEF Claimed, Touched
  <2> QED BY <1>2, <2>2, <2>3, <2>4
<1>8. ASSUME NEW c \in Coords, Commit(c) PROVE ClaimInv'
  BY <1>8 DEF ClaimInv, Commit
<1>9. CASE UNCHANGED <<shared, man, turn, missed>> /\ torn \subseteq torn'
  BY <1>1, <1>9 DEF shared, Claimed, Touched
<1>10. ASSUME NEW c \in Coords, ~Commit(c),
              \/ Add(c) \/ Unstage(c) \/ Check(c) \/ \E s \in Sessions : Plan(c, s)
              \/ \E usable \in BOOLEAN : Separate(c, usable)
       PROVE  ClaimInv'
  BY <1>9, <1>10 DEF Add, Unstage, Check, Plan, Separate
<1> QED BY <1>3, <1>4, <1>5, <1>6, <1>7, <1>8, <1>9, <1>10, <1>11
        DEF Next, Write, EndTurn, SealLease, Crash, vars

LEMMA StageStep == TypeOK /\ StageInv /\ [Next]_vars => StageInv'
<1> SUFFICES ASSUME TypeOK, StageInv, [Next]_vars, ~loose' PROVE StageInv'
  BY DEF StageInv
<1>a. \A c \in Coords : c # Nobody /\ \A s \in Sessions : c # s BY CoopConstants, Zenon
<1>b. ~loose
  BY ZenonT(60) DEF Next, vars, FirstWrite, Write, EndTurn, Seal, SealLease, Measure, Unmeasured, Claim, ClaimLost, Sealed,
         Done, Clear, Crash, Add, CoordinatorLease, Unstage, Check, Commit, Plan, Separate
<1>c. \A c \in Coords : /\ coord[c].pc \in {"split", "commit"} => lease = c
                        /\ coord[c].pc = "commit" => index = coord[c].seen
  BY <1>b DEF StageInv
\* A step of a session takes a free lease, or leaves its own.
<1>1. ASSUME NEW s \in Sessions, UNCHANGED <<index, coord>>,
             lease' = lease \/ lease \in {Nobody, s}
      PROVE  StageInv'
  <2>1. \A c \in Coords : coord[c].pc \in {"split", "commit"} => lease' = c
    BY <1>1, <1>a, <1>c
  <2> QED BY <1>1, <1>c, <2>1 DEF StageInv
<1>2. ASSUME NEW s \in Sessions,
             \/ FirstWrite(s) \/ EndTurn(s) \/ Seal(s) \/ SealLease(s) \/ Measure(s)
             \/ Unmeasured(s) \/ Claim(s) \/ ClaimLost(s) \/ Done(s) \/ Clear(s) \/ Crash(s)
             \/ \E p \in Paths : Write(s, p)
      PROVE  StageInv'
  <2>1. UNCHANGED <<index, coord>>
    BY <1>2 DEF FirstWrite, EndTurn, Seal, SealLease, Measure, Unmeasured, Claim, ClaimLost, Sealed, Done, Clear,
                Crash, Write, files
  <2>2. lease' = lease \/ lease \in {Nobody, s}
    BY <1>2 DEF FirstWrite, EndTurn, Seal, SealLease, Measure, Unmeasured, Claim, ClaimLost, Sealed, Done, Clear,
                Crash, Write, Released
  <2> QED BY <1>1, <2>1, <2>2
\* A step of a coordinator that no other is staging or committing beside.
<1>3. ASSUME NEW c \in Coords, lease \in {Nobody, c},
             \A d \in Coords \ {c} : coord'[d] = coord[d],
             /\ coord'[c].pc \in {"split", "commit"} => lease' = c
             /\ coord'[c].pc = "commit" => index' = coord'[c].seen
      PROVE  StageInv'
  <2>1. \A d \in Coords \ {c} : coord'[d].pc \notin {"split", "commit"}
    BY <1>3, <1>a, <1>c
  <2> QED BY <1>3, <2>1 DEF StageInv
<1>4. ASSUME NEW c \in Coords, NEW s \in Sessions, Plan(c, s) PROVE StageInv'
  <2>1. coord'[c].pc = "add" /\ \A d \in Coords \ {c} : coord'[d] = coord[d]
    BY <1>4 DEF Plan, TypeOK, NoPlan
  <2> QED BY <1>4, <1>c, <2>1 DEF Plan, files, StageInv
<1>5. ASSUME NEW c \in Coords, Add(c) PROVE StageInv'
  <2>1. coord'[c].pc = "split" /\ \A d \in Coords \ {c} : coord'[d] = coord[d]
    BY <1>5 DEF Add, TypeOK
  <2>2. lease = Nobody /\ lease' = c BY <1>5 DEF Add, CoordinatorLease
  <2> QED BY <1>3, <2>1, <2>2
<1>6. ASSUME NEW c \in Coords, NEW usable \in BOOLEAN, Separate(c, usable) PROVE StageInv'
  <2>1. lease = c BY <1>6, <1>c DEF Separate
  <2>2. coord'[c].pc \in {"review", "idle"} /\ \A d \in Coords \ {c} : coord'[d] = coord[d]
    <3>1. PICK i : \/ coord' = [coord EXCEPT ![c] = [coord[c] EXCEPT !.pc = "review", !.seen = i]]
                   \/ coord' = [coord EXCEPT ![c] = NoPlan]
      BY <1>6 DEF Separate
    <3>2. [coord[c] EXCEPT !.pc = "review", !.seen = i].pc = "review" /\ NoPlan.pc = "idle"
      BY DEF NoPlan, TypeOK
    <3> QED BY <3>1, <3>2 DEF TypeOK
  <2> QED BY <1>3, <2>1, <2>2
<1>7. ASSUME NEW c \in Coords, Unstage(c) PROVE StageInv'
  <2>1. coord'[c].pc = "idle" /\ \A d \in Coords \ {c} : coord'[d] = coord[d]
    BY <1>7 DEF Unstage, TypeOK, NoPlan
  <2>2. lease = Nobody BY <1>7 DEF Unstage
  <2> QED BY <1>3, <2>1, <2>2
<1>8. ASSUME NEW c \in Coords, Check(c) PROVE StageInv'
  <2>1. lease = Nobody BY <1>8 DEF Check, CoordinatorLease
  <2>2. CASE Pinned(c)
    <3>1. /\ coord'[c].pc = "commit" /\ coord'[c].seen = coord[c].seen
          /\ \A d \in Coords \ {c} : coord'[d] = coord[d]
      BY <1>8, <2>2 DEF Check, TypeOK
    <3>2. lease' = c /\ index' = index
      BY <1>8, <2>1, <2>2 DEF Check, CoordinatorLease, files
    <3> QED BY <1>3, <2>1, <2>2, <3>1, <3>2 DEF Pinned
  <2>3. CASE ~Pinned(c)
    <3>1. coord'[c].pc = "idle" /\ \A d \in Coords \ {c} : coord'[d] = coord[d]
      BY <1>8, <2>3 DEF Check, TypeOK, NoPlan
    <3> QED BY <1>3, <2>1, <3>1
  <2> QED BY <2>2, <2>3
<1>9. ASSUME NEW c \in Coords, Commit(c) PROVE StageInv'
  <2>1. lease = c BY <1>9, <1>c DEF Commit
  <2>2. coord'[c].pc = "idle" /\ \A d \in Coords \ {c} : coord'[d] = coord[d]
    BY <1>9 DEF Commit, TypeOK, NoPlan
  <2> QED BY <1>3, <2>1, <2>2
<1>10. CASE UNCHANGED vars
  BY <1>10, <1>c DEF vars, files, StageInv
<1> QED BY <1>2, <1>4, <1>5, <1>6, <1>7, <1>8, <1>9, <1>10 DEF Next

---------------------------------------------------------------------------
IInv == TypeOK /\ TurnInv /\ PlanInv /\ TreeInv /\ OwnInv /\ Listed /\ ChangedInv
        /\ ClaimInv /\ StageInv

\* The invariant holds in every behaviour, whatever the order of turns, seals, claims,
\* crashes and commits.
THEOREM CoopInvariant == Spec => []IInv
<1>1. Init => IInv
  <2> SUFFICES ASSUME Init PROVE IInv OBVIOUS
  <2>1. /\ TypeOK /\ Len(ckpts) = 0 /\ \A p \in Paths : tree[p] = {} /\ owners[p] = Nobody
        /\ \A s \in Sessions : pc[s] = "idle" /\ man[s].base = 0 /\ turn[s] = NoTurn
        /\ \A s \in Sessions, p \in Paths : man[s].files[p] = {}
        /\ \A c \in Coords : coord[c].pc = "idle"
    BY CoopTypeInit DEF Init, Fresh, NoPlan
  <2>2. NoTurn.base = 0 /\ NoTurn.changed = {} BY DEF NoTurn
  <2>3. TurnInv /\ PlanInv BY <2>1, CoopConstants DEF TurnInv, PlanInv, Open
  <2>4. TreeInv /\ Listed BY <2>1 DEF TreeInv, Listed, Bases
  <2>5. \A s \in Sessions : TurnsOf(s) = {}
    <3>1. \A s \in Sessions : \A b : b \notin TurnsOf(s) BY <2>1, <2>2, TurnsMember
    <3> QED BY <3>1
  <2>6. OwnInv BY <2>1, <2>5 DEF OwnInv
  <2>7. ChangedInv /\ ClaimInv BY <2>1, <2>2 DEF ChangedInv, ClaimInv, Claimed, Touched
  <2>8. StageInv BY <2>1 DEF StageInv
  <2> QED BY <2>1, <2>3, <2>4, <2>6, <2>7, <2>8 DEF IInv
<1>2. IInv /\ [Next]_vars => IInv'
  BY CoopTypeStep, TurnStep, PlanStep, TreeStep, OwnStep, ListedStep, ChangedStep, ClaimStep,
     StageStep DEF IInv
<1> QED BY <1>1, <1>2, PTL DEF Spec

\* coop.rs:496-498: no edit is forgotten; the turn it was made in is listed, under way,
\* being sealed, or known to be torn.
THEOREM CoopAccounted == Spec => []Accounted
<1>1. IInv => Accounted BY DEF IInv, Listed, Accounted
<1> QED BY <1>1, CoopInvariant, PTL

\* coop.rs:658-659: two sessions that list and claimed a path both see it as
\* overlapping, in whatever order their seals claim it and whatever claims are lost.
THEOREM CoopOverlapKnown == Spec => []OverlapKnown
<1>1. IInv => OverlapKnown
  <2> SUFFICES ASSUME IInv, committed = {}, NEW a \in Sessions, NEW b \in Sessions,
                      NEW p \in Paths, a # b, Claimed(a, p), Claimed(b, p)
               PROVE  p \in Overlapping(a) \cap Overlapping(b)
    BY DEF OverlapKnown
  <2> QED BY DEF IInv, ClaimInv
<1> QED BY <1>1, CoopInvariant, PTL

\* The interval from a turn's checkpoint to the next boundary holds the edits of that
\* turn and no others, when no turn is missing from the boundaries.
LEMMA IntervalIsTurn ==
    ASSUME IInv, \A z \in Sessions : ~Open(z) /\ z \notin torn,
           NEW s \in Sessions, NEW p \in Paths, NEW b \in man[s].files[p]
    PROVE  After(b)[p] \ ckpts[b][p] = {e \in tree[p] : e[2] = b}
<1>1. b \in Bases /\ TypeOK /\ TreeInv BY DEF IInv, TypeOK
<1>2. ckpts[b][p] = {e \in tree[p] : e[2] < b} BY <1>1 DEF TreeInv
<1>3. \A e \in tree[p] : e[2] \in Nat /\ e[1] \in Sessions /\ e[2] # 0 BY <1>1, EditTypes
<1>4. ASSUME NEW e \in tree[p] PROVE e[2] \in Boundaries
  <2>1. e[2] \in man[e[1]].files[p] \cup {man[e[1]].base} BY <1>3 DEF IInv, Listed
  <2>2. e[2] \in man[e[1]].files[p] => e[2] \in UNION {man[e[1]].files[q] : q \in Paths} OBVIOUS
  <2> QED BY <1>3, <2>1, <2>2 DEF Boundaries
<1>5. b \in Nat BY <1>1 DEF Bases
<1>6. CASE (\A x \in Boundaries : x <= b) /\ After(b) = tree
  <2>1. \A e \in tree[p] : e[2] <= b BY <1>4, <1>6
  <2> QED BY <1>2, <1>3, <1>5, <1>6, <2>1
<1>7. ASSUME NEW x \in Boundaries, x > b, After(b) = ckpts[x], \A y \in Boundaries : y > b => x <= y
      PROVE  After(b)[p] \ ckpts[b][p] = {e \in tree[p] : e[2] = b}
  <2>1. x \in Bases BY <1>1 DEF Boundaries, TypeOK, Bases
  <2>2. ckpts[x][p] = {e \in tree[p] : e[2] < x} BY <1>1, <2>1 DEF TreeInv
  <2>3. \A e \in tree[p] : e[2] > b => x <= e[2] BY <1>4, <1>7
  <2>4. x \in Nat BY <2>1 DEF Bases
  <2> QED BY <1>2, <1>3, <1>5, <1>7, <2>2, <2>3, <2>4
<1> QED BY <1>1, <1>6, <1>7, AfterIsNext

\* So a session's turns replayed on the last commit are its sealed edits.
LEMMA SplitIsOwn ==
    ASSUME IInv, \A z \in Sessions : ~Open(z) /\ z \notin torn,
           NEW s \in Sessions, NEW p \in Paths
    PROVE  Split(s, p) = head[p] \cup {e \in tree[p] : e[1] = s /\ e[2] # man[s].base}
<1>1. Split(s, p) = head[p] \cup UNION {{e \in tree[p] : e[2] = b} : b \in man[s].files[p]}
  BY IntervalIsTurn DEF Split
<1>2. ASSUME NEW e \in tree[p]
      PROVE  e[2] \in man[s].files[p] <=> e[1] = s /\ e[2] # man[s].base
  <2>1. e[2] \in man[s].files[p] => e[2] \in TurnsOf(s) /\ e[2] # man[s].base
    BY TurnsMember DEF IInv, OwnInv
  <2>2. e[2] \in TurnsOf(s) => e[1] = s BY DEF IInv, OwnInv
  <2>3. e[1] = s => e[2] \in man[s].files[p] \cup {man[s].base} BY DEF IInv, Listed
  <2> QED BY <2>1, <2>2, <2>3
<1> QED BY <1>1, <1>2

\* coop.rs:1110-1126: a separated file is the last commit and the session's sealed
\* edits, all of them and no others.
THEOREM CoopSplitOwn == Spec => SplitOwn
<1>1. IInv /\ [Next]_vars =>
         [\A c \in Coords :
             coord[c].pc = "split" /\ coord'[c].pc = "review"
               /\ (\A z \in Sessions : ~Open(z) /\ z \notin torn)
                 => \A p \in coord[c].shared :
                      index'[p] = head[p] \cup {e \in tree[p] : e[1] = coord[c].of
                                                           /\ e[2] # man[e[1]].base}]_vars
  <2> SUFFICES ASSUME IInv, Next, NEW c \in Coords, coord[c].pc = "split",
                      coord'[c].pc = "review", \A z \in Sessions : ~Open(z) /\ z \notin torn,
                      NEW p \in coord[c].shared
               PROVE  index'[p] = head[p] \cup {e \in tree[p] : e[1] = coord[c].of
                                                       /\ e[2] # man[e[1]].base}
    BY DEF vars
  <2>0. TypeOK /\ PlanInv BY DEF IInv
  <2>1. ASSUME NEW d \in Coords, Add(d) \/ Unstage(d) \/ Check(d) \/ Commit(d)
                                 \/ \E s \in Sessions : Plan(d, s)
        PROVE  coord'[c].pc # "review"
    <3>1. PICK k : coord' = [coord EXCEPT ![d] = k] /\ k.pc \in {"split", "idle", "add", "commit"}
      BY <2>0, <2>1 DEF Add, Unstage, Check, Commit, Plan, NoPlan, TypeOK
    <3> QED BY <2>0, <3>1 DEF TypeOK
  <2>2. ASSUME NEW s \in Sessions,
             \/ FirstWrite(s) \/ EndTurn(s) \/ Seal(s) \/ SealLease(s) \/ Measure(s)
             \/ Unmeasured(s) \/ Claim(s) \/ ClaimLost(s) \/ Done(s) \/ Clear(s) \/ Crash(s)
             \/ \E q \in Paths : Write(s, q)
        PROVE  coord' = coord
    BY <2>2 DEF FirstWrite, EndTurn, Seal, SealLease, Measure, Unmeasured, Claim, ClaimLost, Sealed, Done, Clear,
                Crash, Write
  <2>3. PICK d \in Coords, usable \in BOOLEAN : Separate(d, usable) BY <2>1, <2>2 DEF Next
  <2>4. d = c
    <3>1. d # c => coord'[c] = coord[c] BY <2>0, <2>3 DEF Separate, TypeOK
    <3> QED BY <3>1
  <2>5. usable
    <3>1. ~usable => coord' = [coord EXCEPT ![c] = NoPlan] BY <2>3, <2>4 DEF Separate
    <3> QED BY <2>0, <3>1 DEF NoPlan, TypeOK
  <2>6. coord[c].of \in Sessions /\ p \in Paths BY <2>0 DEF PlanInv, TypeOK
  <2>7. index'[p] = Split(coord[c].of, p) BY <2>3, <2>4, <2>5, <2>6 DEF Separate
  <2> QED BY <2>6, <2>7, SplitIsOwn
<1> QED BY <1>1, CoopInvariant, PTL DEF Spec, SplitOwn

\* coop.rs:1399-1401, 1503-1507: what is committed is what was reviewed.
THEOREM CoopReviewed == Spec => Reviewed
<1>1. IInv /\ [Next]_vars => [head' # head /\ ~loose
          => \E c \in Coords : coord[c].pc = "commit" /\ head' = coord[c].seen]_vars
  <2> SUFFICES ASSUME IInv, Next, head' # head, ~loose
               PROVE  \E c \in Coords : coord[c].pc = "commit" /\ head' = coord[c].seen
    BY Zenon DEF vars
  <2>1. PICK c \in Coords : Commit(c)
    BY ZenonT(60) DEF Next, FirstWrite, EndTurn, Seal, SealLease, Measure, Unmeasured, Claim, ClaimLost, Sealed, Done, Clear,
           Crash, Write, Add, Unstage, Check, Plan, Separate, files
  <2> QED BY <2>1 DEF Commit, IInv, StageInv
<1> QED BY <1>1, CoopInvariant, PTL DEF Spec, Reviewed
=============================================================================
