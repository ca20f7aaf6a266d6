--------------------------- MODULE ToolExecProofs ----------------------------
(* Proofs about one run of the agent loop, for every batch a response may    *)
(* ask for and any window size: reads and writes are observed in the order   *)
(* of the calls, results say what happened, and no write runs unguarded.     *)
EXTENDS ToolExec, FiniteSetTheorems, SequenceTheorems, WellFoundedInduction, TLAPS

-----------------------------------------------------------------------------
(* The inductive invariant.  First the control: the response as it comes in, *)
(* the batch made of it and the cursor that walks it.                        *)

Coming  == {"stream", "turn", "baseline", "cache"}
Reading == {"spawn", "window", "landed"}
Barring == {"gate", "lease", "checkpoint", "body"}
Going   == {"top", "closing"} \cup Reading \cup Barring

(* The batch is made of whole calls, in their order, with a slot for each.   *)
Increasing == \A k, l \in DOMAIN order : k < l => order[k] < order[l]
BatchInv ==
    /\ Increasing /\ \A k \in DOMAIN order : frag[order[k]] = 2
    /\ Len(order) <= Len(plan)
    /\ asked = Len(slots) /\ Len(slots) <= Len(order)
    /\ pc = "stream" => Len(order) = 0
    /\ pc \in Going \cup {"baseline", "cache"} => Len(slots) = Len(order)

(* The hook has seen every call the stream left behind.                      *)
HookInv == pc = "stream" =>
    /\ \A s \in DOMAIN plan : s > active => frag[s] = 0
    /\ \A s \in DOMAIN plan : s < active /\ frag[s] = 2 /\ plan[s] # "read" => barrier_hit
    /\ \A s \in DOMAIN plan : body[s] # NoBody => s < active
    /\ started <= active

(* While the response comes in only reads have been started, and before none *)
(* of them stands a whole write.                                             *)
EarlyInv == pc \in Coming =>
    \A s \in DOMAIN plan : body[s] # NoBody =>
        /\ plan[s] = "read" /\ frag[s] = 2
        /\ \A r \in 1 .. s : frag[r] = 2 => plan[r] = "read"

(* The cursor stands on a call of the kind the branch handles; a window      *)
(* starts at a multiple of its size and ends with its run of reads.          *)
CursorInv ==
    /\ pc \in Going => i <= Len(order) + 1 /\ i <= w /\ (pc \notin Reading => w = i)
    /\ pc \in Barring => i <= Len(order) /\ Kind(i) # "read"
    /\ pc \in Reading => i <= Len(order) /\ Kind(i) = "read"
    /\ pc = "spawn" => w < RunEnd /\ WindowStart = w
    /\ pc = "window" => w < WindowEnd(WindowStart)
    /\ pc = "landed" => w <= RunEnd /\ (w < RunEnd => WindowStart = w)

(* The types, by the part of the state they speak of.                        *)
Slot == [st : {"none", "running", "done"}, out : Results]
FlowType ==
    /\ pc \in Coming \cup Going \cup {"ask", "end", "dropped"}
    /\ i \in Nat \ {0} /\ w \in Nat \ {0} /\ cancelled \in BOOLEAN
StreamType ==
    /\ turn \in 0 .. MaxTurns /\ plan \in Seq(Kinds)
    /\ frag \in [DOMAIN plan -> 0 .. 2] /\ active \in 0 .. Len(plan)
    /\ barrier_hit \in BOOLEAN /\ started \in 0 .. Len(plan)
BodyType == body \in [DOMAIN plan -> Slot] /\ wrote \in [DOMAIN plan -> Nat]
BatchType ==
    /\ order \in Seq(DOMAIN plan) /\ asked \in 0 .. Len(plan)
    /\ slots \in Seq(Results)
GuardType ==
    /\ writer_lease \in BOOLEAN /\ auto_checkpointed \in BOOLEAN /\ snap \in Int
WorldType ==
    /\ cache \in [shown : Int, print : Int, tasked : BOOLEAN]
    /\ file \in Nat /\ repo \in BOOLEAN /\ outer \in 0 .. MaxOuter /\ esc \in BOOLEAN
    /\ late \in [read : Nat, write : Nat]

Control == TypeOK /\ BatchInv /\ HookInv /\ EarlyInv /\ CursorInv

-----------------------------------------------------------------------------
(* Then the data: what bodies, slots, the cache and the guards hold.         *)

(* A body that has ended answers its own call with what it did; what it read *)
(* or wrote is not newer than the file.                                      *)
Answers == {"read", "same", "wrote", "failed"}
BodyOK(s) ==
    /\ body[s].st # "done" => body[s] \in {NoBody, Running}
    /\ body[s].st = "done" => body[s].out.from = s /\ body[s].out.tag \in Answers
    /\ body[s].out.tag = "read" => plan[s] = "read" /\ body[s].out.ver \in 0 .. file
    /\ body[s].out.tag = "same" => plan[s] = "read"
    /\ body[s].out.tag = "wrote" => wrote[s] = body[s].out.ver
    /\ wrote[s] <= file
    /\ wrote[s] # 0 => plan[s] # "read" /\ body[s].st = "done"
BodyInv == \A s \in DOMAIN plan : BodyOK(s)

(* A write begins at its turn, and only the one the run waits for, or        *)
(* dropped, can be running.                                                  *)
Begun(s) == plan[s] # "read" /\ body[s] # NoBody
WriteInv ==
    /\ \A s \in DOMAIN plan : Begun(s) => \E k \in DOMAIN order : order[k] = s
    /\ \A k \in DOMAIN order : Begun(order[k]) =>
          k < i \/ (k = i /\ pc \in {"body", "dropped"})
    /\ \A s \in DOMAIN plan : Begun(s) /\ body[s] = Running =>
          pc \in {"body", "dropped"} /\ i \in DOMAIN order /\ s = order[i]
WritesInOrder == \A k, l \in DOMAIN order :
    k < l /\ wrote[order[k]] # 0 /\ wrote[order[l]] # 0 => wrote[order[k]] < wrote[order[l]]

(* A read that runs or has read has every write before it behind it.         *)
Live(s) == plan[s] = "read" /\ (body[s] = Running \/ body[s].out.tag = "read")
ReadInv == \A k, l \in DOMAIN order :
    k < l /\ Live(order[l]) /\ Kind(k) # "read" =>
        /\ pc \notin Coming /\ k < i
        /\ body[order[l]].out.tag = "read" => wrote[order[k]] <= body[order[l]].out.ver

(* A slot holds what its body answered, or why there is no answer; it is     *)
(* filled when the cursor has passed.                                        *)
SlotOK(k) ==
    /\ slots[k].tag \in Answers => slots[k] = body[order[k]].out /\ body[order[k]].st = "done"
    /\ slots[k].tag \in {"cancelled", "error"} /\ Kind(k) # "read" =>
          wrote[order[k]] = 0 /\ body[order[k]] # Running
    /\ pc \in {"baseline", "cache"} => slots[k] = Placeholder
    /\ pc \in Going /\ slots[k] # Placeholder => k < w
    /\ slots[k].tag = "read" => \A l \in DOMAIN order :
          k < l /\ wrote[order[l]] # 0 => slots[k].ver < wrote[order[l]]
SlotInv == \A k \in DOMAIN slots : SlotOK(k)

(* Without other programs, what is read is the file of now or some call of   *)
(* the response has written since.                                           *)
CacheInv ==
    /\ CacheAttests
    /\ outer = 0 => \A s \in DOMAIN plan : body[s].out.tag = "read" =>
          body[s].out.ver = file \/ \E r \in DOMAIN plan : body[s].out.ver < wrote[r]

(* A write that has begun has the lease and the checkpoint; the checkpoint   *)
(* is older than every write.                                                *)
GuardInv ==
    /\ \A s \in DOMAIN plan : Begun(s) /\ plan[s] = "write" =>
          writer_lease /\ (repo => auto_checkpointed)
    /\ pc = "checkpoint" => writer_lease
    /\ pc \in {"lease", "checkpoint"} => Kind(i) = "write"
    /\ auto_checkpointed => snap <= file
    /\ auto_checkpointed => \A s \in DOMAIN plan :
          plan[s] = "write" /\ wrote[s] # 0 => snap < wrote[s]

(* What is about to start after Esc is the first to.                         *)
LateInv ==
    /\ EscBounds
    /\ (~esc \/ pc \in {"spawn", "gate", "lease", "checkpoint"}) => late = [read |-> 0, write |-> 0]

ToolInv ==
    /\ Control /\ BodyInv /\ WriteInv /\ WritesInOrder /\ ReadInv /\ SlotInv
    /\ CacheInv /\ GuardInv /\ LateInv

-----------------------------------------------------------------------------
(* The model's operators on positions, as functions of what they depend on.  *)

End(n, ord, pl) == CHOOSE j \in n + 1 .. Len(ord) + 1 :
                     /\ \A k \in n .. j - 1 : pl[ord[k]] = "read"
                     /\ j = Len(ord) + 1 \/ pl[ord[j]] # "read"
Chunk(n, m) == n + ((m - n) \div MAX_PARALLEL) * MAX_PARALLEL

LEMMA Division ==
    ASSUME NEW a \in Nat, NEW q \in Int, q = a \div MAX_PARALLEL
    PROVE  q \in Nat /\ q * MAX_PARALLEL <= a /\ a < q * MAX_PARALLEL + MAX_PARALLEL
BY BoundsAssumption

LEMMA Quotient ==
    ASSUME NEW a \in Nat, NEW q \in Nat,
           q * MAX_PARALLEL <= a, a < q * MAX_PARALLEL + MAX_PARALLEL
    PROVE  a \div MAX_PARALLEL = q
<1>1. PICK r \in Int : r = a \div MAX_PARALLEL
  BY BoundsAssumption
<1>2. r \in Nat /\ r * MAX_PARALLEL <= a /\ a < r * MAX_PARALLEL + MAX_PARALLEL
  BY <1>1, Division
<1>3. CASE r < q
  <2>1. (r + 1) * MAX_PARALLEL <= q * MAX_PARALLEL
    BY <1>2, <1>3, BoundsAssumption
  <2>2. (r + 1) * MAX_PARALLEL = r * MAX_PARALLEL + MAX_PARALLEL
    BY <1>2, BoundsAssumption
  <2> QED  BY <2>1, <2>2, <1>2, BoundsAssumption
<1>4. CASE q < r
  <2>1. (q + 1) * MAX_PARALLEL <= r * MAX_PARALLEL
    BY <1>2, <1>4, BoundsAssumption
  <2>2. (q + 1) * MAX_PARALLEL = q * MAX_PARALLEL + MAX_PARALLEL
    BY <1>2, BoundsAssumption
  <2> QED  BY <2>1, <2>2, <1>2, BoundsAssumption
<1> QED  BY <1>1, <1>2, <1>3, <1>4

(* A window's start is its own, every position of the window has the same,   *)
(* and the next window starts where it ends.                                 *)
LEMMA ChunkFacts ==
    ASSUME NEW n \in Nat, NEW m \in Nat, n <= m
    PROVE  /\ Chunk(n, n) = n
           /\ Chunk(n, m) \in n .. m /\ m < Chunk(n, m) + MAX_PARALLEL
           /\ m + 1 < Chunk(n, m) + MAX_PARALLEL => Chunk(n, m + 1) = Chunk(n, m)
           /\ m + 1 = Chunk(n, m) + MAX_PARALLEL => Chunk(n, m + 1) = m + 1
<1>1. PICK q \in Int : q = (m - n) \div MAX_PARALLEL
  BY BoundsAssumption
<1>2. PICK p \in Int : p = q * MAX_PARALLEL
  BY <1>1, BoundsAssumption
<1>3. q \in Nat /\ p <= m - n /\ m - n < p + MAX_PARALLEL /\ p \in Nat
  BY <1>1, <1>2, Division, BoundsAssumption
<1>4. Chunk(n, m) = n + p
  BY <1>1, <1>2 DEF Chunk
<1>5. Chunk(n, n) = n
  <2>1. 0 \div MAX_PARALLEL = 0 /\ n - n = 0 /\ 0 * MAX_PARALLEL = 0
    BY Quotient, BoundsAssumption
  <2> QED  BY <2>1 DEF Chunk
<1>6. ASSUME m + 1 < n + p + MAX_PARALLEL
      PROVE  Chunk(n, m + 1) = n + p
  <2>1. ((m + 1) - n) \div MAX_PARALLEL = q
    BY <1>2, <1>3, <1>6, Quotient, BoundsAssumption
  <2> QED  BY <2>1, <1>2 DEF Chunk
<1>7. ASSUME m + 1 = n + p + MAX_PARALLEL
      PROVE  Chunk(n, m + 1) = m + 1
  <2>1. (q + 1) * MAX_PARALLEL = p + MAX_PARALLEL
    BY <1>2, <1>3, BoundsAssumption
  <2>2. (m + 1) - n = p + MAX_PARALLEL
    BY <1>3, <1>7, BoundsAssumption
  <2>3. ((m + 1) - n) \div MAX_PARALLEL = q + 1
    BY <2>1, <2>2, <1>3, Quotient, BoundsAssumption
  <2> QED  BY <2>1, <2>2, <2>3, <1>3, BoundsAssumption DEF Chunk
<1> QED  BY <1>3, <1>4, <1>5, <1>6, <1>7, BoundsAssumption

(* A set of numbers has a least one: the intervals below its members are     *)
(* finite, and inclusion of finite sets is well-founded.                     *)
LEMMA LeastExists ==
    ASSUME NEW L \in SUBSET Nat, L # {}
    PROVE  \E x \in L : \A y \in L : x <= y
<1> DEFINE Below == {1..x : x \in L}
<1>1. Below \subseteq FiniteSubsetsOf(Nat)
  <2>1. \A x \in L : 1..x \in SUBSET Nat /\ IsFiniteSet(1..x) BY FS_Interval
  <2> QED BY <2>1 DEF FiniteSubsetsOf
<1>2. Below # {} OBVIOUS
<1>3. PICK U \in Below : \A V \in Below : ~(<<V, U>> \in StrictSubsetOrdering(Nat))
  <2>1. IsWellFoundedOn(StrictSubsetOrdering(Nat), FiniteSubsetsOf(Nat))
    BY FS_StrictSubsetOrderingWellFounded
  <2> HIDE DEF Below
  <2> QED BY <1>1, <1>2, <2>1, WFMin
<1>4. PICK x \in L : U = 1..x OBVIOUS
<1>5. ASSUME NEW y \in L, y < x PROVE FALSE
  <2>1. 1..y \in Below /\ 1..y \subseteq 1..x /\ x \notin 1..y /\ x \in 1..x BY <1>5
  <2>2. 1..y # 1..x BY <2>1
  <2>3. 1..y \in SUBSET Nat /\ 1..x \in SUBSET Nat OBVIOUS
  <2>4. <<1..y, 1..x>> \in StrictSubsetOrdering(Nat)
    BY <2>1, <2>2, <2>3 DEF StrictSubsetOrdering
  <2> QED BY <1>3, <1>4, <2>1, <2>4
<1> QED BY <1>5

(* The run of reads that starts at a read ends at the first call that is not *)
(* one, or with the batch.                                                   *)
LEMMA EndFacts ==
    ASSUME NEW pl \in Seq(Kinds), NEW ord \in Seq(DOMAIN pl), NEW n \in 1 .. Len(ord),
           pl[ord[n]] = "read"
    PROVE  /\ End(n, ord, pl) \in n + 1 .. Len(ord) + 1
           /\ \A k \in n .. End(n, ord, pl) - 1 : pl[ord[k]] = "read"
<1> DEFINE Stops == {j \in n + 1 .. Len(ord) + 1 : j = Len(ord) + 1 \/ pl[ord[j]] # "read"}
<1>1. Stops \in SUBSET Nat /\ Len(ord) + 1 \in Stops
  OBVIOUS
<1>2. PICK j \in Stops : \A k \in Stops : j <= k
  <2> HIDE DEF Stops
  <2> QED  BY <1>1, LeastExists
<1>3. \A k \in n .. j - 1 : pl[ord[k]] = "read"
  <2> SUFFICES ASSUME NEW k \in n .. j - 1, pl[ord[k]] # "read"  PROVE FALSE
    OBVIOUS
  <2>1. k \in n + 1 .. Len(ord) + 1 /\ k < j
    BY <1>2
  <2>2. k \in Stops
    BY <2>1
  <2> QED  BY <2>1, <2>2, <1>2
<1>4. \E e \in n + 1 .. Len(ord) + 1 :
        /\ \A k \in n .. e - 1 : pl[ord[k]] = "read"
        /\ e = Len(ord) + 1 \/ pl[ord[e]] # "read"
  BY <1>2, <1>3
<1> QED  BY <1>4 DEF End

LEMMA Positions == RunEnd = End(i, order, plan) /\ WindowStart = Chunk(i, w)
BY DEF RunEnd, End, Kind, WindowStart, Chunk

-----------------------------------------------------------------------------
(* Types.                                                                    *)

LEMMA TypeParts ==
    TypeOK <=> FlowType /\ StreamType /\ BodyType /\ BatchType /\ GuardType /\ WorldType
BY DEF TypeOK, FlowType, StreamType, BodyType, BatchType, GuardType, WorldType,
       Coming, Going, Reading, Barring, Kinds, Slot

LEMMA ResultTypes ==
    /\ Placeholder \in Results /\ Cancelled \in Results
    /\ Abandoned \in Results /\ Refused \in Results
    /\ \A tag \in Tags, from \in Nat, ver \in Int : Result(tag, from, ver) \in Results
    /\ NoBody \in Slot /\ Running \in Slot /\ \A r \in Results : Ended(r) \in Slot
BY DEF Results, Result, Tags, Placeholder, Cancelled, Abandoned, Refused, Slot, NoBody, Running, Ended

LEMMA Landing ==
    ASSUME slots \in Seq(Results), NEW k \in DOMAIN slots, NEW r \in Results, Land(k, r)
    PROVE  /\ slots' \in Seq(Results) /\ Len(slots') = Len(slots)
           /\ slots'[k] = r /\ \A l \in DOMAIN slots : l # k => slots'[l] = slots[l]
BY DEF Land

(* The batch CloseStream makes is no longer than the response.               *)
LEMMA Closed ==
    ASSUME TypeOK, CloseStream
    PROVE  /\ order' \in Seq(DOMAIN plan) /\ Len(order') \in 1 .. Len(plan)
           /\ \A k \in DOMAIN order' : frag[order'[k]] = 2
           /\ \A k, l \in DOMAIN order' : k < l => order'[k] < order'[l]
<1>0. plan \in Seq(Kinds) /\ Len(plan) \in Nat /\ DOMAIN plan = 1 .. Len(plan)
  BY TypeParts DEF StreamType
<1>1. Whole \in SUBSET (1 .. Len(plan)) /\ Whole \subseteq DOMAIN plan
  BY <1>0 DEF Whole
<1>2. IsFiniteSet(1 .. Len(plan)) /\ Cardinality(1 .. Len(plan)) = Len(plan)
  BY <1>0, FS_Interval, SMTT(30)
<1>3. IsFiniteSet(Whole) /\ Cardinality(Whole) <= Len(plan) /\ Cardinality(Whole) \in Nat
  BY <1>1, <1>2, FS_Subset, FS_CardinalityType
<1>4. Cardinality(Whole) # 0
  BY <1>3, FS_EmptySet DEF CloseStream
<1>5. PICK n \in Nat : n = Cardinality(Whole)
  BY <1>3
<1>6. n \in 1 .. Len(plan)
  BY <1>0, <1>3, <1>4, <1>5
<1>7. order' \in [1 .. n -> Whole]
  BY <1>5 DEF CloseStream
<1>8. order' \in [1 .. n -> DOMAIN plan]
  BY <1>7, <1>1
<1>9. order' \in Seq(DOMAIN plan) /\ Len(order') = n
  BY <1>8, <1>5
<1>10. \A k \in 1 .. n : frag[order'[k]] = 2
  BY <1>7 DEF Whole
<1>11. \A k \in DOMAIN order' : frag[order'[k]] = 2
  BY <1>7, <1>10
<1>12. \A k, l \in DOMAIN order' : k < l => order'[k] < order'[l]
  BY DEF CloseStream
<1> QED  BY <1>6, <1>9, <1>11, <1>12

(* Positions of the batch that the cursor of execute_calls relies on.        *)
LEMMA Cursor ==
    ASSUME Control
    PROVE  /\ pc \in Barring \cup Reading => i \in DOMAIN order /\ i \in DOMAIN slots
           /\ pc = "top" /\ i <= Len(order) => i \in DOMAIN order /\ i \in DOMAIN slots
           /\ pc \in Reading =>
                /\ RunEnd \in i + 1 .. Len(order) + 1
                /\ \A k \in i .. RunEnd - 1 : k \in DOMAIN order /\ plan[order[k]] = "read"
           /\ pc = "window" => w \in DOMAIN order /\ w \in DOMAIN slots /\ w < RunEnd
<1>0. FlowType /\ StreamType /\ BatchType
  BY TypeParts DEF Control
<1>1. pc \in Barring \cup Reading => i \in DOMAIN order /\ i \in DOMAIN slots
  BY <1>0 DEF Control, FlowType, BatchType, BatchInv, CursorInv, Going, Barring, Reading
<1>2. pc = "top" /\ i <= Len(order) => i \in DOMAIN order /\ i \in DOMAIN slots
  BY <1>0 DEF Control, FlowType, BatchType, BatchInv, CursorInv, Going
<1>3. ASSUME pc \in Reading
      PROVE  /\ RunEnd \in i + 1 .. Len(order) + 1
             /\ \A k \in i .. RunEnd - 1 : k \in DOMAIN order /\ plan[order[k]] = "read"
  <2>1. i \in 1 .. Len(order) /\ plan[order[i]] = "read"
    BY <1>0, <1>1, <1>3 DEF Control, BatchType, CursorInv, Reading, Kind
  <2>2. plan \in Seq(Kinds) /\ order \in Seq(DOMAIN plan)
    BY <1>0 DEF StreamType, BatchType
  <2>3. RunEnd = End(i, order, plan)
    BY Positions
  <2>4. /\ RunEnd \in i + 1 .. Len(order) + 1
        /\ \A k \in i .. RunEnd - 1 : plan[order[k]] = "read"
    BY <2>1, <2>2, <2>3, EndFacts
  <2> QED  BY <2>1, <2>2, <2>4
<1>4. pc = "window" => w \in DOMAIN order /\ w \in DOMAIN slots /\ w < RunEnd
  <2> SUFFICES ASSUME pc = "window"  PROVE w \in DOMAIN order /\ w \in DOMAIN slots /\ w < RunEnd
    OBVIOUS
  <2>1. i \in Nat /\ w \in Nat /\ i <= w /\ Len(slots) = Len(order) /\ i # 0 /\ w < WindowEnd(WindowStart)
    BY <1>0 DEF Control, FlowType, CursorInv, BatchInv, Going, Reading
  <2>2. WindowStart \in i .. w
    BY <2>1, ChunkFacts, Positions
  <2>3. RunEnd \in Nat /\ RunEnd <= Len(order) + 1
    BY <1>3, <2>1, <1>0 DEF Reading, BatchType
  <2>4. w < RunEnd
    BY <2>1, <2>2, <2>3, BoundsAssumption DEF WindowEnd
  <2> QED  BY <1>0, <2>1, <2>3, <2>4 DEF BatchType
<1> QED  BY <1>1, <1>2, <1>3, <1>4

(* A window starts no more reads than it has room for.                       *)
LEMMA Few ==
    ASSUME Control, pc = "spawn", NEW new \in SUBSET ToSpawn
    PROVE  Cardinality(new) \in 0 .. MAX_PARALLEL
<1>1. w \in Nat /\ w < RunEnd /\ RunEnd \in Nat /\ MAX_PARALLEL \in Nat /\ MAX_PARALLEL # 0
  BY Cursor, TypeParts, BoundsAssumption DEF Control, CursorInv, FlowType, BatchType, Reading
<1>2. PICK e \in Nat : e = WindowEnd(w)
  BY <1>1 DEF WindowEnd
<1>3. w <= e /\ e - w <= MAX_PARALLEL
  BY <1>1, <1>2 DEF WindowEnd
<1> DEFINE f == [k \in w .. e - 1 |-> order[k]]
<1>4. IsFiniteSet(w .. e - 1) /\ Cardinality(w .. e - 1) <= MAX_PARALLEL
  <2>1. w \in Int /\ e - 1 \in Int
    BY <1>1
  <2>2. /\ IsFiniteSet(w .. e - 1)
        /\ Cardinality(w .. e - 1) = IF w > e - 1 THEN 0 ELSE (e - 1) - w + 1
    BY <2>1, FS_Interval
  <2> QED  BY <1>1, <1>3, <2>2
<1>5. f \in Surjection(w .. e - 1, ToSpawn)
  BY <1>2 DEF Surjection, ToSpawn
<1>6. IsFiniteSet(ToSpawn) /\ Cardinality(ToSpawn) <= Cardinality(w .. e - 1)
  <2> HIDE DEF f
  <2> QED  BY <1>4, <1>5, FS_Surjection
<1> QED  BY <1>1, <1>4, <1>6, FS_Subset, FS_CardinalityType

(* The last of the answers that are reads.                                   *)
LEMMA LastAnswer ==
    ASSUME slots \in Seq(Results), ReadAnswers # {}
    PROVE  \E k \in ReadAnswers : \A l \in ReadAnswers : l <= k
<1> DEFINE Bounds == {n \in Nat : \A l \in ReadAnswers : l <= n}
<1>1. Len(slots) \in Nat /\ ReadAnswers \subseteq 1 .. Len(slots)
  BY DEF ReadAnswers
<1>2. Bounds \in SUBSET Nat /\ Len(slots) \in Bounds
  BY <1>1
<1>3. PICK n \in Bounds : \A m \in Bounds : n <= m
  <2> HIDE DEF Bounds
  <2> QED  BY <1>2, LeastExists
<1>4. ASSUME n \notin ReadAnswers  PROVE FALSE
  <2>0. PICK k \in ReadAnswers : k \in 1 .. Len(slots) /\ k <= n
    BY <1>1, <1>3
  <2>1. n # 0
    BY <2>0, <1>1
  <2>2. n \in Nat /\ \A l \in ReadAnswers : l \in Nat /\ l <= n /\ l # n
    BY <1>1, <1>3, <1>4
  <2>3. n - 1 \in Nat /\ \A l \in ReadAnswers : l <= n - 1
    BY <2>1, <2>2
  <2> QED  BY <1>3, <2>2, <2>3
<1> QED  BY <1>3, <1>4

LEMMA TypeStep == Control /\ [Next]_vars => TypeOK'
<1> SUFFICES ASSUME Control, [Next]_vars
             PROVE  FlowType' /\ StreamType' /\ BodyType' /\ BatchType' /\ GuardType' /\ WorldType'
  BY TypeParts, PTL
<1>0. FlowType /\ StreamType /\ BodyType /\ BatchType /\ GuardType /\ WorldType
  BY TypeParts DEF Control
<1>a. UNCHANGED <<pc, cursor>> => FlowType'
  BY <1>0 DEF FlowType, cursor
<1>b. UNCHANGED stream => StreamType' /\ plan' = plan
  BY <1>0 DEF StreamType, stream
<1>c. UNCHANGED <<plan, body, wrote>> => BodyType'
  BY <1>0 DEF BodyType
<1>d. UNCHANGED <<plan, batch>> => BatchType'
  BY <1>0 DEF BatchType, batch
<1>e. UNCHANGED guard => GuardType'
  BY <1>0 DEF GuardType, guard
<1>f. UNCHANGED <<cache, world, late>> => WorldType'
  BY <1>0 DEF WorldType, world
<1>g. UNCHANGED cursor /\ pc' \in Coming \cup Going \cup {"ask", "end", "dropped"} => FlowType'
  BY <1>0 DEF FlowType, cursor
<1>h. ASSUME slots' \in Seq(Results), UNCHANGED <<plan, order, asked>>  PROVE BatchType'
  BY <1>0, <1>h DEF BatchType
<1>i. UNCHANGED ghosts => UNCHANGED <<wrote, late>>
  BY DEF ghosts
<1> USE <1>b, <1>e
<1>1. CASE Ask
  <2>1. PICK p \in Plans :
        /\ plan' = p
        /\ frag' = [s \in DOMAIN p |-> 0]
        /\ body' = [s \in DOMAIN p |-> NoBody]
        /\ wrote' = [s \in DOMAIN p |-> 0]
    BY <1>1 DEF Ask
  <2>2. p \in Seq(Kinds)
    BY PlansAssumption DEF Kinds
  <2>3. StreamType'
    <3>1. Len(p) \in Nat /\ frag' \in [DOMAIN p -> 0 .. 2]
      BY <2>1, <2>2
    <3>2. turn' \in 0 .. MaxTurns
      BY <1>0, <1>1, BoundsAssumption DEF Ask, StreamType
    <3>3. active' = 0 /\ started' = 0
      BY <1>1 DEF Ask
    <3>4. barrier_hit' \in BOOLEAN
      BY <1>1 DEF Ask
    <3> QED  BY <2>1, <2>2, <3>1, <3>2, <3>3, <3>4 DEF StreamType
  <2>4. BodyType'
    BY <2>1, ResultTypes DEF BodyType
  <2>5. BatchType'
    BY <2>1, <2>2, <1>1 DEF Ask, BatchType
  <2> QED  BY <2>3, <2>4, <2>5, <1>1, <1>f, <1>g DEF Ask, Coming
<1>2. CASE Leave \/ Diverge \/ Baseline \/ TopDone \/ Drop \/ TopStart \/ Closing
  <2>1. FlowType'
    BY <1>2, <1>g, <1>0 DEF Leave, Diverge, Baseline, TopDone, Drop, TopStart, Closing, Coming, Going, Reading, Barring, FlowType, cursor
  <2>2. StreamType' /\ BodyType' /\ BatchType' /\ GuardType'
    BY <1>2, <1>c, <1>d, <1>i DEF Leave, Diverge, Baseline, TopDone, Drop, TopStart, Closing
  <2>3. WorldType'
    <3>1. CASE Closing
      <4>1. cache' \in [shown : Int, print : Int, tasked : BOOLEAN]
        <5>1. CASE UNCHANGED cache
          BY <5>1, <1>0 DEF WorldType
        <5>2. CASE cache' # cache
          <6>1. PICK k \in ReadAnswers, t \in BOOLEAN : cache' = [shown |-> slots[k].ver, print |-> file, tasked |-> t]
            BY <3>1, <5>2, <1>0, LastAnswer DEF Closing, Remember, BatchType
          <6>2. slots[k] \in Results
            BY <1>0 DEF BatchType, ReadAnswers
          <6> QED  BY <6>1, <6>2, <1>0 DEF WorldType, Results
        <5> QED  BY <5>1, <5>2
      <4> QED  BY <4>1, <3>1, <1>0 DEF Closing, WorldType, world, ghosts
    <3> QED  BY <3>1, <1>2, <1>f, <1>i DEF Leave, Diverge, Baseline, TopDone, Drop, TopStart
  <2> QED  BY <2>1, <2>2, <2>3
<1>3. ASSUME NEW s \in DOMAIN plan, Fragment(s)
      PROVE  FlowType' /\ StreamType' /\ BodyType' /\ BatchType' /\ GuardType' /\ WorldType'
  <2>1. body' \in [DOMAIN plan -> Slot]
    BY <1>0, <1>3, ResultTypes DEF Fragment, BodyType
  <2>2. started' \in 0 .. Len(plan) /\ active' \in 0 .. Len(plan) /\ barrier_hit' \in BOOLEAN
    <3>0. pc = "stream" /\ started <= active
      BY <1>3 DEF Control, HookInv, Fragment
    <3>1. s \in 1 .. Len(plan) /\ active \in Nat /\ started \in Nat /\ Len(plan) \in Nat
      BY <1>0 DEF StreamType
    <3>5. s >= active
      BY <1>3 DEF Fragment
    <3>2. Offered(s) => active < s
      BY <3>1, <3>5 DEF Offered
    <3>3. started' \in {started, started + 1} /\ (started' = started \/ Offered(s)) /\ active' = s
      BY <1>3 DEF Fragment
    <3>4. barrier_hit' \in BOOLEAN
      BY <1>0, <1>3 DEF Fragment, StreamType
    <3>6. started' \in 0 .. Len(plan) /\ active' \in 0 .. Len(plan)
      BY <3>0, <3>1, <3>2, <3>3, <3>5
    <3> QED  BY <3>4, <3>6
  <2>3. frag' \in [DOMAIN plan -> 0 .. 2]
    <3>1. PICK n \in frag[s] + 1 .. 2 : frag' = [frag EXCEPT ![s] = n]
      BY <1>3 DEF Fragment
    <3> QED  BY <3>1, <1>0 DEF StreamType
  <2>4. UNCHANGED <<pc, turn, plan, batch, cursor, guard, cache, world, ghosts>>
    BY <1>3 DEF Fragment
  <2>5. StreamType'
    BY <2>2, <2>3, <2>4, <1>0 DEF StreamType
  <2>6. BodyType'
    BY <2>1, <2>4, <1>0, <1>i DEF BodyType
  <2> QED  BY <2>4, <2>5, <2>6, <1>a, <1>d, <1>f, <1>i
<1>4. CASE CloseStream
  <2>1. UNCHANGED <<stream, body, asked, slots, cursor, guard, cache, world, ghosts>> /\ pc' = "turn"
    BY <1>4 DEF CloseStream
  <2>2. BatchType'
    BY <2>1, <1>4, <1>0, Closed DEF BatchType, Control
  <2> QED  BY <2>1, <2>2, <1>c, <1>f, <1>g, <1>i DEF Coming
<1>5. CASE PreFill
  <2>1. /\ UNCHANGED <<stream, body, order, cursor, guard, cache, world, ghosts>>
        /\ pc' \in Coming /\ asked' = Len(order) /\ slots' = [k \in DOMAIN order |-> Placeholder]
    BY <1>5 DEF PreFill, Coming
  <2>2. slots' \in Seq(Results)
    <3>1. DOMAIN order = 1 .. Len(order) /\ Len(order) \in Nat
      BY <1>0 DEF BatchType
    <3> HIDE DEF Placeholder
    <3>2. slots' \in [1 .. Len(order) -> Results]
      BY <3>1, <2>1, ResultTypes
    <3> QED  BY <3>1, <3>2
  <2>3. BatchType'
    BY <2>1, <2>2, <1>0 DEF BatchType, Control, BatchInv
  <2> QED  BY <2>1, <2>3, <1>c, <1>f, <1>g, <1>i
<1>6. CASE ShortCut
  <2>1. /\ UNCHANGED <<stream, batch, guard, cache, world, ghosts>>
        /\ i' = 1 /\ w' = 1 /\ cancelled' = FALSE /\ pc' = "top"
    BY <1>6 DEF ShortCut
  <2>2. \A s \in DOMAIN plan : Ended(Result("same", s, cache.shown)) \in Slot
    <3>1. \A s \in DOMAIN plan : s \in Nat
      BY <1>0 DEF StreamType
    <3>2. cache.shown \in Int /\ "same" \in Tags
      BY <1>0 DEF WorldType, Tags
    <3> QED  BY <3>1, <3>2, ResultTypes
  <2>3. body' \in [DOMAIN plan -> Slot]
    BY <2>2, <1>6, <1>0 DEF ShortCut, BodyType
  <2>4. BodyType'
    BY <2>1, <2>3, <1>0, <1>i DEF BodyType
  <2>5. cancelled' \in BOOLEAN
    BY <2>1
  <2>6. FlowType'
    BY <2>1, <2>5 DEF FlowType, Going
  <2> QED  BY <2>1, <2>4, <2>6, <1>d, <1>f, <1>i
<1>7. CASE TopCancelled
  <2>1. slots' \in Seq(Results)
    BY <1>7, Cursor, Landing, ResultTypes, <1>0 DEF TopCancelled, BatchType
  <2>2. /\ UNCHANGED <<pc, stream, body, order, asked, guard, cache, world, ghosts>>
        /\ cancelled' = TRUE /\ i' = i + 1 /\ w' = i + 1
    BY <1>7 DEF TopCancelled
  <2>3. FlowType'
    BY <2>2, <1>0 DEF FlowType
  <2> QED  BY <2>1, <2>2, <2>3, <1>c, <1>f, <1>h, <1>i
<1>9. CASE Spawn
  <2>1. PICK new \in SUBSET ToSpawn :
           /\ body' = [s \in DOMAIN body |-> IF s \in new THEN Running ELSE body[s]]
           /\ late' = IF esc THEN [late EXCEPT !.read = @ + Cardinality(new)] ELSE late
    BY <1>9 DEF Spawn
  <2>2. Cardinality(new) \in Nat
    BY <1>9, Few DEF Spawn
  <2>3. body' \in [DOMAIN plan -> Slot]
    BY <2>1, ResultTypes, <1>0 DEF BodyType
  <2>4. late' \in [read : Nat, write : Nat]
    BY <2>1, <2>2, <1>0 DEF WorldType
  <2>5. UNCHANGED <<stream, batch, cursor, guard, cache, world, wrote>> /\ pc' = "window"
    BY <1>9 DEF Spawn
  <2>6. BodyType' /\ WorldType'
    BY <2>3, <2>4, <2>5, <1>0 DEF BodyType, WorldType, world
  <2> QED  BY <2>5, <2>6, <1>d, <1>g DEF Going, Reading
<1>10. CASE Await
  <2>1. /\ UNCHANGED <<stream, body, order, asked, i, cancelled, guard, cache, world, ghosts>>
        /\ w' = w + 1 /\ pc' \in Going
    BY <1>10 DEF Await, Going, Reading
  <2>2. \E r \in Results : pc = "window" /\ Land(w, r)
    <3>1. pc = "window" => body[order[w]].out \in Results
      BY <1>0, Cursor DEF BodyType, BatchType, Slot
    <3> QED  BY <1>10, <3>1, ResultTypes DEF Await, AwaitDone, AwaitCancel, AwaitCeiling
  <2>3. slots' \in Seq(Results)
    BY <2>2, Cursor, Landing, <1>0 DEF BatchType
  <2>4. FlowType'
    BY <2>1, <1>0 DEF FlowType
  <2> QED  BY <2>1, <2>3, <2>4, <1>c, <1>f, <1>h, <1>i
<1>11. CASE WindowOver
  <2>1. UNCHANGED <<stream, body, order, asked, guard, cache, world, ghosts>> /\ pc' \in Going
    BY <1>11 DEF WindowOver, Going, Reading
  <2>2. slots' \in Seq(Results)
    <3>1. slots \in [1 .. Len(slots) -> Results] /\ Len(slots) \in Nat
      BY <1>0 DEF BatchType
    <3>2. slots' = slots \/ slots' = Filled(i)
      BY <1>11 DEF WindowOver
    <3>3. Filled(i) \in [1 .. Len(slots) -> Results]
      BY <3>1, ResultTypes DEF Filled
    <3>4. Filled(i) \in Seq(Results)
      <4> DEFINE n == Len(slots)
      <4>1. n \in Nat /\ Filled(i) \in [1 .. n -> Results]
        BY <3>1, <3>3
      <4> HIDE DEF n
      <4> QED  BY <4>1, SeqDef, Zenon
    <3> QED  BY <3>2, <3>4, <1>0 DEF BatchType
  <2>3. RunEnd \in Nat \ {0}
    <3>1. pc \in Reading
      BY <1>11 DEF WindowOver, Reading
    <3> QED  BY <3>1, Cursor, <1>0 DEF FlowType, BatchType
  <2>4. FlowType'
    BY <2>1, <2>3, <1>0, <1>11 DEF WindowOver, FlowType, WorldType
  <2> QED  BY <2>1, <2>2, <2>4, <1>c, <1>f, <1>h, <1>i
<1>12. ASSUME Refuse, pc \in Barring, UNCHANGED <<stream, order, asked, cancelled>>
       PROVE  FlowType' /\ BatchType'
  <2>1. slots' \in Seq(Results)
    BY <1>12, <1>0, Cursor, Landing, ResultTypes DEF Refuse, BatchType
  <2> QED  BY <2>1, <1>12, <1>0, <1>h DEF Refuse, FlowType, Going
<1>13. ASSUME Keep, pc' \in Going, UNCHANGED <<stream, order, asked, cancelled>>
       PROVE  FlowType' /\ BatchType'
  BY <1>13, <1>0 DEF Keep, FlowType, BatchType
<1>14. CASE Gate
  <2>1. /\ UNCHANGED <<stream, order, asked, cancelled, guard, cache, world, wrote>>
        /\ pc = "gate" /\ (StartBarrier \/ ((Refuse \/ (Keep /\ pc' = "lease")) /\ UNCHANGED <<body, late>>))
    BY <1>14 DEF Gate
  <2>2. CASE StartBarrier
    <3>1. body' \in [DOMAIN plan -> Slot] /\ wrote' = wrote
      BY <2>1, <2>2, <1>0, ResultTypes DEF StartBarrier, BodyType
    <3>2. late' \in [read : Nat, write : Nat]
      BY <2>2, <1>0 DEF StartBarrier, WorldType
    <3>3. FlowType' /\ BatchType'
      BY <2>1, <2>2, <1>13 DEF StartBarrier, Going, Barring
    <3>4. BodyType' /\ WorldType' /\ StreamType' /\ GuardType'
      BY <2>1, <3>1, <3>2, <1>0 DEF BodyType, WorldType, StreamType, GuardType, world, stream, guard
    <3> QED  BY <3>3, <3>4
  <2>3. CASE (Refuse \/ (Keep /\ pc' = "lease")) /\ UNCHANGED <<body, late>>
    <3>1. FlowType' /\ BatchType'
      BY <2>1, <2>3, <1>12, <1>13 DEF Barring, Going
    <3> QED  BY <2>1, <2>3, <3>1, <1>0 DEF BodyType, WorldType, StreamType, GuardType, world, stream, guard
  <2> QED  BY <2>1, <2>2, <2>3
<1>15. CASE Lease
  <2>1. FlowType' /\ BatchType'
    BY <1>15, <1>12, <1>13 DEF Lease, Barring, Going
  <2>2. UNCHANGED <<body, cache, world, ghosts, auto_checkpointed, snap, stream>> /\ writer_lease' \in BOOLEAN
    BY <1>15, <1>0 DEF Lease, GuardType
  <2>3. GuardType'
    BY <2>2, <1>0 DEF GuardType
  <2> QED  BY <2>1, <2>2, <2>3, <1>c, <1>f, <1>i
<1>16. CASE Checkpoint
  <2>1. /\ UNCHANGED <<stream, order, asked, cancelled, writer_lease, cache, world, wrote>>
        /\ pc = "checkpoint" /\ (StartBarrier \/ (Refuse /\ UNCHANGED <<body, late>>))
        /\ auto_checkpointed' \in BOOLEAN /\ snap' \in {snap, file}
    BY <1>16, <1>0 DEF Checkpoint, GuardType
  <2>2. FlowType' /\ BatchType'
    BY <2>1, <1>12, <1>13 DEF StartBarrier, Barring, Going
  <2>3. body' \in [DOMAIN plan -> Slot] /\ late' \in [read : Nat, write : Nat]
    BY <2>1, <1>0, ResultTypes DEF StartBarrier, BodyType, WorldType
  <2>4. BodyType' /\ GuardType' /\ WorldType'
    BY <2>1, <2>3, <1>0 DEF BodyType, GuardType, WorldType, world
  <2> QED  BY <2>1, <2>2, <2>4
<1>17. CASE BodyLands
  <2>1. slots' \in Seq(Results)
    <3>1. pc \in Barring
      BY <1>17 DEF BodyLands, Barring
    <3>2. body[order[i]].out \in Results
      BY <3>1, <1>0, Cursor DEF BatchType, BodyType, Slot
    <3> QED  BY <1>17, <3>1, <3>2, Cursor, Landing, <1>0 DEF BodyLands, BatchType
  <2>2. /\ UNCHANGED <<stream, body, order, asked, cancelled, guard, cache, world, ghosts>>
        /\ i' = i + 1 /\ w' = i + 1 /\ pc' \in Going
    BY <1>17 DEF BodyLands, Going
  <2>3. FlowType'
    BY <2>2, <1>0 DEF FlowType
  <2> QED  BY <2>1, <2>2, <2>3, <1>c, <1>f, <1>h, <1>i
<1>18. ASSUME NEW s \in DOMAIN plan, ReadBody(s) \/ WriteBody(s)
       PROVE  FlowType' /\ StreamType' /\ BodyType' /\ BatchType' /\ GuardType' /\ WorldType'
  <2>1. \A tag \in Tags, v \in Nat : Ended(Result(tag, s, v)) \in Slot
    BY <1>0, ResultTypes DEF StreamType
  <2>2. /\ UNCHANGED <<pc, stream, batch, cursor, guard, cache, repo, outer, esc, late>>
        /\ file' \in {file, file + 1} /\ (wrote' = wrote \/ wrote' = [wrote EXCEPT ![s] = file + 1])
    BY <1>18 DEF ReadBody, WriteBody, world, ghosts
  <2>3. PICK tag \in Tags, v \in Nat : body' = [body EXCEPT ![s] = Ended(Result(tag, s, v))]
    BY <1>18, <1>0 DEF ReadBody, WriteBody, Tags, WorldType
  <2>4. BodyType'
    BY <2>1, <2>2, <2>3, <1>0 DEF BodyType, WorldType
  <2>5. WorldType'
    BY <2>2, <1>0 DEF WorldType
  <2> QED  BY <2>2, <2>4, <2>5, <1>a, <1>d
<1>19. CASE Esc \/ Outer
  <2>1. /\ UNCHANGED <<pc, stream, body, batch, cursor, guard, cache, repo, ghosts>>
        /\ file' \in {file, file + 1}
        /\ outer' = outer \/ (outer < MaxOuter /\ outer' = outer + 1)
        /\ esc' = esc \/ esc' = TRUE
    BY <1>19 DEF Esc, Outer
  <2>2. outer' \in 0 .. MaxOuter /\ file' \in Nat
    BY <2>1, <1>0, BoundsAssumption DEF WorldType
  <2>4. esc' \in BOOLEAN
    BY <2>1, <1>0 DEF WorldType
  <2>3. WorldType'
    BY <2>1, <2>2, <2>4, <1>0, <1>i DEF WorldType
  <2> QED  BY <2>1, <2>3, <1>a, <1>c, <1>d, <1>i
<1>20. CASE UNCHANGED vars
  BY <1>20, <1>a, <1>c, <1>d, <1>f, <1>i DEF vars
<1> QED
  BY <1>1, <1>2, <1>3, <1>4, <1>5, <1>6, <1>7, <1>9, <1>10, <1>11, <1>14, <1>15, <1>16, <1>17,
     <1>18, <1>19, <1>20, <1>0
     DEF Next, Loop, Provider, Execute, Barrier, Bodies, BodyType

-----------------------------------------------------------------------------
(* The control.                                                              *)

(* Where an action leaves the plan, the response and the batch alone, and    *)
(* from where it can reach the phases of a turn.                             *)
LEMMA Frames == [Next]_vars =>
    /\ Ask \/ (\E s \in DOMAIN plan : Fragment(s)) \/ UNCHANGED stream
    /\ Ask \/ plan' = plan
    /\ Ask \/ CloseStream \/ order' = order
    /\ pc' \in Coming => pc \in Coming \/ Ask
    /\ pc' = "stream" => pc = "stream" \/ Ask
    /\ pc' \in Going \cup {"baseline", "cache"} => pc \in Going \cup {"baseline", "cache"} \/ PreFill
<1> SUFFICES ASSUME [Next]_vars
    PROVE  /\ Ask \/ (\E s \in DOMAIN plan : Fragment(s)) \/ UNCHANGED stream
           /\ Ask \/ plan' = plan
           /\ Ask \/ CloseStream \/ order' = order
           /\ pc' \in Coming => pc \in Coming \/ Ask
           /\ pc' = "stream" => pc = "stream" \/ Ask
           /\ pc' \in Going \cup {"baseline", "cache"} => pc \in Going \cup {"baseline", "cache"} \/ PreFill
  OBVIOUS
<1> USE DEF stream, batch, Coming, Going, Reading, Barring
<1>1. CASE Ask
  BY <1>1 DEF Ask
<1>2. CASE \E s \in DOMAIN plan : Fragment(s)
  BY <1>2 DEF Fragment
<1>3. CASE CloseStream \/ PreFill \/ ShortCut \/ Closing
  BY <1>3 DEF CloseStream, PreFill, ShortCut, Closing
<1>4. CASE Leave \/ Diverge \/ Baseline \/ TopDone \/ Drop \/ TopStart
  BY <1>4 DEF Leave, Diverge, Baseline, TopDone, Drop, TopStart
<1>5. CASE TopCancelled \/ Spawn \/ Await \/ WindowOver \/ BodyLands
  BY <1>5 DEF TopCancelled, Spawn, Await, AwaitDone, AwaitCancel, AwaitCeiling, WindowOver, BodyLands
<1>6. CASE Gate \/ Lease \/ Checkpoint
  BY <1>6 DEF Gate, Lease, Checkpoint, Refuse, StartBarrier
<1>7. CASE Bodies \/ Esc \/ Outer \/ UNCHANGED vars
  BY <1>7 DEF Bodies, ReadBody, WriteBody, Esc, Outer, vars
<1> QED
  BY <1>1, <1>2, <1>3, <1>4, <1>5, <1>6, <1>7 DEF Next, Loop, Provider, Execute, Barrier

(* A slot is replaced in place.                                              *)
LEMMA SlotsKeepLength ==
    ASSUME Control, [Next]_vars
    PROVE  \/ Ask \/ PreFill
           \/ UNCHANGED asked /\ Len(slots') = Len(slots)
<1>0. slots \in Seq(Results) /\ BodyType /\ StreamType /\ BatchType
  BY TypeParts DEF Control, BatchType
<1>1. ASSUME NEW k \in DOMAIN slots, NEW r, Land(k, r)  PROVE Len(slots') = Len(slots)
  BY <1>0, <1>1 DEF Land
<1>2. CASE TopCancelled
  BY <1>2, <1>1, Cursor DEF TopCancelled
<1>3. CASE Await
  BY <1>3, <1>1, Cursor DEF Await, AwaitDone, AwaitCancel, AwaitCeiling
<1>4. CASE WindowOver
  <2>1. slots' = slots \/ slots' = Filled(i)
    BY <1>4 DEF WindowOver
  <2>2. Len(Filled(i)) = Len(slots)
    BY <1>0 DEF Filled
  <2> QED  BY <2>1, <2>2, <1>4 DEF WindowOver
<1>5. CASE Gate \/ Lease \/ Checkpoint
  <2>1. i \in DOMAIN slots
    BY <1>5, Cursor DEF Gate, Lease, Checkpoint, Barring
  <2>2. Refuse \/ slots' = slots
    BY <1>5 DEF Gate, Lease, Checkpoint, Keep, StartBarrier
  <2>3. Len(slots') = Len(slots)
    BY <2>1, <2>2, <1>1 DEF Refuse
  <2> QED  BY <2>3, <1>5 DEF Gate, Lease, Checkpoint
<1>6. CASE BodyLands
  <2>1. i \in DOMAIN slots
    BY <1>6, Cursor DEF BodyLands, Barring
  <2> QED  BY <2>1, <1>1, <1>6 DEF BodyLands
<1>7. CASE Leave \/ CloseStream \/ Diverge \/ Baseline \/ ShortCut \/ Closing \/ TopStart \/ TopDone \/ Spawn
  BY <1>7 DEF Leave, CloseStream, Diverge, Baseline, ShortCut, Closing, TopStart, TopDone, Spawn, batch
<1>8. CASE Provider \/ Bodies \/ Esc \/ Drop \/ Outer \/ UNCHANGED vars
  BY <1>8 DEF Provider, Fragment, Bodies, ReadBody, WriteBody, Esc, Drop, Outer, vars, batch
<1> QED
  BY <1>2, <1>3, <1>4, <1>5, <1>6, <1>7, <1>8 DEF Next, Loop, Execute, Barrier

LEMMA BatchStep == Control /\ [Next]_vars => BatchInv'
<1> SUFFICES ASSUME Control, [Next]_vars  PROVE BatchInv'
  OBVIOUS
<1>0. FlowType /\ StreamType /\ BatchType /\ StreamType' /\ BatchType' /\ BatchInv
  BY TypeStep, TypeParts, PTL DEF Control
<1>1. CASE Ask
  <2>1. order' = <<>> /\ slots' = <<>> /\ asked' = 0
    BY <1>1 DEF Ask
  <2>2. Len(plan') \in Nat /\ DOMAIN order' = {} /\ Len(order') = 0 /\ Len(slots') = 0
    BY <2>1, <1>0 DEF StreamType
  <2> QED  BY <2>1, <2>2 DEF BatchInv, Increasing
<1>2. CASE CloseStream
  <2>1. pc' = "turn" /\ UNCHANGED <<stream, asked, slots>>
    BY <1>2 DEF CloseStream
  <2>2. Len(slots) = 0 /\ Len(order') \in Nat
    BY <1>0, <1>2 DEF CloseStream, BatchInv, BatchType
  <2> QED  BY <2>1, <2>2, <1>0, <1>2, Closed DEF BatchInv, Increasing, stream, Going, Reading, Barring, Control
<1>3. CASE PreFill
  <2>1. asked' = Len(order) /\ slots' = [k \in DOMAIN order |-> Placeholder] /\ order' = order /\ UNCHANGED stream
    BY <1>3 DEF PreFill
  <2>2. Len(slots') = Len(order)
    BY <2>1, <1>0 DEF BatchType
  <2>3. pc' # "stream"
    BY <1>3 DEF PreFill
  <2>4. Len(order) <= Len(order)
    BY <1>0 DEF BatchType
  <2> QED  BY <2>1, <2>2, <2>3, <2>4, <1>0 DEF BatchInv, Increasing, stream
<1>4. CASE \E s \in DOMAIN plan : Fragment(s)
  <2>1. pc = "stream" /\ UNCHANGED <<pc, plan, batch>>
    BY <1>4 DEF Fragment
  <2>2. DOMAIN order = {}
    BY <2>1, <1>0 DEF BatchInv, BatchType
  <2> QED  BY <2>1, <2>2, <1>0 DEF BatchInv, Increasing, batch
<1>5. ASSUME ~Ask, ~CloseStream, ~PreFill, ~\E s \in DOMAIN plan : Fragment(s)  PROVE BatchInv'
  <2>1. UNCHANGED <<stream, order, asked>> /\ Len(slots') = Len(slots)
    BY <1>5, Frames, SlotsKeepLength
  <2>2. /\ pc' = "stream" => pc = "stream"
        /\ pc' \in Going \cup {"baseline", "cache"} => pc \in Going \cup {"baseline", "cache"}
    BY <1>5, Frames
  <2> QED  BY <2>1, <2>2, <1>0 DEF BatchInv, Increasing, stream
<1> QED  BY <1>1, <1>2, <1>3, <1>4, <1>5

(* Bodies that end before the batch is made are reads.                       *)
LEMMA BodyEnds ==
    ASSUME Control, NEW s \in DOMAIN plan, ReadBody(s) \/ WriteBody(s)
    PROVE  /\ body[s] = Running
           /\ body' = [body EXCEPT ![s] = body'[s]] /\ body'[s].st = "done"
           /\ UNCHANGED <<pc, stream, batch, cursor, guard, cache, repo, outer, esc, late>>
<1>0. DOMAIN body = DOMAIN plan
  BY TypeParts DEF Control, BodyType
<1>1. PICK r : body' = [body EXCEPT ![s] = Ended(r)]
  BY DEF ReadBody, WriteBody
<1> QED  BY <1>0, <1>1 DEF ReadBody, WriteBody, Ended, world, ghosts

LEMMA HookStep == Control /\ [Next]_vars => HookInv'
<1> SUFFICES ASSUME Control, [Next]_vars, pc' = "stream"  PROVE HookInv'
  BY DEF HookInv
<1>0. StreamType /\ BodyType /\ StreamType' /\ HookInv
  BY TypeStep, TypeParts, PTL DEF Control
<1>1. CASE Ask
  <2>1. PICK p \in Plans :
        /\ plan' = p
        /\ frag' = [s \in DOMAIN p |-> 0]
        /\ body' = [s \in DOMAIN p |-> NoBody]
    BY <1>1 DEF Ask
  <2>2. active' = 0 /\ started' = 0
    BY <1>1 DEF Ask
  <2>3. \A s \in DOMAIN p : s \in Nat
    BY PlansAssumption
  <2> QED  BY <2>1, <2>2, <2>3 DEF HookInv
<1>2. ASSUME NEW s \in DOMAIN plan, Fragment(s)  PROVE HookInv'
  <2>1. pc = "stream" /\ s >= active /\ active' = s /\ plan' = plan
    BY <1>2 DEF Fragment, stream
  <2>2. /\ s \in Nat /\ active \in 0 .. Len(plan) /\ started \in Nat /\ \A r \in DOMAIN plan : r \in Nat
        /\ DOMAIN plan = 1 .. Len(plan) /\ Len(plan) \in Nat
    BY <1>0 DEF StreamType
  <2>3. \A r \in DOMAIN plan : r # s => frag'[r] = frag[r]
    BY <1>0, <1>2 DEF Fragment, StreamType
  <2>4. \A r \in DOMAIN plan : r > s => frag'[r] = 0
    BY <2>1, <2>2, <2>3, <1>0 DEF HookInv
  <2>5. ASSUME NEW r \in DOMAIN plan, r < s, frag'[r] = 2, plan[r] # "read"  PROVE barrier_hit'
    <3>1. frag[r] = 2
      BY <2>2, <2>3, <2>5
    <3>2. CASE r < active
      <4>1. barrier_hit
        BY <2>1, <2>5, <3>1, <3>2, <1>0 DEF HookInv
      <4> QED  BY <4>1, <1>2 DEF Fragment
    <3>3. CASE r = active
      <4>1. Offered(s)
        BY <2>2, <2>5, <3>1, <3>3 DEF Offered
      <4> QED  BY <4>1, <3>3, <2>5, <1>2 DEF Fragment
    <3>4. CASE r > active
      BY <3>1, <3>4, <2>1, <1>0 DEF HookInv
    <3> QED  BY <3>2, <3>3, <3>4, <2>2
  <2>6. ASSUME NEW r \in DOMAIN plan, body'[r] # NoBody  PROVE r < s
    <3>1. CASE r # active \/ ~Offered(s)
      <4>1. body'[r] = body[r]
        BY <3>1, <1>0, <1>2 DEF Fragment, BodyType
      <4>2. r < active
        BY <4>1, <2>1, <2>6, <1>0 DEF HookInv
      <4> QED  BY <4>2, <2>1, <2>2
    <3>2. CASE r = active /\ Offered(s)
      BY <3>2, <2>1, <2>2 DEF Offered
    <3> QED  BY <3>1, <3>2
  <2>7. started' <= s
    <3>1. started <= active
      BY <2>1, <1>0 DEF HookInv
    <3>2. started' = started \/ (started' = started + 1 /\ Offered(s))
      BY <1>2 DEF Fragment
    <3> QED  BY <3>1, <3>2, <2>1, <2>2 DEF Offered
  <2> QED  BY <2>1, <2>4, <2>5, <2>6, <2>7 DEF HookInv
<1>3. ASSUME NEW s \in DOMAIN plan, ReadBody(s) \/ WriteBody(s)  PROVE HookInv'
  <2>1. /\ UNCHANGED stream /\ pc = "stream" /\ body[s] # NoBody
        /\ \A r \in DOMAIN plan : r # s => body'[r] = body[r]
    BY <1>3, <1>0, BodyEnds DEF BodyType, NoBody, Running
  <2> QED  BY <2>1, <1>0 DEF HookInv, stream
<1>4. CASE UNCHANGED <<pc, stream, body>>
  BY <1>4, <1>0 DEF HookInv, stream
<1>5. ASSUME ~Ask, ~\E s \in DOMAIN plan : Fragment(s), ~Bodies  PROVE UNCHANGED <<pc, stream, body>>
  <2>1. UNCHANGED stream /\ pc' = pc
    BY <1>5, Frames
  <2>2. UNCHANGED body
    <3>1. CASE Loop
      BY <3>1, <2>1, <1>5 DEF Loop, Leave, CloseStream, Diverge, PreFill, Baseline, ShortCut, Closing
    <3>2. CASE Execute \/ Gate
      BY <3>2, <2>1, <1>5 DEF Execute, Gate, TopCancelled, TopStart, TopDone, Spawn, Await, WindowOver,
           Barrier, Lease, Checkpoint, BodyLands
    <3>3. CASE Esc \/ Drop \/ Outer \/ UNCHANGED vars
      BY <3>3 DEF Esc, Drop, Outer, vars
    <3> QED  BY <3>1, <3>2, <3>3, <1>5 DEF Next, Provider
  <2> QED  BY <2>1, <2>2
<1> QED  BY <1>1, <1>2, <1>3, <1>4, <1>5, <1>0 DEF Bodies, BodyType

LEMMA EarlyStep == Control /\ [Next]_vars => EarlyInv'
<1> SUFFICES ASSUME Control, [Next]_vars, pc' \in Coming  PROVE EarlyInv'
  BY DEF EarlyInv
<1>0. StreamType /\ BodyType /\ StreamType' /\ HookInv /\ EarlyInv
  BY TypeStep, TypeParts, PTL DEF Control
<1>1. CASE Ask
  <2>1. PICK p \in Plans : plan' = p /\ body' = [s \in DOMAIN p |-> NoBody]
    BY <1>1 DEF Ask
  <2> QED  BY <2>1 DEF EarlyInv
<1>2. ASSUME NEW s \in DOMAIN plan, Fragment(s)  PROVE EarlyInv'
  <2>1. pc = "stream" /\ s >= active /\ plan' = plan /\ frag[s] < 2
    BY <1>2 DEF Fragment, stream
  <2>2. /\ s \in Nat /\ active \in 0 .. Len(plan) /\ \A r \in DOMAIN plan : r \in Nat
        /\ DOMAIN plan = 1 .. Len(plan) /\ Len(plan) \in Nat
        /\ \A r \in DOMAIN plan : plan[r] \in Kinds
    BY <1>0 DEF StreamType
  <2>3. \A r \in DOMAIN plan : r # s => frag'[r] = frag[r]
    BY <1>0, <1>2 DEF Fragment, StreamType
  <2>4. ASSUME NEW t \in DOMAIN plan, body[t] # NoBody
        PROVE  plan[t] = "read" /\ frag'[t] = 2 /\ \A r \in 1 .. t : frag'[r] = 2 => plan[r] = "read"
    <3>1. t < s
      BY <2>1, <2>2, <2>4, <1>0 DEF HookInv
    <3>2. plan[t] = "read" /\ frag[t] = 2 /\ \A r \in 1 .. t : frag[r] = 2 => plan[r] = "read"
      BY <2>1, <2>4, <1>0 DEF EarlyInv, Coming
    <3> QED  BY <3>1, <3>2, <2>2, <2>3
  <2>5. ASSUME Offered(s), MayStart(active)
        PROVE  /\ active \in DOMAIN plan /\ plan[active] = "read" /\ frag'[active] = 2
               /\ \A r \in 1 .. active : frag'[r] = 2 => plan[r] = "read"
    <3>1. active \in DOMAIN plan /\ active < s /\ plan[active] = "read" /\ frag[active] = 2 /\ ~barrier_hit
      BY <2>1, <2>2, <2>5 DEF Offered, MayStart
    <3>2. ASSUME NEW r \in 1 .. active, frag'[r] = 2  PROVE plan[r] = "read"
      <4>1. r \in DOMAIN plan /\ frag[r] = 2 /\ (r = active \/ r < active)
        BY <3>1, <3>2, <2>2, <2>3
      <4>2. r < active => plan[r] = "read"
        BY <3>1, <4>1, <2>1, <1>0 DEF HookInv
      <4> QED  BY <4>1, <4>2, <3>1, <2>2 DEF Kinds
    <3> QED  BY <3>1, <3>2, <2>2, <2>3
  <2>6. ASSUME NEW t \in DOMAIN plan, body'[t] # NoBody
        PROVE  body[t] # NoBody \/ (t = active /\ Offered(s) /\ MayStart(active))
    BY <2>6, <1>0, <1>2 DEF Fragment, StartsEarly, BodyType
  <2> QED  BY <2>1, <2>4, <2>5, <2>6 DEF EarlyInv
<1>3. ASSUME NEW s \in DOMAIN plan, ReadBody(s) \/ WriteBody(s)  PROVE EarlyInv'
  <2>1. /\ UNCHANGED stream /\ pc' = pc /\ body[s] # NoBody
        /\ \A r \in DOMAIN plan : r # s => body'[r] = body[r]
    BY <1>3, <1>0, BodyEnds DEF BodyType, NoBody, Running
  <2> QED  BY <2>1, <1>0 DEF EarlyInv, stream
<1>4. CASE UNCHANGED <<stream, body>> /\ pc \in Coming
  BY <1>4, <1>0 DEF EarlyInv, stream
<1>5. ASSUME ~Ask, ~\E s \in DOMAIN plan : Fragment(s), ~Bodies
      PROVE  UNCHANGED <<stream, body>> /\ pc \in Coming
  <2>1. UNCHANGED stream /\ pc \in Coming
    BY <1>5, Frames
  <2>2. UNCHANGED body
    <3>1. CASE Loop
      BY <3>1, <1>5 DEF Loop, Leave, CloseStream, Diverge, PreFill, Baseline, ShortCut, Closing, Coming
    <3>2. CASE Execute \/ Gate
      BY <3>2, <2>1 DEF Execute, Gate, TopCancelled, TopStart, TopDone, Spawn, Await, WindowOver,
           Barrier, Lease, Checkpoint, BodyLands, Coming
    <3>3. CASE Esc \/ Drop \/ Outer \/ UNCHANGED vars
      BY <3>3 DEF Esc, Drop, Outer, vars
    <3> QED  BY <3>1, <3>2, <3>3, <1>5 DEF Next, Provider
  <2> QED  BY <2>1, <2>2
<1> QED  BY <1>1, <1>2, <1>3, <1>4, <1>5, <1>0 DEF Bodies, BodyType

(* What the run of reads and the window depend on.                           *)
LEMMA SamePlaces ==
    /\ UNCHANGED <<i, order, plan>> => RunEnd' = RunEnd
    /\ UNCHANGED <<i, w>> => WindowStart' = WindowStart
    /\ WindowStart' = Chunk(i', w')
<1>1. RunEnd' = End(i', order', plan') /\ WindowStart' = Chunk(i', w')
  BY DEF RunEnd, End, Kind, WindowStart, Chunk
<1> QED  BY <1>1, Positions

LEMMA CursorStep == Control /\ [Next]_vars => CursorInv'
<1> SUFFICES ASSUME Control, [Next]_vars, pc' \in Going  PROVE CursorInv'
  BY DEF CursorInv, Going, Reading, Barring
<1>0. FlowType /\ StreamType /\ BatchType /\ FlowType' /\ CursorInv
  BY TypeStep, TypeParts, PTL DEF Control
<1>a. i \in Nat /\ w \in Nat /\ i # 0 /\ Len(order) \in Nat /\ order \in Seq(DOMAIN plan)
      /\ \A s \in DOMAIN plan : plan[s] \in Kinds
  BY <1>0 DEF FlowType, BatchType, StreamType
<1> USE DEF Going, Reading, Barring
<1>1. CASE UNCHANGED <<pc, i, w, order, plan>>
  <2>1. RunEnd' = RunEnd /\ WindowStart' = WindowStart
    BY <1>1, SamePlaces
  <2>2. WindowEnd(WindowStart)' = WindowEnd(WindowStart)
    BY <2>1 DEF WindowEnd
  <2> QED  BY <1>1, <2>1, <2>2, <1>0 DEF CursorInv, Kind
<1>2. ASSUME pc' = "top", i' = w', i' <= Len(order) + 1, order' = order  PROVE CursorInv'
  BY <1>2, <1>0 DEF CursorInv, FlowType
<1>3. CASE ShortCut
  BY <1>3, <1>2, <1>a DEF ShortCut, batch
<1>4. CASE TopCancelled
  <2>1. pc' = "top" /\ i' = i + 1 /\ w' = i + 1 /\ i <= Len(order) /\ order' = order
    BY <1>4 DEF TopCancelled
  <2> QED  BY <2>1, <1>2, <1>a
<1>5. CASE TopStart
  <2>1. /\ UNCHANGED <<i, order, plan>> /\ w' = i /\ i <= Len(order)
        /\ pc' = IF Kind(i) = "read" THEN "spawn" ELSE "gate"
    BY <1>5 DEF TopStart, stream, batch
  <2>2. i \in DOMAIN order /\ Kind(i) \in Kinds
    BY <2>1, <1>a DEF Kind
  <2>3. CASE Kind(i) = "read"
    <3>1. RunEnd' = RunEnd /\ WindowStart' = Chunk(i', w')
      BY <2>1, SamePlaces
    <3>2. RunEnd \in i + 1 .. Len(order) + 1
      BY <2>2, <2>3, <1>a, <1>0, EndFacts, Positions, SMTT(30) DEF Kind, StreamType
    <3>3. WindowStart' = i
      BY <3>1, <2>1, <1>a, ChunkFacts
    <3>4. pc' = "spawn" /\ w' = i /\ i' = i /\ order' = order /\ Kind(i)' = "read" /\ w' < RunEnd'
      BY <2>1, <2>3, <3>1, <3>2, <1>a DEF Kind
    <3> QED  BY <3>3, <3>4, <2>1, <1>a DEF CursorInv, Kind
  <2>4. CASE Kind(i) # "read"
    BY <2>1, <2>4, <1>a DEF CursorInv, Kind
  <2> QED  BY <2>2, <2>3, <2>4 DEF Kinds
<1>6. CASE TopDone
  <2>1. pc' = "closing" /\ UNCHANGED <<i, w, order>> /\ pc = "top"
    BY <1>6 DEF TopDone, cursor, batch
  <2> QED  BY <2>1, <1>0 DEF CursorInv
<1>7. CASE Spawn
  <2>1. pc = "spawn" /\ pc' = "window" /\ UNCHANGED <<i, w, order, plan>>
    BY <1>7 DEF Spawn, cursor, batch, stream
  <2>2. RunEnd' = RunEnd /\ WindowStart' = WindowStart /\ WindowStart = w /\ w < RunEnd
    BY <2>1, <1>0, SamePlaces DEF CursorInv
  <2>3. RunEnd \in Nat
    BY <2>1, Cursor, <1>a
  <2>4. w' < WindowEnd(WindowStart)'
    BY <2>1, <2>2, <2>3, <1>a, BoundsAssumption DEF WindowEnd
  <2> QED  BY <2>1, <2>4, <1>0 DEF CursorInv, Kind
<1>8. CASE Await
  <2>1. /\ pc = "window" /\ UNCHANGED <<i, order, plan>> /\ w' = w + 1
        /\ pc' = IF w + 1 = WindowEnd(WindowStart) THEN "landed" ELSE "window"
    BY <1>8 DEF Await, AwaitDone, AwaitCancel, AwaitCeiling, stream
  <2>2. RunEnd \in i + 1 .. Len(order) + 1 /\ w < RunEnd /\ i <= w /\ w < WindowEnd(WindowStart)
    BY <2>1, Cursor, <1>0 DEF CursorInv
  <2>3. RunEnd' = RunEnd /\ WindowStart' = Chunk(i', w')
    BY <2>1, SamePlaces
  <2>4. /\ Chunk(i, w) \in i .. w
        /\ w + 1 < Chunk(i, w) + MAX_PARALLEL => Chunk(i, w + 1) = Chunk(i, w)
        /\ w + 1 = Chunk(i, w) + MAX_PARALLEL => Chunk(i, w + 1) = w + 1
    BY <2>2, <1>a, ChunkFacts
  <2>5. PICK c \in Nat : c = WindowStart /\ c = Chunk(i, w)
    BY <2>4, <1>a, Positions
  <2>6. /\ w + 1 < c + MAX_PARALLEL => Chunk(i, w + 1) = c
        /\ w + 1 = c + MAX_PARALLEL => Chunk(i, w + 1) = w + 1
    BY <2>4, <2>5
  <2>7. MAX_PARALLEL \in Nat /\ MAX_PARALLEL # 0 /\ RunEnd \in Nat
    BY <2>2, <1>a, BoundsAssumption
  <2>8. CASE w + 1 = WindowEnd(WindowStart)
    <3>1. w + 1 <= RunEnd
      BY <2>2, <2>7, <1>a
    <3>2. w + 1 < RunEnd => w + 1 = c + MAX_PARALLEL
      BY <2>8, <2>5, <2>7 DEF WindowEnd
    <3>3. w' < RunEnd' => WindowStart' = w'
      BY <3>2, <2>1, <2>3, <2>6
    <3>4. pc' = "landed" /\ w' <= RunEnd' /\ i' <= w'
      BY <3>1, <2>1, <2>2, <2>3, <2>8, <1>a
    <3> QED  BY <3>3, <3>4, <2>1, <1>0 DEF CursorInv, Kind
  <2>9. CASE w + 1 # WindowEnd(WindowStart)
    <3>0. WindowEnd(c) \in Nat /\ w < WindowEnd(c) /\ w + 1 # WindowEnd(c)
      BY <2>2, <2>5, <2>7, <2>9 DEF WindowEnd
    <3>1. w + 1 < WindowEnd(c)
      BY <3>0, <1>a
    <3>2. WindowEnd(c) <= c + MAX_PARALLEL
      BY <2>5, <2>7 DEF WindowEnd
    <3>3. Chunk(i, w + 1) = c
      BY <3>0, <3>1, <3>2, <2>5, <2>6, <2>7, <1>a
    <3>4. WindowStart' = c
      BY <3>3, <2>1, <2>3
    <3>5. w' < WindowEnd(WindowStart)'
      BY <3>1, <3>4, <2>1, <2>3 DEF WindowEnd
    <3>6. pc' = "window" /\ i' <= w'
      BY <2>1, <2>2, <2>9, <1>a
    <3> QED  BY <3>5, <3>6, <2>1, <1>0 DEF CursorInv, Kind
  <2> QED  BY <2>8, <2>9
<1>9. CASE WindowOver
  <2>1. pc = "landed" /\ UNCHANGED <<order, plan>>
    BY <1>9 DEF WindowOver, stream
  <2>2. RunEnd \in i + 1 .. Len(order) + 1
    BY <2>1, Cursor
  <2>3. CASE ~esc /\ w < RunEnd
    <3>1. pc' = "spawn" /\ UNCHANGED <<i, w>>
      BY <2>3, <1>9 DEF WindowOver
    <3>2. RunEnd' = RunEnd /\ WindowStart' = WindowStart
      BY <3>1, <2>1, SamePlaces
    <3> QED  BY <3>1, <3>2, <2>1, <2>3, <1>0 DEF CursorInv, Kind
  <2>4. CASE ~(~esc /\ w < RunEnd)
    <3>1. pc' = "top" /\ i' = RunEnd /\ w' = RunEnd
      BY <2>4, <1>9 DEF WindowOver
    <3> QED  BY <3>1, <2>1, <2>2, <1>2, <1>a
  <2> QED  BY <2>3, <2>4
<1>10. CASE Gate \/ Lease \/ Checkpoint
  <2>1. pc \in Barring /\ UNCHANGED <<order, plan>>
    BY <1>10 DEF Gate, Lease, Checkpoint, stream
  <2>2. Refuse \/ (Keep /\ pc' \in Barring)
    BY <1>10 DEF Gate, Lease, Checkpoint, StartBarrier
  <2>3. CASE Refuse
    <3>1. pc' = "top" /\ i' = i + 1 /\ w' = i + 1
      BY <2>3 DEF Refuse
    <3> QED  BY <3>1, <2>1, <1>2, <1>a, <1>0 DEF CursorInv
  <2>4. CASE Keep /\ pc' \in Barring
    BY <2>4, <2>1, <1>0 DEF CursorInv, Keep, Kind
  <2> QED  BY <2>2, <2>3, <2>4
<1>11. CASE BodyLands
  <2>1. pc = "body" /\ pc' = "top" /\ i' = i + 1 /\ w' = i + 1 /\ order' = order
    BY <1>11 DEF BodyLands
  <2> QED  BY <2>1, <1>2, <1>a, <1>0 DEF CursorInv
<1>12. CASE Bodies \/ Esc \/ Outer \/ UNCHANGED vars
  BY <1>12, <1>1 DEF Bodies, ReadBody, WriteBody, Esc, Outer, vars, stream, batch, cursor
<1>13. CASE Ask \/ Leave \/ CloseStream \/ Diverge \/ PreFill \/ Baseline \/ Closing \/ Drop \/ Provider
  BY <1>13 DEF Ask, Leave, CloseStream, Diverge, PreFill, Baseline, Closing, Drop, Provider, Fragment
<1> QED
  BY <1>3, <1>4, <1>5, <1>6, <1>7, <1>8, <1>9, <1>10, <1>11, <1>12, <1>13
     DEF Next, Loop, Execute, Barrier

LEMMA InitControl == Init => Control
<1> SUFFICES ASSUME Init  PROVE Control
  OBVIOUS
<1>1. TypeOK
  <2>1. /\ cancelled \in BOOLEAN /\ repo \in BOOLEAN /\ esc \in BOOLEAN /\ barrier_hit \in BOOLEAN
        /\ writer_lease \in BOOLEAN /\ auto_checkpointed \in BOOLEAN
    BY DEF Init
  <2>2. FlowType
    BY <2>1 DEF Init, FlowType
  <2>3. WorldType
    BY <2>1, BoundsAssumption DEF Init, WorldType, NoEntry
  <2>4. Len(plan) = 0 /\ DOMAIN plan = {} /\ plan \in Seq(Kinds)
    BY DEF Init
  <2>5. StreamType
    BY <2>1, <2>4, BoundsAssumption DEF Init, StreamType
  <2>6. BatchType /\ GuardType
    BY <2>1, <2>4 DEF Init, BatchType, GuardType, NoSnap
  <2>7. BodyType
    BY DEF Init, BodyType
  <2> QED  BY <2>2, <2>3, <2>5, <2>6, <2>7, TypeParts
<1>2. BatchInv
  BY DEF Init, BatchInv, Increasing, Going, Reading, Barring
<1>3. HookInv /\ EarlyInv
  BY DEF Init, HookInv, EarlyInv, Coming
<1>4. CursorInv
  BY DEF Init, CursorInv, Going, Reading, Barring
<1> QED  BY <1>1, <1>2, <1>3, <1>4 DEF Control

LEMMA StepControl == Control /\ [Next]_vars => Control'
BY TypeStep, BatchStep, HookStep, EarlyStep, CursorStep DEF Control

-----------------------------------------------------------------------------
(* What a step does to the bodies and the cursor.                            *)

LEMMA OnePlace ==
    ASSUME Control, NEW k \in DOMAIN order, NEW l \in DOMAIN order, order[k] = order[l]
    PROVE  k = l
<1>1. /\ order \in Seq(DOMAIN plan) /\ plan \in Seq(Kinds) /\ order[k] \in Nat
      /\ \A m, n \in DOMAIN order : m < n => order[m] < order[n]
  BY TypeParts DEF Control, BatchType, StreamType, BatchInv, Increasing
<1> QED  BY <1>1

(* No write has begun while the response is coming in.                       *)
LEMMA NoneBegun ==
    ASSUME Control, pc \in Coming, NEW s \in DOMAIN plan
    PROVE  ~Begun(s)
BY DEF Control, EarlyInv, Begun

Starts(s) == body[s] = NoBody /\ body'[s] = Running
Begins(s) == /\ Starts(s) /\ s = order[i] /\ plan[s] # "read"
             /\ \/ Checkpoint /\ pc = "checkpoint"
                \/ Gate /\ pc = "gate" /\ plan[s] = "task"
Spawned(s) == Starts(s) /\ Spawn /\ pc = "spawn" /\ plan[s] = "read"
                /\ \E l \in i .. RunEnd - 1 : s = order[l]
Early(s) == Starts(s) /\ pc = "stream" /\ order' = order /\ plan[s] = "read"
Pointed(s) == /\ body[s] = NoBody /\ body'[s] = Ended(Result("same", s, cache.shown))
              /\ pc = "cache" /\ plan[s] = "read"

LEMMA BodyMoves ==
    ASSUME Control, WriteInv, [Next]_vars, ~Ask, NEW s \in DOMAIN plan
    PROVE  /\ plan' = plan
           /\ WriteBody(s) \/ wrote'[s] = wrote[s]
           /\ \/ body'[s] = body[s]
              \/ Begins(s) \/ Spawned(s) \/ Early(s) \/ Pointed(s)
              \/ ReadBody(s) \/ WriteBody(s)
<1>0. FlowType /\ StreamType /\ BodyType /\ BatchType /\ plan' = plan
  BY TypeParts, Frames DEF Control
<1>1. ASSUME NEW r \in DOMAIN plan, Fragment(r)
      PROVE  wrote' = wrote /\ (body'[s] = body[s] \/ Early(s))
  <2>1. pc = "stream" /\ wrote' = wrote /\ order' = order
    BY <1>1 DEF Fragment, ghosts, batch
  <2>2. CASE s = active /\ Offered(r) /\ StartsEarly(active)
    <3>1. body[s] = NoBody
      BY <2>1, <2>2, <1>0 DEF Control, HookInv, StreamType
    <3>2. body'[s] = Running /\ plan[s] = "read"
      BY <2>2, <1>1, <1>0 DEF Fragment, BodyType, StartsEarly, MayStart
    <3> QED  BY <2>1, <3>1, <3>2 DEF Early, Starts
  <2>3. CASE ~(s = active /\ Offered(r) /\ StartsEarly(active))
    BY <2>1, <2>3, <1>1, <1>0 DEF Fragment, BodyType
  <2> QED  BY <2>2, <2>3, <2>1
<1>2. CASE ShortCut
  BY <1>2, <1>0 DEF ShortCut, Canned, Pointed, BodyType, ghosts
<1>3. CASE Spawn
  <2>1. pc = "spawn" /\ wrote' = wrote
    BY <1>3 DEF Spawn
  <2>2. body'[s] = body[s] \/ (s \in ToSpawn /\ Starts(s))
    BY <1>3, <1>0 DEF Spawn, BodyType, Starts
  <2>3. ASSUME s \in ToSpawn, Starts(s)  PROVE Spawned(s)
    <3>1. PICK l \in w .. WindowEnd(w) - 1 : s = order[l]
      BY <2>3 DEF ToSpawn
    <3>2. /\ RunEnd \in Nat /\ i \in Nat /\ w \in Nat /\ i <= w
          /\ \A k \in i .. RunEnd - 1 : plan[order[k]] = "read"
      BY <2>1, Cursor, <1>0 DEF Control, CursorInv, Going, Reading, FlowType, BatchType
    <3>3. l \in i .. RunEnd - 1
      BY <3>1, <3>2, BoundsAssumption DEF WindowEnd
    <3> QED  BY <3>1, <3>2, <3>3, <2>1, <2>3, <1>3 DEF Spawned
  <2> QED  BY <2>1, <2>2, <2>3, <1>0
<1>4. CASE Checkpoint \/ Gate
  <2>1. /\ pc \in {"checkpoint", "gate"} /\ wrote' = wrote
        /\ i \in DOMAIN order /\ plan[order[i]] # "read"
    BY <1>4, Cursor DEF Checkpoint, Gate, Barring, Control, CursorInv, Kind
  <2>2. body[order[i]] = NoBody
    <3>1. order[i] \in DOMAIN plan
      BY <2>1, <1>0 DEF BatchType
    <3>2. ~Begun(order[i])
      BY <2>1, <3>1, <1>0 DEF WriteInv, FlowType
    <3> QED  BY <2>1, <3>2 DEF Begun
  <2>3. body' = body \/ (body' = [body EXCEPT ![order[i]] = Running]
                            /\ (Gate => pc = "gate" /\ plan[order[i]] = "task")
                            /\ (Checkpoint => pc = "checkpoint"))
    BY <1>4 DEF Checkpoint, Gate, StartBarrier, Kind
  <2>4. body'[s] = body[s] \/ (s = order[i] /\ body'[s] = Running /\ body' # body)
    BY <2>2, <2>3, <1>0 DEF BodyType, NoBody, Running
  <2> QED  BY <2>1, <2>2, <2>3, <2>4, <1>4, <1>0 DEF Begins, Starts
<1>5. ASSUME NEW r \in DOMAIN plan, ReadBody(r) \/ WriteBody(r)
      PROVE  /\ WriteBody(s) \/ wrote'[s] = wrote[s]
             /\ body'[s] = body[s] \/ ReadBody(s) \/ WriteBody(s)
  <2>1. CASE r = s
    BY <2>1, <1>5 DEF ReadBody, ghosts
  <2>2. CASE r # s
    BY <2>2, <1>5, <1>0 DEF ReadBody, WriteBody, BodyType, ghosts
  <2> QED  BY <2>1, <2>2
<1>6. CASE Loop /\ ~ShortCut
  BY <1>0, <1>6 DEF Loop, Leave, CloseStream, Diverge, PreFill, Baseline, Closing, ghosts
<1>7. CASE Execute /\ ~Spawn /\ ~Checkpoint
  BY <1>0, <1>7 DEF Execute, TopCancelled, TopStart, TopDone, Await, WindowOver,
       Barrier, Lease, BodyLands, ghosts
<1>8. CASE Esc \/ Drop \/ Outer \/ UNCHANGED vars
  BY <1>0, <1>8 DEF Esc, Drop, Outer, vars, ghosts
<1> QED
  BY <1>0, <1>1, <1>2, <1>3, <1>4, <1>5, <1>6, <1>7, <1>8
     DEF Next, Loop, Provider, Execute, Barrier, Bodies, BodyType

(* The file's version only grows.                                            *)
LEMMA FileGrows ==
    ASSUME Control, [Next]_vars
    PROVE  /\ file \in Nat /\ file' \in Nat /\ file <= file'
           /\ file' = file \/ outer' # 0 \/ \E s \in DOMAIN plan : WriteBody(s)
<1>0. file \in Nat /\ outer \in Nat /\ MaxOuter \in Nat /\ BodyType
  BY TypeParts, BoundsAssumption DEF Control, WorldType
<1>1. CASE Outer
  BY <1>1, <1>0 DEF Outer
<1>2. ASSUME NEW s \in DOMAIN plan, WriteBody(s)
      PROVE  file' \in {file, file + 1}
  BY <1>2 DEF WriteBody
<1>3. CASE Loop \/ Provider
  BY <1>0, <1>3 DEF Loop, Ask, Leave, CloseStream, Diverge, PreFill, Baseline, ShortCut, Closing, Provider, Fragment, world
<1>4. CASE Execute \/ Gate
  BY <1>0, <1>4 DEF Execute, Gate, TopCancelled, TopStart, TopDone, Spawn, Await, WindowOver,
       Barrier, Lease, Checkpoint, BodyLands, world
<1>5. ASSUME Esc \/ Drop \/ UNCHANGED vars \/ \E s \in DOMAIN body : ReadBody(s)
      PROVE  file' = file
  BY <1>5 DEF Esc, Drop, ReadBody, vars, world
<1> QED  BY <1>0, <1>1, <1>2, <1>3, <1>4, <1>5 DEF Next, Bodies, BodyType

(* The cursor does not go back while a batch is executed.                    *)
LEMMA Onward ==
    ASSUME Control, [Next]_vars, ~Ask, pc \notin Coming
    PROVE  /\ order' = order /\ plan' = plan /\ pc' \notin Coming /\ i <= i'
           /\ pc = "body" => BodyLands \/ (i' = i /\ pc' \in {"body", "dropped"})
           /\ pc = "dropped" => i' = i /\ pc' = "dropped"
           /\ pc' \in Going => pc \in Going /\ w <= w'
<1>0. FlowType /\ CursorInv /\ plan' = plan /\ pc' \notin Coming
  BY TypeParts, Frames DEF Control
<1>1. order' = order
  BY Frames DEF CloseStream, Coming
<1>a. i \in Nat /\ w \in Nat
  BY <1>0 DEF FlowType
<1>b. ASSUME UNCHANGED cursor, pc' = pc \/ (pc' \in Going => pc \in Going)
      PROVE  i <= i' /\ (pc' \in Going => pc \in Going /\ w <= w')
  BY <1>a, <1>b DEF cursor
<1> USE DEF Going, Reading, Barring, Coming
<1>2. CASE Leave \/ Drop \/ Esc \/ Outer \/ UNCHANGED vars \/ Bodies
  <2>1. UNCHANGED cursor /\ (pc' = pc \/ pc' \in {"end", "dropped"})
    BY <1>2 DEF Leave, Drop, Esc, Outer, vars, Bodies, ReadBody, WriteBody
  <2>2. pc = "body" => pc' \in {"body", "dropped"}
    BY <1>2 DEF Leave, Drop, Esc, Outer, vars, Bodies, ReadBody, WriteBody
  <2>3. pc = "dropped" => pc' = "dropped"
    BY <1>2 DEF Leave, Drop, Esc, Outer, vars, Bodies, ReadBody, WriteBody, Awaiting
  <2> QED  BY <2>1, <2>2, <2>3, <1>0, <1>1, <1>b DEF cursor
<1>3. CASE TopDone \/ Closing \/ Spawn
  <2>1. UNCHANGED cursor /\ pc \in {"top", "closing", "spawn"}
    BY <1>3 DEF TopDone, Closing, Spawn
  <2> QED  BY <2>1, <1>0, <1>1, <1>b
<1>4. CASE TopCancelled \/ TopStart
  <2>1. pc = "top" /\ w = i
    BY <1>4, <1>0 DEF TopCancelled, TopStart, CursorInv
  <2>2. (i' = i /\ w' = i) \/ (i' = i + 1 /\ w' = i + 1)
    BY <1>4 DEF TopCancelled, TopStart, cursor
  <2> QED  BY <2>1, <2>2, <1>0, <1>1, <1>a
<1>5. CASE Await
  BY <1>5, <1>0, <1>1, <1>a DEF Await, AwaitDone, AwaitCancel, AwaitCeiling
<1>6. CASE WindowOver
  <2>1. pc = "landed" /\ RunEnd \in Nat /\ i < RunEnd /\ w <= RunEnd
    BY <1>6, Cursor, <1>0, <1>a, TypeParts DEF WindowOver, CursorInv, Control, BatchType
  <2>2. UNCHANGED <<i, w>> \/ (i' = RunEnd /\ w' = RunEnd)
    BY <1>6 DEF WindowOver
  <2> QED  BY <2>1, <2>2, <1>0, <1>1, <1>a
<1>7. CASE Gate \/ Lease \/ Checkpoint
  <2>1. pc \in {"gate", "lease", "checkpoint"} /\ w = i
    BY <1>7, <1>0 DEF Gate, Lease, Checkpoint, CursorInv
  <2>2. UNCHANGED <<i, w>> \/ (i' = i + 1 /\ w' = i + 1)
    BY <1>7 DEF Gate, Lease, Checkpoint, Refuse, Keep, StartBarrier
  <2> QED  BY <2>1, <2>2, <1>0, <1>1, <1>a
<1>8. CASE BodyLands
  <2>1. pc = "body" /\ w = i /\ i' = i + 1 /\ w' = i + 1
    BY <1>8, <1>0 DEF BodyLands, CursorInv
  <2> QED  BY <2>1, <1>0, <1>1, <1>a, <1>8
<1>9. CASE CloseStream \/ Diverge \/ PreFill \/ Baseline \/ ShortCut \/ Provider
  BY <1>9 DEF CloseStream, Diverge, PreFill, Baseline, ShortCut, Provider, Fragment
<1> QED
  BY <1>2, <1>3, <1>4, <1>5, <1>6, <1>7, <1>8, <1>9 DEF Next, Loop, Execute, Barrier

-----------------------------------------------------------------------------
(* The data, part by part.                                                   *)

LEMMA Tagged ==
    /\ NoBody.st = "none" /\ Running.st = "running" /\ NoBody # Running
    /\ NoBody.out = Placeholder /\ Running.out = Placeholder
    /\ Placeholder.tag = "hole" /\ Cancelled.tag = "cancelled"
    /\ Abandoned.tag = "abandoned" /\ Refused.tag = "error"
    /\ \A r : Ended(r).st = "done" /\ Ended(r).out = r /\ Ended(r) # NoBody /\ Ended(r) # Running
    /\ \A tag, from, ver : /\ Result(tag, from, ver).tag = tag
                           /\ Result(tag, from, ver).from = from
                           /\ Result(tag, from, ver).ver = ver
BY DEF NoBody, Running, Placeholder, Cancelled, Abandoned, Refused, Ended, Result

(* After a new request nothing has begun.                                    *)
LEMMA Asked ==
    ASSUME Control, Ask
    PROVE  /\ order' = <<>> /\ slots' = <<>> /\ pc' = "stream"
           /\ \A s \in DOMAIN plan' : body'[s] = NoBody /\ wrote'[s] = 0
           /\ UNCHANGED <<cursor, guard, cache, file, repo, outer, esc, late>>
<1>1. PICK p \in Plans :
        /\ plan' = p
        /\ body' = [s \in DOMAIN p |-> NoBody]
        /\ wrote' = [s \in DOMAIN p |-> 0]
  BY DEF Ask
<1> QED  BY <1>1 DEF Ask, world

LEMMA BodyStep == Control /\ BodyInv /\ WriteInv /\ [Next]_vars => BodyInv'
<1> SUFFICES ASSUME Control, BodyInv, WriteInv, [Next]_vars, NEW s \in DOMAIN plan'
             PROVE  BodyOK(s)'
  BY DEF BodyInv
<1>0. file \in Nat /\ file' \in Nat /\ file <= file'
  BY FileGrows
<1>1. CASE Ask
  <2>1. body'[s] = NoBody /\ wrote'[s] = 0
    BY <1>1, Asked
  <2> QED  BY <2>1, <1>0, Tagged DEF BodyOK, Answers
<1>2. CASE ~Ask
  <2>a. plan' = plan /\ s \in DOMAIN plan
    BY <1>2, Frames
  <2>0. plan' = plan /\ s \in DOMAIN plan /\ BodyOK(s) /\ wrote[s] \in Nat
    BY <2>a, TypeParts DEF BodyInv, Control, BodyType
  <2>1. CASE body'[s] = body[s] /\ wrote'[s] = wrote[s]
    BY <2>0, <2>1, <1>0 DEF BodyOK
  <2>2. CASE Starts(s) /\ wrote'[s] = wrote[s]
    <3>1. wrote[s] = 0 /\ body'[s] = Running
      BY <2>0, <2>2, Tagged DEF BodyOK, Starts
    <3> QED  BY <3>1, <2>2, <1>0, Tagged DEF BodyOK
  <2>3. CASE Pointed(s) /\ wrote'[s] = wrote[s]
    <3>1. wrote[s] = 0 /\ body'[s].st = "done" /\ body'[s].out.tag = "same" /\ body'[s].out.from = s /\ plan[s] = "read"
      BY <2>0, <2>3, Tagged DEF BodyOK, Pointed
    <3> QED  BY <3>1, <2>0, <2>3, <1>0 DEF BodyOK, Answers
  <2>4. CASE ReadBody(s)
    <3>1. body' = [body EXCEPT ![s] = Ended(Result("read", s, file))] /\ wrote' = wrote /\ plan[s] = "read" /\ body[s] = Running
      BY <2>4 DEF ReadBody, ghosts
    <3>2. body'[s] = Ended(Result("read", s, file))
      BY <3>1, <2>0, TypeParts DEF Control, BodyType
    <3>3. wrote[s] = 0
      BY <3>1, <2>0, Tagged DEF BodyOK
    <3>4. body'[s].st = "done" /\ body'[s].out.tag = "read" /\ body'[s].out.from = s /\ body'[s].out.ver = file
      BY <3>2, Tagged
    <3> QED  BY <3>1, <3>3, <3>4, <2>0, <1>0 DEF BodyOK, Answers
  <2>5. CASE WriteBody(s)
    <3>1. body[s] = Running /\ plan[s] # "read"
      BY <2>5 DEF WriteBody
    <3>2. wrote[s] = 0
      BY <3>1, <2>0, Tagged DEF BodyOK
    <3>3. PICK tag \in {"wrote", "failed"}, v \in Nat :
             /\ body' = [body EXCEPT ![s] = Ended(Result(tag, s, v))]
             /\ \/ file' = file + 1 /\ v = file + 1 /\ wrote' = [wrote EXCEPT ![s] = v]
                \/ tag = "failed" /\ wrote' = wrote
      BY <2>5, <1>0 DEF WriteBody
    <3>4. body'[s] = Ended(Result(tag, s, v)) /\ (wrote'[s] = 0 \/ (wrote'[s] = v /\ v = file'))
          /\ (tag = "wrote" => wrote'[s] = v)
      BY <3>2, <3>3, <2>0, TypeParts DEF Control, BodyType
    <3>5. body'[s].st = "done" /\ body'[s].out.tag = tag /\ body'[s].out.from = s /\ body'[s].out.ver = v
      BY <3>4, Tagged
    <3>6. wrote'[s] <= file'
      BY <3>4, <1>0
    <3> QED  BY <3>1, <3>4, <3>5, <3>6, <2>0 DEF BodyOK, Answers
  <2> QED  BY <2>0, <2>1, <2>2, <2>3, <2>4, <2>5, <1>2, BodyMoves DEF Begins, Spawned, Early
<1> QED  BY <1>1, <1>2

(* A write that has begun stays begun, and only the checkpoint's own call    *)
(* begins.                                                                   *)
LEMMA BegunMoves ==
    ASSUME Control, WriteInv, [Next]_vars, ~Ask, NEW s \in DOMAIN plan, Begun(s)'
    PROVE  Begun(s) \/ Begins(s)
<1>1. plan' = plan /\ plan[s] # "read" /\ body'[s] # NoBody
  BY BodyMoves DEF Begun
<1>2. CASE body[s] # NoBody
  BY <1>1, <1>2 DEF Begun
<1>3. CASE body[s] = NoBody
  BY <1>1, <1>3, BodyMoves, Tagged DEF Spawned, Early, Pointed, ReadBody, WriteBody
<1> QED  BY <1>2, <1>3

LEMMA WriteStep == Control /\ BodyInv /\ WriteInv /\ [Next]_vars => WriteInv'
<1> SUFFICES ASSUME Control, BodyInv, WriteInv, [Next]_vars  PROVE WriteInv'
  OBVIOUS
<1>a. FlowType /\ BatchType /\ FlowType' /\ BatchType'
  BY TypeStep, TypeParts, PTL DEF Control
<1>0. FlowType /\ BatchType /\ FlowType' /\ BatchType' /\ i \in Nat /\ i' \in Nat
  BY <1>a DEF FlowType
<1>1. CASE Ask
  BY <1>1, Asked, <1>0 DEF WriteInv, Begun
<1>2. CASE ~Ask /\ pc \in Coming
  <2>1. \A s \in DOMAIN plan : ~Begun(s)'
    <3>1. \A s \in DOMAIN plan : ~Begun(s) /\ ~Begins(s)
      BY <1>2, NoneBegun DEF Begins, Coming
    <3> QED  BY <3>1, <1>2, BegunMoves
  <2>2. plan' = plan
    BY <1>2, Frames
  <2>3. \A k \in DOMAIN order' : order'[k] \in DOMAIN plan
    BY <2>2, <1>0 DEF BatchType
  <2> QED  BY <2>1, <2>2, <2>3 DEF WriteInv, Begun
<1>3. CASE ~Ask /\ pc \notin Coming
  <2>0. /\ order' = order /\ plan' = plan /\ i <= i'
        /\ pc = "body" => BodyLands \/ (i' = i /\ pc' \in {"body", "dropped"})
        /\ pc = "dropped" => i' = i /\ pc' = "dropped"
    BY <1>3, Onward
  <2>a. \A k \in DOMAIN order : k \in Nat /\ order[k] \in DOMAIN plan
    BY <1>0 DEF BatchType
  <2>b. BodyLands => i' = i + 1 /\ body[order[i]].st = "done"
    BY DEF BodyLands
  <2>c. ASSUME NEW s \in DOMAIN plan, Begins(s)
        PROVE  i \in DOMAIN order /\ s = order[i] /\ pc' = "body" /\ i' = i
    <3>1. i \in DOMAIN order /\ s = order[i]
      BY <2>c, Cursor DEF Begins, Barring
    <3>2. StartBarrier
      <4>1. CASE UNCHANGED body
        BY <4>1, <2>c, Tagged DEF Begins, Starts
      <4>2. CASE ~UNCHANGED body
        BY <4>2, <2>c DEF Begins, Checkpoint, Gate
      <4> QED  BY <4>1, <4>2
    <3> QED  BY <3>1, <3>2 DEF StartBarrier, Keep
  <2>1. ASSUME NEW s \in DOMAIN plan, Begun(s)'
        PROVE  \E k \in DOMAIN order : order[k] = s
    <3>1. CASE Begun(s)
      BY <3>1 DEF WriteInv
    <3>2. CASE Begins(s)
      BY <3>2, <2>c
    <3> QED  BY <3>1, <3>2, <2>1, <1>3, BegunMoves
  <2>2. ASSUME NEW k \in DOMAIN order, plan[order[k]] # "read", body'[order[k]] # NoBody
        PROVE  k < i' \/ (k = i' /\ pc' \in {"body", "dropped"})
    <3>0. order[k] \in DOMAIN plan /\ k \in Nat
      BY <2>a
    <3>1. CASE Begun(order[k])
      <4>1. k < i \/ (k = i /\ pc \in {"body", "dropped"})
        BY <3>1 DEF WriteInv
      <4> QED  BY <4>1, <3>0, <2>0, <2>b, <1>0
    <3>2. CASE Begins(order[k])
      <4>1. i \in DOMAIN order /\ order[k] = order[i] /\ pc' = "body" /\ i' = i
        BY <3>0, <3>2, <2>c
      <4> QED  BY <4>1, OnePlace
    <3>3. Begun(order[k]) \/ Begins(order[k])
      <4>1. PICK s \in DOMAIN plan : s = order[k]
        BY <3>0
      <4>2. Begun(s)'
        BY <4>1, <2>2, <2>0 DEF Begun
      <4> QED  BY <4>1, <4>2, <1>3, BegunMoves
    <3> QED  BY <3>1, <3>2, <3>3
  <2>3. ASSUME NEW s \in DOMAIN plan, Begun(s)', body'[s] = Running
        PROVE  pc' \in {"body", "dropped"} /\ i' \in DOMAIN order /\ s = order[i']
    <3>1. CASE Begins(s)
      BY <3>1, <2>c
    <3>2. CASE Begun(s)
      <4>1. body[s] = Running
        BY <3>2, <2>3, <1>3, BodyMoves, Tagged DEF Begun, Begins, Spawned, Early, Pointed, Starts, ReadBody, WriteBody
      <4>2. pc \in {"body", "dropped"} /\ i \in DOMAIN order /\ s = order[i]
        BY <4>1, <3>2 DEF WriteInv
      <4>3. ~BodyLands
        BY <4>1, <4>2, <2>b, Tagged
      <4> QED  BY <4>2, <4>3, <2>0
    <3> QED  BY <3>1, <3>2, <2>3, <1>3, BegunMoves
  <2>4. /\ \A s \in DOMAIN plan' : Begun(s)' => \E k \in DOMAIN order' : order'[k] = s
        /\ \A s \in DOMAIN plan' : Begun(s)' /\ body'[s] = Running =>
              pc' \in {"body", "dropped"} /\ i' \in DOMAIN order' /\ s = order'[i']
    BY <2>0, <2>1, <2>3
  <2>5. \A k \in DOMAIN order' : plan'[order'[k]] # "read" /\ body'[order'[k]] # NoBody =>
          k < i' \/ (k = i' /\ pc' \in {"body", "dropped"})
    BY <2>0, <2>2
  <2> QED  BY <2>4, <2>5 DEF WriteInv, Begun
<1> QED  BY <1>1, <1>2, <1>3

LEMMA OrderStep == Control /\ BodyInv /\ WriteInv /\ WritesInOrder /\ [Next]_vars => WritesInOrder'
<1> SUFFICES ASSUME Control, BodyInv, WriteInv, WritesInOrder, [Next]_vars,
                    NEW k \in DOMAIN order', NEW l \in DOMAIN order', k < l,
                    wrote'[order'[k]] # 0, wrote'[order'[l]] # 0
             PROVE  wrote'[order'[k]] < wrote'[order'[l]]
  BY DEF WritesInOrder
<1>0. BatchType /\ BatchType' /\ FlowType /\ BodyType /\ file \in Nat
  BY TypeStep, TypeParts, FileGrows, PTL DEF Control
<1>1. CASE Ask
  BY <1>1, Asked
<1>2. ASSUME NEW s \in DOMAIN plan, wrote[s] # 0  PROVE Begun(s) /\ wrote[s] \in 1 .. file
  BY <1>2, <1>0, Tagged DEF BodyInv, BodyOK, Begun, BodyType
<1>3. ASSUME NEW s \in DOMAIN plan, WriteBody(s)
      PROVE  /\ pc \notin Coming /\ i \in DOMAIN order /\ s = order[i]
             /\ wrote'[s] = 0 \/ wrote'[s] = file + 1
  <2>1. Begun(s) /\ body[s] = Running
    BY <1>3, Tagged DEF WriteBody, Begun
  <2>2. wrote[s] = 0
    BY <2>1, Tagged DEF BodyInv, BodyOK
  <2>3. wrote'[s] = wrote[s] \/ wrote'[s] = file + 1
    BY <1>3, <1>0 DEF WriteBody, BodyType
  <2> QED  BY <2>1, <2>2, <2>3, NoneBegun DEF WriteInv
<1>4. CASE ~Ask /\ pc \in Coming
  <2>1. PICK s \in DOMAIN plan : s = order'[k] /\ plan' = plan
    BY <1>4, <1>0, Frames DEF BatchType
  <2>2. wrote'[s] = wrote[s]
    BY <1>3, <1>4, BodyMoves
  <2> QED  BY <2>1, <2>2, <1>2, <1>4, NoneBegun
<1>5. CASE ~Ask /\ pc \notin Coming
  <2>1. order' = order /\ k \in Nat /\ l \in Nat /\ i \in Nat /\ order[k] \in DOMAIN plan /\ order[l] \in DOMAIN plan
    BY <1>5, <1>0, Onward, SMTT(30) DEF BatchType, FlowType
  <2>2. CASE ~WriteBody(order[k]) /\ ~WriteBody(order[l])
    <3>1. wrote'[order[k]] = wrote[order[k]] /\ wrote'[order[l]] = wrote[order[l]]
      BY <2>1, <2>2, <1>5, BodyMoves
    <3> QED  BY <3>1, <2>1 DEF WritesInOrder
  <2>3. CASE WriteBody(order[l])
    <3>1. wrote'[order[l]] = file + 1 /\ l = i
      BY <2>1, <2>3, <1>3, OnePlace
    <3>2. ~WriteBody(order[k])
      BY <3>1, <2>1, <1>3, OnePlace
    <3>3. wrote'[order[k]] = wrote[order[k]]
      BY <3>2, <2>1, <1>5, BodyMoves
    <3> QED  BY <3>1, <3>3, <2>1, <1>0, <1>2
  <2>4. CASE WriteBody(order[k]) /\ ~WriteBody(order[l])
    <3>1. k = i
      BY <2>1, <2>4, <1>3, OnePlace
    <3>2. wrote'[order[l]] = wrote[order[l]]
      BY <2>4, <2>1, <1>5, BodyMoves
    <3>3. Begun(order[l])
      BY <3>2, <2>1, <1>2
    <3> QED  BY <3>1, <3>3, <2>1 DEF WriteInv
  <2> QED  BY <2>2, <2>3, <2>4
<1> QED  BY <1>1, <1>4, <1>5

LEMMA ReadStep == Control /\ BodyInv /\ WriteInv /\ ReadInv /\ [Next]_vars => ReadInv'
<1> SUFFICES ASSUME Control, BodyInv, WriteInv, ReadInv, [Next]_vars,
                    NEW k \in DOMAIN order', NEW l \in DOMAIN order', k < l,
                    plan'[order'[l]] = "read", body'[order'[l]] = Running \/ body'[order'[l]].out.tag = "read",
                    plan'[order'[k]] # "read"
             PROVE  /\ pc' \notin Coming /\ k < i'
                    /\ body'[order'[l]].out.tag = "read" => wrote'[order'[k]] <= body'[order'[l]].out.ver
  BY DEF ReadInv, Live, Kind
<1>0. BatchType /\ BatchType' /\ BatchInv' /\ FlowType /\ BodyType /\ StreamType /\ file \in Nat
  BY TypeStep, BatchStep, TypeParts, FileGrows, PTL DEF Control
<1>1. CASE Ask
  BY <1>1, Asked
<1>2. CASE ~Ask /\ pc \in Coming
  <2>1. /\ plan' = plan /\ order'[k] \in DOMAIN plan /\ order'[l] \in DOMAIN plan
        /\ \A s \in DOMAIN plan : s \in Nat
    BY <1>2, <1>0, Frames, SMTT(30) DEF BatchType, StreamType
  <2>2. PICK s \in DOMAIN plan : s = order'[l]
    BY <2>1
  <2>3. order' # order \/ pc # "stream"
    BY <1>0 DEF Control, BatchInv, BatchType
  <2>4. body[s] # NoBody
    <3>1. ~Early(s) /\ ~Pointed(s)
      BY <2>2, <2>3, Tagged DEF Early, Pointed
    <3>2. ~Begins(s) /\ ~Spawned(s)
      BY <1>2 DEF Begins, Spawned, Coming
    <3> QED  BY <2>1, <2>2, <3>1, <3>2, <1>2, BodyMoves, Tagged DEF ReadBody, WriteBody
  <2>5. \A r \in 1 .. s : frag[r] = 2 => plan[r] = "read"
    BY <2>4, <1>2 DEF Control, EarlyInv
  <2>6. order'[k] < s /\ frag'[order'[k]] = 2
    BY <2>2, <1>0 DEF BatchInv, Increasing
  <2>7. frag' = frag
    <3>1. ~\E r \in DOMAIN plan : Fragment(r)
      <4> SUFFICES ASSUME NEW r \in DOMAIN plan, Fragment(r)  PROVE FALSE
        OBVIOUS
      <4>1. order' = order /\ pc = "stream"
        BY DEF Fragment, batch
      <4> QED  BY <4>1, <2>3
    <3> QED  BY <3>1, <1>2, Frames DEF stream
  <2>8. order'[k] \in 1 .. s
    BY <2>1, <2>6, <1>0 DEF StreamType
  <2> QED  BY <2>1, <2>5, <2>6, <2>7, <2>8
<1>3. CASE ~Ask /\ pc \notin Coming
  <2>1. order' = order /\ plan' = plan /\ pc' \notin Coming /\ i <= i'
    BY <1>3, Onward
  <2>a. FlowType'
    BY TypeStep, TypeParts, PTL
  <2>2. /\ k \in DOMAIN order /\ l \in DOMAIN order /\ k \in Nat /\ l \in Nat
        /\ i \in Nat /\ i' \in Nat
    BY <2>1, <2>a, <1>0, SMTT(30) DEF BatchType, FlowType
  <2>3. PICK s \in DOMAIN plan, r \in DOMAIN plan : s = order[l] /\ r = order[k]
    BY <2>2, <1>0, SMTT(30) DEF BatchType
  <2>4. plan[s] = "read" /\ plan[r] # "read"
    BY <2>1, <2>3
  <2>5. ASSUME Live(s)  PROVE k < i /\ (body[s].out.tag = "read" => wrote[r] <= body[s].out.ver)
    BY <2>2, <2>3, <2>4, <2>5 DEF ReadInv, Kind
  <2>6. ASSUME k < i  PROVE wrote'[r] = wrote[r]
    <3> SUFFICES ASSUME WriteBody(r)  PROVE FALSE
      BY <1>3, BodyMoves
    <3>1. Begun(r) /\ body[r] = Running
      BY Tagged DEF WriteBody, Begun
    <3>2. i \in DOMAIN order /\ r = order[i]
      BY <3>1 DEF WriteInv
    <3>3. k = i
      BY <3>2, <2>2, <2>3, OnePlace
    <3> QED  BY <3>3, <2>2, <2>6
  <2>7. CASE body'[s] = body[s]
    <3>1. Live(s)
      BY <2>1, <2>3, <2>4, <2>7 DEF Live
    <3> QED  BY <3>1, <2>1, <2>2, <2>3, <2>5, <2>6, <2>7
  <2>8. CASE ReadBody(s)
    <3>1. Live(s) /\ wrote' = wrote /\ body' = [body EXCEPT ![s] = Ended(Result("read", s, file))]
      BY <2>8 DEF ReadBody, Live, ghosts
    <3>2. body'[s].out.ver = file
      BY <3>1, <1>0, Tagged DEF BodyType
    <3>3. wrote[r] <= file
      BY DEF BodyInv, BodyOK
    <3> QED  BY <3>1, <3>2, <3>3, <2>1, <2>2, <2>3, <2>5
  <2>9. CASE Spawned(s)
    <3>1. PICK m \in i .. RunEnd - 1 : s = order[m]
      BY <2>9 DEF Spawned
    <3>2. \A n \in i .. RunEnd - 1 : n \in DOMAIN order /\ plan[order[n]] = "read"
      BY <2>9, Cursor DEF Spawned, Reading
    <3>3. l = m
      BY <3>1, <3>2, <2>2, <2>3, OnePlace
    <3>4. k < i
      <4>1. RunEnd \in Int
        BY <2>9, Cursor, <1>0, <2>2 DEF Spawned, Reading, BatchType
      <4> QED  BY <4>1, <3>1, <3>2, <3>3, <2>2, <2>3, <2>4
    <3>5. body'[s].out.tag = "hole"
      BY <2>9, Tagged DEF Spawned, Starts
    <3> QED  BY <3>4, <3>5, <2>1, <2>2, <2>3
  <2>10. ~Early(s) /\ ~Pointed(s) /\ ~Begins(s) /\ ~WriteBody(s)
    BY <1>3, <2>4 DEF Early, Pointed, Begins, WriteBody, Coming
  <2> QED  BY <2>7, <2>8, <2>9, <2>10, <1>3, BodyMoves
<1> QED  BY <1>1, <1>2, <1>3

(* What a step does to a slot.                                               *)
Lands(k) == /\ slots'[k] = body[order[k]].out /\ body[order[k]].st = "done"
            /\ i <= k /\ k < w' /\ pc \in {"window", "body"}
GivesUp(k) == /\ slots'[k] \in {Cancelled, Refused} /\ k = i /\ k < w'
              /\ pc \in {"top", "gate", "lease", "checkpoint"}
Passes(k) == /\ slots'[k] \in {Cancelled, Abandoned} /\ plan[order[k]] = "read" /\ k < w'
             /\ pc \in {"window", "landed"}

LEMMA SlotMoves ==
    ASSUME Control, [Next]_vars, ~Ask, ~PreFill, NEW k \in DOMAIN slots
    PROVE  \/ slots'[k] = slots[k]
           \/ (Lands(k) \/ GivesUp(k) \/ Passes(k)) /\ UNCHANGED <<body, wrote>>
<1>0. /\ FlowType /\ BatchType /\ CursorInv
      /\ k \in DOMAIN order /\ k \in Nat /\ i \in Nat /\ w \in Nat
  <2>1. FlowType /\ BatchType /\ CursorInv /\ Len(slots) <= Len(order)
    BY TypeParts DEF Control, BatchInv
  <2> QED  BY <2>1 DEF BatchType, FlowType
<1>1. ASSUME NEW l \in DOMAIN slots, NEW r \in Results, Land(l, r)
      PROVE  slots'[l] = r /\ (k # l => slots'[k] = slots[k])
  BY <1>1, <1>0, Landing DEF BatchType
<1>2. CASE TopCancelled
  <2>1. pc = "top" /\ i \in DOMAIN slots /\ Land(i, Cancelled) /\ w' = i + 1 /\ UNCHANGED <<body, wrote>>
    BY <1>2, Cursor DEF TopCancelled, ghosts
  <2>2. k = i => GivesUp(k)
    BY <2>1, <1>1, <1>0, ResultTypes DEF GivesUp
  <2> QED  BY <2>1, <2>2, <1>1, ResultTypes
<1>3. ASSUME Refuse, pc \in {"gate", "lease", "checkpoint"}
      PROVE  slots'[k] = slots[k] \/ GivesUp(k)
  <2>1. i \in DOMAIN slots /\ Land(i, Refused) /\ w' = i + 1
    BY <1>3, Cursor DEF Refuse, Barring
  <2>2. k = i => GivesUp(k)
    BY <2>1, <1>1, <1>0, <1>3, ResultTypes DEF GivesUp
  <2> QED  BY <2>1, <2>2, <1>1, ResultTypes
<1>4. CASE Lease
  BY <1>4, <1>3 DEF Lease, Keep, ghosts
<1>5. CASE Checkpoint \/ Gate
  <2>1. /\ pc \in {"checkpoint", "gate"} /\ wrote' = wrote
        /\ StartBarrier \/ ((Refuse \/ Keep) /\ UNCHANGED body)
    BY <1>5 DEF Checkpoint, Gate
  <2> QED  BY <2>1, <1>3 DEF StartBarrier, Keep
<1>6. CASE Await
  <2>1. pc = "window" /\ w \in DOMAIN slots /\ w' = w + 1 /\ i <= w /\ plan[order[w]] = "read" /\ UNCHANGED <<body, wrote>>
    <3>1. pc = "window" /\ w' = w + 1 /\ UNCHANGED <<body, wrote>>
      BY <1>6 DEF Await, AwaitDone, AwaitCancel, AwaitCeiling, ghosts
    <3>2. w \in DOMAIN slots /\ w < RunEnd /\ i <= w /\ RunEnd \in Int
      BY <3>1, <1>0, Cursor DEF CursorInv, Going, Reading, BatchType
    <3>3. w \in i .. RunEnd - 1
      BY <3>2, <1>0
    <3>4. plan[order[w]] = "read"
      BY <3>1, <3>3, Cursor DEF Reading
    <3> QED  BY <3>1, <3>2, <3>4
  <2>2. CASE AwaitDone
    <3>1. body[order[w]].out \in Results
      BY <2>1, <1>0, Cursor, TypeParts DEF Control, BodyType, Slot, BatchType
    <3>2. Land(w, body[order[w]].out) /\ body[order[w]].st = "done"
      BY <2>2 DEF AwaitDone
    <3>3. k = w => Lands(k)
      BY <2>1, <3>1, <3>2, <1>0, <1>1 DEF Lands
    <3> QED  BY <2>1, <3>1, <3>2, <3>3, <1>1
  <2>3. CASE Land(w, Cancelled) \/ Land(w, Abandoned)
    <3>1. k = w => Passes(k)
      BY <2>1, <2>3, <1>0, <1>1, ResultTypes DEF Passes
    <3> QED  BY <2>1, <2>3, <3>1, <1>1, ResultTypes
  <2> QED  BY <2>2, <2>3, <1>6 DEF Await, AwaitCancel, AwaitCeiling
<1>7. CASE WindowOver
  <2>1. pc = "landed" /\ UNCHANGED <<body, wrote>>
    BY <1>7 DEF WindowOver, ghosts
  <2>2. slots' = slots \/ (slots' = Filled(i) /\ w' = RunEnd)
    BY <1>7 DEF WindowOver
  <2>3. ASSUME slots' = Filled(i), w' = RunEnd, slots'[k] # slots[k]  PROVE Passes(k)
    <3>1. k \in i .. RunEnd - 1 /\ slots'[k] = Cancelled
      BY <2>3 DEF Filled
    <3>2. plan[order[k]] = "read" /\ RunEnd \in Int
      BY <2>1, <3>1, <1>0, Cursor, SMTT(30) DEF Reading, BatchType
    <3> QED  BY <2>1, <2>3, <3>1, <3>2, <1>0 DEF Passes
  <2> QED  BY <2>1, <2>2, <2>3
<1>8. CASE BodyLands
  <2>1. pc = "body" /\ i \in DOMAIN slots /\ i \in DOMAIN order
    BY <1>8, Cursor DEF BodyLands, Barring
  <2>2. Land(i, body[order[i]].out) /\ w' = i + 1 /\ body[order[i]].st = "done" /\ UNCHANGED <<body, wrote>>
    BY <1>8 DEF BodyLands, ghosts
  <2>3. body[order[i]].out \in Results
    BY <2>1, <1>0, TypeParts DEF Control, BodyType, Slot, BatchType
  <2>4. k = i => Lands(k)
    BY <2>1, <2>2, <2>3, <1>0, <1>1 DEF Lands
  <2> QED  BY <2>1, <2>2, <2>3, <2>4, <1>1
<1>9. CASE Leave \/ CloseStream \/ Diverge \/ Baseline \/ ShortCut \/ Closing \/ TopStart \/ TopDone \/ Spawn
  BY <1>9 DEF Leave, CloseStream, Diverge, Baseline, ShortCut, Closing, TopStart, TopDone, Spawn, batch
<1>10. CASE Provider \/ Bodies \/ Esc \/ Drop \/ Outer \/ UNCHANGED vars
  BY <1>10 DEF Provider, Fragment, Bodies, ReadBody, WriteBody, Esc, Drop, Outer, vars, batch
<1> QED
  BY <1>2, <1>4, <1>5, <1>6, <1>7, <1>8, <1>9, <1>10 DEF Next, Loop, Execute, Barrier

LEMMA SlotStep == Control /\ BodyInv /\ WriteInv /\ SlotInv /\ [Next]_vars => SlotInv'
<1> SUFFICES ASSUME Control, BodyInv, WriteInv, SlotInv, [Next]_vars, NEW k \in DOMAIN slots'
             PROVE  SlotOK(k)'
  BY DEF SlotInv
<1>0. /\ FlowType /\ BatchType /\ BodyType /\ BatchType' /\ BatchInv'
      /\ file \in Nat /\ i \in Nat /\ w \in Nat
  <2>1. FlowType /\ BatchType /\ BodyType /\ BatchType' /\ BatchInv'
    BY TypeStep, BatchStep, TypeParts, PTL DEF Control
  <2> QED  BY <2>1, FileGrows DEF FlowType
<1>1. CASE Ask
  BY <1>1, Asked
<1>2. CASE PreFill
  <2>1. slots'[k] = Placeholder /\ pc' \notin Going
    BY <1>2, <1>0 DEF PreFill, Going, Reading, Barring, BatchType
  <2> QED  BY <2>1, Tagged DEF SlotOK, Answers
<1>3. CASE ~Ask /\ ~PreFill
  <2>0. Len(slots') = Len(slots) /\ k \in DOMAIN slots /\ SlotOK(k) /\ k \in Nat
    BY <1>3, <1>0, SlotsKeepLength DEF BatchType, SlotInv
  <2>1. order' = order /\ plan' = plan
    <3>1. ~CloseStream
      BY <2>0, <1>0 DEF CloseStream, Control, BatchInv, BatchType
    <3> QED  BY <3>1, <1>3, Frames
  <2>2. k \in DOMAIN order
    BY <2>0, <2>1, <1>0 DEF BatchInv, BatchType
  <2>3. PICK s \in DOMAIN plan : s = order[k]
    BY <2>2, <1>0 DEF BatchType
  <2>4. \/ slots'[k] = slots[k]
        \/ (Lands(k) \/ GivesUp(k) \/ Passes(k)) /\ UNCHANGED <<body, wrote>>
    BY <1>3, <2>0, SlotMoves
  <2>5. slots'[k].tag \in Answers => slots'[k] = body'[s].out /\ body'[s].st = "done"
    <3>1. CASE slots'[k] = slots[k]
      <4>1. body[s].st = "done" => body'[s] = body[s]
        BY <1>3, BodyMoves, Tagged DEF Begins, Spawned, Early, Starts, Pointed, ReadBody, WriteBody
      <4> QED  BY <3>1, <4>1, <2>0, <2>3 DEF SlotOK
    <3>2. CASE Lands(k) /\ UNCHANGED <<body, wrote>>
      BY <3>2, <2>3 DEF Lands
    <3>3. CASE GivesUp(k) \/ Passes(k)
      BY <3>3, Tagged DEF GivesUp, Passes, Answers
    <3> QED  BY <3>1, <3>2, <3>3, <2>4
  <2>6. slots'[k].tag \in {"cancelled", "error"} /\ plan[s] # "read" => wrote'[s] = 0 /\ body'[s] # Running
    <3> SUFFICES ASSUME slots'[k].tag \in {"cancelled", "error"}, plan[s] # "read"
                 PROVE  wrote'[s] = 0 /\ body'[s] # Running
      OBVIOUS
    <3>1. CASE slots'[k] = slots[k]
      <4>1. wrote[s] = 0 /\ body[s] # Running
        BY <3>1, <2>0, <2>3 DEF SlotOK, Kind
      <4>2. ~Begins(s)
        <5> SUFFICES ASSUME Begins(s)  PROVE FALSE
          OBVIOUS
        <5>1. pc \in {"checkpoint", "gate"} /\ i \in DOMAIN order /\ order[k] = order[i]
          BY <2>3, Cursor DEF Begins, Barring
        <5>2. k = i /\ w = i
          BY <5>1, <2>2, OnePlace DEF Control, CursorInv, Going, Reading, Barring
        <5>3. slots[k] # Placeholder
          BY <3>1, Tagged
        <5> QED  BY <5>1, <5>2, <5>3, <2>0 DEF SlotOK, Going, Barring
      <4> QED  BY <4>1, <4>2, <1>3, BodyMoves, Tagged DEF Spawned, Early, Pointed, ReadBody, WriteBody
    <3>2. CASE Lands(k) /\ UNCHANGED <<body, wrote>>
      BY <3>2, <2>3 DEF Lands, BodyInv, BodyOK, Answers
    <3>3. CASE GivesUp(k) /\ UNCHANGED <<body, wrote>>
      <4>1. ~Begun(s)
        BY <3>3, <2>2, <2>3, <1>0 DEF GivesUp, WriteInv
      <4>2. body[s] = NoBody
        BY <4>1 DEF Begun
      <4> QED  BY <3>3, <4>2, Tagged DEF BodyInv, BodyOK
    <3>4. CASE Passes(k)
      BY <3>4, <2>3 DEF Passes
    <3> QED  BY <3>1, <3>2, <3>3, <3>4, <2>4
  <2>7. pc' \in {"baseline", "cache"} => slots'[k] = Placeholder
    <3> SUFFICES ASSUME pc' \in {"baseline", "cache"}  PROVE slots'[k] = Placeholder
      OBVIOUS
    <3>1. pc \in {"baseline", "cache"}
      <4>1. pc \in Coming /\ pc \in Going \cup {"baseline", "cache"}
        BY <1>3, Frames DEF Coming
      <4> QED  BY <4>1 DEF Coming, Going, Reading, Barring
    <3>2. slots'[k] = slots[k]
      BY <3>1, <2>4 DEF Lands, GivesUp, Passes
    <3> QED  BY <3>1, <3>2, <2>0 DEF SlotOK
  <2>8. pc' \in Going /\ slots'[k] # Placeholder => k < w'
    <3> SUFFICES ASSUME pc' \in Going, slots'[k] # Placeholder  PROVE k < w'
      OBVIOUS
    <3>1. CASE slots'[k] = slots[k]
      <4>1. CASE pc \in Coming
        <5>1. pc \in {"baseline", "cache"}
          BY <4>1, <1>3, Frames DEF Coming, Going, Reading, Barring
        <5> QED  BY <5>1, <3>1, <2>0 DEF SlotOK
      <4>2. CASE pc \notin Coming
        <5>1. pc \in Going /\ w <= w'
          BY <4>2, <1>3, Onward
        <5>2. FlowType'
          BY TypeStep, TypeParts, PTL
        <5>3. w' \in Nat
          BY <5>2 DEF FlowType
        <5> QED  BY <5>1, <5>3, <3>1, <2>0, <1>0 DEF SlotOK
      <4> QED  BY <4>1, <4>2
    <3>2. CASE Lands(k) \/ GivesUp(k) \/ Passes(k)
      BY <3>2 DEF Lands, GivesUp, Passes
    <3> QED  BY <3>1, <3>2, <2>4
  <2>9. ASSUME slots'[k].tag = "read", NEW l \in DOMAIN order, k < l, wrote'[order[l]] # 0
        PROVE  slots'[k].ver < wrote'[order[l]]
    <3>0. l \in Nat /\ order[l] \in DOMAIN plan
      BY <1>0, SMTT(30) DEF BatchType
    <3>1. CASE slots'[k] = slots[k] /\ wrote'[order[l]] = wrote[order[l]]
      BY <3>1, <2>0, <2>9 DEF SlotOK
    <3>2. CASE slots'[k] = slots[k] /\ WriteBody(order[l])
      <4>1. slots[k] = body[s].out /\ body[s].out.ver \in 0 .. file
        BY <3>2, <2>0, <2>3, <2>9 DEF SlotOK, Answers, BodyInv, BodyOK
      <4>2. wrote[order[l]] = 0
        BY <3>0, <3>2, Tagged DEF WriteBody, BodyInv, BodyOK
      <4>3. wrote'[order[l]] = file + 1
        BY <4>2, <3>0, <3>2, <2>9, <1>0 DEF WriteBody, BodyType
      <4> QED  BY <4>1, <4>3, <3>2, <1>0
    <3>3. CASE Lands(k) /\ UNCHANGED <<body, wrote>>
      <4>1. wrote[order[l]] # 0 /\ i <= k
        BY <3>3, <2>9 DEF Lands
      <4>2. Begun(order[l])
        BY <4>1, <3>0, Tagged DEF BodyInv, BodyOK, Begun
      <4>3. l <= i
        BY <4>2, <3>0, <1>0 DEF WriteInv
      <4> QED  BY <4>1, <4>3, <3>0, <2>0, <2>9, <1>0
    <3>4. CASE GivesUp(k) \/ Passes(k)
      BY <3>4, <2>9, Tagged DEF GivesUp, Passes
    <3> QED  BY <3>0, <3>1, <3>2, <3>3, <3>4, <2>4, <1>3, BodyMoves
  <2> QED  BY <2>1, <2>3, <2>5, <2>6, <2>7, <2>8, <2>9 DEF SlotOK, Kind
<1> QED  BY <1>1, <1>2, <1>3

LEMMA CacheStep == Control /\ BodyInv /\ WriteInv /\ ReadInv /\ SlotInv /\ CacheInv /\ [Next]_vars => CacheInv'
<1> SUFFICES ASSUME Control, BodyInv, WriteInv, ReadInv, SlotInv, CacheInv, [Next]_vars, outer' = 0
             PROVE  /\ ~cache'.tasked => cache'.shown = cache'.print
                    /\ \A s \in DOMAIN plan' : body'[s].out.tag = "read" =>
                         \/ body'[s].out.ver = file'
                         \/ \E r \in DOMAIN plan' : body'[s].out.ver < wrote'[r]
  BY DEF CacheInv, CacheAttests
<1>0. BatchType /\ BodyType /\ BatchInv
  BY TypeParts DEF Control
<1>1. outer = 0
  <2>1. ~Outer
    BY TypeParts DEF Outer, Control, WorldType
  <2>2. outer' = outer
    <3>1. CASE Loop \/ Provider
      BY <3>1 DEF Loop, Ask, Leave, CloseStream, Diverge, PreFill, Baseline, ShortCut, Closing, Provider, Fragment, world
    <3>2. CASE Execute \/ Gate
      BY <3>2 DEF Execute, Gate, TopCancelled, TopStart, TopDone, Spawn, Await, WindowOver,
           Barrier, Lease, Checkpoint, BodyLands, world
    <3>3. CASE Bodies \/ Esc \/ Drop \/ UNCHANGED vars
      BY <3>3 DEF Bodies, ReadBody, WriteBody, Esc, Drop, vars, world
    <3> QED  BY <2>1, <3>1, <3>2, <3>3 DEF Next
  <2> QED  BY <2>2
<1>2. ASSUME NEW s \in DOMAIN plan, body[s].out.tag = "read"
      PROVE  /\ body[s].out.ver \in 0 .. file /\ plan[s] = "read"
             /\ body[s].out.ver = file \/ \E r \in DOMAIN plan : body[s].out.ver < wrote[r]
  BY <1>1, <1>2 DEF CacheInv, BodyInv, BodyOK
<1>3. ~cache'.tasked => cache'.shown = cache'.print
  <2>1. CASE cache' = cache
    BY <2>1, <1>1 DEF CacheInv, CacheAttests
  <2>2. CASE Closing /\ cache' # cache
    <3>1. ~HasWrite /\ ReadAnswers # {}
      BY <2>2 DEF Closing, Remember
    <3>2. PICK k \in ReadAnswers :
            cache' = [shown |-> slots[k].ver, print |-> file,
                      tasked |-> \E l \in DOMAIN order : l > k /\ Kind(l) = "task"]
      BY <2>2, <3>1, <1>0, LastAnswer DEF Closing, Remember, BatchType
    <3>3. k \in DOMAIN slots /\ slots[k].tag = "read" /\ k \in DOMAIN order /\ order[k] \in DOMAIN plan
      BY <1>0 DEF ReadAnswers, BatchInv, BatchType
    <3>4. slots[k].ver = body[order[k]].out.ver /\ body[order[k]].out.tag = "read"
      BY <3>3 DEF SlotInv, SlotOK, Answers
    <3>5. ASSUME NEW r \in DOMAIN plan, body[order[k]].out.ver < wrote[r]
          PROVE  \E l \in DOMAIN order : l > k /\ Kind(l) = "task"
      <4>0. wrote[r] # 0 /\ wrote[r] \in Nat /\ body[order[k]].out.ver \in Nat
        BY <3>3, <3>4, <3>5, <1>2, <1>0, FileGrows DEF BodyType
      <4>1. Begun(r)
        BY <4>0, Tagged DEF BodyInv, BodyOK, Begun
      <4>2. PICK l \in DOMAIN order : order[l] = r
        BY <4>1 DEF WriteInv
      <4>3. Kind(l) \in {"read", "write", "task"} /\ k \in Int /\ l \in Int
        BY <4>2, <3>3, <1>0, TypeParts DEF Control, StreamType, Kind, Kinds, BatchType
      <4>4. Kind(l) = "task" /\ l # k
        BY <4>1, <4>2, <4>3, <3>1, <3>3, <3>4, <1>2 DEF HasWrite, Kind, Begun
      <4>5. ~(l < k)
        <5> SUFFICES ASSUME l < k  PROVE FALSE
          OBVIOUS
        <5>1. wrote[order[l]] <= body[order[k]].out.ver
          BY <4>4, <3>3, <3>4, <1>2 DEF ReadInv, Live
        <5> QED  BY <5>1, <4>0, <4>2, <3>5
      <4> QED  BY <4>2, <4>3, <4>4, <4>5
    <3> QED  BY <3>2, <3>3, <3>4, <3>5, <1>2
  <2>3. CASE (Loop \/ Provider) /\ ~Closing
    BY <2>3, <2>1 DEF Loop, Ask, Leave, CloseStream, Diverge, PreFill, Baseline, ShortCut, Provider, Fragment
  <2>4. CASE Execute \/ Gate
    BY <2>4, <2>1 DEF Execute, Gate, TopCancelled, TopStart, TopDone, Spawn, Await, WindowOver,
         Barrier, Lease, Checkpoint, BodyLands
  <2>5. CASE Bodies \/ Esc \/ Drop \/ Outer \/ UNCHANGED vars
    BY <2>5, <2>1 DEF Bodies, ReadBody, WriteBody, Esc, Drop, Outer, vars
  <2> QED  BY <2>1, <2>2, <2>3, <2>4, <2>5 DEF Next
<1>4. ASSUME NEW s \in DOMAIN plan', body'[s].out.tag = "read"
      PROVE  body'[s].out.ver = file' \/ \E r \in DOMAIN plan' : body'[s].out.ver < wrote'[r]
  <2>1. CASE Ask
    BY <2>1, <1>4, Asked, Tagged
  <2>2. CASE ~Ask
    <3>1. plan' = plan
      BY <2>2, Frames
    <3>2. ASSUME NEW r \in DOMAIN plan, WriteBody(r)
          PROVE  wrote[r] = 0 /\ (file' = file \/ wrote'[r] = file + 1)
      <4>1. wrote[r] = 0
        BY <3>2, Tagged DEF WriteBody, BodyInv, BodyOK
      <4> QED  BY <4>1, <3>2, <1>0 DEF WriteBody, BodyType, world
    <3>5. CASE body'[s] = body[s]
      <4>1. body[s].out.ver \in Nat /\ file \in Nat
        BY <3>1, <3>5, <1>2, <1>4, FileGrows
      <4>2. CASE body[s].out.ver = file
        <5>1. CASE file' = file
          BY <5>1, <4>2, <3>5
        <5>2. ASSUME NEW r \in DOMAIN plan, WriteBody(r), file' # file
              PROVE  body'[s].out.ver < wrote'[r]
          BY <5>2, <4>1, <4>2, <3>2, <3>5
        <5> QED  BY <5>1, <5>2, <3>1, FileGrows
      <4>3. ASSUME NEW r \in DOMAIN plan, body[s].out.ver < wrote[r]
            PROVE  body'[s].out.ver < wrote'[r]
        <5>1. wrote[r] \in Nat
          BY <1>0 DEF BodyType
        <5>2. wrote'[r] = wrote[r]
          BY <5>1, <4>1, <4>3, <3>2, <2>2, BodyMoves
        <5> QED  BY <5>2, <4>3, <3>5
      <4> QED  BY <4>2, <4>3, <3>1, <3>5, <1>2, <1>4
    <3>6. CASE ReadBody(s)
      <4>1. body'[s] = Ended(Result("read", s, file)) /\ file' = file
        BY <3>1, <3>6, <1>0 DEF ReadBody, BodyType, world
      <4> QED  BY <4>1, Tagged
    <3>7. CASE WriteBody(s)
      <4>1. PICK tag \in {"wrote", "failed"}, v \in Nat : body'[s] = Ended(Result(tag, s, v))
        BY <3>1, <3>7, <1>0, FileGrows DEF WriteBody, BodyType
      <4> QED  BY <4>1, <1>4, Tagged
    <3>8. ~Begins(s) /\ ~Spawned(s) /\ ~Early(s) /\ ~Pointed(s)
      BY <1>4, Tagged DEF Begins, Spawned, Early, Starts, Pointed
    <3> QED  BY <3>1, <3>5, <3>6, <3>7, <3>8, <2>2, BodyMoves
  <2> QED  BY <2>1, <2>2
<1> QED  BY <1>3, <1>4

LEMMA GuardStep == Control /\ BodyInv /\ WriteInv /\ GuardInv /\ [Next]_vars => GuardInv'
<1> SUFFICES ASSUME Control, BodyInv, WriteInv, GuardInv, [Next]_vars  PROVE GuardInv'
  OBVIOUS
<1>0. /\ BodyType /\ snap \in Int /\ file \in Nat /\ file' \in Nat /\ file <= file'
  BY TypeParts, FileGrows DEF Control, GuardType
<1>3. order' = order \/ pc' \notin {"lease", "checkpoint"}
  <2>1. CASE Ask \/ CloseStream
    BY <2>1 DEF Ask, CloseStream
  <2>2. CASE (Loop /\ ~Ask /\ ~CloseStream) \/ Provider
    BY <2>2 DEF Loop, Leave, Diverge, PreFill, Baseline, ShortCut, Closing, Provider, Fragment, batch
  <2>3. CASE Execute \/ Gate
    BY <2>3 DEF Execute, Gate, TopCancelled, TopStart, TopDone, Spawn, Await, WindowOver, Barrier,
         Lease, Checkpoint, BodyLands, batch
  <2>4. CASE Bodies \/ Esc \/ Drop \/ Outer \/ UNCHANGED vars
    BY <2>4 DEF Bodies, ReadBody, WriteBody, Esc, Drop, Outer, vars, batch
  <2> QED  BY <2>1, <2>2, <2>3, <2>4 DEF Next
<1>1. CASE Ask
  <2>1. \A s \in DOMAIN plan' : wrote'[s] = 0 /\ ~Begun(s)'
    BY <1>1, Asked DEF Begun
  <2>2. UNCHANGED <<auto_checkpointed, snap, file>> /\ pc' = "stream"
    BY <1>1, Asked DEF guard
  <2> QED  BY <2>1, <2>2 DEF GuardInv
<1>2. CASE ~Ask
  <2>0. plan' = plan
    BY <1>2, Frames
  <2>1. CASE Checkpoint
    <3>1. /\ UNCHANGED <<writer_lease, repo, wrote, file>> /\ writer_lease
          /\ pc' \notin {"lease", "checkpoint"}
      BY <2>1 DEF Checkpoint, world, GuardInv, Refuse, StartBarrier
    <3>2. CASE UNCHANGED <<auto_checkpointed, snap>>
      <4>1. ASSUME NEW s \in DOMAIN plan, Begun(s)', plan[s] = "write"
            PROVE  repo => auto_checkpointed
        <5>1. CASE Begun(s)
          BY <4>1, <5>1 DEF GuardInv
        <5>2. CASE Begins(s) /\ ~Begun(s)
          <6>1. body' # body
            BY <5>2, Tagged DEF Begins, Starts
          <6> QED  BY <6>1, <3>2, <2>1 DEF Checkpoint
        <5> QED  BY <5>1, <5>2, <4>1, <1>2, BegunMoves
      <4> QED  BY <4>1, <3>1, <3>2, <2>0 DEF GuardInv, Begun
    <3>3. CASE repo /\ ~auto_checkpointed /\ auto_checkpointed' /\ snap' = file
      <4>1. \A s \in DOMAIN plan : plan[s] = "write" => wrote[s] = 0
        BY <3>3, Tagged DEF GuardInv, BodyInv, BodyOK, Begun
      <4> QED  BY <4>1, <3>1, <3>3, <2>0, <1>0 DEF GuardInv
    <3> QED  BY <3>2, <3>3, <2>1 DEF Checkpoint
  <2>2. CASE Lease
    <3>1. /\ UNCHANGED <<auto_checkpointed, snap, body, wrote, file, repo>>
          /\ writer_lease => writer_lease'
          /\ pc' = "checkpoint" => writer_lease' /\ pc = "lease" /\ i' = i
          /\ pc' # "lease" /\ plan' = plan /\ order' = order
      BY <2>2, <2>0 DEF Lease, world, ghosts, Refuse, Keep
    <3> QED  BY <3>1, <2>0 DEF GuardInv, Begun, Kind
  <2>3. ASSUME UNCHANGED <<guard, repo>>, pc' = "checkpoint" => pc = "checkpoint", ~Checkpoint,
               pc' \in {"lease", "checkpoint"} => i' = i /\ (pc = pc' \/ Kind(i) = "write")
        PROVE  GuardInv'
    <3>1. ASSUME NEW s \in DOMAIN plan, Begun(s)', plan[s] = "write"
          PROVE  writer_lease /\ (repo => auto_checkpointed)
      <4>1. Begun(s)
        BY <3>1, <2>3, <1>2, BegunMoves DEF Begins
      <4> QED  BY <3>1, <4>1 DEF GuardInv
    <3>4. pc' \in {"lease", "checkpoint"} => Kind(i)' = "write"
      BY <2>0, <2>3, <1>3 DEF GuardInv, Kind
    <3>2. ASSUME auto_checkpointed, NEW s \in DOMAIN plan, plan[s] = "write", wrote'[s] # 0
          PROVE  snap < wrote'[s]
      <4>1. CASE wrote'[s] = wrote[s]
        BY <4>1, <3>2 DEF GuardInv
      <4>2. CASE WriteBody(s)
        <5>1. wrote[s] = 0
          BY <4>2, Tagged DEF WriteBody, BodyInv, BodyOK
        <5>2. wrote'[s] = file + 1
          BY <5>1, <4>2, <3>2, <1>0 DEF WriteBody, BodyType
        <5> QED  BY <5>2, <3>2, <1>0 DEF GuardInv
      <4> QED  BY <4>1, <4>2, <1>2, BodyMoves
    <3>3. auto_checkpointed => snap <= file'
      BY <1>0 DEF GuardInv
    <3> QED  BY <3>1, <3>2, <3>3, <3>4, <2>0, <2>3 DEF GuardInv, guard, Begun
  <2>4. ASSUME ~Checkpoint, ~Lease
        PROVE  /\ UNCHANGED <<guard, repo>> /\ (pc' = "checkpoint" => pc = "checkpoint")
               /\ pc' \in {"lease", "checkpoint"} => i' = i /\ (pc = pc' \/ Kind(i) = "write")
    <3>1. CASE Loop \/ Provider
      BY <3>1, <1>2 DEF Loop, Leave, CloseStream, Diverge, PreFill, Baseline, ShortCut, Closing, Provider, Fragment, world, cursor
    <3>2. CASE Execute
      BY <3>2, <2>4 DEF Execute, TopCancelled, TopStart, TopDone, Spawn, Await, AwaitDone, AwaitCancel,
           AwaitCeiling, WindowOver, Barrier, BodyLands, world, cursor
    <3>4. CASE Gate
      BY <3>4 DEF Gate, Refuse, Keep, StartBarrier, world
    <3>3. CASE Bodies \/ Esc \/ Drop \/ Outer \/ UNCHANGED vars
      BY <3>3 DEF Bodies, ReadBody, WriteBody, Esc, Drop, Outer, vars, world, cursor
    <3> QED  BY <3>1, <3>2, <3>3, <3>4 DEF Next
  <2> QED  BY <2>1, <2>2, <2>3, <2>4
<1> QED  BY <1>1, <1>2

LEMMA LateStep == Control /\ LateInv /\ [Next]_vars => LateInv'
<1> SUFFICES ASSUME Control, LateInv, [Next]_vars  PROVE LateInv'
  OBVIOUS
<1>0. late \in [read : Nat, write : Nat] /\ MAX_PARALLEL \in Nat
  BY TypeParts, BoundsAssumption DEF Control, WorldType
<1> DEFINE None == [read |-> 0, write |-> 0]
           Before == {"spawn", "gate", "lease", "checkpoint"}
<1>1. ASSUME late' = late,
             esc /\ pc \notin Before => esc' /\ pc' \notin Before
      PROVE  LateInv'
  BY <1>1 DEF LateInv, EscBounds
<1>2. CASE Spawn
  <2>0. pc = "spawn" /\ pc' = "window" /\ late = None /\ esc' = esc
    BY <1>2 DEF Spawn, LateInv, world
  <2>1. PICK new \in SUBSET ToSpawn :
           late' = IF esc THEN [late EXCEPT !.read = @ + Cardinality(new)] ELSE late
    BY <1>2 DEF Spawn
  <2>2. Cardinality(new) \in 0 .. MAX_PARALLEL
    BY <2>0, Few
  <2>3. CASE ~esc
    BY <2>0, <2>1, <2>3, <1>1
  <2>4. CASE esc
    <3>1. late' = [read |-> Cardinality(new), write |-> 0]
      BY <2>0, <2>1, <2>2, <2>4
    <3> QED  BY <2>0, <2>2, <2>4, <3>1, <1>0 DEF LateInv, EscBounds
  <2> QED  BY <2>3, <2>4
<1>3. CASE Checkpoint \/ (Gate /\ pc' \in {"body", "top"})
  <2>0. late = None /\ esc' = esc /\ pc' \in {"body", "top"}
    BY <1>3 DEF Checkpoint, Gate, LateInv, world, StartBarrier, Refuse
  <2>1. late' = late \/ (esc /\ late' = [late EXCEPT !.write = @ + 1])
    BY <1>3 DEF Checkpoint, Gate, StartBarrier
  <2>2. CASE late' = late
    BY <2>0, <2>2, <1>1
  <2>3. CASE esc /\ late' = [late EXCEPT !.write = @ + 1]
    <3>1. late' = [read |-> 0, write |-> 1]
      BY <2>0, <2>3
    <3> QED  BY <2>0, <2>3, <3>1, <1>0 DEF LateInv, EscBounds
  <2> QED  BY <2>1, <2>2, <2>3
<1>4. CASE Loop
  BY <1>4, <1>1 DEF Loop, Ask, Leave, CloseStream, Diverge, PreFill, Baseline, ShortCut, Closing, world, ghosts
<1>5. CASE Provider \/ Bodies \/ Esc \/ Drop \/ Outer \/ UNCHANGED vars
  BY <1>5, <1>1 DEF Provider, Fragment, Bodies, ReadBody, WriteBody, Esc, Drop, Outer, vars, world, ghosts
<1>6. CASE TopCancelled \/ TopStart \/ TopDone \/ Await \/ WindowOver \/ BodyLands
  BY <1>6, <1>1 DEF TopCancelled, TopStart, TopDone, Await, AwaitDone, AwaitCancel, AwaitCeiling, WindowOver,
       BodyLands, world, ghosts
<1>7. CASE Lease \/ (Gate /\ pc' \notin {"body", "top"})
  BY <1>7, <1>1 DEF Gate, Lease, StartBarrier, world, ghosts, Refuse
<1> QED  BY <1>2, <1>3, <1>4, <1>5, <1>6, <1>7 DEF Next, Execute, Barrier

-----------------------------------------------------------------------------
(* The theorems.                                                             *)

LEMMA InitTool == Init => ToolInv
<1> SUFFICES ASSUME Init  PROVE ToolInv
  OBVIOUS
<1>1. DOMAIN plan = {} /\ DOMAIN order = {} /\ DOMAIN slots = {}
  BY DEF Init
<1>2. BodyInv /\ WriteInv /\ WritesInOrder /\ ReadInv /\ SlotInv
  BY <1>1 DEF BodyInv, WriteInv, WritesInOrder, ReadInv, SlotInv
<1>3. CacheInv
  BY <1>1 DEF Init, CacheInv, CacheAttests, NoEntry
<1>4. GuardInv
  BY <1>1 DEF Init, GuardInv
<1>5. LateInv
  BY BoundsAssumption DEF Init, LateInv, EscBounds
<1> QED  BY <1>2, <1>3, <1>4, <1>5, InitControl DEF ToolInv

LEMMA StepTool == ToolInv /\ [Next]_vars => ToolInv'
BY StepControl, BodyStep, WriteStep, OrderStep, ReadStep, SlotStep, CacheStep, GuardStep, LateStep
   DEF ToolInv

(* Every reachable state satisfies the inductive invariant.                  *)
THEOREM ToolInvariant == Spec => []ToolInv
BY InitTool, StepTool, PTL DEF Spec

(* Sequential observability (execute_calls, eager_starter): whatever is      *)
(* started early, run in parallel or cancelled, a read's answer shows every  *)
(* write placed before it and none placed after it, and the writes take      *)
(* effect in the order of the calls, for any plan and window size.           *)
THEOREM ToolSerialView == Spec => []SerialView
<1>1. ToolInv => SerialView
  <2> SUFFICES ASSUME ToolInv, NEW k \in DOMAIN slots, NEW l \in DOMAIN slots, k < l
               PROVE  /\ slots[l].tag = "read" => slots[l].ver >= wrote[order[k]]
                      /\ slots[k].tag = "read" /\ wrote[order[l]] # 0
                            => slots[k].ver < wrote[order[l]]
                      /\ wrote[order[k]] # 0 /\ wrote[order[l]] # 0
                            => wrote[order[k]] < wrote[order[l]]
    BY DEF SerialView
  <2>0. Control /\ BodyInv /\ ReadInv /\ SlotInv /\ WritesInOrder
    BY DEF ToolInv
  <2>1. /\ k \in DOMAIN order /\ l \in DOMAIN order
        /\ order[k] \in DOMAIN plan /\ order[l] \in DOMAIN plan
        /\ plan[order[k]] \in Kinds
    <3>1. BatchType /\ StreamType /\ Len(slots) <= Len(order)
      BY <2>0, TypeParts DEF Control, BatchInv
    <3>2. k \in DOMAIN order /\ l \in DOMAIN order
      BY <3>1 DEF BatchType
    <3>3. order[k] \in DOMAIN plan /\ order[l] \in DOMAIN plan
      BY <3>1, <3>2 DEF BatchType
    <3> QED  BY <3>1, <3>2, <3>3 DEF StreamType
  <2>2. ASSUME slots[l].tag = "read"  PROVE slots[l].ver >= wrote[order[k]]
    <3>1. slots[l].ver = body[order[l]].out.ver /\ body[order[l]].out.tag = "read"
      BY <2>0, <2>2 DEF SlotInv, SlotOK, Answers
    <3>2. plan[order[l]] = "read" /\ body[order[l]].out.ver \in 0 .. file
      BY <3>1, <2>0, <2>1 DEF BodyInv, BodyOK
    <3>3. CASE plan[order[k]] # "read"
      <4>1. wrote[order[k]] <= body[order[l]].out.ver
        BY <3>1, <3>2, <3>3, <2>0, <2>1 DEF ReadInv, Live, Kind
      <4>2. wrote[order[k]] \in Nat
        BY <2>0, <2>1, TypeParts DEF Control, BodyType
      <4> QED  BY <4>1, <4>2, <3>1, <3>2
    <3>4. CASE plan[order[k]] = "read"
      <4>1. wrote[order[k]] = 0
        BY <3>4, <2>0, <2>1 DEF BodyInv, BodyOK
      <4> QED  BY <4>1, <3>1, <3>2
    <3> QED  BY <3>3, <3>4, <2>1 DEF Kinds
  <2>3. slots[k].tag = "read" /\ wrote[order[l]] # 0 => slots[k].ver < wrote[order[l]]
    BY <2>0, <2>1 DEF SlotInv, SlotOK
  <2>4. wrote[order[k]] # 0 /\ wrote[order[l]] # 0 => wrote[order[k]] < wrote[order[l]]
    BY <2>0, <2>1 DEF WritesInOrder
  <2> QED  BY <2>2, <2>3, <2>4
<1> QED  BY <1>1, ToolInvariant, PTL

(* Whichever of Esc, the ceiling, the dropped future and the finishing       *)
(* bodies wins (execute_calls' select!), every call is answered, a result    *)
(* says what happened to its own call, a write that is said to be cancelled  *)
(* or refused never touches the file, and read_cache attests what it shows.  *)
THEOREM ToolReportsTrue == Spec => []ReportsTrue
<1>1. ToolInv => ReportsTrue
  <2> SUFFICES ASSUME ToolInv  PROVE ReportsTrue
    OBVIOUS
  <2>0. Control /\ BodyInv /\ SlotInv /\ CacheInv
    BY DEF ToolInv
  <2>1. TypeOK /\ Paired
    BY <2>0 DEF Control, BatchInv, Paired
  <2>2. ASSUME NEW k \in DOMAIN slots
        PROVE  /\ slots[k].tag \in {"read", "same", "wrote", "failed"} => slots[k].from = order[k]
               /\ slots[k].tag = "wrote" => wrote[order[k]] = slots[k].ver
               /\ slots[k].tag \in {"cancelled", "error"} /\ plan[order[k]] # "read"
                     => wrote[order[k]] = 0 /\ body[order[k]] # Running
    <3>1. order[k] \in DOMAIN plan
      BY <2>0, TypeParts DEF Control, BatchInv, BatchType
    <3>2. BodyOK(order[k]) /\ SlotOK(k)
      BY <3>1, <2>0 DEF BodyInv, SlotInv
    <3> QED  BY <3>2 DEF BodyOK, SlotOK, Answers, Kind
  <2>3. TellsTheEvent
    BY <2>2 DEF TellsTheEvent
  <2>4. CacheAttests
    BY <2>0 DEF CacheInv
  <2> QED  BY <2>1, <2>3, <2>4 DEF ReportsTrue
<1> QED  BY <1>1, ToolInvariant, PTL

(* With a repository the run's first write is preceded by the writer lease   *)
(* and by a checkpoint older than any write, and once Esc is pressed at most *)
(* one write or one window of reads, the one past the cancel check, still    *)
(* starts (execute_calls, between that check and the body).                  *)
THEOREM ToolWritesGuarded == Spec => []WritesGuarded
<1>1. ToolInv => WritesGuarded
  <2> SUFFICES ASSUME ToolInv  PROVE WritesGuarded
    OBVIOUS
  <2>0. Control /\ BodyInv /\ GuardInv /\ LateInv
    BY DEF ToolInv
  <2>1. \A s \in DOMAIN plan : wrote[s] # 0 => Begun(s)
    BY <2>0, Tagged DEF BodyInv, BodyOK, Begun
  <2>2. DOMAIN wrote = DOMAIN plan
    BY <2>0, TypeParts DEF Control, BodyType
  <2>3. CheckpointFirst
    BY <2>0, <2>1, <2>2 DEF CheckpointFirst, GuardInv
  <2> QED  BY <2>0, <2>3 DEF WritesGuarded, LateInv
<1> QED  BY <1>1, ToolInvariant, PTL
=============================================================================
