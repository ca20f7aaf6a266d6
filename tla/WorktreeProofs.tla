---------------------------- MODULE WorktreeProofs ----------------------------
(* Proofs about what becomes of the files of a worktree: TimeMachine, for    *)
(* any processes, trees, retention and bounds, and FileTools, for any        *)
(* windows, paths and bounds.                                                *)
EXTENDS TimeMachine, FileTools, FiniteSetTheorems, WellFoundedInduction, TLAPS

(* The inductive invariant.                                                  *)
Steps == {"idle", "ask", "recover", "work", "settle", "settled", "rollback", "rolling",
          "rolled", "commit", "ref", "chat", "noChat", "enter", "entered", "arm", "apply",
          "applying", "verify", "unapply", "unapplying", "land", "landed", "drop", "reap",
          "sweep"}
Ops   == {None, "any"} \cup Saves \cup Travels \cup Drops \cup {"gc", "repair"}
Procedure == [pc : Steps, op : Ops, id : 0..MaxId, tree : Contents \cup {None},
              pre : 0..MaxId, todo : SUBSET Snapshots]

(* One process at a time is past the metadata lock.                          *)
Busy(p) == proc[p].pc \notin Waiting
Locked  == /\ proc \in [Procs -> Procedure]
           /\ \A p, q \in Procs : Busy(p) /\ Busy(q) => p = q

(* The ledger: what it lists is pinned, whole and under one id.              *)
Shelf == /\ Pinned /\ Loadable /\ NoHalfSaved
         /\ \A s, t \in ledger.snaps : s.id = t.id => s = t

(* A half-applied tree has a restore in the journal.                         *)
Arrived == {"settle", "settled", "land", "landed"}
Torn == tree = Half =>
    /\ journal # None /\ journal.kind = "Restore"
    /\ \A p \in Procs : proc[p].pc \notin Arrived

(* What the journal says while a process is at work, by what it is doing.    *)
Noted(kinds) == journal # None /\ journal.kind \in kinds
Capturing == {"commit", "ref", "chat", "noChat", "enter"}
Placing   == {"apply", "applying", "verify", "unapply", "unapplying", "land", "landed"}
Returning == {"rollback", "rolling", "rolled", "settle", "settled"}

NoteOK(me) ==
    /\ me.pc \in {"work", "arm"} => journal = None
    /\ me.pc = "recover" => journal # None
    /\ me.pc \in Capturing \cup {"entered"} => Noted({"Save"}) /\ journal.id \in Ids
    /\ me.pc \in Placing =>
          Noted({"Restore"}) /\ journal.id = me.id /\ journal.pre = me.pre
    /\ me.pc \in Returning => Noted({"Restore"}) /\ me.pre \in {journal.id, journal.pre}
    /\ me.pc \in {"drop", "reap", "sweep"} => Noted({"Prune", "Clear", "Doctor"})

(* How far a save has come ...                                               *)
SaveOK(me) ==
    /\ me.pc \in Capturing => /\ journal.id = ledger.next
                              /\ me.op \in Saves \cup Travels /\ me.tree \in Trees
    /\ me.pc = "commit" => journal.tree = None
    /\ me.pc \in {"ref", "chat", "enter"} => journal.tree = me.tree
    /\ me.pc \in {"chat", "enter"} => refs[ledger.next] = me.tree
    /\ me.pc = "noChat" => refs[ledger.next] = None
    /\ me.pc = "enter" /\ me.op = "talk" => ledger.next \in chats
    /\ me.pc = "entered" => /\ me.op \in Saves \cup Travels
                            /\ journal.id \in Live /\ Snap(journal.id).tree = me.tree
(* ... and a restore: where it goes, what it will go back to, where it is.   *)
GoalOK(me) ==
    /\ me.pc \in Capturing \cup {"entered"} /\ me.op \in Travels => me.id \in Live
    /\ me.pc = "arm" => {me.id, me.pre} \subseteq Live
    /\ me.pc = "settled" => ledger.cursor = me.pre
    /\ me.pc = "landed"  => ledger.cursor = me.id
    /\ me.pc \in {"settle", "settled"} => edited \/ tree = Snap(me.pre).tree
    /\ me.pc \in {"land", "landed"}    => edited \/ tree = Snap(me.id).tree
Kept == \E s \in ledger.snaps : s.tree = tree
PreOK(me) ==
    /\ me.pc \in Capturing \cup {"entered"} => edited \/ me.tree = tree
    /\ me.pc \in {"arm", "apply"} => edited \/ Kept
DropOK(me) ==
    /\ me.pc = "drop" => me.op \in Drops
    /\ me.pc = "reap" => \A s \in me.todo : s.id \notin Live

StageOK(p) == LET me == proc[p] IN NoteOK(me) /\ SaveOK(me) /\ GoalOK(me) /\ PreOK(me) /\ DropOK(me)

TimeInv == /\ TypeOK /\ Locked /\ Shelf /\ NextIdFree /\ Settleable /\ Torn
           /\ \A p \in Procs : StageOK(p)

-----------------------------------------------------------------------------
(* The largest of a finite set of checkpoints.                               *)
LEMMA LeastExists ==
    ASSUME NEW L \in SUBSET Nat, L # {}
    PROVE  \E x \in L : \A y \in L : x <= y
<1> DEFINE Below == {1..x : x \in L}
<1>1. Below \subseteq FiniteSubsetsOf(Nat)
  <2>1. \A x \in L : 1..x \in SUBSET Nat /\ IsFiniteSet(1..x) BY FS_Interval
  <2> QED BY <2>1 DEF FiniteSubsetsOf
<1>2. Below # {} OBVIOUS
<1>3. PICK U \in Below : \A V \in Below : ~(<<V, U>> \in StrictSubsetOrdering(Nat))
  <2>1. IsWellFoundedOn(StrictSubsetOrdering(Nat), FiniteSubsetsOf(Nat))
    BY FS_StrictSubsetOrderingWellFounded
  <2> HIDE DEF Below
  <2> QED BY <1>1, <1>2, <2>1, WFMin
<1>4. PICK x \in L : U = 1..x OBVIOUS
<1>5. ASSUME NEW y \in L, y < x PROVE FALSE
  <2>1. 1..y \in Below /\ 1..y \subseteq 1..x /\ x \notin 1..y /\ x \in 1..x BY <1>5
  <2>2. 1..y # 1..x BY <2>1
  <2>3. 1..y \in SUBSET Nat /\ 1..x \in SUBSET Nat OBVIOUS
  <2>4. <<1..y, 1..x>> \in StrictSubsetOrdering(Nat)
    BY <2>1, <2>2, <2>3 DEF StrictSubsetOrdering
  <2> QED BY <1>3, <1>4, <2>1, <2>4
<1> QED BY <1>5

LEMMA MaxIn ==
    ASSUME NEW S \in SUBSET Ids, S # {}
    PROVE  Max(S) \in S /\ \A y \in S : Max(S) >= y
<1> DEFINE Up == {n \in Nat : \A y \in S : y <= n}
<1>1. S \subseteq Nat /\ MaxId \in Up BY TimeAssumption DEF Ids
<1>2. PICK m \in Up : \A n \in Up : m <= n
  <2>1. Up # {} BY <1>1
  <2> HIDE DEF Up
  <2>2. Up \in SUBSET Nat BY DEF Up
  <2> QED BY <2>1, <2>2, LeastExists
<1>3. m \in S
  <2> SUFFICES ASSUME m \notin S PROVE FALSE OBVIOUS
  <2>1. PICK y \in S : TRUE OBVIOUS
  <2>2. y \in Nat /\ y <= m /\ y # m /\ m \in Nat BY <1>1, <2>1
  <2>3. m - 1 \in Nat BY <2>2
  <2>4. \A z \in S : z <= m - 1 BY <1>1
  <2> QED BY <1>2, <2>3, <2>4
<1>4. \E x \in S : \A y \in S : x >= y BY <1>1, <1>2, <1>3
<1> QED BY <1>4 DEF Max

-----------------------------------------------------------------------------
(* Ids name checkpoints.                                                     *)
LEMMA SnapIs ==
    ASSUME NEW id \in Live
    PROVE  Snap(id) \in ledger.snaps /\ Snap(id).id = id
<1>1. \E s \in ledger.snaps : s.id = id BY DEF Live
<1> QED BY <1>1 DEF Snap

Unique == \A s, t \in ledger.snaps : s.id = t.id => s = t

LEMMA SnapStep ==
    ASSUME Unique, ledger'.snaps = ledger.snaps
    PROVE  Live' = Live /\ \A id \in Live : Snap(id)' = Snap(id)
<1>1. Live' = Live BY DEF Live
<1>2. ASSUME NEW id \in Live PROVE Snap(id)' = Snap(id)
  <2>1. \E s \in ledger'.snaps : s.id = id BY DEF Live
  <2>2. Snap(id)' \in ledger'.snaps /\ Snap(id)'.id = id BY <2>1 DEF Snap
  <2> QED BY <2>2, SnapIs DEF Unique
<1> QED BY <1>1, <1>2

LEMMA LiveIds == ASSUME TypeOK
                 PROVE  /\ Live \subseteq Ids /\ Ids \subseteq 0..MaxId /\ 0 \notin Ids
                        /\ \A id \in Live : Snap(id).tree \in Contents
<1>1. Live \subseteq Ids BY DEF TypeOK, Live, Snapshots
<1>2. Ids \subseteq 0..MaxId /\ 0 \notin Ids BY TimeAssumption DEF Ids
<1>3. \A id \in Live : Snap(id).tree \in Contents BY SnapIs DEF TypeOK, Snapshots
<1> QED BY <1>1, <1>2, <1>3

LEMMA NewestLive == ASSUME TypeOK, Live # {}
                    PROVE  /\ Max(Live) \in Live /\ Newest \in ledger.snaps
                           /\ Newest.id \in Live /\ Newest = Snap(Newest.id)
<1>1. Max(Live) \in Live BY LiveIds, MaxIn
<1>2. Newest = Snap(Max(Live)) BY DEF Newest
<1>3. Newest \in ledger.snaps /\ Newest.id = Max(Live) BY <1>1, <1>2, SnapIs
<1> QED BY <1>1, <1>2, <1>3

-----------------------------------------------------------------------------
(* The store: the part of the invariant about the disk.                      *)
StoreOK == TypeOK /\ Shelf /\ NextIdFree /\ Settleable

LEMMA StoreUnique == ASSUME StoreOK PROVE Unique
BY DEF StoreOK, Shelf, Unique

\* What is said of the disk does not depend on the tree.
LEMMA StoreStill ==
    ASSUME StoreOK, UNCHANGED disk, tree' \in Contents, edited' \in BOOLEAN
    PROVE  StoreOK' /\ Live' = Live /\ \A id \in Live : Snap(id)' = Snap(id)
<1>1. Live' = Live /\ \A id \in Live : Snap(id)' = Snap(id)
  BY StoreUnique, SnapStep DEF disk
<1>2. TypeOK' BY DEF StoreOK, TypeOK, disk
<1>3. Shelf' BY <1>1 DEF StoreOK, Shelf, Pinned, Loadable, NoHalfSaved, disk
<1>4. NextIdFree' BY DEF StoreOK, NextIdFree, disk
<1>5. Settleable' BY <1>1 DEF StoreOK, Settleable, Reachable, disk
<1> QED BY <1>1, <1>2, <1>3, <1>4, <1>5 DEF StoreOK

\* A journal is written: one that does not lose sight of a ref, and does not
\* promise a restore that cannot be settled.
LEMMA StoreJournal ==
    ASSUME StoreOK, NEW j \in {None} \cup Journals, Journal(j),
           tree' = tree, edited' \in BOOLEAN,
           j # None => /\ j.gen <= ledger.gen
                       /\ j.kind = "Restore" => Reachable(j.id) /\ Reachable(j.pre),
           \A id \in Ids : id >= ledger.next /\ refs[id] # None =>
               j # None /\ j.kind = "Save" /\ j.id = id /\ j.tree = refs[id]
    PROVE  StoreOK' /\ Live' = Live /\ \A id \in Live : Snap(id)' = Snap(id)
<1>0. UNCHANGED <<ledger, refs, chats>> /\ journal' = j BY DEF Journal
<1>1. Live' = Live /\ \A id \in Live : Snap(id)' = Snap(id)
  BY <1>0, StoreUnique, SnapStep
<1>2. TypeOK' BY <1>0 DEF StoreOK, TypeOK, Journals
<1>3. Shelf' BY <1>0, <1>1 DEF StoreOK, Shelf, Pinned, Loadable, NoHalfSaved
<1>4. NextIdFree' BY <1>0 DEF StoreOK, NextIdFree
<1>5. Settleable' BY <1>0, <1>1 DEF StoreOK, Settleable, Reachable
<1> QED BY <1>1, <1>2, <1>3, <1>4, <1>5 DEF StoreOK

LEMMA StoreCursor ==
    ASSUME StoreOK, NEW id \in Live, SaveCursor(id), tree' = tree, edited' \in BOOLEAN
    PROVE  StoreOK' /\ Live' = Live /\ (\A x \in Live : Snap(x)' = Snap(x)) /\ ledger'.cursor = id
<1>0. /\ ledger' = [gen |-> ledger.gen + 1, snaps |-> ledger.snaps, cursor |-> id,
                    next |-> ledger.next]
      /\ ledger.gen < MaxGen /\ UNCHANGED <<journal, refs, chats>>
  BY DEF SaveCursor, SaveLedger
<1>1. Live' = Live /\ \A x \in Live : Snap(x)' = Snap(x)
  BY <1>0, StoreUnique, SnapStep
<1>2. TypeOK'
  <2>1. id \in 0..MaxId /\ ledger.gen + 1 \in 0..MaxGen
    BY <1>0, LiveIds, TimeAssumption DEF StoreOK, TypeOK
  <2> QED BY <1>0, <2>1 DEF StoreOK, TypeOK
<1>3. Shelf' BY <1>0, <1>1 DEF StoreOK, Shelf, Pinned, Loadable, NoHalfSaved
<1>4. NextIdFree' BY <1>0 DEF StoreOK, NextIdFree
<1>5. Settleable'
  <2>1. ledger.gen \in Int BY DEF StoreOK, TypeOK
  <2>2. journal # None => journal.gen \in Int BY DEF StoreOK, TypeOK, Journals
  <2>3. journal # None => journal.gen <= ledger.gen BY DEF StoreOK, Settleable
  <2>4. journal # None => journal.gen <= ledger.gen + 1 BY <2>1, <2>2, <2>3
  <2> QED BY <1>0, <1>1, <2>4 DEF StoreOK, Settleable, Reachable
<1> QED BY <1>0, <1>1, <1>2, <1>3, <1>4, <1>5 DEF StoreOK

\* A ref no checkpoint needs goes.
LEMMA StoreUnref ==
    ASSUME StoreOK, NEW id, id \notin Live, SetRef(id, None), tree' = tree, edited' \in BOOLEAN
    PROVE  StoreOK' /\ Live' = Live /\ \A x \in Live : Snap(x)' = Snap(x)
<1>0. refs' = [refs EXCEPT ![id] = None] /\ UNCHANGED <<ledger, journal, chats>>
  BY DEF SetRef
<1>1. Live' = Live /\ \A x \in Live : Snap(x)' = Snap(x)
  BY <1>0, StoreUnique, SnapStep
<1>2. TypeOK' BY <1>0 DEF StoreOK, TypeOK
<1>3. /\ \A x \in Live : refs'[x] = refs[x]
      /\ \A x \in Ids : refs'[x] # None => refs'[x] = refs[x]
  BY <1>0, LiveIds DEF StoreOK, TypeOK
<1>4. Shelf'
  <2>1. \A s \in ledger.snaps : s.id \in Live BY DEF Live
  <2> QED BY <1>0, <1>1, <1>3, <2>1 DEF StoreOK, Shelf, Pinned, Loadable, NoHalfSaved
<1>5. NextIdFree' BY <1>0, <1>3 DEF StoreOK, NextIdFree
<1>6. Settleable' BY <1>0, <1>1, <1>3 DEF StoreOK, Settleable, Reachable
<1> QED BY <1>1, <1>2, <1>4, <1>5, <1>6 DEF StoreOK

\* A chat file is written, or one no checkpoint needs goes.
LEMMA StoreChats ==
    ASSUME StoreOK, NEW c \in SUBSET Ids, SetChats(c), chats \cap Live \subseteq c,
           tree' = tree, edited' \in BOOLEAN
    PROVE  StoreOK' /\ Live' = Live /\ \A x \in Live : Snap(x)' = Snap(x)
<1>0. chats' = c /\ UNCHANGED <<ledger, journal, refs>> BY DEF SetChats
<1>1. Live' = Live /\ \A x \in Live : Snap(x)' = Snap(x)
  BY <1>0, StoreUnique, SnapStep
<1>2. TypeOK' BY <1>0 DEF StoreOK, TypeOK
<1>3. Shelf'
  <2>1. \A s \in ledger.snaps : s.id \in Live BY DEF Live
  <2> QED BY <1>0, <1>1, <2>1 DEF StoreOK, Shelf, Pinned, Loadable, NoHalfSaved
<1>4. NextIdFree' BY <1>0 DEF StoreOK, NextIdFree
<1>5. Settleable' BY <1>0, <1>1 DEF StoreOK, Settleable, Reachable
<1> QED BY <1>1, <1>2, <1>3, <1>4, <1>5 DEF StoreOK

-----------------------------------------------------------------------------
(* Who is past the lock is alone.                                            *)
\* The invariant with the disk as one part.
TimeInvIs == StoreOK /\ Locked /\ Torn /\ \A p \in Procs : StageOK(p)

Alone(p) == \A q \in Procs \ {p} : proc[q].pc \in Waiting

LEMMA InvIs == TimeInv <=> TimeInvIs
BY DEF TimeInv, TimeInvIs, StoreOK

\* A process past the lock, or one that finds it free, is the only one there.
LEMMA BusyAlone == ASSUME TimeInv, NEW p \in Procs, Busy(p) PROVE Alone(p)
BY DEF TimeInv, Locked, Busy, Alone

LEMMA UnlockedAlone == ASSUME Unlocked, NEW p \in Procs PROVE Alone(p)
BY DEF Unlocked, Alone

\* A process that waits for the lock has no claim on the disk.
LEMMA WaitingStage == ASSUME NEW p \in Procs, proc[p].pc \in Waiting PROVE StageOK(p)
<1>1. proc[p].pc \in {"idle", "ask"} BY DEF Waiting
<1> QED BY <1>1 DEF StageOK, NoteOK, SaveOK, GoalOK, PreOK, DropOK, Capturing, Placing, Returning

LEMMA IdleStage == ASSUME NEW p \in Procs, proc'[p].pc \in Waiting PROVE StageOK(p)'
<1>1. proc'[p].pc \in {"idle", "ask"} BY DEF Waiting
<1> QED BY <1>1 DEF StageOK, NoteOK, SaveOK, GoalOK, PreOK, DropOK, Capturing, Placing, Returning

\* A step of a process that is alone past the lock, or passes it.
LEMMA ActStep ==
    ASSUME TimeInv, NEW p \in Procs, Alone(p), NEW me \in Procedure,
           proc' = [proc EXCEPT ![p] = me], StoreOK', StageOK(p)',
           tree' = Half => /\ journal' # None /\ journal'.kind = "Restore"
                           /\ me.pc \notin Arrived
    PROVE  TimeInv'
<1>1. proc \in [Procs -> Procedure] /\ proc'[p] = me
      /\ \A q \in Procs \ {p} : proc'[q] = proc[q] /\ proc'[q].pc \in Waiting
  BY DEF TimeInv, Locked, Alone
<1>2. Locked' BY <1>1 DEF Locked, Busy
<1>3. \A q \in Procs : proc'[q].pc \in Arrived => q = p
  BY <1>1 DEF Waiting, Arrived
<1>4. Torn' BY <1>1, <1>3 DEF Torn
<1>5. \A q \in Procs : StageOK(q)'
  <2> SUFFICES ASSUME NEW q \in Procs, q # p PROVE StageOK(q)' OBVIOUS
  <2> QED BY <1>1, IdleStage
<1> QED BY <1>2, <1>4, <1>5, InvIs DEF TimeInv, StoreOK

\* A process that steps aside, or asks; and an edit of somebody's.
LEMMA StageStill ==
    ASSUME TimeInv, NEW q \in Procs, proc'[q] = proc[q], UNCHANGED disk,
           tree' \in Contents, edited' \in BOOLEAN,
           Busy(q) => edited' \/ (edited' = edited /\ tree' = tree)
    PROVE  StageOK(q)'

<1>0. StoreOK /\ Live' = Live /\ \A id \in Live : Snap(id)' = Snap(id)
  BY StoreStill, InvIs DEF TimeInvIs
<1>1. CASE ~Busy(q) BY <1>1, IdleStage DEF Busy
<1>2. CASE Busy(q)
  <2>1. UNCHANGED <<ledger, journal, refs, chats>> /\ StageOK(q)
    BY DEF disk, TimeInv
  <2>2. edited' \/ (edited' = edited /\ tree' = tree) BY <1>2
  <2>3. NoteOK(proc[q])' BY <2>1 DEF StageOK, NoteOK, Noted
  <2>4. SaveOK(proc[q])' BY <1>0, <2>1 DEF StageOK, SaveOK
  <2>5. GoalOK(proc[q])'
    <3>1. proc[q].pc \in {"settle", "settled"} => proc[q].pre \in Live
      BY <1>0, <2>1 DEF StageOK, NoteOK, Noted, Returning, StoreOK, Settleable, Reachable
    <3>2. proc[q].pc \in {"land", "landed"} => proc[q].id \in Live
      BY <1>0, <2>1 DEF StageOK, NoteOK, Noted, Placing, StoreOK, Settleable, Reachable
    <3> QED BY <1>0, <2>1, <2>2, <3>1, <3>2 DEF StageOK, GoalOK
  <2>6. PreOK(proc[q])' BY <2>1, <2>2 DEF StageOK, PreOK, Kept
  <2>7. DropOK(proc[q])' BY <1>0, <2>1 DEF StageOK, DropOK
  <2> QED BY <2>3, <2>4, <2>5, <2>6, <2>7 DEF StageOK
<1> QED BY <1>1, <1>2

LEMMA AsideStep ==
    ASSUME TimeInv, NEW p \in Procs, NEW me \in Procedure, me.pc \in Waiting,
           proc' = [proc EXCEPT ![p] = me], UNCHANGED <<disk, tree>>,
           edited' = edited \/ (Busy(p) /\ edited' \in BOOLEAN)
    PROVE  TimeInv'
<1>1. /\ proc \in [Procs -> Procedure] /\ proc'[p] = me
      /\ \A q \in Procs \ {p} : proc'[q] = proc[q]
      /\ \A q \in Procs : Busy(q)' => Busy(q) /\ q # p
  BY DEF TimeInv, Locked, Busy
<1>2. StoreOK'
  BY StoreStill, InvIs DEF TimeInvIs, StoreOK, TypeOK
<1>3. Locked' BY <1>1 DEF TimeInv, Locked
<1>4. Torn' BY <1>1 DEF TimeInv, Torn, disk, Waiting, Arrived
<1>5. ASSUME NEW q \in Procs PROVE StageOK(q)'
  <2>1. CASE q = p BY <1>1, <2>1, IdleStage
  <2>2. CASE q # p
    <3>1. Busy(q) => ~Busy(p) BY <2>2 DEF TimeInv, Locked
    <3>2. Busy(q) => edited' = edited BY <3>1
    <3>3. tree' \in Contents /\ edited' \in BOOLEAN
      <4>1. tree \in Contents /\ edited \in BOOLEAN BY DEF TimeInv, TypeOK
      <4> QED BY <4>1
    <3> QED BY <1>1, <2>2, <3>2, <3>3, StageStill
  <2> QED BY <2>1, <2>2
<1> QED BY <1>2, <1>3, <1>4, <1>5, InvIs DEF TimeInv, StoreOK

LEMMA IdleProcedure == Idle \in Procedure /\ Idle.pc \in Waiting
<1>1. "idle" \in Steps /\ None \in Ops /\ 0 \in 0..MaxId
  BY TimeAssumption DEF Steps, Ops
<1>2. Idle \in Procedure BY <1>1 DEF Idle, Procedure
<1> QED BY <1>2 DEF Idle, Waiting

\* An edit: the tree may be any, half-applied where it was.
LEMMA EditStep == ASSUME TimeInv, Edit PROVE TimeInv'
<1>1. /\ tree' \in Contents /\ edited' \in BOOLEAN /\ UNCHANGED <<disk, proc>>
      /\ tree' = Half => tree = Half
  BY TimeAssumption DEF Edit, Contents, TimeInv, TypeOK
<1>2. StoreOK' BY <1>1, StoreStill, InvIs DEF TimeInvIs
<1>3. Locked' BY <1>1 DEF TimeInv, Locked, Busy
<1>4. Torn' BY <1>1 DEF TimeInv, Torn, disk
<1>5. ASSUME NEW q \in Procs PROVE StageOK(q)'
  <2>1. Busy(q) => edited' BY DEF Edit, Unlocked, Busy
  <2> QED BY <1>1, <2>1, StageStill
<1> QED BY <1>2, <1>3, <1>4, <1>5, InvIs DEF TimeInv, StoreOK

LEMMA CurrentType == ASSUME TimeInv
                     PROVE  UndoTo \subseteq 0..MaxId /\ RedoTo \subseteq 0..MaxId
<1>0. TypeOK /\ Live \subseteq Ids /\ Ids \subseteq 0..MaxId BY LiveIds DEF TimeInv
<1>1. Current # 0 => Current \in Live
  BY <1>0, MaxIn DEF Current, TimeInv, Shelf, Loadable
<1>2. UndoTo \subseteq 0..MaxId
  <2>1. CASE Current = 0 BY <2>1 DEF UndoTo
  <2>2. CASE Current # 0
    <3>1. Snap(Current) \in ledger.snaps BY <1>1, <2>2, SnapIs
    <3>2. Snap(Current).parent \in 0..MaxId BY <1>0, <3>1 DEF TypeOK, Snapshots
    <3> QED BY <3>2 DEF UndoTo
  <2> QED BY <2>1, <2>2
<1>3. RedoTo \subseteq 0..MaxId
  <2>1. Children \in SUBSET Ids BY <1>0 DEF Children, Live
  <2>2. CASE Children = {} BY <2>2 DEF RedoTo
  <2>3. CASE Children # {} BY <1>0, <2>1, <2>3, MaxIn DEF RedoTo
  <2> QED BY <2>2, <2>3
<1> QED BY <1>2, <1>3

LEMMA PreReadStep == ASSUME TimeInv, NEW p \in Procs, PreRead(p) PROVE TimeInv'
<1>1. PICK op \in {"undo", "redo"}, id \in UndoTo \cup RedoTo :
          proc' = [proc EXCEPT ![p] = [Idle EXCEPT !.pc = "ask", !.op = op, !.id = id]]
  BY DEF PreRead
<1>2. id \in 0..MaxId BY CurrentType
<1>3. [Idle EXCEPT !.pc = "ask", !.op = op, !.id = id] \in Procedure
  <2>1. "ask" \in Steps /\ op \in Ops BY DEF Steps, Ops, Travels
  <2> QED BY <1>2, <2>1, IdleProcedure DEF Procedure
<1>4. [Idle EXCEPT !.pc = "ask", !.op = op, !.id = id].pc \in Waiting
  BY DEF Idle, Waiting
<1> QED BY <1>1, <1>3, <1>4, AsideStep DEF PreRead

LEMMA StopStep == ASSUME TimeInv, NEW p \in Procs, Stop(p) PROVE TimeInv'
<1>1. proc' = [proc EXCEPT ![p] = Idle] /\ UNCHANGED <<disk, tree>> BY DEF Stop, Finish
<1>2. edited' = edited \/ (Busy(p) /\ edited' \in BOOLEAN)
  BY DEF Stop, At, Busy, Waiting, TimeInv, TypeOK
<1> QED BY <1>1, <1>2, IdleProcedure, AsideStep

\* The lock is taken; whether there is something to recover, First tells.
LEMMA PastLock ==
    ASSUME TimeInv, NEW p \in Procs, Unlocked, NEW me \in Procedure, me.pc = First,
           proc' = [proc EXCEPT ![p] = me], UNCHANGED <<disk, tree, edited>>
    PROVE  TimeInv'
<1>1. Alone(p) BY UnlockedAlone
<1>2. StoreOK' BY StoreStill, InvIs DEF TimeInvIs, StoreOK, TypeOK
<1>3. proc'[p] = me /\ me.pc \in {"work", "recover"} /\ journal' = journal
  BY DEF TimeInv, Locked, First, disk
<1>4. StageOK(p)'
  BY <1>3 DEF First, StageOK, NoteOK, SaveOK, GoalOK, PreOK, DropOK, Capturing, Placing, Returning
<1>5. tree' = Half => /\ journal' # None /\ journal'.kind = "Restore"
                      /\ me.pc \notin Arrived
  BY <1>3 DEF TimeInv, Torn, Arrived
<1> QED BY <1>1, <1>2, <1>4, <1>5, ActStep

LEMMA BeginStep == ASSUME TimeInv, NEW p \in Procs, Begin(p) PROVE TimeInv'
<1>1. [Idle EXCEPT !.pc = First, !.op = "any"] \in Procedure
  <2>1. First \in Steps /\ "any" \in Ops BY DEF Steps, Ops, First
  <2> QED BY <2>1, IdleProcedure DEF Procedure
<1>2. [Idle EXCEPT !.pc = First, !.op = "any"].pc = First BY DEF Idle
<1> QED BY <1>1, <1>2, PastLock DEF Begin

LEMMA AcquireStep == ASSUME TimeInv, NEW p \in Procs, Acquire(p) PROVE TimeInv'
<1>1. proc[p] \in Procedure /\ proc' = [proc EXCEPT ![p] = [proc[p] EXCEPT !.pc = First]]
  BY DEF TimeInv, Locked, Acquire, Go
<1>2. [proc[p] EXCEPT !.pc = First] \in Procedure /\ [proc[p] EXCEPT !.pc = First].pc = First
  BY <1>1 DEF Procedure, Steps, First
<1> QED BY <1>1, <1>2, PastLock DEF Acquire

-----------------------------------------------------------------------------
(* The steps of a process past the lock.                                     *)
\* What holds while a process is at work.
LEMMA Facts ==
    ASSUME TimeInv, NEW p \in Procs, proc[p].pc \notin Waiting
    PROVE  /\ StoreOK /\ Unique /\ Alone(p) /\ StageOK(p) /\ Torn
           /\ proc[p] \in Procedure /\ proc = [proc EXCEPT ![p] = proc[p]]
           /\ tree \in Contents /\ edited \in BOOLEAN
<1>1. Busy(p) BY DEF Busy
<1>2. proc \in [Procs -> Procedure] BY DEF TimeInv, Locked
<1>3. tree \in Contents /\ edited \in BOOLEAN BY DEF TimeInv, TypeOK
<1>4. StoreOK /\ StageOK(p) /\ Torn BY DEF TimeInv, StoreOK
<1> QED BY <1>1, <1>2, <1>3, <1>4, BusyAlone, StoreUnique

\* A step of the program counter alone.
LEMMA GoType ==
    ASSUME NEW p \in Procs, proc[p] \in Procedure, NEW pc \in Steps, Go(p, pc)
    PROVE  /\ [proc[p] EXCEPT !.pc = pc] \in Procedure
           /\ proc' = [proc EXCEPT ![p] = [proc[p] EXCEPT !.pc = pc]]
<1>1. [proc[p] EXCEPT !.pc = pc] \in Procedure BY DEF Procedure
<1> QED BY <1>1 DEF Go

\* An operation is over, or its recovery is: the journal is closed.
LEMMA ClosedStep ==
    ASSUME TimeInv, NEW p \in Procs, proc[p].pc \notin Waiting, NEW me \in Procedure,
           me.pc \in Waiting \cup {"work"}, proc' = [proc EXCEPT ![p] = me],
           Journal(None), tree # Half, UNCHANGED <<tree, edited>>,
           \A id \in Ids : id >= ledger.next => refs[id] = None
    PROVE  TimeInv'
<1>1. StoreOK /\ Alone(p) /\ edited' \in BOOLEAN BY Facts
<1>2. StoreOK' BY <1>1, StoreJournal
<1>3. journal' = None /\ proc'[p] = me BY DEF Journal, TimeInv, Locked
<1>4. StageOK(p)'
  <2>1. CASE me.pc \in Waiting BY <1>3, <2>1, IdleStage
  <2>2. CASE me.pc = "work"
    BY <1>3, <2>2 DEF StageOK, NoteOK, SaveOK, GoalOK, PreOK, DropOK, Capturing, Placing, Returning
  <2> QED BY <2>1, <2>2
<1> QED BY <1>1, <1>2, <1>4, ActStep

\* While no save is pending, the ids the ledger has not reached have no ref.
LEMMA FreeRefs ==
    ASSUME NextIdFree, journal = None \/ journal.kind # "Save"
    PROVE  \A id \in Ids : id >= ledger.next => refs[id] = None
BY DEF NextIdFree

LEMMA UndoRefStep ==
    ASSUME TimeInv, NEW p \in Procs, At(p, "recover"), journal.kind = "Save",
           \/ journal.id \notin Live /\ SetRef(journal.id, None)
           \/ journal.id \notin Live /\ SetChats(chats \ {journal.id}),
           UNCHANGED <<tree, proc, edited>>
    PROVE  TimeInv'
<1>0. proc[p].pc = "recover" /\ proc[p].pc \notin Waiting BY DEF At, Waiting
<1>1. /\ StoreOK /\ Alone(p) /\ edited' \in BOOLEAN /\ proc[p] \in Procedure
      /\ proc' = [proc EXCEPT ![p] = proc[p]] /\ StageOK(p) /\ Torn
  BY <1>0, Facts
<1>2. StoreOK' /\ journal' = journal
  <2>1. CASE journal.id \notin Live /\ SetRef(journal.id, None)
    BY <1>1, <2>1, StoreUnref DEF SetRef
  <2>2. CASE journal.id \notin Live /\ SetChats(chats \ {journal.id})
    <3>1. chats \ {journal.id} \in SUBSET Ids BY <1>1 DEF StoreOK, TypeOK
    <3>2. chats \cap Live \subseteq chats \ {journal.id} BY <2>2
    <3> QED BY <1>1, <2>2, <3>1, <3>2, StoreChats DEF SetChats
  <2> QED BY <2>1, <2>2
<1>3. journal # None BY <1>0, <1>1 DEF StageOK, NoteOK
<1>4. StageOK(p)'
  <2>1. proc'[p].pc = "recover" /\ journal' # None BY <1>0, <1>2, <1>3
  <2> QED BY <2>1 DEF StageOK, NoteOK, SaveOK, GoalOK, PreOK, DropOK, Capturing, Placing, Returning
<1>5. tree # Half BY <1>1 DEF Torn
<1> QED BY <1>1, <1>2, <1>4, <1>5, ActStep

LEMMA RecoverSaveStep == ASSUME TimeInv, NEW p \in Procs, RecoverSave(p) PROVE TimeInv'
<1>0. At(p, "recover") /\ proc[p].pc = "recover" /\ proc[p].pc \notin Waiting
      /\ journal.kind = "Save" /\ UNCHANGED <<tree, edited>>
  BY DEF RecoverSave, Pending, At, Waiting
<1>1. StoreOK /\ Torn /\ StageOK(p) /\ proc[p] \in Procedure BY <1>0, Facts
<1>2. journal # None /\ tree # Half BY <1>0, <1>1 DEF StageOK, NoteOK, Torn
<1>3. ASSUME Journal(None), Go(p, "work"),
             journal.id \in Live \/ journal.tree = None \/ refs[journal.id] # journal.tree
      PROVE TimeInv'
  <2>1. "work" \in Steps BY DEF Steps
  <2>2. \A id \in Ids : id >= ledger.next => refs[id] = None
    <3> SUFFICES ASSUME NEW id \in Ids, id >= ledger.next, refs[id] # None PROVE FALSE
      OBVIOUS
    <3>1. journal.id = id /\ journal.tree = refs[id] BY <1>1 DEF StoreOK, NextIdFree
    <3>2. journal.id \in Live BY <1>3, <3>1
    <3>3. id < ledger.next BY <1>1, <3>1, <3>2 DEF StoreOK, Shelf, Loadable
    <3>4. id \in Nat /\ ledger.next \in Nat BY <1>1 DEF StoreOK, TypeOK, Ids
    <3> QED BY <3>3, <3>4
  <2>3. [proc[p] EXCEPT !.pc = "work"].pc = "work" BY <1>1 DEF Procedure
  <2> QED BY <1>0, <1>1, <1>2, <1>3, <2>1, <2>2, <2>3, GoType, ClosedStep
<1>4. CASE journal.id \in Live BY <1>3, <1>4 DEF RecoverSave
<1>5. CASE journal.id \notin Live /\ journal.tree # None /\ refs[journal.id] = journal.tree
  <2>1. SetRef(journal.id, None) /\ UNCHANGED proc BY <1>5 DEF RecoverSave
  <2> QED BY <1>0, <1>5, <2>1, UndoRefStep
<1>6. CASE /\ journal.id \notin Live /\ ~(journal.tree # None /\ refs[journal.id] = journal.tree)
           /\ journal.id \in chats
  <2>1. SetChats(chats \ {journal.id}) /\ UNCHANGED proc BY <1>6 DEF RecoverSave
  <2> QED BY <1>0, <1>6, <2>1, UndoRefStep
<1>7. CASE /\ journal.id \notin Live /\ ~(journal.tree # None /\ refs[journal.id] = journal.tree)
           /\ journal.id \notin chats
  <2>1. Journal(None) /\ Go(p, "work") BY <1>7 DEF RecoverSave
  <2> QED BY <1>3, <1>7, <2>1
<1> QED BY <1>4, <1>5, <1>6, <1>7

LEMMA RecoverDropStep == ASSUME TimeInv, NEW p \in Procs, RecoverDrop(p) PROVE TimeInv'
<1>0. /\ proc[p].pc = "recover" /\ proc[p].pc \notin Waiting /\ UNCHANGED <<tree, edited>>
      /\ journal.kind \in {"Prune", "Clear", "Doctor"} /\ Journal(None) /\ Go(p, "work")
  BY DEF RecoverDrop, Pending, At, Waiting
<1>1. StoreOK /\ Torn /\ proc[p] \in Procedure BY <1>0, Facts
<1>2. tree # Half BY <1>0, <1>1 DEF Torn
<1>3. \A id \in Ids : id >= ledger.next => refs[id] = None
  BY <1>0, <1>1, FreeRefs DEF StoreOK
<1>4. "work" \in Steps BY DEF Steps
<1>5. [proc[p] EXCEPT !.pc = "work"].pc = "work" BY <1>1 DEF Procedure
<1> QED BY <1>0, <1>1, <1>2, <1>3, <1>4, <1>5, GoType, ClosedStep

\* A pending restore is looked at: the tree says which end it is nearer.
LEMMA RecoverRestoreStep ==
    ASSUME TimeInv, NEW p \in Procs, RecoverRestore(p) PROVE TimeInv'
<1>0. /\ proc[p].pc = "recover" /\ proc[p].pc \notin Waiting /\ UNCHANGED <<disk, tree>>
      /\ edited' = FALSE /\ journal.kind = "Restore" /\ journal.id \in Live
  BY DEF RecoverRestore, Pending, At, Waiting
<1>1. StoreOK /\ Alone(p) /\ Torn /\ StageOK(p) /\ proc[p] \in Procedure /\ tree \in Contents
  BY <1>0, Facts
<1>2. journal # None /\ journal' = journal BY <1>0, <1>1 DEF StageOK, NoteOK, disk
<1>3. StoreOK' /\ Live' = Live /\ \A id \in Live : Snap(id)' = Snap(id)
  BY <1>0, <1>1, StoreStill
<1>4. \A id \in Live : Snap(id).tree \in Contents /\ Snap(id).tree # Half /\ id \in 0..MaxId
  BY <1>1, LiveIds, SnapIs DEF StoreOK, Shelf, NoHalfSaved
<1>5. None \notin Contents BY TimeAssumption DEF Contents
<1>6. PICK found \in {tree, None} :
        IF found = Snap(journal.id).tree
        THEN proc' = [proc EXCEPT ![p].pc = "settle", ![p].pre = journal.id]
        ELSE /\ journal.pre \in Live
             /\ proc' = [proc EXCEPT ![p].pre = journal.pre,
                    ![p].pc = IF found = Snap(journal.pre).tree THEN "settle" ELSE "rollback"]
  BY DEF RecoverRestore
<1>7. ASSUME NEW pc \in {"settle", "rollback"}, NEW id \in Live, id \in {journal.id, journal.pre},
             pc = "settle" => tree = Snap(id).tree,
             proc' = [proc EXCEPT ![p].pc = pc, ![p].pre = id]
      PROVE TimeInv'
  <2>1. PICK me : me = [proc[p] EXCEPT !.pc = pc, !.pre = id] OBVIOUS
  <2>2. me \in Procedure /\ me.pc = pc /\ me.pre = id
    BY <1>1, <1>4, <2>1 DEF Procedure, Steps
  <2>3. proc' = [proc EXCEPT ![p] = me] /\ proc'[p] = me
    BY <1>7, <2>1 DEF TimeInv, Locked
  <2>4. StageOK(p)'
    <3>1. NoteOK(proc[p])'
      BY <1>0, <1>2, <1>7, <2>2, <2>3 DEF NoteOK, Noted, Capturing, Placing, Returning
    <3>2. GoalOK(proc[p])'
      BY <1>0, <1>3, <1>7, <2>2, <2>3 DEF GoalOK, Capturing
    <3>3. (SaveOK(proc[p]) /\ PreOK(proc[p]) /\ DropOK(proc[p]))'
      BY <2>2, <2>3 DEF SaveOK, PreOK, DropOK, Capturing
    <3> QED BY <3>1, <3>2, <3>3 DEF StageOK
  <2>5. tree' = Half => me.pc \notin Arrived
    BY <1>0, <1>4, <1>7, <2>2 DEF Arrived
  <2> QED BY <1>0, <1>1, <1>2, <1>3, <2>2, <2>3, <2>4, <2>5, ActStep
<1>8. CASE found = Snap(journal.id).tree
  <2>1. tree = Snap(journal.id).tree BY <1>0, <1>4, <1>5, <1>8
  <2> QED BY <1>0, <1>6, <1>7, <1>8, <2>1
<1>9. CASE found # Snap(journal.id).tree
  <2> DEFINE pc == IF found = Snap(journal.pre).tree THEN "settle" ELSE "rollback"
  <2>1. journal.pre \in Live /\ proc' = [proc EXCEPT ![p].pre = journal.pre, ![p].pc = pc]
    BY <1>6, <1>9
  <2>2. pc = "settle" => tree = Snap(journal.pre).tree BY <1>4, <1>5, <2>1
  <2>3. proc' = [proc EXCEPT ![p].pc = pc, ![p].pre = journal.pre]
    BY <2>1 DEF TimeInv, Locked, Procedure
  <2>4. pc \in {"settle", "rollback"} OBVIOUS
  <2> HIDE DEF pc
  <2> QED BY <1>7, <2>1, <2>2, <2>3, <2>4
<1> QED BY <1>8, <1>9

\* The files stay as they are.
LEMMA MoveStep ==
    ASSUME TimeInv, NEW p \in Procs, proc[p].pc \notin Waiting, NEW me \in Procedure,
           proc' = [proc EXCEPT ![p] = me], UNCHANGED disk,
           tree' \in Contents, edited' \in BOOLEAN, StageOK(p)',
           tree' = Half => /\ journal # None /\ journal.kind = "Restore"
                           /\ me.pc \notin Arrived
    PROVE  TimeInv'
<1>1. StoreOK /\ Alone(p) BY Facts
<1>2. StoreOK' BY <1>1, StoreStill
<1>3. journal' = journal BY DEF disk
<1> QED BY <1>1, <1>2, <1>3, ActStep

\* What a step of a restore finds.
LEMMA InRestore ==
    ASSUME TimeInv, NEW p \in Procs, proc[p].pc \in Placing \cup Returning
    PROVE  /\ proc[p].pc \notin Waiting /\ StageOK(p) /\ Torn /\ proc[p] \in Procedure
           /\ journal # None /\ journal.kind = "Restore"
           /\ {journal.id, journal.pre} \subseteq Live
           /\ proc[p].pre \in {journal.id, journal.pre}
           /\ proc[p].pc \in Placing => proc[p].id = journal.id /\ proc[p].pre = journal.pre
           /\ \A id \in Live : Snap(id).tree \in Contents \ {Half}
<1>1. proc[p].pc \notin Waiting BY DEF Waiting, Placing, Returning
<1>2. StoreOK /\ StageOK(p) /\ Torn /\ proc[p] \in Procedure BY <1>1, Facts
<1>3. /\ journal # None /\ journal.kind = "Restore"
      /\ proc[p].pre \in {journal.id, journal.pre}
      /\ proc[p].pc \in Placing => proc[p].id = journal.id /\ proc[p].pre = journal.pre
  BY <1>2 DEF StageOK, NoteOK, Noted, Placing, Returning
<1>4. {journal.id, journal.pre} \subseteq Live
  BY <1>2, <1>3 DEF StoreOK, Settleable, Reachable
<1>5. \A id \in Live : Snap(id).tree \in Contents \ {Half}
  BY <1>2, LiveIds, SnapIs DEF StoreOK, Shelf, NoHalfSaved
<1> QED BY <1>1, <1>2, <1>3, <1>4, <1>5

\* The process goes on to pc in the same restore, the tree as given.
LEMMA RestoreGoes ==
    ASSUME TimeInv, NEW p \in Procs, proc[p].pc \in Placing \cup Returning,
           NEW pc \in Placing \cup Returning,
           pc \in Placing <=> proc[p].pc \in Placing,
           pc \notin {"apply", "settled", "landed"},
           Go(p, pc), UNCHANGED disk, tree' \in Contents, edited' \in BOOLEAN,
           pc = "settle" => tree' = Snap(proc[p].pre).tree,
           pc = "land"   => tree' = Snap(proc[p].id).tree
    PROVE  TimeInv'
<1>1. /\ proc[p].pc \notin Waiting /\ StageOK(p) /\ proc[p] \in Procedure
      /\ journal # None /\ journal.kind = "Restore"
      /\ {journal.id, journal.pre} \subseteq Live
      /\ proc[p].pre \in {journal.id, journal.pre}
      /\ proc[p].pc \in Placing => proc[p].id = journal.id /\ proc[p].pre = journal.pre
      /\ \A id \in Live : Snap(id).tree \in Contents \ {Half}
  BY InRestore
<1>2. PICK me : me = [proc[p] EXCEPT !.pc = pc] OBVIOUS
<1>3. pc \in Steps BY DEF Steps, Placing, Returning
<1>4. /\ me \in Procedure /\ proc' = [proc EXCEPT ![p] = me]
      /\ me.pc = pc /\ me.pre = proc[p].pre /\ me.id = proc[p].id
  BY <1>1, <1>2, <1>3, GoType DEF Procedure
<1>5. proc'[p] = me BY <1>4 DEF TimeInv, Locked
<1>6. Live' = Live /\ \A id \in Live : Snap(id)' = Snap(id)
  BY <1>1, Facts, StoreStill
<1>7. journal' = journal BY DEF disk
<1>8. StageOK(p)'
  <2>1. NoteOK(proc[p])'
    BY <1>1, <1>4, <1>5, <1>7 DEF NoteOK, Noted, Capturing, Placing, Returning
  <2>2. GoalOK(proc[p])'
    BY <1>1, <1>4, <1>5, <1>6 DEF GoalOK, Capturing, Placing, Returning
  <2>3. (SaveOK(proc[p]) /\ PreOK(proc[p]) /\ DropOK(proc[p]))'
    BY <1>4, <1>5 DEF SaveOK, PreOK, DropOK, Capturing, Placing, Returning
  <2> QED BY <2>1, <2>2, <2>3 DEF StageOK
<1>9. tree' = Half => pc \notin Arrived
  <2>1. pc \in Arrived => tree' # Half BY <1>1 DEF Arrived, Placing, Returning
  <2> QED BY <2>1
<1> QED BY <1>1, <1>4, <1>8, <1>9, MoveStep

LEMMA RestoreStops ==
    ASSUME TimeInv, NEW p \in Procs, proc[p].pc \in Placing \cup Returning,
           Finish(p), UNCHANGED disk, tree' \in Contents, edited' \in BOOLEAN
    PROVE  TimeInv'
<1>1. proc[p].pc \notin Waiting /\ journal # None /\ journal.kind = "Restore" BY InRestore
<1>2. proc' = [proc EXCEPT ![p] = Idle] BY DEF Finish
<1>3. proc'[p] = Idle BY <1>2 DEF TimeInv, Locked
<1>4. StageOK(p)' BY <1>3, IdleProcedure, IdleStage
<1>5. Idle.pc \notin Arrived BY DEF Idle, Arrived
<1> QED BY <1>1, <1>2, <1>4, <1>5, IdleProcedure, MoveStep

LEMMA RolledBackStep == ASSUME TimeInv, NEW p \in Procs, RolledBack(p) PROVE TimeInv'
<1>1. /\ proc[p].pc = "rolled" /\ tree = Snap(proc[p].pre).tree /\ Go(p, "settle")
      /\ edited' = FALSE /\ UNCHANGED <<disk, tree>>
  BY DEF RolledBack, At
<1>2. tree' \in Contents BY <1>1 DEF TimeInv, TypeOK
<1> QED BY <1>1, <1>2, RestoreGoes DEF Placing, Returning

LEMMA SettleStep == ASSUME TimeInv, NEW p \in Procs, Settle(p) PROVE TimeInv'
<1>1. /\ proc[p].pc = "settle" /\ proc[p].pc \in Returning
      /\ SaveCursor(proc[p].pre) /\ Go(p, "settled") /\ UNCHANGED <<tree, edited>>
  BY DEF Settle, At, Returning
<1>2. /\ proc[p].pc \notin Waiting /\ StageOK(p) /\ Torn /\ proc[p] \in Procedure
      /\ journal # None /\ journal.kind = "Restore" /\ proc[p].pre \in Live
      /\ proc[p].pre \in {journal.id, journal.pre}
  BY <1>1, InRestore
<1>3. StoreOK /\ Alone(p) /\ edited' \in BOOLEAN BY <1>1, <1>2, Facts
<1>4. /\ StoreOK' /\ Live' = Live /\ ledger'.cursor = proc[p].pre
      /\ \A x \in Live : Snap(x)' = Snap(x)
  BY <1>1, <1>2, <1>3, StoreCursor
<1>5. journal' = journal BY <1>1 DEF SaveCursor, SaveLedger
<1>6. PICK me : me = [proc[p] EXCEPT !.pc = "settled"] OBVIOUS
<1>7. "settled" \in Steps BY DEF Steps
<1>8. /\ me \in Procedure /\ proc' = [proc EXCEPT ![p] = me]
      /\ me.pc = "settled" /\ me.pre = proc[p].pre
  BY <1>1, <1>2, <1>6, <1>7, GoType DEF Procedure
<1>9. proc'[p] = me BY <1>8 DEF TimeInv, Locked
<1>10. StageOK(p)'
  <2>1. NoteOK(proc[p])'
    BY <1>2, <1>5, <1>8, <1>9 DEF NoteOK, Noted, Capturing, Placing, Returning
  <2>2. GoalOK(proc[p])'
    <3>1. edited' \/ tree' = Snap(proc[p].pre).tree BY <1>1, <1>2 DEF StageOK, GoalOK
    <3> QED BY <1>2, <1>4, <1>8, <1>9, <3>1 DEF GoalOK, Capturing
  <2>3. (SaveOK(proc[p]) /\ PreOK(proc[p]) /\ DropOK(proc[p]))'
    BY <1>8, <1>9 DEF SaveOK, PreOK, DropOK, Capturing
  <2> QED BY <2>1, <2>2, <2>3 DEF StageOK
<1>11. tree' # Half BY <1>1, <1>2 DEF Torn, Arrived
<1> QED BY <1>3, <1>4, <1>8, <1>10, <1>11, ActStep

LEMMA LandStep == ASSUME TimeInv, NEW p \in Procs, Land(p) PROVE TimeInv'
<1>1. /\ proc[p].pc = "land" /\ proc[p].pc \in Placing
      /\ SaveCursor(proc[p].id) /\ Go(p, "landed") /\ UNCHANGED <<tree, edited>>
  BY DEF Land, At, Placing
<1>2. /\ proc[p].pc \notin Waiting /\ StageOK(p) /\ Torn /\ proc[p] \in Procedure
      /\ journal # None /\ journal.kind = "Restore" /\ proc[p].id \in Live
      /\ proc[p].id = journal.id /\ proc[p].pre = journal.pre
  BY <1>1, InRestore
<1>3. StoreOK /\ Alone(p) /\ edited' \in BOOLEAN BY <1>1, <1>2, Facts
<1>4. /\ StoreOK' /\ Live' = Live /\ ledger'.cursor = proc[p].id
      /\ \A x \in Live : Snap(x)' = Snap(x)
  BY <1>1, <1>2, <1>3, StoreCursor
<1>5. journal' = journal BY <1>1 DEF SaveCursor, SaveLedger
<1>6. PICK me : me = [proc[p] EXCEPT !.pc = "landed"] OBVIOUS
<1>7. "landed" \in Steps BY DEF Steps
<1>8. /\ me \in Procedure /\ proc' = [proc EXCEPT ![p] = me]
      /\ me.pc = "landed" /\ me.pre = proc[p].pre /\ me.id = proc[p].id
  BY <1>1, <1>2, <1>6, <1>7, GoType DEF Procedure
<1>9. proc'[p] = me BY <1>8 DEF TimeInv, Locked
<1>10. StageOK(p)'
  <2>1. NoteOK(proc[p])'
    BY <1>2, <1>5, <1>8, <1>9 DEF NoteOK, Noted, Capturing, Placing, Returning
  <2>2. GoalOK(proc[p])'
    <3>1. edited' \/ tree' = Snap(proc[p].id).tree BY <1>1, <1>2 DEF StageOK, GoalOK
    <3> QED BY <1>2, <1>4, <1>8, <1>9, <3>1 DEF GoalOK, Capturing
  <2>3. (SaveOK(proc[p]) /\ PreOK(proc[p]) /\ DropOK(proc[p]))'
    BY <1>8, <1>9 DEF SaveOK, PreOK, DropOK, Capturing
  <2> QED BY <2>1, <2>2, <2>3 DEF StageOK
<1>11. tree' # Half BY <1>1, <1>2 DEF Torn, Arrived
<1> QED BY <1>3, <1>4, <1>8, <1>10, <1>11, ActStep

\* The restore is settled, or has landed: the journal is closed.
LEMMA SettledStep == ASSUME TimeInv, NEW p \in Procs, Settled(p) PROVE TimeInv'
<1>1. /\ proc[p].pc = "settled" /\ proc[p].pc \in Returning /\ Journal(None)
      /\ proc' = [proc EXCEPT ![p].pc = "work", ![p].pre = 0] /\ UNCHANGED <<tree, edited>>
  BY DEF Settled, At, Returning
<1>2. /\ proc[p].pc \notin Waiting /\ Torn /\ proc[p] \in Procedure
      /\ journal.kind = "Restore"
  BY <1>1, InRestore
<1>3. tree # Half BY <1>1, <1>2 DEF Torn, Arrived
<1>4. \A id \in Ids : id >= ledger.next => refs[id] = None BY <1>2, FreeRefs DEF TimeInv
<1>5. PICK me : me = [proc[p] EXCEPT !.pc = "work", !.pre = 0] OBVIOUS
<1>6. 0 \in 0..MaxId /\ "work" \in Steps BY TimeAssumption DEF Steps
<1>7. me \in Procedure /\ me.pc = "work" BY <1>2, <1>5, <1>6 DEF Procedure
<1>8. proc' = [proc EXCEPT ![p] = me] BY <1>1, <1>5 DEF TimeInv, Locked
<1> QED BY <1>1, <1>2, <1>3, <1>4, <1>7, <1>8, ClosedStep

LEMMA LandedStep == ASSUME TimeInv, NEW p \in Procs, Landed(p) PROVE TimeInv'
<1>1. /\ proc[p].pc = "landed" /\ proc[p].pc \in Placing /\ Journal(None)
      /\ proc' = [proc EXCEPT ![p] = Idle] /\ UNCHANGED <<tree, edited>>
  BY DEF Landed, At, Placing, Finish
<1>2. proc[p].pc \notin Waiting /\ Torn /\ journal.kind = "Restore" BY <1>1, InRestore
<1>3. tree # Half BY <1>1, <1>2 DEF Torn, Arrived
<1>4. \A id \in Ids : id >= ledger.next => refs[id] = None BY <1>2, FreeRefs DEF TimeInv
<1> QED BY <1>1, <1>2, <1>3, <1>4, IdleProcedure, ClosedStep

LEMMA BeginApplyStep == ASSUME TimeInv, NEW p \in Procs, BeginApply(p) PROVE TimeInv'
<1>1. /\ proc[p].pc \in {"rollback", "apply", "unapply"} /\ tree' = Half
      /\ edited' = edited /\ UNCHANGED disk
  BY DEF BeginApply
<1>2. proc[p].pc \in Placing \cup Returning BY <1>1 DEF Placing, Returning
<1>3. tree' \in Contents /\ edited' \in BOOLEAN BY <1>1 DEF Contents, TimeInv, TypeOK
<1>4. CASE proc[p].pc = "rollback"
  <2>1. Go(p, "rolling") BY <1>4 DEF BeginApply, At
  <2> QED BY <1>1, <1>2, <1>3, <1>4, <2>1, RestoreGoes DEF Placing, Returning
<1>5. CASE proc[p].pc = "apply"
  <2>1. Go(p, "applying") BY <1>5 DEF BeginApply, At
  <2> QED BY <1>1, <1>2, <1>3, <1>5, <2>1, RestoreGoes DEF Placing, Returning
<1>6. CASE proc[p].pc = "unapply"
  <2>1. Go(p, "unapplying") BY <1>6 DEF BeginApply, At
  <2> QED BY <1>1, <1>2, <1>3, <1>6, <2>1, RestoreGoes DEF Placing, Returning
<1> QED BY <1>1, <1>4, <1>5, <1>6

LEMMA EndApplyStep == ASSUME TimeInv, NEW p \in Procs, EndApply(p) PROVE TimeInv'
<1>1. /\ proc[p].pc \in {"rolling", "applying", "unapplying"}
      /\ tree' \in {Snap(Goal(p)).tree, Half} /\ edited' = edited /\ UNCHANGED disk
  BY DEF EndApply
<1>2. proc[p].pc \in Placing \cup Returning BY <1>1 DEF Placing, Returning
<1>3. tree' \in Contents /\ edited' \in BOOLEAN
  <2>1. /\ proc[p].pre \in Live
        /\ proc[p].pc \in Placing => proc[p].id \in Live
        /\ \A id \in Live : Snap(id).tree \in Contents
    BY <1>2, InRestore
  <2>2. Goal(p) \in Live BY <1>1, <2>1 DEF Goal, Placing
  <2> QED BY <1>1, <2>1, <2>2 DEF Contents, TimeInv, TypeOK
<1>4. CASE proc[p].pc = "rolling"
  <2>1. Go(p, "rolled") BY <1>4 DEF EndApply, At
  <2> QED BY <1>1, <1>2, <1>3, <1>4, <2>1, RestoreGoes DEF Placing, Returning
<1>5. CASE proc[p].pc = "applying"
  <2>1. Go(p, "verify") \/ Go(p, "unapply") BY <1>5 DEF EndApply, At
  <2>2. CASE Go(p, "verify")
    BY <1>1, <1>2, <1>3, <1>5, <2>2, RestoreGoes DEF Placing, Returning
  <2>3. CASE Go(p, "unapply")
    BY <1>1, <1>2, <1>3, <1>5, <2>3, RestoreGoes DEF Placing, Returning
  <2> QED BY <2>1, <2>2, <2>3
<1>6. CASE proc[p].pc = "unapplying"
  <2>1. Finish(p) BY <1>6 DEF EndApply, At
  <2> QED BY <1>1, <1>2, <1>3, <2>1, RestoreStops
<1> QED BY <1>1, <1>4, <1>5, <1>6

LEMMA VerifyStep == ASSUME TimeInv, NEW p \in Procs, Verify(p) PROVE TimeInv'
<1>1. /\ proc[p].pc = "verify" /\ edited' = FALSE /\ UNCHANGED <<disk, tree>>
      /\ proc[p].pc \in Placing \cup Returning
  BY DEF Verify, At, Placing
<1>2. tree' \in Contents BY <1>1 DEF TimeInv, TypeOK
<1>3. CASE tree = Snap(proc[p].id).tree
  <2>1. Go(p, "land") BY <1>3 DEF Verify
  <2> QED BY <1>1, <1>2, <1>3, <2>1, RestoreGoes DEF Placing, Returning
<1>4. CASE tree # Snap(proc[p].id).tree /\ proc[p].pre \in Live
  <2>1. Go(p, "unapply") BY <1>4 DEF Verify
  <2> QED BY <1>1, <1>2, <2>1, RestoreGoes DEF Placing, Returning
<1>5. CASE tree # Snap(proc[p].id).tree /\ proc[p].pre \notin Live
  <2>1. Finish(p) BY <1>5 DEF Verify
  <2> QED BY <1>1, <1>2, <2>1, RestoreStops
<1> QED BY <1>3, <1>4, <1>5

-----------------------------------------------------------------------------
(* A save, and the capture a restore begins with.                            *)
LEMMA InWork ==
    ASSUME TimeInv, NEW p \in Procs, At(p, "work")
    PROVE  /\ proc[p].pc = "work" /\ proc[p].pc \notin Waiting /\ StoreOK /\ StageOK(p)
           /\ proc[p] \in Procedure /\ journal = None /\ tree \in Trees
           /\ \A id \in Ids : id >= ledger.next => refs[id] = None
<1>1. proc[p].pc = "work" /\ proc[p].pc \notin Waiting BY DEF At, Waiting
<1>2. StoreOK /\ StageOK(p) /\ Torn /\ proc[p] \in Procedure /\ tree \in Contents
  BY <1>1, Facts
<1>3. journal = None BY <1>1, <1>2 DEF StageOK, NoteOK
<1>4. tree \in Trees BY <1>2, <1>3 DEF Torn, Contents
<1> QED BY <1>1, <1>2, <1>3, <1>4, FreeRefs DEF StoreOK

\* After a save the process is idle or asks to trim.
LEMMA SavedType ==
    ASSUME TimeInv, NEW p \in Procs, NEW op, NEW id \in 0..MaxId, Saved(p, op, id)
    PROVE  \E me \in Procedure : me.pc \in Waiting /\ proc' = [proc EXCEPT ![p] = me]
<1>1. CASE op = "net" BY <1>1, IdleProcedure DEF Saved, Finish
<1>2. CASE op # "net"
  <2>1. PICK me : me = [Idle EXCEPT !.pc = "ask", !.op = "trim", !.id = id] OBVIOUS
  <2>2. "ask" \in Steps /\ "trim" \in Ops BY DEF Steps, Ops, Drops
  <2>3. me \in Procedure /\ me.pc \in Waiting
    BY <2>1, <2>2, IdleProcedure DEF Procedure, Waiting
  <2>4. proc' = [proc EXCEPT ![p] = me] BY <1>2, <2>1 DEF Saved
  <2> QED BY <2>3, <2>4
<1> QED BY <1>1, <1>2

LEMMA ReuseStep == ASSUME TimeInv, NEW p \in Procs, Reuse(p) PROVE TimeInv'
<1>1. PICK op \in Saves : Working(p, op) /\ Reusable(op) /\ Saved(p, op, Newest.id)
  BY DEF Reuse
<1>2. /\ At(p, "work") /\ Live # {} /\ SaveCursor(Newest.id) /\ edited' = FALSE /\ tree' = tree
  BY <1>1 DEF Reuse, Working, Reusable
<1>3. /\ proc[p].pc \notin Waiting /\ StoreOK /\ journal = None /\ tree \in Trees
      /\ Alone(p)
  BY <1>2, InWork, Facts
<1>4. Newest.id \in Live /\ Newest.id \in 0..MaxId
  BY <1>2, <1>3, NewestLive, LiveIds DEF StoreOK
<1>5. StoreOK' BY <1>2, <1>3, <1>4, StoreCursor
<1>6. PICK me \in Procedure : me.pc \in Waiting /\ proc' = [proc EXCEPT ![p] = me]
  BY <1>1, <1>4, SavedType
<1>7. proc'[p] = me BY <1>6 DEF TimeInv, Locked
<1>8. StageOK(p)' BY <1>6, <1>7, IdleStage
<1>9. tree' # Half BY <1>2, <1>3, TimeAssumption
<1> QED BY <1>3, <1>5, <1>6, <1>8, <1>9, ActStep

LEMMA WantedLive == ASSUME NEW p PROVE Wanted(p) \subseteq Live
BY DEF Wanted

LEMMA EntryType ==
    ASSUME TypeOK, NEW kind \in {"Save", "Restore", "Prune", "Clear", "Doctor"}
    PROVE  /\ Entry(kind) \in Journals /\ Entry(kind).kind = kind
           /\ Entry(kind).gen = ledger.gen /\ Entry(kind).tree = None
<1>1. 0 \in 0..MaxId /\ ledger.gen \in 0..MaxGen BY TimeAssumption DEF TypeOK
<1> QED BY <1>1 DEF Entry, Journals

LEMMA CaptureStep == ASSUME TimeInv, NEW p \in Procs, Capture(p) PROVE TimeInv'
<1>1. PICK op \in Saves \cup Travels, id \in Wanted(p) \cup {0} :
        /\ Working(p, op)
        /\ IF op \in Saves THEN id = 0 /\ ~Reusable(op)
           ELSE id # 0 /\ Reachable(id) /\ Snap(id).tree # tree
        /\ proc' = [proc EXCEPT ![p] = [@ EXCEPT !.pc = "commit", !.op = op, !.id = id,
                                                 !.tree = tree]]
  BY DEF Capture
<1>2. /\ At(p, "work") /\ ledger.next <= MaxId /\ edited' = FALSE /\ tree' = tree
      /\ Journal([Entry("Save") EXCEPT !.id = ledger.next])
  BY <1>1 DEF Capture, Working
<1>3. /\ proc[p].pc \notin Waiting /\ StoreOK /\ journal = None /\ tree \in Trees
      /\ Alone(p) /\ proc[p] \in Procedure
      /\ \A x \in Ids : x >= ledger.next => refs[x] = None
  BY <1>2, InWork, Facts
<1>4. ledger.next \in Ids /\ Ids \subseteq 0..MaxId /\ Live \subseteq Ids /\ 0 \in 0..MaxId
  BY <1>2, <1>3, LiveIds, TimeAssumption DEF StoreOK, TypeOK, Ids
<1>5. id \in 0..MaxId /\ (op \in Travels => id \in Live)
  BY <1>1, <1>4, WantedLive DEF Travels, Saves
<1>6. PICK j : j = [Entry("Save") EXCEPT !.id = ledger.next] OBVIOUS
<1>7. /\ j \in Journals /\ j.kind = "Save" /\ j.gen = ledger.gen /\ j.id = ledger.next
      /\ j.tree = None
  <2>1. PICK e : e = Entry("Save") OBVIOUS
  <2>2. e \in Journals /\ e.kind = "Save" /\ e.gen = ledger.gen /\ e.tree = None
    BY <1>3, <2>1, EntryType DEF StoreOK
  <2> QED BY <1>4, <1>6, <2>1, <2>2 DEF Journals
<1>8. Journal(j) /\ ledger.gen <= ledger.gen
  BY <1>2, <1>3, <1>6, TimeAssumption DEF StoreOK, TypeOK
<1>9. StoreOK' /\ Live' = Live
  <2>1. j # None => /\ j.gen <= ledger.gen
                    /\ j.kind = "Restore" => Reachable(j.id) /\ Reachable(j.pre)
    BY <1>7, <1>8
  <2> QED BY <1>2, <1>3, <1>7, <1>8, <2>1, StoreJournal
<1>10. journal' = j /\ journal' # None /\ ledger' = ledger
  <2>1. journal' = j /\ ledger' = ledger BY <1>8 DEF Journal
  <2>2. j # None BY <1>7, TimeAssumption
  <2> QED BY <2>1, <2>2
<1>11. PICK me : me = [proc[p] EXCEPT !.pc = "commit", !.op = op, !.id = id, !.tree = tree]
  OBVIOUS
<1>12. /\ me \in Procedure /\ me.pc = "commit" /\ me.op = op /\ me.id = id /\ me.tree = tree
  <2>1. "commit" \in Steps /\ op \in Ops /\ tree \in Contents \cup {None}
    BY <1>3 DEF Steps, Ops, Contents
  <2> QED BY <1>3, <1>5, <1>11, <2>1 DEF Procedure
<1>13. proc' = [proc EXCEPT ![p] = me] BY <1>1, <1>11 DEF TimeInv, Locked
<1>14. proc'[p] = me BY <1>13 DEF TimeInv, Locked
<1>15. StageOK(p)'
  <2>1. NoteOK(proc[p])'
    BY <1>4, <1>7, <1>10, <1>12, <1>14 DEF NoteOK, Noted, Capturing, Placing, Returning
  <2>2. SaveOK(proc[p])'
    <3>1. journal'.id = ledger'.next /\ journal'.tree = None BY <1>7, <1>10
    <3> QED BY <1>3, <1>12, <1>14, <3>1 DEF SaveOK
  <2>3. GoalOK(proc[p])'
    BY <1>5, <1>9, <1>12, <1>14 DEF GoalOK, Capturing
  <2>4. PreOK(proc[p])' BY <1>2, <1>12, <1>14 DEF PreOK, Capturing
  <2>5. DropOK(proc[p])' BY <1>12, <1>14 DEF DropOK
  <2> QED BY <2>1, <2>2, <2>3, <2>4, <2>5 DEF StageOK
<1>16. tree' # Half BY <1>2, <1>3, TimeAssumption
<1> QED BY <1>3, <1>9, <1>12, <1>13, <1>15, <1>16, ActStep

\* What a step of a save finds.
LEMMA InSave ==
    ASSUME TimeInv, NEW p \in Procs, proc[p].pc \in Capturing
    PROVE  /\ proc[p].pc \notin Waiting /\ StoreOK /\ Alone(p) /\ StageOK(p)
           /\ proc[p] \in Procedure /\ tree \in Contents /\ edited \in BOOLEAN
           /\ journal \in Journals /\ journal # None /\ journal.kind = "Save"
           /\ journal.id = ledger.next /\ journal.id \in Ids /\ journal.id \notin Live
           /\ tree # Half
           /\ \A id \in Ids : id >= ledger.next /\ refs[id] # None =>
                  id = ledger.next /\ journal.tree = refs[id]
<1>1. proc[p].pc \notin Waiting BY DEF Waiting, Capturing
<1>2. /\ StoreOK /\ Alone(p) /\ StageOK(p) /\ proc[p] \in Procedure /\ Torn
      /\ tree \in Contents /\ edited \in BOOLEAN
  BY <1>1, Facts
<1>3. /\ journal # None /\ journal.kind = "Save" /\ journal.id \in Ids
      /\ journal.id = ledger.next
  BY <1>2 DEF StageOK, NoteOK, SaveOK, Noted
<1>4. journal \in Journals BY <1>2, <1>3 DEF StoreOK, TypeOK
<1>5. journal.id \notin Live
  <2>1. ledger.next \in Nat BY <1>2 DEF StoreOK, TypeOK
  <2>2. \A id \in Live : id < ledger.next BY <1>2 DEF StoreOK, Shelf, Loadable
  <2> QED BY <1>3, <2>1, <2>2
<1>6. tree # Half BY <1>2, <1>3 DEF Torn
<1>7. \A id \in Ids : id >= ledger.next /\ refs[id] # None =>
          id = ledger.next /\ journal.tree = refs[id]
  BY <1>2, <1>3 DEF StoreOK, NextIdFree
<1> QED BY <1>1, <1>2, <1>3, <1>4, <1>5, <1>6, <1>7

\* The next stage of the same save.
LEMMA SaveGoes ==
    ASSUME TimeInv, NEW p \in Procs, proc[p].pc \in Capturing,
           NEW pc \in {"ref", "chat", "noChat", "enter"}, Go(p, pc),
           StoreOK', Live' = Live, ledger' = ledger, UNCHANGED <<tree, edited>>,
           journal' # None, journal'.kind = "Save", journal'.id = journal.id,
           pc # "noChat" => journal'.tree = proc[p].tree,
           pc \in {"chat", "enter"} => refs'[ledger.next] = proc[p].tree,
           pc = "noChat" => refs'[ledger.next] = None,
           pc = "enter" /\ proc[p].op = "talk" => ledger.next \in chats'
    PROVE  TimeInv'
<1>1. /\ proc[p].pc \notin Waiting /\ Alone(p) /\ StageOK(p) /\ proc[p] \in Procedure
      /\ journal.id = ledger.next /\ journal.id \in Ids /\ tree # Half
  BY InSave
<1>2. PICK me : me = [proc[p] EXCEPT !.pc = pc] OBVIOUS
<1>3. pc \in Steps BY DEF Steps
<1>4. /\ me \in Procedure /\ proc' = [proc EXCEPT ![p] = me]
      /\ me.pc = pc /\ me.op = proc[p].op /\ me.id = proc[p].id /\ me.tree = proc[p].tree
  BY <1>1, <1>2, <1>3, GoType DEF Procedure
<1>5. proc'[p] = me BY <1>4 DEF TimeInv, Locked
<1>6. NoteOK(proc[p])'
  BY <1>1, <1>4, <1>5 DEF NoteOK, Noted, Capturing, Placing, Returning
<1>7. SaveOK(proc[p])'
  <2>1. proc[p].op \in Saves \cup Travels /\ proc[p].tree \in Trees
    BY <1>1 DEF StageOK, SaveOK
  <2> QED BY <1>1, <1>4, <1>5, <2>1 DEF SaveOK, Capturing
<1>8. GoalOK(proc[p])'
  <2>1. proc[p].op \in Travels => proc[p].id \in Live BY <1>1 DEF StageOK, GoalOK
  <2> QED BY <1>4, <1>5, <2>1 DEF GoalOK, Capturing
<1>9. PreOK(proc[p])'
  <2>1. edited \/ proc[p].tree = tree BY <1>1 DEF StageOK, PreOK
  <2> QED BY <1>4, <1>5, <2>1 DEF PreOK, Capturing
<1>10. DropOK(proc[p])' BY <1>4, <1>5 DEF DropOK
<1>11. StageOK(p)' BY <1>6, <1>7, <1>8, <1>9, <1>10 DEF StageOK
<1> QED BY <1>1, <1>4, <1>11, ActStep

LEMMA CommitTreeStep == ASSUME TimeInv, NEW p \in Procs, CommitTree(p) PROVE TimeInv'
<1>1. /\ proc[p].pc = "commit" /\ proc[p].pc \in Capturing /\ Go(p, "ref")
      /\ Journal([journal EXCEPT !.tree = proc[p].tree]) /\ UNCHANGED <<tree, edited>>
  BY DEF CommitTree, At, Capturing
<1>2. /\ StoreOK /\ StageOK(p) /\ proc[p] \in Procedure /\ edited \in BOOLEAN
      /\ journal \in Journals /\ journal.kind = "Save" /\ journal # None
      /\ \A id \in Ids : id >= ledger.next /\ refs[id] # None => journal.tree = refs[id]
  BY <1>1, InSave
<1>3. journal.tree = None BY <1>1, <1>2 DEF StageOK, SaveOK
<1>4. PICK j : j = [journal EXCEPT !.tree = proc[p].tree] OBVIOUS
<1>5. /\ j \in Journals /\ j.kind = "Save" /\ j.id = journal.id /\ j.gen = journal.gen
      /\ j.tree = proc[p].tree
  BY <1>2, <1>4 DEF Procedure, Journals
<1>6. j # None /\ j.gen <= ledger.gen
  BY <1>2, <1>5, TimeAssumption DEF StoreOK, Settleable
<1>7. Journal(j) BY <1>1, <1>4
<1>8. StoreOK' /\ Live' = Live
  BY <1>1, <1>2, <1>3, <1>5, <1>6, <1>7, StoreJournal
<1>9. journal' = j /\ ledger' = ledger BY <1>7 DEF Journal
<1> QED BY <1>1, <1>5, <1>6, <1>8, <1>9, SaveGoes

\* The ref of the new checkpoint is put where none was, or goes again.
LEMMA MakeRefStep == ASSUME TimeInv, NEW p \in Procs, MakeRef(p) PROVE TimeInv'
<1>1. /\ proc[p].pc = "ref" /\ proc[p].pc \in Capturing
      /\ SetRef(journal.id, proc[p].tree) /\ UNCHANGED <<tree, edited>>
      /\ Go(p, IF proc[p].op = "talk" THEN "chat" ELSE "enter")
  BY DEF MakeRef, At, Capturing
<1>2. /\ StoreOK /\ StageOK(p) /\ proc[p] \in Procedure
      /\ journal \in Journals /\ journal.kind = "Save" /\ journal # None
      /\ journal.id = ledger.next /\ journal.id \in Ids /\ journal.id \notin Live
      /\ \A id \in Ids : id >= ledger.next /\ refs[id] # None => id = ledger.next
  BY <1>1, InSave
<1>3. journal.tree = proc[p].tree /\ proc[p].tree \in Trees
  BY <1>1, <1>2 DEF StageOK, SaveOK, Capturing
<1>4. /\ refs' = [refs EXCEPT ![journal.id] = proc[p].tree]
      /\ UNCHANGED <<ledger, journal, chats>>
  BY <1>1 DEF SetRef
<1>5. /\ \A x \in Live : refs'[x] = refs[x]
      /\ \A x \in Ids : x # journal.id => refs'[x] = refs[x]
      /\ refs'[journal.id] = proc[p].tree
  BY <1>2, <1>4, LiveIds DEF StoreOK, TypeOK
<1>6. Live' = Live /\ \A x \in Live : Snap(x)' = Snap(x)
  BY <1>2, <1>4, StoreUnique, SnapStep
<1>7. StoreOK'
  <2>1. TypeOK' BY <1>1, <1>2, <1>3, <1>4 DEF StoreOK, TypeOK, Contents
  <2>2. \A s \in ledger.snaps : s.id \in Live BY DEF Live
  <2>3. Shelf'
    BY <1>2, <1>4, <1>5, <1>6, <2>2 DEF StoreOK, Shelf, Pinned, Loadable, NoHalfSaved
  <2>4. NextIdFree' BY <1>2, <1>3, <1>4, <1>5 DEF NextIdFree
  <2>5. Settleable' BY <1>2, <1>4 DEF StoreOK, Settleable
  <2> QED BY <2>1, <2>3, <2>4, <2>5 DEF StoreOK
<1>8. CASE proc[p].op = "talk"
  <2>1. Go(p, "chat") BY <1>1, <1>8
  <2> QED BY <1>1, <1>2, <1>3, <1>4, <1>5, <1>6, <1>7, <2>1, SaveGoes
<1>9. CASE proc[p].op # "talk"
  <2>1. Go(p, "enter") BY <1>1, <1>9
  <2> QED BY <1>1, <1>2, <1>3, <1>4, <1>5, <1>6, <1>7, <1>9, <2>1, SaveGoes
<1> QED BY <1>8, <1>9

LEMMA WriteChatStep == ASSUME TimeInv, NEW p \in Procs, WriteChat(p) PROVE TimeInv'
<1>1. /\ proc[p].pc = "chat" /\ proc[p].pc \in Capturing /\ UNCHANGED <<tree, edited>>
      /\ \/ SetChats(chats \cup {journal.id}) /\ Go(p, "enter")
         \/ SetRef(journal.id, None) /\ Go(p, "noChat")
  BY DEF WriteChat, At, Capturing
<1>2. /\ StoreOK /\ StageOK(p) /\ edited \in BOOLEAN /\ journal.kind = "Save" /\ journal # None
      /\ journal.id = ledger.next /\ journal.id \in Ids /\ journal.id \notin Live
  BY <1>1, InSave
<1>3. journal.tree = proc[p].tree /\ refs[ledger.next] = proc[p].tree
  BY <1>1, <1>2 DEF StageOK, SaveOK
<1>4. CASE SetChats(chats \cup {journal.id}) /\ Go(p, "enter")
  <2>1. /\ chats' = chats \cup {journal.id} /\ UNCHANGED <<ledger, journal, refs>>
    BY <1>4 DEF SetChats
  <2>2. chats \cup {journal.id} \in SUBSET Ids BY <1>2 DEF StoreOK, TypeOK
  <2>3. StoreOK' /\ Live' = Live BY <1>1, <1>2, <1>4, <2>2, StoreChats
  <2> QED BY <1>1, <1>2, <1>3, <1>4, <2>1, <2>3, SaveGoes
<1>5. CASE SetRef(journal.id, None) /\ Go(p, "noChat")
  <2>1. /\ refs' = [refs EXCEPT ![journal.id] = None] /\ UNCHANGED <<ledger, journal, chats>>
    BY <1>5 DEF SetRef
  <2>2. refs'[ledger.next] = None BY <1>2, <2>1 DEF StoreOK, TypeOK
  <2>3. StoreOK' /\ Live' = Live BY <1>1, <1>2, <1>5, StoreUnref
  <2> QED BY <1>1, <1>2, <1>3, <1>5, <2>1, <2>2, <2>3, SaveGoes
<1> QED BY <1>1, <1>4, <1>5

LEMMA NoChatStep == ASSUME TimeInv, NEW p \in Procs, NoChat(p) PROVE TimeInv'
<1>1. /\ proc[p].pc = "noChat" /\ proc[p].pc \in Capturing /\ Journal(None)
      /\ proc' = [proc EXCEPT ![p] = Idle] /\ UNCHANGED <<tree, edited>>
  BY DEF NoChat, At, Capturing, Finish
<1>2. /\ proc[p].pc \notin Waiting /\ StageOK(p) /\ tree # Half
      /\ \A id \in Ids : id >= ledger.next /\ refs[id] # None => id = ledger.next
  BY <1>1, InSave
<1>3. refs[ledger.next] = None BY <1>1, <1>2 DEF StageOK, SaveOK
<1>4. \A id \in Ids : id >= ledger.next => refs[id] = None BY <1>2, <1>3
<1> QED BY <1>1, <1>2, <1>4, IdleProcedure, ClosedStep

LEMMA SnapIsNext ==
    ASSUME NEW id \in Live'
    PROVE  Snap(id)' \in ledger'.snaps /\ Snap(id)'.id = id
<1>1. \E s \in ledger'.snaps : s.id = id BY DEF Live
<1> QED BY <1>1 DEF Snap

\* The ledger with the checkpoint at hand, its ref and its conversation there.
LEMMA StoreEnter ==
    ASSUME StoreOK, NEW snap \in Snapshots, snap.id = ledger.next,
           SaveLedger(ledger.snaps \cup {snap}, snap.id, snap.id + 1),
           refs[snap.id] = snap.tree, snap.tree # Half,
           snap.chat => snap.id \in chats, journal # None => journal.kind # "Restore",
           \A id \in Ids : id >= ledger.next /\ refs[id] # None => id = ledger.next,
           tree' = tree, edited' \in BOOLEAN
    PROVE  /\ StoreOK' /\ Live \subseteq Live' /\ snap.id \in Live' /\ Snap(snap.id)' = snap
<1>0. /\ ledger' = [gen |-> ledger.gen + 1, snaps |-> ledger.snaps \cup {snap},
                    cursor |-> snap.id, next |-> snap.id + 1]
      /\ ledger.gen < MaxGen /\ UNCHANGED <<journal, refs, chats>>
  BY DEF SaveLedger
<1>1. ledger'.snaps = ledger.snaps \cup {snap} /\ ledger'.cursor = snap.id
      /\ ledger'.next = snap.id + 1 /\ ledger'.gen = ledger.gen + 1
  BY <1>0
<1>2. Live' = Live \cup {snap.id} BY <1>1 DEF Live
<1>3. snap.id \in Ids /\ snap.id \in 1..MaxId /\ snap.id \in Int BY DEF Snapshots, Ids
<1>4. \A id \in Live : id < snap.id BY DEF StoreOK, Shelf, Loadable
<1>5. \A s \in ledger.snaps : s.id # snap.id
  <2> SUFFICES ASSUME NEW s \in ledger.snaps, s.id = snap.id PROVE FALSE OBVIOUS
  <2>1. s.id \in Live BY DEF Live
  <2>2. s.id < snap.id BY <1>4, <2>1
  <2> QED BY <1>3, <2>2
<1>6. TypeOK'
  <2>1. ledger.gen + 1 \in 0..MaxGen BY <1>0, TimeAssumption DEF StoreOK, TypeOK
  <2>2. snap.id \in 0..MaxId /\ snap.id + 1 \in 1..MaxId + 1 BY <1>3, TimeAssumption
  <2>3. ledger.snaps \cup {snap} \in SUBSET Snapshots BY DEF StoreOK, TypeOK
  <2> QED BY <1>0, <2>1, <2>2, <2>3 DEF StoreOK, TypeOK
<1>7. Shelf'
  <2>1. Pinned' BY <1>0, <1>1 DEF StoreOK, Shelf, Pinned
  <2>2. Loadable'
    <3>1. \A id \in Live : id \in Int BY LiveIds DEF StoreOK, Ids
    <3>2. \A id \in Live \cup {snap.id} : id < snap.id + 1 BY <1>3, <1>4, <3>1
    <3> QED BY <1>1, <1>2, <3>2 DEF Loadable
  <2>3. NoHalfSaved' BY <1>1 DEF StoreOK, Shelf, NoHalfSaved
  <2>4. (\A s, t \in ledger.snaps : s.id = t.id => s = t)' BY <1>1, <1>5 DEF StoreOK, Shelf
  <2> QED BY <2>1, <2>2, <2>3, <2>4 DEF Shelf
<1>8. NextIdFree'
  <2> SUFFICES ASSUME NEW id \in Ids, id >= ledger'.next, refs'[id] # None PROVE FALSE
    BY DEF NextIdFree
  <2>1. id \in Int /\ id >= ledger.next BY <1>1, <1>3 DEF Ids
  <2>2. id = ledger.next BY <1>0, <2>1
  <2> QED BY <1>1, <1>3, <2>1, <2>2
<1>9. Settleable'
  <2>1. ledger.gen \in Int BY DEF StoreOK, TypeOK
  <2>2. journal # None => journal.gen \in Int BY DEF StoreOK, TypeOK, Journals
  <2>3. journal # None => journal.gen <= ledger.gen BY DEF StoreOK, Settleable
  <2>4. journal # None => journal.gen <= ledger.gen + 1 BY <2>1, <2>2, <2>3
  <2> QED BY <1>0, <1>1, <2>4 DEF Settleable
<1>10. Snap(snap.id)' = snap
  <2>1. snap.id \in Live' BY <1>2
  <2>2. Snap(snap.id)' \in ledger'.snaps /\ Snap(snap.id)'.id = snap.id BY <2>1, SnapIsNext
  <2> QED BY <1>1, <1>5, <2>2
<1> QED BY <1>2, <1>6, <1>7, <1>8, <1>9, <1>10 DEF StoreOK

LEMMA EnterStep == ASSUME TimeInv, NEW p \in Procs, Enter(p) PROVE TimeInv'
<1>1. PICK snap : snap =
        [id |-> journal.id, tree |-> proc[p].tree, parent |-> ledger.cursor,
         kind |-> CASE proc[p].op \in Travels -> "Recovery"
                    [] proc[p].op = "net"     -> "SafetyNet"
                    [] OTHER                  -> "Milestone",
         chat |-> proc[p].op = "talk"]
  OBVIOUS
<1>2. /\ proc[p].pc = "enter" /\ proc[p].pc \in Capturing /\ Go(p, "entered")
      /\ SaveLedger(ledger.snaps \cup {snap}, snap.id, snap.id + 1) /\ UNCHANGED <<tree, edited>>
  BY <1>1 DEF Enter, At, Capturing
<1>3. /\ proc[p].pc \notin Waiting /\ StoreOK /\ Alone(p) /\ StageOK(p) /\ proc[p] \in Procedure
      /\ edited \in BOOLEAN /\ journal # None /\ journal.kind = "Save"
      /\ journal.id = ledger.next /\ journal.id \in Ids /\ tree # Half
      /\ \A id \in Ids : id >= ledger.next /\ refs[id] # None => id = ledger.next
  BY <1>2, InSave
<1>4. /\ proc[p].op \in Saves \cup Travels /\ proc[p].tree \in Trees
      /\ refs[ledger.next] = proc[p].tree
      /\ proc[p].op = "talk" => ledger.next \in chats
      /\ proc[p].op \in Travels => proc[p].id \in Live
      /\ edited \/ proc[p].tree = tree
  BY <1>2, <1>3 DEF StageOK, SaveOK, GoalOK, PreOK
<1>5. /\ snap.id = ledger.next /\ snap.tree = proc[p].tree /\ snap.chat = (proc[p].op = "talk")
  BY <1>1, <1>3
<1>6. snap \in Snapshots
  <2>1. ledger.cursor \in 0..MaxId /\ proc[p].tree \in Contents
    BY <1>3, <1>4 DEF StoreOK, TypeOK, Contents
  <2>2. snap.kind \in Kinds BY <1>1 DEF Kinds
  <2> QED BY <1>1, <1>3, <2>1, <2>2 DEF Snapshots
<1>7. /\ StoreOK' /\ Live \subseteq Live' /\ snap.id \in Live' /\ Snap(snap.id)' = snap
  <2>1. snap.tree # Half BY <1>4, <1>5, TimeAssumption
  <2>2. refs[snap.id] = snap.tree /\ (snap.chat => snap.id \in chats) BY <1>4, <1>5
  <2> QED BY <1>2, <1>3, <1>5, <1>6, <2>1, <2>2, StoreEnter
<1>8. journal' = journal BY <1>2 DEF SaveLedger
<1>9. PICK me : me = [proc[p] EXCEPT !.pc = "entered"] OBVIOUS
<1>10. "entered" \in Steps BY DEF Steps
<1>11. /\ me \in Procedure /\ proc' = [proc EXCEPT ![p] = me] /\ me.pc = "entered"
       /\ me.op = proc[p].op /\ me.id = proc[p].id /\ me.tree = proc[p].tree
  BY <1>2, <1>3, <1>9, <1>10, GoType DEF Procedure
<1>12. proc'[p] = me BY <1>11 DEF TimeInv, Locked
<1>13. StageOK(p)'
  <2>1. NoteOK(proc[p])'
    BY <1>3, <1>8, <1>11, <1>12 DEF NoteOK, Noted, Capturing, Placing, Returning
  <2>2. SaveOK(proc[p])'
    BY <1>3, <1>4, <1>5, <1>7, <1>8, <1>11, <1>12 DEF SaveOK, Capturing
  <2>3. GoalOK(proc[p])' BY <1>4, <1>7, <1>11, <1>12 DEF GoalOK, Capturing
  <2>4. PreOK(proc[p])' BY <1>2, <1>4, <1>11, <1>12 DEF PreOK
  <2>5. DropOK(proc[p])' BY <1>11, <1>12 DEF DropOK
  <2> QED BY <2>1, <2>2, <2>3, <2>4, <2>5 DEF StageOK
<1> QED BY <1>2, <1>3, <1>7, <1>11, <1>13, ActStep

\* A restore may be armed: the target and the way back are in the ledger.
LEMMA ArmedStage ==
    ASSUME NEW p \in Procs, proc'[p].pc = "arm", journal' = None,
           {proc'[p].id, proc'[p].pre} \subseteq Live', edited' \/ Kept'
    PROVE  StageOK(p)'
<1>1. NoteOK(proc[p])' BY DEF NoteOK, Capturing, Placing, Returning
<1>2. GoalOK(proc[p])' BY DEF GoalOK, Capturing
<1>3. (SaveOK(proc[p]) /\ PreOK(proc[p]) /\ DropOK(proc[p]))'
  BY DEF SaveOK, PreOK, DropOK, Capturing
<1> QED BY <1>1, <1>2, <1>3 DEF StageOK

LEMMA EnteredStep == ASSUME TimeInv, NEW p \in Procs, Entered(p) PROVE TimeInv'
<1>1. /\ proc[p].pc = "entered" /\ proc[p].pc \notin Waiting /\ Journal(None)
      /\ UNCHANGED <<tree, edited>>
  BY DEF Entered, At, Waiting
<1>2. /\ StoreOK /\ Alone(p) /\ StageOK(p) /\ Torn /\ proc[p] \in Procedure
      /\ edited \in BOOLEAN /\ tree \in Contents
  BY <1>1, Facts
<1>3. /\ journal # None /\ journal.kind = "Save" /\ journal.id \in Live
      /\ Snap(journal.id).tree = proc[p].tree
      /\ proc[p].op \in Travels => proc[p].id \in Live
      /\ edited \/ proc[p].tree = tree
  BY <1>1, <1>2 DEF StageOK, NoteOK, Noted, SaveOK, GoalOK, PreOK
<1>4. tree # Half BY <1>2, <1>3 DEF Torn
<1>5. journal.id \in 0..MaxId /\ Snap(journal.id) \in ledger.snaps
  BY <1>2, <1>3, LiveIds, SnapIs DEF StoreOK
<1>6. \A id \in Ids : id >= ledger.next => refs[id] = None
  <2> SUFFICES ASSUME NEW id \in Ids, id >= ledger.next, refs[id] # None PROVE FALSE OBVIOUS
  <2>1. journal.id = id BY <1>2 DEF StoreOK, NextIdFree
  <2>2. id < ledger.next BY <1>2, <1>3, <2>1 DEF StoreOK, Shelf, Loadable
  <2>3. id \in Int /\ ledger.next \in Int BY <1>2 DEF StoreOK, TypeOK, Ids
  <2> QED BY <2>2, <2>3
<1>7. CASE proc[p].op \in Travels
  <2>1. proc' = [proc EXCEPT ![p].pc = "arm", ![p].pre = journal.id, ![p].tree = None]
    BY <1>7 DEF Entered
  <2>2. PICK me : me = [proc[p] EXCEPT !.pc = "arm", !.pre = journal.id, !.tree = None]
    OBVIOUS
  <2>3. "arm" \in Steps BY DEF Steps
  <2>4. /\ me \in Procedure /\ me.pc = "arm" /\ me.pre = journal.id /\ me.id = proc[p].id
    BY <1>2, <1>5, <2>2, <2>3 DEF Procedure
  <2>5. proc' = [proc EXCEPT ![p] = me] /\ proc'[p] = me
    BY <2>1, <2>2 DEF TimeInv, Locked
  <2>6. StoreOK' /\ Live' = Live BY <1>1, <1>2, <1>6, StoreJournal
  <2>7. journal' = None /\ ledger' = ledger BY <1>1 DEF Journal
  <2>8. edited' \/ Kept' BY <1>1, <1>3, <1>5, <2>7 DEF Kept
  <2>9. StageOK(p)' BY <1>3, <1>7, <2>4, <2>5, <2>6, <2>7, <2>8, ArmedStage
  <2> QED BY <1>1, <1>2, <1>4, <2>4, <2>5, <2>6, <2>9, ActStep
<1>8. CASE proc[p].op \notin Travels
  <2>1. Saved(p, proc[p].op, journal.id) BY <1>8 DEF Entered
  <2>2. PICK me \in Procedure : me.pc \in Waiting /\ proc' = [proc EXCEPT ![p] = me]
    BY <1>5, <2>1, SavedType
  <2> QED BY <1>1, <1>4, <1>6, <2>2, ClosedStep
<1> QED BY <1>7, <1>8

LEMMA AlreadyThereStep == ASSUME TimeInv, NEW p \in Procs, AlreadyThere(p) PROVE TimeInv'
<1>1. PICK op \in Travels, id \in Wanted(p) :
        /\ Working(p, op)
        /\ Reachable(id) /\ Snap(id).tree = tree
        /\ proc' = [proc EXCEPT ![p] =
                    [@ EXCEPT !.pc = "arm", !.op = op, !.id = id, !.pre = ledger.cursor]]
  BY DEF AlreadyThere
<1>2. At(p, "work") /\ edited' = FALSE /\ UNCHANGED <<disk, tree>>
  BY <1>1 DEF AlreadyThere, Working
<1>3. /\ proc[p].pc \notin Waiting /\ StoreOK /\ journal = None /\ tree \in Trees
      /\ proc[p] \in Procedure
  BY <1>2, InWork
<1>4. /\ id \in Live /\ Snap(id) \in ledger.snaps /\ id \in 0..MaxId
      /\ ledger.cursor \in Live /\ ledger.cursor \in 0..MaxId
  <2>1. id \in Live BY <1>1, WantedLive
  <2>2. ledger.cursor \in Live BY <1>3, <2>1 DEF StoreOK, Shelf, Loadable
  <2> QED BY <1>3, <2>1, <2>2, LiveIds, SnapIs DEF StoreOK
<1>5. PICK me : me = [proc[p] EXCEPT !.pc = "arm", !.op = op, !.id = id, !.pre = ledger.cursor]
  OBVIOUS
<1>6. "arm" \in Steps /\ op \in Ops BY DEF Steps, Ops
<1>7. /\ me \in Procedure /\ me.pc = "arm" /\ me.pre = ledger.cursor /\ me.id = id
  BY <1>3, <1>4, <1>5, <1>6 DEF Procedure
<1>8. proc' = [proc EXCEPT ![p] = me] /\ proc'[p] = me
  BY <1>1, <1>5 DEF TimeInv, Locked
<1>9. Live' = Live /\ tree' \in Contents /\ edited' \in BOOLEAN /\ journal' = None
      /\ tree' # Half /\ ledger' = ledger
  BY <1>2, <1>3, TimeAssumption DEF disk, Live, Contents
<1>10. Kept' BY <1>1, <1>2, <1>4, <1>9 DEF Kept
<1>11. StageOK(p)' BY <1>4, <1>7, <1>8, <1>9, <1>10, ArmedStage
<1> QED BY <1>2, <1>3, <1>7, <1>8, <1>9, <1>11, MoveStep

LEMMA ArmStep == ASSUME TimeInv, NEW p \in Procs, Arm(p) PROVE TimeInv'
<1>1. /\ proc[p].pc = "arm" /\ proc[p].pc \notin Waiting /\ Go(p, "apply")
      /\ Journal([Entry("Restore") EXCEPT !.id = proc[p].id, !.pre = proc[p].pre])
      /\ UNCHANGED <<tree, edited>>
  BY DEF Arm, At, Waiting
<1>2. /\ StoreOK /\ Alone(p) /\ StageOK(p) /\ Torn /\ proc[p] \in Procedure
      /\ edited \in BOOLEAN /\ tree \in Contents
  BY <1>1, Facts
<1>3. /\ journal = None /\ {proc[p].id, proc[p].pre} \subseteq Live
      /\ edited \/ Kept
  BY <1>1, <1>2 DEF StageOK, NoteOK, GoalOK, PreOK
<1>4. tree # Half BY <1>2, <1>3 DEF Torn
<1>5. \A id \in Ids : id >= ledger.next => refs[id] = None
  BY <1>2, <1>3, FreeRefs DEF StoreOK
<1>6. PICK j : j = [Entry("Restore") EXCEPT !.id = proc[p].id, !.pre = proc[p].pre] OBVIOUS
<1>7. /\ j \in Journals /\ j.kind = "Restore" /\ j.gen = ledger.gen
      /\ j.id = proc[p].id /\ j.pre = proc[p].pre
  <2>1. PICK e : e = Entry("Restore") OBVIOUS
  <2>2. e \in Journals /\ e.kind = "Restore" /\ e.gen = ledger.gen
    BY <1>2, <2>1, EntryType DEF StoreOK
  <2>3. proc[p].id \in 0..MaxId /\ proc[p].pre \in 0..MaxId BY <1>2 DEF Procedure
  <2> QED BY <1>6, <2>1, <2>2, <2>3 DEF Journals
<1>8. Journal(j) BY <1>1, <1>6
<1>9. Reachable(j.id) /\ Reachable(j.pre) /\ j.gen <= ledger.gen
  <2>1. \A id \in Live : Reachable(id)
    BY <1>2, SnapIs DEF Reachable, StoreOK, Shelf, Pinned
  <2>2. ledger.gen \in Int BY <1>2 DEF StoreOK, TypeOK
  <2> QED BY <1>3, <1>7, <2>1, <2>2
<1>10. StoreOK' /\ Live' = Live
  BY <1>1, <1>2, <1>5, <1>7, <1>8, <1>9, StoreJournal
<1>11. journal' = j /\ j # None /\ ledger' = ledger BY <1>7, <1>8, TimeAssumption DEF Journal
<1>12. PICK me : me = [proc[p] EXCEPT !.pc = "apply"] OBVIOUS
<1>13. "apply" \in Steps BY DEF Steps
<1>14. /\ me \in Procedure /\ proc' = [proc EXCEPT ![p] = me]
       /\ me.pc = "apply" /\ me.pre = proc[p].pre /\ me.id = proc[p].id
  BY <1>1, <1>2, <1>12, <1>13, GoType DEF Procedure
<1>15. proc'[p] = me BY <1>14 DEF TimeInv, Locked
<1>16. StageOK(p)'
  <2>1. NoteOK(proc[p])'
    BY <1>7, <1>11, <1>14, <1>15 DEF NoteOK, Noted, Capturing, Placing, Returning
  <2>2. PreOK(proc[p])'
    <3>1. edited' \/ Kept' BY <1>1, <1>3, <1>11 DEF Kept
    <3> QED BY <1>14, <1>15, <3>1 DEF PreOK, Capturing
  <2>3. (SaveOK(proc[p]) /\ GoalOK(proc[p]) /\ DropOK(proc[p]))'
    BY <1>14, <1>15 DEF SaveOK, GoalOK, DropOK, Capturing
  <2> QED BY <2>1, <2>2, <2>3 DEF StageOK
<1> QED BY <1>1, <1>2, <1>4, <1>10, <1>14, <1>16, ActStep

-----------------------------------------------------------------------------
(* Retention and the doctor.                                                 *)
LEMMA RetireSpares ==
    ASSUME NEW keep, NEW floor, NEW protected
    PROVE  /\ Retire(keep, floor, protected) \subseteq ledger.snaps
           /\ \A s \in Retire(keep, floor, protected) : s.id # ledger.cursor
<1> DEFINE spare == {s \in ledger.snaps : s.id \notin protected \cup {ledger.cursor}}
<1>1. spare \subseteq ledger.snaps /\ \A s \in spare : s.id # ledger.cursor OBVIOUS
<1>2. Retire(keep, floor, protected) \subseteq spare BY DEF Retire
<1> QED BY <1>1, <1>2

LEMMA PlansSpare ==
    ASSUME NEW p, NEW gone \in Plans(p), proc[p].op \in Drops
    PROVE  /\ gone \subseteq ledger.snaps
           /\ proc[p].op = "clear" => gone = ledger.snaps
           /\ proc[p].op # "clear" => \A s \in gone : s.id # ledger.cursor
<1>1. CASE proc[p].op = "trim"
  <2>1. PICK a \in 0..MaxId : gone = Retire(Keep, KeepSafety, {proc[p].id, a})
    BY <1>1 DEF Plans
  <2> QED BY <1>1, <2>1, RetireSpares
<1>2. CASE proc[p].op = "prune"
  <2>1. PICK k \in 1..MaxId : gone = Retire(k, k, {}) BY <1>2 DEF Plans
  <2> QED BY <1>2, <2>1, RetireSpares
<1>3. CASE proc[p].op = "clear" BY <1>3 DEF Plans
<1> QED BY <1>1, <1>2, <1>3 DEF Drops

\* What a step of a cleaning finds.
Cleansing == {"drop", "reap", "sweep"}

LEMMA InDrop ==
    ASSUME TimeInv, NEW p \in Procs, proc[p].pc \in Cleansing
    PROVE  /\ proc[p].pc \notin Waiting /\ StoreOK /\ Alone(p) /\ StageOK(p)
           /\ proc[p] \in Procedure /\ proc = [proc EXCEPT ![p] = proc[p]]
           /\ edited \in BOOLEAN /\ tree \in Contents /\ tree # Half
           /\ journal # None /\ journal.kind \in {"Prune", "Clear", "Doctor"}
           /\ \A id \in Ids : id >= ledger.next => refs[id] = None
<1>1. proc[p].pc \notin Waiting BY DEF Waiting, Cleansing
<1>2. /\ StoreOK /\ Alone(p) /\ StageOK(p) /\ Torn /\ proc[p] \in Procedure
      /\ proc = [proc EXCEPT ![p] = proc[p]] /\ edited \in BOOLEAN /\ tree \in Contents
  BY <1>1, Facts
<1>3. journal # None /\ journal.kind \in {"Prune", "Clear", "Doctor"}
  BY <1>2 DEF StageOK, NoteOK, Noted, Cleansing
<1>4. tree # Half BY <1>2, <1>3 DEF Torn
<1>5. \A id \in Ids : id >= ledger.next => refs[id] = None
  BY <1>2, <1>3, FreeRefs DEF StoreOK
<1> QED BY <1>1, <1>2, <1>3, <1>4, <1>5

LEMMA CleansingStage ==
    ASSUME NEW p \in Procs, proc'[p].pc \in Cleansing,
           journal' # None, journal'.kind \in {"Prune", "Clear", "Doctor"},
           proc'[p].pc = "drop" => proc'[p].op \in Drops,
           proc'[p].pc = "reap" => \A s \in proc'[p].todo : s.id \notin Live'
    PROVE  StageOK(p)'
<1>1. NoteOK(proc[p])' BY DEF NoteOK, Noted, Capturing, Placing, Returning, Cleansing
<1>2. (SaveOK(proc[p]) /\ GoalOK(proc[p]) /\ PreOK(proc[p]))'
  BY DEF SaveOK, GoalOK, PreOK, Capturing, Cleansing
<1>3. DropOK(proc[p])' BY DEF DropOK
<1> QED BY <1>1, <1>2, <1>3 DEF StageOK

\* An operation that finds nothing to do.
LEMMA QuitStep ==
    ASSUME TimeInv, NEW p \in Procs, At(p, "work"), Finish(p), UNCHANGED <<disk, tree, edited>>
    PROVE  TimeInv'
<1>1. proc[p].pc \notin Waiting /\ tree \in Trees BY InWork
<1>2. tree \in Contents /\ edited \in BOOLEAN BY DEF TimeInv, TypeOK
<1>3. proc' = [proc EXCEPT ![p] = Idle] BY DEF Finish
<1>4. proc'[p] = Idle BY <1>3 DEF TimeInv, Locked
<1>5. StageOK(p)' BY <1>4, IdleProcedure, IdleStage
<1>6. tree' # Half BY <1>1, TimeAssumption
<1> QED BY <1>1, <1>2, <1>3, <1>5, <1>6, IdleProcedure, MoveStep

LEMMA TrimNothingStep == ASSUME TimeInv, NEW p \in Procs, TrimNothing(p) PROVE TimeInv'
BY QuitStep DEF TrimNothing, Working

LEMMA RepairedStep == ASSUME TimeInv, NEW p \in Procs, Repaired(p) PROVE TimeInv'
BY QuitStep DEF Repaired, Working

\* A cleaning begins with its journal.
LEMMA CleansingStarts ==
    ASSUME TimeInv, NEW p \in Procs, At(p, "work"), NEW kind \in {"Prune", "Clear", "Doctor"},
           Journal(Entry(kind)), NEW me \in Procedure, proc' = [proc EXCEPT ![p] = me],
           me.pc \in {"drop", "sweep"}, me.pc = "drop" => me.op \in Drops,
           UNCHANGED <<tree, edited>>
    PROVE  TimeInv'
<1>1. /\ proc[p].pc \notin Waiting /\ StoreOK /\ tree \in Trees /\ journal = None
      /\ \A id \in Ids : id >= ledger.next => refs[id] = None
  BY InWork
<1>2. Alone(p) /\ edited' \in BOOLEAN BY <1>1, Facts
<1>3. PICK j : j = Entry(kind) OBVIOUS
<1>4. j \in Journals /\ j.kind = kind /\ j.gen = ledger.gen /\ ledger.gen \in Int
  BY <1>1, <1>3, EntryType DEF StoreOK, TypeOK
<1>5. Journal(j) /\ j # None BY <1>3, <1>4, TimeAssumption
<1>6. StoreOK' BY <1>1, <1>2, <1>4, <1>5, StoreJournal
<1>7. journal' = j BY <1>5 DEF Journal
<1>8. proc'[p] = me BY DEF TimeInv, Locked
<1>9. StageOK(p)' BY <1>4, <1>5, <1>7, <1>8, CleansingStage DEF Cleansing
<1>10. tree' # Half BY <1>1, TimeAssumption
<1> QED BY <1>2, <1>6, <1>9, <1>10, ActStep

LEMMA AskDropStep == ASSUME TimeInv, NEW p \in Procs, AskDrop(p) PROVE TimeInv'
<1>1. PICK op \in Drops :
        /\ Working(p, op)
        /\ Journal(Entry(IF op = "clear" THEN "Clear" ELSE "Prune"))
        /\ proc' = [proc EXCEPT ![p].pc = "drop", ![p].op = op]
  BY DEF AskDrop
<1>2. At(p, "work") /\ UNCHANGED <<tree, edited>> BY <1>1 DEF AskDrop, Working
<1>3. proc[p] \in Procedure BY <1>2, InWork
<1>4. PICK me : me = [proc[p] EXCEPT !.pc = "drop", !.op = op] OBVIOUS
<1>5. "drop" \in Steps /\ op \in Ops BY DEF Steps, Ops
<1>6. me \in Procedure /\ me.pc = "drop" /\ me.op = op BY <1>3, <1>4, <1>5 DEF Procedure
<1>7. proc' = [proc EXCEPT ![p] = me] BY <1>1, <1>4 DEF TimeInv, Locked
<1>8. PICK kind \in {"Prune", "Clear", "Doctor"} : Journal(Entry(kind)) BY <1>1
<1> QED BY <1>2, <1>6, <1>7, <1>8, CleansingStarts

LEMMA StartSweepStep == ASSUME TimeInv, NEW p \in Procs, StartSweep(p) PROVE TimeInv'
<1>1. At(p, "work") /\ Journal(Entry("Doctor")) /\ Go(p, "sweep") /\ UNCHANGED <<tree, edited>>
  BY DEF StartSweep, Working
<1>2. proc[p] \in Procedure BY <1>1, InWork
<1>3. "sweep" \in Steps BY DEF Steps
<1>4. PICK me : me = [proc[p] EXCEPT !.pc = "sweep"] OBVIOUS
<1>5. me \in Procedure /\ proc' = [proc EXCEPT ![p] = me] /\ me.pc = "sweep"
  BY <1>1, <1>2, <1>3, <1>4, GoType DEF Procedure
<1> QED BY <1>1, <1>5, CleansingStarts

\* The ledger without what is dropped; the cursor is not, unless everything is.
LEMMA DropStep == ASSUME TimeInv, NEW p \in Procs, Drop(p) PROVE TimeInv'
<1>1. PICK gone \in Plans(p) :
        /\ SaveLedger(ledger.snaps \ gone, IF proc[p].op = "clear" THEN 0 ELSE ledger.cursor,
                      ledger.next)
        /\ proc' = [proc EXCEPT ![p].pc = "reap", ![p].todo = gone]
  BY DEF Drop
<1>2. proc[p].pc = "drop" /\ proc[p].pc \in Cleansing /\ UNCHANGED <<tree, edited>>
  BY DEF Drop, At, Cleansing
<1>3. /\ proc[p].pc \notin Waiting /\ StoreOK /\ Alone(p) /\ StageOK(p)
      /\ proc[p] \in Procedure /\ edited \in BOOLEAN /\ tree # Half
      /\ journal # None /\ journal.kind \in {"Prune", "Clear", "Doctor"}
  BY <1>2, InDrop
<1>4. proc[p].op \in Drops BY <1>2, <1>3 DEF StageOK, DropOK
<1>5. /\ gone \subseteq ledger.snaps
      /\ proc[p].op = "clear" => gone = ledger.snaps
      /\ proc[p].op # "clear" => \A s \in gone : s.id # ledger.cursor
  BY <1>4, PlansSpare
<1> DEFINE cursor == IF proc[p].op = "clear" THEN 0 ELSE ledger.cursor
<1>6. /\ ledger' = [gen |-> ledger.gen + 1, snaps |-> ledger.snaps \ gone,
                    cursor |-> cursor, next |-> ledger.next]
      /\ ledger.gen < MaxGen /\ UNCHANGED <<journal, refs, chats>>
  BY <1>1 DEF SaveLedger
<1>7. /\ ledger'.snaps = ledger.snaps \ gone /\ ledger'.cursor = cursor
      /\ ledger'.next = ledger.next /\ ledger'.gen = ledger.gen + 1
  BY <1>6
<1>8. Live' \subseteq Live /\ \A s \in gone : s.id \notin Live'
  <2>1. \A s, t \in ledger.snaps : s.id = t.id => s = t BY <1>3 DEF StoreOK, Shelf
  <2> QED BY <1>5, <1>7, <2>1 DEF Live
<1>9. TypeOK'
  <2>1. ledger.gen + 1 \in 0..MaxGen BY <1>3, <1>6, TimeAssumption DEF StoreOK, TypeOK
  <2>2. cursor \in 0..MaxId BY <1>3, TimeAssumption DEF StoreOK, TypeOK
  <2>3. ledger.snaps \ gone \in SUBSET Snapshots BY <1>3 DEF StoreOK, TypeOK
  <2> HIDE DEF cursor
  <2> QED BY <1>2, <1>3, <1>6, <2>1, <2>2, <2>3 DEF StoreOK, TypeOK
<1>10. Shelf'
  <2>1. Pinned' BY <1>3, <1>6, <1>7 DEF StoreOK, Shelf, Pinned
  <2>2. Loadable'
    <3>1. \A id \in Live' : id < ledger'.next BY <1>3, <1>7, <1>8 DEF StoreOK, Shelf, Loadable
    <3>2. CASE proc[p].op = "clear"
      <4>1. ledger'.snaps = {} /\ ledger'.cursor = 0 BY <1>5, <1>7, <3>2
      <4> QED BY <3>1, <4>1 DEF Loadable, Live
    <3>3. CASE proc[p].op # "clear"
      <4>1. ledger'.cursor = ledger.cursor BY <1>7, <3>3
      <4>2. ledger.cursor \in Live => ledger.cursor \in Live'
        <5> SUFFICES ASSUME ledger.cursor \in Live PROVE ledger.cursor \in Live' OBVIOUS
        <5>1. PICK s \in ledger.snaps : s.id = ledger.cursor BY DEF Live
        <5>2. s \in ledger'.snaps BY <1>5, <1>7, <3>3, <5>1
        <5> QED BY <5>1, <5>2 DEF Live
      <4>3. Live = {} => Live' = {} BY <1>8
      <4> QED BY <1>3, <3>1, <4>1, <4>2, <4>3 DEF StoreOK, Shelf, Loadable
    <3> QED BY <3>2, <3>3
  <2>3. NoHalfSaved' BY <1>3, <1>7 DEF StoreOK, Shelf, NoHalfSaved
  <2>4. (\A s, t \in ledger.snaps : s.id = t.id => s = t)' BY <1>3, <1>7 DEF StoreOK, Shelf
  <2> QED BY <2>1, <2>2, <2>3, <2>4 DEF Shelf
<1>11. NextIdFree' BY <1>3, <1>6, <1>7 DEF StoreOK, NextIdFree
<1>12. Settleable'
  <2>1. ledger.gen \in Int /\ journal.gen \in Int /\ journal.gen <= ledger.gen
    BY <1>3 DEF StoreOK, TypeOK, Journals, Settleable
  <2>2. journal.gen <= ledger.gen + 1 BY <2>1
  <2> QED BY <1>3, <1>6, <1>7, <2>2 DEF Settleable
<1>13. PICK me : me = [proc[p] EXCEPT !.pc = "reap", !.todo = gone] OBVIOUS
<1>14. "reap" \in Steps /\ gone \in SUBSET Snapshots
  BY <1>3, <1>5 DEF Steps, StoreOK, TypeOK
<1>15. me \in Procedure /\ me.pc = "reap" /\ me.todo = gone
  BY <1>3, <1>13, <1>14 DEF Procedure
<1>16. proc' = [proc EXCEPT ![p] = me] /\ proc'[p] = me
  BY <1>1, <1>13 DEF TimeInv, Locked
<1>17. StageOK(p)'
  <2>1. journal' = journal BY <1>6
  <2> QED BY <1>3, <1>8, <1>15, <1>16, <2>1, CleansingStage DEF Cleansing
<1> QED BY <1>2, <1>3, <1>9, <1>10, <1>11, <1>12, <1>15, <1>16, <1>17, ActStep DEF StoreOK

\* One checkpoint's ref, then its chat: neither is one the ledger lists.
LEMMA ReapStep == ASSUME TimeInv, NEW p \in Procs, Reap(p) PROVE TimeInv'
<1>1. /\ proc[p].pc = "reap" /\ proc[p].pc \in Cleansing /\ proc[p].todo # {}
      /\ UNCHANGED <<tree, edited>>
  BY DEF Reap, At, Cleansing
<1>2. /\ proc[p].pc \notin Waiting /\ StoreOK /\ Alone(p) /\ StageOK(p)
      /\ proc[p] \in Procedure /\ proc = [proc EXCEPT ![p] = proc[p]]
      /\ edited \in BOOLEAN /\ tree # Half
      /\ journal # None /\ journal.kind \in {"Prune", "Clear", "Doctor"}
  BY <1>1, InDrop
<1>3. \A x \in proc[p].todo : x \in Snapshots /\ x.id \in Nat /\ x.id \notin Live
  BY <1>1, <1>2 DEF Procedure, Snapshots, Ids, StageOK, DropOK
<1> DEFINE least == CHOOSE x \in proc[p].todo : \A y \in proc[p].todo : x.id <= y.id
<1>4. PICK s \in proc[p].todo : s = least
  <2> DEFINE ids == {x.id : x \in proc[p].todo}
  <2>1. ids \in SUBSET Nat /\ ids # {} BY <1>1, <1>3
  <2>2. PICK n \in ids : \A m \in ids : n <= m
    <3> HIDE DEF ids
    <3> QED BY <2>1, LeastExists
  <2>3. \E x \in proc[p].todo : \A y \in proc[p].todo : x.id <= y.id BY <2>2
  <2> QED BY <2>3
<1>5. \/ SetRef(s.id, None) /\ UNCHANGED proc
      \/ /\ SetChats(chats \ {s.id})
         /\ proc' = [proc EXCEPT ![p].todo = @ \ {s}]
  BY <1>4 DEF Reap
<1>6. CASE SetRef(s.id, None) /\ UNCHANGED proc
  <2>1. StoreOK' /\ Live' = Live BY <1>1, <1>2, <1>3, <1>6, StoreUnref
  <2>2. journal' = journal BY <1>6 DEF SetRef
  <2>3. StageOK(p)' BY <1>1, <1>2, <1>3, <1>6, <2>1, <2>2, CleansingStage
  <2> QED BY <1>1, <1>2, <1>6, <2>1, <2>3, ActStep
<1>7. CASE SetChats(chats \ {s.id}) /\ proc' = [proc EXCEPT ![p].todo = @ \ {s}]
  <2>1. chats \ {s.id} \in SUBSET Ids BY <1>2 DEF StoreOK, TypeOK
  <2>2. chats \cap Live \subseteq chats \ {s.id} BY <1>3
  <2>3. StoreOK' /\ Live' = Live BY <1>1, <1>2, <1>7, <2>1, <2>2, StoreChats
  <2>4. journal' = journal BY <1>7 DEF SetChats
  <2>5. PICK me : me = [proc[p] EXCEPT !.todo = proc[p].todo \ {s}] OBVIOUS
  <2>6. me \in Procedure /\ me.pc = "reap" /\ me.todo \subseteq proc[p].todo
    BY <1>1, <1>2, <2>5 DEF Procedure
  <2>7. proc' = [proc EXCEPT ![p] = me] /\ proc'[p] = me
    BY <1>7, <2>5 DEF TimeInv, Locked
  <2>8. StageOK(p)' BY <1>2, <1>3, <2>3, <2>4, <2>6, <2>7, CleansingStage DEF Cleansing
  <2> QED BY <1>1, <1>2, <2>3, <2>6, <2>7, <2>8, ActStep
<1> QED BY <1>5, <1>6, <1>7

LEMMA ReapedStep == ASSUME TimeInv, NEW p \in Procs, Reaped(p) PROVE TimeInv'
<1>1. /\ proc[p].pc \in Cleansing /\ Journal(None) /\ proc' = [proc EXCEPT ![p] = Idle]
      /\ UNCHANGED <<tree, edited>>
  BY DEF Reaped, At, Cleansing, Finish
<1> QED BY <1>1, InDrop, IdleProcedure, ClosedStep

LEMMA SweepDoneStep == ASSUME TimeInv, NEW p \in Procs, SweepDone(p) PROVE TimeInv'
<1>1. /\ proc[p].pc \in Cleansing /\ Journal(None) /\ proc' = [proc EXCEPT ![p] = Idle]
      /\ UNCHANGED <<tree, edited>>
  BY DEF SweepDone, At, Cleansing, Finish
<1> QED BY <1>1, InDrop, IdleProcedure, ClosedStep

LEMMA SweepOneStep == ASSUME TimeInv, NEW p \in Procs, SweepOne(p) PROVE TimeInv'
<1>1. /\ proc[p].pc = "sweep" /\ proc[p].pc \in Cleansing /\ UNCHANGED <<tree, proc, edited>>
      /\ \/ \E id \in Orphans : SetRef(id, None)
         \/ \E id \in chats \ Live : SetChats(chats \ {id})
  BY DEF SweepOne, At, Cleansing
<1>2. /\ StoreOK /\ Alone(p) /\ proc[p] \in Procedure /\ proc = [proc EXCEPT ![p] = proc[p]]
      /\ edited \in BOOLEAN /\ tree # Half
      /\ journal # None /\ journal.kind \in {"Prune", "Clear", "Doctor"}
  BY <1>1, InDrop
<1>3. StoreOK' /\ journal' = journal
  <2>1. CASE \E id \in Orphans : SetRef(id, None)
    <3>1. PICK id \in Orphans : SetRef(id, None) BY <2>1
    <3>2. id \notin Live BY DEF Orphans
    <3> QED BY <1>1, <1>2, <3>1, <3>2, StoreUnref DEF SetRef
  <2>2. CASE \E id \in chats \ Live : SetChats(chats \ {id})
    <3>1. PICK id \in chats \ Live : SetChats(chats \ {id}) BY <2>2
    <3>2. chats \ {id} \in SUBSET Ids BY <1>2 DEF StoreOK, TypeOK
    <3>3. chats \cap Live \subseteq chats \ {id} OBVIOUS
    <3> QED BY <1>1, <1>2, <3>1, <3>2, <3>3, StoreChats DEF SetChats
  <2> QED BY <1>1, <2>1, <2>2
<1>4. proc'[p].pc = "sweep" BY <1>1
<1>5. StageOK(p)' BY <1>2, <1>3, <1>4, CleansingStage DEF Cleansing
<1> QED BY <1>1, <1>2, <1>3, <1>5, ActStep

-----------------------------------------------------------------------------
(* The invariant holds from the start, and no step breaks it.                *)
LEMMA TimeStarts == ASSUME Init PROVE TimeInv
<1>1. /\ ledger = [gen |-> 0, snaps |-> {}, cursor |-> 0, next |-> 1]
      /\ journal = None /\ refs = [id \in Ids |-> None] /\ chats = {} /\ tree \in Trees
      /\ proc = [p \in Procs |-> Idle] /\ edited = FALSE
  BY DEF Init
<1>2. Live = {} BY <1>1 DEF Live
<1>3. TypeOK
  <2>1. 0 \in 0..MaxGen /\ 0 \in 0..MaxId /\ 1 \in 1..MaxId + 1 BY TimeAssumption
  <2>2. ledger \in [gen : 0..MaxGen, snaps : SUBSET Snapshots, cursor : 0..MaxId,
                   next : 1..MaxId + 1]
    BY <1>1, <2>1
  <2> QED BY <1>1, <2>2 DEF TypeOK, Contents
<1>4. Locked BY <1>1, IdleProcedure DEF Locked, Busy
<1>5. Shelf BY <1>1, <1>2 DEF Shelf, Pinned, Loadable, NoHalfSaved
<1>6. NextIdFree BY <1>1 DEF NextIdFree
<1>7. Settleable BY <1>1 DEF Settleable
<1>8. Torn BY <1>1, TimeAssumption DEF Torn
<1>9. \A p \in Procs : StageOK(p) BY <1>1, IdleProcedure, WaitingStage
<1> QED BY <1>3, <1>4, <1>5, <1>6, <1>7, <1>8, <1>9 DEF TimeInv

LEMMA TimeStutters == ASSUME TimeInv, UNCHANGED vars PROVE TimeInv'
<1>1. UNCHANGED disk /\ tree' = tree /\ proc' = proc /\ edited' = edited
  BY DEF vars, disk
<1>2. StoreOK' BY <1>1, StoreStill, InvIs DEF TimeInvIs, StoreOK, TypeOK
<1>3. Locked' BY <1>1 DEF TimeInv, Locked, Busy
<1>4. Torn' BY <1>1 DEF TimeInv, Torn, disk
<1>5. \A q \in Procs : StageOK(q)'
  <2>1. tree' \in Contents /\ edited' \in BOOLEAN BY <1>1 DEF TimeInv, TypeOK
  <2> QED BY <1>1, <2>1, StageStill
<1> QED BY <1>2, <1>3, <1>4, <1>5, InvIs DEF TimeInv, StoreOK

LEMMA TimeSteps == ASSUME TimeInv, [Next]_vars PROVE TimeInv'
<1>1. CASE UNCHANGED vars BY <1>1, TimeStutters
<1>2. CASE Edit BY <1>2, EditStep
<1>3. ASSUME NEW p \in Procs, Begin(p) \/ PreRead(p) \/ Acquire(p) \/ Stop(p) PROVE TimeInv'
  BY <1>3, BeginStep, PreReadStep, AcquireStep, StopStep
<1>4. ASSUME NEW p \in Procs, Recovery(p) PROVE TimeInv'
  BY <1>4, RecoverSaveStep, RecoverRestoreStep, RolledBackStep, SettleStep, SettledStep,
     RecoverDropStep DEF Recovery
<1>5. ASSUME NEW p \in Procs, Saving(p) PROVE TimeInv'
  BY <1>5, ReuseStep, CaptureStep, CommitTreeStep, MakeRefStep, WriteChatStep, NoChatStep,
     EnterStep, EnteredStep DEF Saving
<1>6. ASSUME NEW p \in Procs, Travel(p) PROVE TimeInv'
  BY <1>6, AlreadyThereStep, ArmStep, BeginApplyStep, EndApplyStep, VerifyStep, LandStep,
     LandedStep DEF Travel
<1>7. ASSUME NEW p \in Procs, Dropping(p) PROVE TimeInv'
  BY <1>7, TrimNothingStep, AskDropStep, DropStep, ReapStep, ReapedStep DEF Dropping
<1>8. ASSUME NEW p \in Procs, Doctor(p) PROVE TimeInv'
  BY <1>8, StartSweepStep, SweepOneStep, SweepDoneStep, RepairedStep DEF Doctor
<1> QED BY <1>1, <1>2, <1>3, <1>4, <1>5, <1>6, <1>7, <1>8 DEF Next

(* What is on the disk whenever the processes stop is a store that the next  *)
(* operation can load, add to and restore from (load_ledger, normalize).     *)
THEOREM StoreSound == Spec => []Sound
<1>1. Init => TimeInv BY TimeStarts
<1>2. TimeInv /\ [Next]_vars => TimeInv' BY TimeSteps
<1>3. TimeInv => Sound BY DEF TimeInv, Shelf, Sound
<1> QED BY <1>1, <1>2, <1>3, PTL DEF Spec

(* An interrupted restore can be settled by the next operation, and no       *)
(* checkpoint was taken of the tree it left (recover_pending).               *)
THEOREM RestoreRecoverable == Spec => []Recoverable
<1>1. Init => TimeInv BY TimeStarts
<1>2. TimeInv /\ [Next]_vars => TimeInv' BY TimeSteps
<1>3. TimeInv => Recoverable BY DEF TimeInv, Shelf, Recoverable
<1> QED BY <1>1, <1>2, <1>3, PTL DEF Spec

(* What read-tree is about to overwrite is in a checkpoint, unless somebody  *)
(* has edited the tree since the restore looked (restore_in captures first). *)
THEOREM PreimagesKept == Spec => PreimageKept
<1>1. Init => TimeInv BY TimeStarts
<1>2. TimeInv /\ [Next]_vars => TimeInv' BY TimeSteps
<1>3. TimeInv => \A p \in Procs : At(p, "apply") /\ At(p, "applying")' =>
                     edited \/ \E s \in ledger.snaps : s.tree = tree
  BY DEF TimeInv, StageOK, PreOK, Kept, At
<1>4. TimeInv /\ [Next]_vars =>
        [\A p \in Procs : At(p, "apply") /\ At(p, "applying")' =>
             edited \/ \E s \in ledger.snaps : s.tree = tree]_vars
  BY <1>3
<1> QED BY <1>1, <1>2, <1>4, PTL DEF Spec, PreimageKept

\* Only the two steps that close a restore touch its journal.
LEMMA RestoreCloses ==
    ASSUME TimeInv, Next, journal # None, journal.kind = "Restore", journal' # journal
    PROVE  \E p \in Procs : Settled(p) \/ Landed(p)
<1>1. ~Edit BY DEF Edit, disk
<1>2. ASSUME NEW p \in Procs, ~Settled(p), ~Landed(p)
      PROVE  ~(\/ Begin(p) \/ PreRead(p) \/ Acquire(p) \/ Stop(p)
               \/ Recovery(p) \/ Saving(p) \/ Travel(p) \/ Dropping(p) \/ Doctor(p))
  <2>1. ~(Begin(p) \/ PreRead(p) \/ Acquire(p) \/ Stop(p))
    BY DEF Begin, PreRead, Acquire, Stop, disk
  <2>2. ~At(p, "work") /\ ~At(p, "arm") BY DEF At, TimeInv, StageOK, NoteOK
  <2>3. proc[p].pc \notin Capturing \cup {"entered"} \cup Cleansing
    BY DEF TimeInv, StageOK, NoteOK, Noted, Cleansing
  <2>4. ~Recovery(p)
    <3>1. ~RecoverSave(p) /\ ~RecoverDrop(p) BY DEF RecoverSave, RecoverDrop, Pending
    <3>2. ~RecoverRestore(p) /\ ~RolledBack(p) BY DEF RecoverRestore, RolledBack, disk
    <3>3. ~Settle(p) BY DEF Settle, SaveCursor, SaveLedger
    <3> QED BY <1>2, <3>1, <3>2, <3>3 DEF Recovery
  <2>5. ~Saving(p)
    <3>1. ~Reuse(p) /\ ~Capture(p) BY <2>2 DEF Reuse, Capture, Working
    <3>2. ~CommitTree(p) /\ ~MakeRef(p) /\ ~WriteChat(p) /\ ~NoChat(p) /\ ~Enter(p) /\ ~Entered(p)
      BY <2>3 DEF CommitTree, MakeRef, WriteChat, NoChat, Enter, Entered, At, Capturing
    <3> QED BY <3>1, <3>2 DEF Saving
  <2>6. ~Travel(p)
    <3>1. ~AlreadyThere(p) /\ ~Arm(p) BY <2>2 DEF AlreadyThere, Arm, Working
    <3>2. ~BeginApply(p) /\ ~EndApply(p) /\ ~Verify(p)
      BY DEF BeginApply, EndApply, Verify, disk
    <3>3. ~Land(p) BY DEF Land, SaveCursor, SaveLedger
    <3> QED BY <1>2, <3>1, <3>2, <3>3 DEF Travel
  <2>7. ~Dropping(p)
    <3>1. ~TrimNothing(p) /\ ~AskDrop(p) BY <2>2 DEF TrimNothing, AskDrop, Working
    <3>2. ~Drop(p) /\ ~Reap(p) /\ ~Reaped(p) BY <2>3 DEF Drop, Reap, Reaped, At, Cleansing
    <3> QED BY <3>1, <3>2 DEF Dropping
  <2>8. ~Doctor(p)
    <3>1. ~StartSweep(p) /\ ~Repaired(p) BY <2>2 DEF StartSweep, Repaired, Working
    <3>2. ~SweepOne(p) /\ ~SweepDone(p) BY <2>3 DEF SweepOne, SweepDone, At, Cleansing
    <3> QED BY <3>1, <3>2 DEF Doctor
  <2> QED BY <2>1, <2>4, <2>5, <2>6, <2>7, <2>8
<1> QED BY <1>1, <1>2 DEF Next

(* A restore, finished or settled by a later operation, is over only when    *)
(* the tree is its target or its preimage, the one the cursor then names.    *)
THEOREM RestoreEndsWhole == Spec => EndsWhole
<1>1. Init => TimeInv BY TimeStarts
<1>2. TimeInv /\ [Next]_vars => TimeInv' BY TimeSteps
<1>3. ASSUME TimeInv, Next, journal # None, journal.kind = "Restore", journal' # journal
      PROVE  /\ ledger.cursor \in {journal.id, journal.pre}
             /\ edited \/ Snap(ledger.cursor).tree = tree
  <2>1. PICK p \in Procs : Settled(p) \/ Landed(p) BY <1>3, RestoreCloses
  <2>2. CASE Settled(p)
    <3>1. proc[p].pc = "settled" BY <2>2 DEF Settled, At
    <3>2. proc[p].pre \in {journal.id, journal.pre} BY <1>3, <3>1, InRestore DEF Returning
    <3> QED BY <1>3, <3>1, <3>2 DEF TimeInv, StageOK, GoalOK
  <2>3. CASE Landed(p)
    <3>1. proc[p].pc = "landed" BY <2>3 DEF Landed, At
    <3>2. proc[p].id = journal.id BY <1>3, <3>1, InRestore DEF Placing
    <3> QED BY <1>3, <3>1, <3>2 DEF TimeInv, StageOK, GoalOK
  <2> QED BY <2>1, <2>2, <2>3
<1>4. TimeInv /\ [Next]_vars =>
        [journal # None /\ journal.kind = "Restore" /\ journal' # journal =>
            /\ ledger.cursor \in {journal.id, journal.pre}
            /\ edited \/ Snap(ledger.cursor).tree = tree]_vars
  BY <1>3
<1> QED BY <1>1, <1>2, <1>4, PTL DEF Spec, EndsWhole

-----------------------------------------------------------------------------
(* The file tools.                                                            *)
(* Which bodies a call can be, and where each can stand.                     *)
Writers   == {"write", "edit", "create", "move"}
Creating  == {"create", "fill"}
ShapeOK(b) ==
    /\ b.tool = "none" <=> b.pc = "none"
    /\ b.tool = "none" => ~b.live
    /\ b.tool # "none" => b.path \in Paths
    /\ b.tool = "read" => b.pc = "note" /\ b.was \in Content
    /\ b.tool = "write" => /\ b.pc \in {"guard", "compare", "land", "note"} \cup Creating
                           /\ b.next \in Content
    /\ b.tool = "edit" => b.pc \in {"compare", "land", "note"} /\ b.was \in Content /\ b.next \in Content
    /\ b.tool = "create" => b.pc \in {"compare"} \cup Creating /\ b.next \in Content /\ b.was = NoFile
    /\ b.tool = "move" => /\ b.pc \in {"stash", "move", "copy", "remove", "undo", "clean"}
                          /\ b.to \in Paths /\ b.to # b.path /\ b.was \in Content
                          /\ IF b.pc = "stash" THEN b.next # NoFile
                             ELSE b.next = NoFile <=> b.aside = NoFile
    /\ b.pc \in Creating => b.was = NoFile
    /\ b.pc = "land" => b.was \in Content
    /\ b.tool # "move" => b.to = Nobody /\ b.aside = NoFile

(* A turn runs its bodies under the lease, and a writing body alone.         *)
LiveOK(j) ==
    /\ job[j].live => phase[j[1]] = "turn"
    /\ \A k \in Bodies : k[1] = j[1] /\ job[k].live /\ job[j].live /\ job[j].tool # "read" => k = j

(* What the ledger has recorded, the conversation was told or not.           *)
SeenOK == \A w \in Windows, p \in Paths :
    Known(seen[w][p]) \subseteq Known(idea[w][p]) \cup hidden[w][p]

(* A whole write of a running turn: what it is made of, and what it found.   *)
Writing(b) == b.tool = "write" /\ b.live /\ b.pc \in {"guard", "compare", "land"}
LookOK(j) == LET b == job[j]  w == j[1] IN
    Writing(b) =>
        /\ Known(idea[w][b.path]) \subseteq b.next
        /\ b.pc # "guard" /\ ~b.blind =>
               Known(b.was) \subseteq Known(idea[w][b.path]) \cup hidden[w][b.path]

(* Nobody who keeps to the lease adds to the file meanwhile.                 *)
Harmless(p, x, w) == author[p][x] \in {Nobody, w} \/ phase[author[p][x]] = "gone"
PeerOK(j) == LET b == job[j] IN
    Writing(b) => \A x \in Known(file[b.path]) \ Known(b.was) : Harmless(b.path, x, j[1])

(* What a running window has put into a file it still has to claim, or the   *)
(* file is claimed.                                                          *)
Held(p, x) == LET u == author[p][x] IN
    u = Nobody \/ phase[u] = "gone" \/ p \in wrote[u] \/ owners[p] # Nobody
ClaimOK == \A p \in Paths : \A x \in Known(file[p]) : Held(p, x)

(* So a write that never looked was told of it, unless it came to the guard  *)
(* before the claim or after another one.                                    *)
BlindOK(j) == LET b == job[j] IN
    Writing(b) => \A x \in Known(b.was) : LET by == author[b.path][x] IN
        IF b.pc = "guard" THEN Held(b.path, x)
        ELSE b.blind /\ ~Harmless(b.path, x, j[1]) =>
                 by \in b.sealing \/ b.claim \notin {Nobody, by}

(* A failed move puts back what it has set aside, and takes its own note of  *)
(* the destination back only if the destination was not its window's.        *)
AsideOK(j) == LET b == job[j] IN
    b.tool = "move" /\ b.live =>
        /\ \A x \in Known(b.aside) : Held(b.to, x)
        /\ ~b.own /\ (b.pc = "stash" \/ b.aside = b.next) =>
               \A x \in Known(b.next) : author[b.to][x] = j[1] => owners[b.to] # Nobody

(* Before the first Esc: a window's last write is noted, or about to be.     *)
Noting(w, p) == \E i \in Jobs : /\ job[<<w, i>>].pc = "note" /\ job[<<w, i>>].path = p
                                /\ job[<<w, i>>].tool \in {"write", "edit"}
LeftOK == escs = 0 =>
    /\ \A j \in Bodies : job[j].tool # "none" => job[j].live
    /\ \A w \in Windows, p \in Paths : left[w][p] \in {Unseen, seen[w][p]} \/ Noting(w, p)

(* Where the two files of an undisturbed move are.                           *)
MoveOK(b) ==
    b.tool = "move" /\ ~b.disturbed =>
        /\ b.pc # "stash" => b.aside = b.next
        /\ b.pc = "stash" => file[b.path] = b.was /\ file[b.to] = b.next /\ b.aside = NoFile
        /\ b.pc = "move" => file[b.path] = b.was /\ file[b.to] = NoFile
        /\ b.pc \in {"copy", "remove", "undo"} => file[b.path] = b.was
        /\ b.pc = "remove" => file[b.to] = b.was
        /\ b.pc = "clean" => file[b.path] = NoFile /\ file[b.to] = b.was

FilesInv ==
    /\ FilesTypeOK /\ SeenOK /\ LeftOK /\ ClaimOK
    /\ \A j \in Bodies : /\ ShapeOK(job[j]) /\ LiveOK(j) /\ LookOK(j) /\ PeerOK(j)
                         /\ BlindOK(j) /\ AsideOK(j) /\ MoveOK(job[j])

-----------------------------------------------------------------------------
(* Contents and bodies.                                                      *)
LEMMA KnownType == ASSUME NEW x \in Value \cup {Unseen}
                   PROVE  Known(x) \in Content /\ (x \in Content => Known(x) = x)
BY FileConstants DEF Known, Value, Content

LEMMA KnownIs == \A c \in Content : Known(c) = c
BY FileConstants DEF Known

LEMMA KnownNothing == Known(NoFile) = {} /\ Known(Unseen) = {}
BY DEF Known

LEMMA NoJobType == NoJob \in Job /\ ShapeOK(NoJob) /\ ~NoJob.live /\ ~Writing(NoJob) /\ MoveOK(NoJob)
BY DEF NoJob, Job, Value, ShapeOK, Writing, MoveOK, Creating

LEMMA BodyIs == ASSUME NEW j \in Bodies
                PROVE  j[1] \in Windows /\ j[2] \in Jobs /\ j = <<j[1], j[2]>>
BY DEF Bodies

LEMMA BodyOf == ASSUME NEW w \in Windows, NEW i \in Jobs
                PROVE  <<w, i>> \in Bodies /\ <<w, i>>[1] = w /\ <<w, i>>[2] = i
BY DEF Bodies

(* A step of body j: it is b afterwards, and S are the files it changed.     *)
Alike(b, c, S) ==
    /\ c.tool = b.tool /\ c.path = b.path /\ c.to = b.to /\ c.pc = b.pc /\ c.live = b.live
    /\ c.was = b.was /\ c.next = b.next /\ c.aside = b.aside /\ c.sealing = b.sealing
    /\ c.claim = b.claim /\ c.blind = b.blind /\ c.own = b.own
    /\ b.tool = "move" /\ ~c.disturbed => ~b.disturbed /\ b.path \notin S /\ b.to \notin S

Swap(j, b, S) ==
    /\ job' \in [Bodies -> Job] /\ job'[j] = b
    /\ \A k \in Bodies \ {j} : Alike(job[k], job'[k], S)

LEMMA AlikeSelf == ASSUME NEW b \in Job PROVE Alike(b, b, {})
BY DEF Alike

LEMMA DisturbedAlike ==
    ASSUME job \in [Bodies -> Job], NEW S \in SUBSET Paths
    PROVE  /\ Disturbed(S) \in [Bodies -> Job]
           /\ \A k \in Bodies : Alike(job[k], Disturbed(S)[k], S)
<1>1. ASSUME NEW k \in Bodies
      PROVE  LET c == IF {job[k].path, job[k].to} \cap S # {}
                      THEN [job[k] EXCEPT !.disturbed = job[k].tool = "move"] ELSE job[k]
             IN c \in Job /\ Alike(job[k], c, S)
  <2>1. job[k] \in Job OBVIOUS
  <2>2. CASE {job[k].path, job[k].to} \cap S # {} BY <2>1, <2>2 DEF Job, Alike
  <2>3. CASE ~({job[k].path, job[k].to} \cap S # {}) BY <2>1, <2>3 DEF Alike
  <2> QED BY <2>2, <2>3
<1> QED BY <1>1 DEF Disturbed

LEMMA SwapWrites ==
    ASSUME job \in [Bodies -> Job], NEW j \in Bodies, NEW b \in Job, NEW S \in SUBSET Paths,
           Writes(j, b, S)
    PROVE  Swap(j, b, S)
BY DisturbedAlike DEF Writes, Swap

LEMMA SwapOnly ==
    ASSUME job \in [Bodies -> Job], NEW j \in Bodies, NEW b \in Job, job' = [job EXCEPT ![j] = b]
    PROVE  Swap(j, b, {})
BY AlikeSelf DEF Swap

LEMMA SwapOver ==
    ASSUME job \in [Bodies -> Job], NEW j \in Bodies, Over(j)
    PROVE  Swap(j, NoJob, {})
BY SwapOnly, NoJobType DEF Over

-----------------------------------------------------------------------------
(* What a step of one body means for the others.                             *)
LEMMA Sole ==
    ASSUME FilesInv, NEW j \in Bodies, job[j].live, job[j].tool \in Writers
    PROVE  /\ \A k \in Bodies \ {j} : ~Writing(job[k])
           /\ \A k \in Bodies \ {j} : ~(job[k].tool = "move" /\ job[k].live)
           /\ lease = j[1] /\ phase[j[1]] = "turn"
<1>1. lease = j[1] BY DEF FilesInv, FilesTypeOK, LeaseHeld, Writers
<1>2. ASSUME NEW k \in Bodies \ {j}, Writing(job[k]) \/ (job[k].tool = "move" /\ job[k].live)
      PROVE  FALSE
  <2>1. lease = k[1] BY <1>2 DEF FilesInv, FilesTypeOK, LeaseHeld, Writing
  <2> QED BY <1>1, <1>2, <2>1 DEF FilesInv, LiveOK, Writing, Writers
<1>3. phase[j[1]] = "turn" BY DEF FilesInv, LiveOK
<1> QED BY <1>1, <1>2, <1>3

\* What is put into a file without the lease is nobody's, and so is what is no longer
\* noted as written.
Unsigned ==
    /\ \A p \in Paths, x \in 1..MaxEdits : author'[p][x] \in {author[p][x], Nobody}
    /\ \A p \in Paths : \A x \in Known(file'[p]) \ Known(file[p]) : author'[p][x] = Nobody
    /\ \A p \in Paths, w \in Windows :
           p \notin wrote[w] \/ p \in wrote'[w] \/ \A x \in 1..MaxEdits : author'[p][x] = Nobody

\* A window whose write is pending learns nothing and forgets nothing.
Minds(j) ==
    \A k \in Bodies \ {j} : Writing(job[k]) =>
        /\ idea'[k[1]] = idea[k[1]]
        /\ \A p \in Paths : hidden[k[1]][p] \subseteq hidden'[k[1]][p] \cup Known(idea[k[1]][p])

LEMMA AuthorIs ==
    ASSUME FilesInv, NEW p \in Paths, NEW x \in 1..MaxEdits
    PROVE  author[p][x] \in Windows \cup {Nobody}
<1>1. author \in [Paths -> [1..MaxEdits -> Windows \cup {Nobody}]] BY DEF FilesInv, FilesTypeOK, Typed
<1>2. author[p] \in [1..MaxEdits -> Windows \cup {Nobody}] BY <1>1
<1> QED BY <1>2

LEMMA HeldStill ==
    ASSUME FilesInv, UNCHANGED <<phase, owners>>, Unsigned, NEW p \in Paths, NEW x \in 1..MaxEdits
    PROVE  /\ author'[p][x] \in {author[p][x], Nobody}
           /\ Held(p, x) => Held(p, x)'
           /\ \A w : Harmless(p, x, w) => Harmless(p, x, w)'
<1>1. author'[p][x] \in {author[p][x], Nobody} /\ author[p][x] \in Windows \cup {Nobody}
  BY AuthorIs DEF Unsigned
<1>2. \A w : Harmless(p, x, w) => Harmless(p, x, w)' BY <1>1 DEF Harmless
<1>3. ASSUME Held(p, x) PROVE Held(p, x)'
  <2>1. CASE author'[p][x] = Nobody BY <2>1 DEF Held
  <2>2. CASE author'[p][x] # Nobody
    <3>1. author'[p][x] = author[p][x] /\ author[p][x] \in Windows BY <1>1, <2>2
    <3>2. p \in wrote[author[p][x]] => p \in wrote'[author[p][x]] BY <2>2, <3>1 DEF Unsigned
    <3> QED BY <1>3, <3>1, <3>2 DEF Held
  <2> QED BY <2>1, <2>2
<1> QED BY <1>1, <1>2, <1>3

LEMMA ClaimStill ==
    ASSUME FilesInv, UNCHANGED <<phase, owners>>, Unsigned
    PROVE  ClaimOK'
<1> SUFFICES ASSUME NEW p \in Paths, NEW x \in Known(file'[p]) PROVE Held(p, x)'
  BY DEF ClaimOK
<1>1. CASE x \in Known(file[p])
  <2>1. Held(p, x) BY <1>1 DEF FilesInv, ClaimOK
  <2>2. file[p] \in Value BY DEF FilesInv, FilesTypeOK, Typed
  <2>3. x \in 1..MaxEdits BY <1>1, <2>2, KnownType DEF Content
  <2> QED BY <2>1, <2>3, HeldStill
<1>2. CASE x \notin Known(file[p])
  <2>1. author'[p][x] = Nobody BY <1>2 DEF Unsigned
  <2> QED BY <2>1 DEF Held
<1> QED BY <1>1, <1>2

LEMMA PeerStill ==
    ASSUME FilesInv, NEW k \in Bodies, NEW S, Alike(job[k], job'[k], S),
           UNCHANGED <<phase, owners>>, Unsigned
    PROVE  PeerOK(k)' /\ BlindOK(k)'
<1> SUFFICES ASSUME Writing(job[k]) PROVE PeerOK(k)' /\ BlindOK(k)'
  BY DEF Alike, Writing, PeerOK, BlindOK
<1>1. PeerOK(k) /\ BlindOK(k) BY DEF FilesInv
<1>2. PICK p \in Paths, b \in Job : b = job[k] /\ p = b.path /\ b.was \in Value
  BY DEF FilesInv, ShapeOK, Writing, FilesTypeOK, Typed, Job
<1>3. job'[k].path = p /\ Alike(b, job'[k], S) BY <1>2 DEF Alike
<1>4. ASSUME NEW x \in Known(file'[p]) \ Known(b.was) PROVE Harmless(p, x, k[1])'
  <2>1. CASE x \in Known(file[p])
    <3>1. Harmless(p, x, k[1]) BY <1>1, <1>2, <1>4, <2>1 DEF PeerOK
    <3>2. file[p] \in Value BY DEF FilesInv, FilesTypeOK, Typed
    <3>3. x \in 1..MaxEdits BY <2>1, <3>2, KnownType DEF Content
    <3> QED BY <3>1, <3>3, HeldStill
  <2>2. CASE x \notin Known(file[p])
    <3>1. author'[p][x] = Nobody BY <1>4, <2>2 DEF Unsigned
    <3> QED BY <3>1 DEF Harmless
  <2> QED BY <2>1, <2>2
<1>5. ASSUME NEW x \in Known(b.was)
      PROVE  /\ b.pc = "guard" => Held(p, x)'
             /\ b.pc # "guard" /\ b.blind /\ ~Harmless(p, x, k[1])' =>
                    author'[p][x] \in b.sealing \/ b.claim \notin {Nobody, author'[p][x]}
  <2>1. x \in 1..MaxEdits BY <1>2, KnownType DEF Content
  <2>2. /\ author'[p][x] \in {author[p][x], Nobody}
        /\ Held(p, x) => Held(p, x)'
        /\ Harmless(p, x, k[1]) => Harmless(p, x, k[1])'
    BY <2>1, HeldStill
  <2>3. b.pc = "guard" => Held(p, x)' BY <1>1, <1>2, <2>2 DEF BlindOK
  <2>4. ASSUME b.pc # "guard", b.blind, ~Harmless(p, x, k[1])'
        PROVE  author'[p][x] \in b.sealing \/ b.claim \notin {Nobody, author'[p][x]}
    <3>1. author'[p][x] = author[p][x] BY <2>2, <2>4 DEF Harmless
    <3>2. ~Harmless(p, x, k[1]) BY <2>2, <2>4
    <3> QED BY <1>1, <1>2, <2>4, <3>1, <3>2 DEF BlindOK
  <2> QED BY <2>3, <2>4
<1>6. PeerOK(k)' BY <1>3, <1>4 DEF PeerOK, Alike
<1>7. BlindOK(k)' BY <1>3, <1>5 DEF BlindOK, Alike
<1> QED BY <1>6, <1>7

LEMMA AsideStill ==
    ASSUME FilesInv, NEW k \in Bodies, NEW S, Alike(job[k], job'[k], S),
           UNCHANGED <<phase, owners>>, Unsigned
    PROVE  AsideOK(k)'
<1> SUFFICES ASSUME job[k].tool = "move", job[k].live PROVE AsideOK(k)'
  BY DEF Alike, AsideOK
<1>1. AsideOK(k) /\ k[1] # Nobody BY BodyIs, FileConstants DEF FilesInv
<1>2. PICK q \in Paths, b \in Job : b = job[k] /\ q = b.to /\ b.aside \in Value /\ b.next \in Value
  BY DEF FilesInv, ShapeOK, FilesTypeOK, Typed, Job
<1>3. job'[k].to = q /\ Alike(b, job'[k], S) BY <1>2 DEF Alike
<1>4. Known(b.aside) \subseteq 1..MaxEdits /\ Known(b.next) \subseteq 1..MaxEdits
  BY <1>2, KnownType DEF Content
<1>5. ASSUME NEW x \in Known(b.aside) PROVE Held(q, x)'
  BY <1>1, <1>2, <1>4, HeldStill DEF AsideOK
<1>6. ASSUME NEW x \in Known(b.next), ~b.own, b.pc = "stash" \/ b.aside = b.next,
             author'[q][x] = k[1]
      PROVE  owners'[q] # Nobody
  <2>1. author'[q][x] \in {author[q][x], Nobody} BY <1>4, HeldStill
  <2> QED BY <1>1, <1>2, <1>6, <2>1 DEF AsideOK
<1> QED BY <1>3, <1>5, <1>6 DEF AsideOK, Alike

LEMMA OthersLook ==
    ASSUME FilesInv, NEW j \in Bodies, NEW b, NEW S, Swap(j, b, S), NEW k \in Bodies \ {j}, Minds(j)
    PROVE  LookOK(k)'
<1>1. LookOK(k) /\ Alike(job[k], job'[k], S) BY DEF FilesInv, Swap
<1>2. SUFFICES ASSUME Writing(job[k])
               PROVE  LET b1 == job[k]  w == k[1] IN
                      /\ Known(idea'[w][b1.path]) \subseteq b1.next
                      /\ b1.pc # "guard" /\ ~b1.blind =>
                             Known(b1.was) \subseteq Known(idea'[w][b1.path]) \cup hidden'[w][b1.path]
  BY <1>1 DEF LookOK, Writing, Alike
<1>3. job[k].path \in Paths BY <1>2 DEF FilesInv, ShapeOK, Writing
<1>4. /\ idea'[k[1]] = idea[k[1]]
      /\ \A p \in Paths : hidden[k[1]][p] \subseteq hidden'[k[1]][p] \cup Known(idea[k[1]][p])
  BY <1>2 DEF Minds
<1> QED BY <1>1, <1>2, <1>3, <1>4 DEF LookOK

LEMMA OthersMove ==
    ASSUME FilesInv, NEW j \in Bodies, NEW b, NEW S, Swap(j, b, S), NEW k \in Bodies \ {j},
           \A p \in Paths \ S : file'[p] = file[p]
    PROVE  MoveOK(job[k])'
<1>1. MoveOK(job[k]) /\ Alike(job[k], job'[k], S) /\ ShapeOK(job[k]) BY DEF FilesInv, Swap
<1>2. SUFFICES ASSUME job[k].tool = "move", ~job'[k].disturbed
               PROVE  MoveOK(job[k])'
  BY <1>1 DEF MoveOK, Alike
<1>3. job[k].path \in Paths \ S /\ job[k].to \in Paths \ S BY <1>1, <1>2 DEF ShapeOK, Alike
<1>4. file'[job[k].path] = file[job[k].path] /\ file'[job[k].to] = file[job[k].to] BY <1>3
<1> QED BY <1>1, <1>2, <1>4 DEF MoveOK, Alike

\* The whole invariant after a step of body j, from what it owes for itself.
LEMMA Work ==
    ASSUME FilesInv, NEW j \in Bodies, NEW b \in Job, NEW S \in SUBSET Paths, Swap(j, b, S),
           ShapeOK(b), b.live => job[j].live /\ b.tool = job[j].tool,
           UNCHANGED <<phase, lease, owners>>,
           (~job[j].live \/ job[j].tool \notin Writers) => Unsigned /\ Minds(j),
           job[j].live /\ job[j].tool \in Writers => ClaimOK',
           \A p \in Paths \ S : file'[p] = file[p],
           Typed', SeenOK', LeftOK', LookOK(j)', PeerOK(j)', BlindOK(j)', AsideOK(j)', MoveOK(b)'
    PROVE  FilesInv'
<1>1. ASSUME NEW k \in Bodies
      PROVE  ShapeOK(job[k])' /\ (job'[k].live => job[k].live /\ job'[k].tool = job[k].tool)
  <2>1. CASE k = j BY <2>1 DEF Swap, ShapeOK
  <2>2. CASE k # j BY <2>2 DEF Swap, Alike, FilesInv, ShapeOK
  <2> QED BY <2>1, <2>2
<1>2. LeaseHeld' BY <1>1 DEF FilesInv, FilesTypeOK, LeaseHeld
<1>3. ASSUME NEW k \in Bodies PROVE LiveOK(k)'
  BY <1>1 DEF FilesInv, LiveOK
<1>4. ASSUME NEW k \in Bodies \ {j}
      PROVE  LookOK(k)' /\ PeerOK(k)' /\ BlindOK(k)' /\ AsideOK(k)' /\ MoveOK(job[k])'
  <2>1. MoveOK(job[k])' BY OthersMove
  <2>2. CASE ~job[j].live \/ job[j].tool \notin Writers
    <3>1. Alike(job[k], job'[k], S) BY DEF Swap
    <3> QED BY <2>1, <2>2, <3>1, PeerStill, OthersLook, AsideStill
  <2>3. CASE job[j].live /\ job[j].tool \in Writers
    <3>1. ~Writing(job[k]) /\ ~(job[k].tool = "move" /\ job[k].live) BY <2>3, Sole
    <3>2. ~Writing(job'[k]) /\ ~(job'[k].tool = "move" /\ job'[k].live)
      BY <3>1 DEF Swap, Alike, Writing
    <3> QED BY <2>1, <3>2 DEF LookOK, PeerOK, BlindOK, AsideOK
  <2> QED BY <2>2, <2>3
<1>5. MoveOK(job[j])' BY DEF Swap
<1>6. ClaimOK' BY ClaimStill
<1> QED BY <1>1, <1>2, <1>3, <1>4, <1>5, <1>6 DEF FilesInv, FilesTypeOK

\* What a window is about to note, it still is after a step of another body.
LEMMA NotingSame ==
    ASSUME NEW j \in Bodies, NEW b, NEW S, Swap(j, b, S), NEW w \in Windows, NEW p \in Paths,
           Noting(w, p), job[j].pc # "note" \/ w # j[1] \/ p # job[j].path
    PROVE  Noting(w, p)'
<1>1. PICK i \in Jobs : /\ job[<<w, i>>].pc = "note" /\ job[<<w, i>>].path = p
                        /\ job[<<w, i>>].tool \in {"write", "edit"}
  BY DEF Noting
<1>2. <<w, i>> \in Bodies \ {j} BY <1>1, BodyOf
<1> QED BY <1>1, <1>2 DEF Noting, Swap, Alike

\* A step of a body that is not about to note anything leaves the notes alone.
LEMMA LeftSame ==
    ASSUME FilesInv, NEW j \in Bodies, NEW b, NEW S, Swap(j, b, S), job[j].pc # "note",
           UNCHANGED <<left, seen, escs>>, b.tool # "none" => b.live = job[j].live /\ job[j].tool # "none"
    PROVE  LeftOK'
<1>1. SUFFICES ASSUME escs = 0 PROVE LeftOK' BY DEF LeftOK
<1>2. ASSUME NEW k \in Bodies, job'[k].tool # "none" PROVE job'[k].live
  BY <1>1, <1>2 DEF FilesInv, LeftOK, Swap, Alike
<1>3. ASSUME NEW w \in Windows, NEW p \in Paths, Noting(w, p) PROVE Noting(w, p)'
  BY <1>3, NotingSame
<1> QED BY <1>1, <1>2, <1>3 DEF FilesInv, LeftOK

-----------------------------------------------------------------------------
(* The steps of a body that change no file: guard, compare, a failure.       *)
LEMMA Pure ==
    ASSUME FilesInv, NEW j \in Bodies, NEW b \in Job, Swap(j, b, {}), ShapeOK(b),
           Quiet, UNCHANGED <<seen, idea, ghosts>>, job[j].pc # "note", job[j].tool # "none",
           b = NoJob \/ (/\ b.live = job[j].live /\ b.tool = job[j].tool
                         /\ b.path = job[j].path /\ b.was = job[j].was
                         /\ Writing(b) => Writing(job[j])),
           LookOK(j)', BlindOK(j)', AsideOK(j)', MoveOK(b)
    PROVE  FilesInv'
<1>1. Unsigned /\ Minds(j) BY DEF Quiet, Unsigned, Minds, ghosts, turns
<1>2. Typed' BY DEF FilesInv, FilesTypeOK, Typed, Quiet, ghosts, turns, bounds, Swap
<1>3. SeenOK' BY DEF FilesInv, SeenOK, Quiet, ghosts
<1>4. b.live => job[j].live /\ b.tool = job[j].tool BY NoJobType
<1>5. b.tool # "none" => b.live = job[j].live /\ job[j].tool # "none" BY DEF NoJob
<1>6. LeftOK' BY <1>5, LeftSame DEF Quiet, ghosts, bounds
<1>7. PeerOK(j)'
  <2>1. ~Writing(NoJob) BY NoJobType
  <2>2. PeerOK(j) /\ job'[j] = b BY DEF FilesInv, Swap
  <2> QED BY <2>1, <2>2 DEF PeerOK, Quiet, turns, Harmless
<1>8. MoveOK(b)' BY DEF MoveOK, Quiet
<1>9. ClaimOK' BY DEF FilesInv, ClaimOK, Held, Quiet, turns
<1>10. UNCHANGED <<phase, lease, owners, file>> BY DEF Quiet, turns
<1> QED BY <1>1, <1>2, <1>3, <1>4, <1>6, <1>7, <1>8, <1>9, <1>10, Work

LEMMA JobIs == ASSUME FilesInv, NEW j \in Bodies PROVE job[j] \in Job /\ job \in [Bodies -> Job]
BY DEF FilesInv, FilesTypeOK, Typed

\* A body that is over owes nothing.
LEMMA OverOwes ==
    ASSUME NEW j \in Bodies, NEW S, Swap(j, NoJob, S)
    PROVE  LookOK(j)' /\ PeerOK(j)' /\ BlindOK(j)' /\ AsideOK(j)' /\ MoveOK(NoJob)'
<1>1. job'[j] = NoJob /\ ~Writing(NoJob) /\ ~NoJob.live BY NoJobType DEF Swap
<1>2. MoveOK(NoJob)' BY DEF MoveOK, NoJob
<1> QED BY <1>1, <1>2 DEF LookOK, PeerOK, BlindOK, AsideOK

LEMMA GuardStep == ASSUME FilesInv, NEW j \in Bodies, Guard(j) PROVE FilesInv'
<1> DEFINE w == j[1]  p == job[j].path
           c == [job[j] EXCEPT !.pc = "compare", !.blind = (seen[w][p] = Unseen),
                               !.claim = owners[p], !.sealing = {x \in Windows : p \in wrote[x]}]
           stale == job[j].was # NoFile /\ Stale(w, p, job[j].was)
<1>1. /\ job[j].pc = "guard" /\ Quiet /\ UNCHANGED <<seen, idea, ghosts>>
      /\ IF stale THEN Over(j)
         ELSE job' = [job EXCEPT ![j] = c]
  BY DEF Guard, Stands
<1>2. job[j] \in Job /\ job \in [Bodies -> Job] BY JobIs
<1>3. ShapeOK(job[j]) /\ LookOK(j) /\ BlindOK(j) BY DEF FilesInv
<1>4. job[j].tool = "write" /\ p \in Paths /\ w \in Windows
  <2>1. job[j].tool = "write" /\ p \in Paths BY <1>1, <1>2, <1>3 DEF ShapeOK, Creating, Job
  <2> QED BY <2>1, BodyIs
<1>5. CASE stale
  <2>1. Swap(j, NoJob, {}) BY <1>1, <1>2, <1>5, SwapOver
  <2>2. LookOK(j)' /\ BlindOK(j)' /\ AsideOK(j)' BY <2>1, OverOwes
  <2> QED BY <1>1, <1>4, <2>1, <2>2, NoJobType, Pure
<1>6. CASE ~stale
  <2>1. c \in Job
    <3>1. owners[p] \in Windows \cup {Nobody} BY <1>4 DEF FilesInv, FilesTypeOK, Typed
    <3> QED BY <1>2, <3>1 DEF Job
  <2>2. job' = [job EXCEPT ![j] = c] BY <1>1, <1>6
  <2>3. Swap(j, c, {}) BY <1>2, <2>1, <2>2, SwapOnly
  <2>4. ShapeOK(c) BY <1>1, <1>2, <1>3, <1>4 DEF ShapeOK, Job, Creating
  <2>5. /\ c.live = job[j].live /\ c.tool = job[j].tool /\ c.path = p /\ c.was = job[j].was
        /\ c.next = job[j].next /\ c.pc = "compare" /\ (c.blind <=> seen[w][p] = Unseen)
        /\ c.claim = owners[p] /\ c.sealing = {x \in Windows : p \in wrote[x]}
    BY <1>2 DEF Job
  <2>6. Writing(c) => Writing(job[j]) BY <1>1, <2>5 DEF Writing
  <2>7. LookOK(j)'
    <3>1. ASSUME Writing(c) PROVE Known(idea[w][p]) \subseteq c.next
      BY <1>3, <2>5, <2>6, <3>1 DEF LookOK
    <3>2. ASSUME ~c.blind PROVE Known(c.was) \subseteq Known(idea[w][p]) \cup hidden[w][p]
      <4>1. c.was = NoFile \/ c.was = seen[w][p] BY <1>6, <2>5, <3>2 DEF Stale
      <4>2. Known(seen[w][p]) \subseteq Known(idea[w][p]) \cup hidden[w][p]
        BY <1>4 DEF FilesInv, SeenOK
      <4> QED BY <4>1, <4>2, KnownNothing
    <3>3. job'[j] = c BY <2>3 DEF Swap
    <3> QED BY <1>1, <2>5, <3>1, <3>2, <3>3 DEF LookOK, ghosts
  <2>8. MoveOK(c) BY <1>4, <2>5 DEF MoveOK
  <2>9. AsideOK(j)' BY <1>4, <2>3, <2>5 DEF AsideOK, Swap
  <2>10. BlindOK(j)'
    <3> SUFFICES ASSUME Writing(c), NEW x \in Known(c.was), c.blind, ~Harmless(p, x, w)
                 PROVE  author[p][x] \in c.sealing \/ c.claim \notin {Nobody, author[p][x]}
      <4>1. job'[j] = c /\ author' = author /\ phase' = phase
        BY <1>1, <2>3 DEF Swap, Quiet, turns
      <4> QED BY <2>5, <4>1 DEF BlindOK, Harmless
    <3>1. author[p][x] \in Windows /\ phase[author[p][x]] # "gone" /\ author[p][x] # w
      <4>1. c.was \in Value BY <2>1 DEF Job
      <4>2. x \in 1..MaxEdits BY <4>1, KnownType DEF Content
      <4>3. author[p][x] \in Windows \cup {Nobody} BY <1>4, <4>2, AuthorIs
      <4> QED BY <4>3 DEF Harmless
    <3>2. Held(p, x) BY <1>1, <1>3, <2>5, <2>6 DEF BlindOK
    <3>3. CASE p \in wrote[author[p][x]] BY <2>5, <3>1, <3>3
    <3>4. CASE owners[p] # Nobody
      <4>1. job[j].was # NoFile BY <2>5, KnownNothing
      <4>2. ~Claimed(w, p) BY <1>6, <2>5, <4>1 DEF Stale
      <4> QED BY <2>5, <3>1, <3>4, <4>2 DEF Claimed
    <3>5. author[p][x] # Nobody BY <3>1, FileConstants
    <3> QED BY <3>1, <3>2, <3>3, <3>4, <3>5 DEF Held
  <2> HIDE DEF c
  <2> QED BY <1>1, <1>4, <2>1, <2>3, <2>4, <2>5, <2>6, <2>7, <2>8, <2>9, <2>10, Pure
<1> QED BY <1>5, <1>6

Places == {"none", "guard", "compare", "land", "create", "fill", "note", "stash", "move",
           "copy", "remove", "undo", "clean"}

\* The body moves on to pc.
OnTo(j, pc) == [job[j] EXCEPT !.pc = pc]
Moves(b, c) == /\ c.tool = b.tool /\ c.path = b.path /\ c.to = b.to /\ c.live = b.live
               /\ c.was = b.was /\ c.next = b.next /\ c.aside = b.aside
               /\ c.sealing = b.sealing /\ c.claim = b.claim /\ c.blind = b.blind
               /\ c.own = b.own /\ c.disturbed = b.disturbed

LEMMA OnToIs ==
    ASSUME FilesInv, NEW j \in Bodies, NEW pc \in Places
    PROVE  OnTo(j, pc) \in Job /\ Moves(job[j], OnTo(j, pc)) /\ OnTo(j, pc).pc = pc
<1>1. job[j] \in Job BY JobIs
<1> QED BY <1>1 DEF OnTo, Moves, Job, Places

LEMMA GotoSwaps ==
    ASSUME FilesInv, NEW j \in Bodies, NEW pc \in Places, Goto(j, pc)
    PROVE  Swap(j, OnTo(j, pc), {})
<1>1. job[j] \in Job /\ job \in [Bodies -> Job] BY JobIs
<1>2. job' = [job EXCEPT ![j] = OnTo(j, pc)] BY <1>1 DEF Goto, OnTo
<1> QED BY <1>1, <1>2, OnToIs, SwapOnly

LEMMA CompareStep == ASSUME FilesInv, NEW j \in Bodies, Compare(j) PROVE FilesInv'
<1> DEFINE pc == IF job[j].was = NoFile THEN "create" ELSE "land"
<1>1. /\ job[j].pc = "compare" /\ Quiet /\ UNCHANGED <<seen, idea, ghosts>>
      /\ Over(j) \/ Goto(j, pc)
  BY DEF Compare, Stands
<1>2. job[j] \in Job /\ job \in [Bodies -> Job] BY JobIs
<1>3. ShapeOK(job[j]) /\ LookOK(j) /\ BlindOK(j) BY DEF FilesInv
<1>4. job[j].tool \in {"write", "edit", "create"} BY <1>1, <1>2, <1>3 DEF ShapeOK, Job
<1>5. CASE Over(j)
  <2>1. Swap(j, NoJob, {}) BY <1>2, <1>5, SwapOver
  <2>2. LookOK(j)' /\ BlindOK(j)' /\ AsideOK(j)' BY <2>1, OverOwes
  <2> QED BY <1>1, <1>4, <2>1, <2>2, NoJobType, Pure
<1>6. CASE Goto(j, pc)
  <2>1. pc \in Places BY DEF Places
  <2>2. PICK c \in Job : Swap(j, c, {}) /\ Moves(job[j], c) /\ c.pc = pc
    BY <1>6, <2>1, OnToIs, GotoSwaps
  <2>3. ShapeOK(c)
    <3>1. job[j].was \in Content \cup {NoFile} BY <1>2 DEF Job, Value
    <3>2. NoFile \notin Content BY FileConstants
    <3>3. ShapeOK(job[j]) /\ Moves(job[j], c) BY <1>3, <2>2
    <3>4. CASE job[j].was = NoFile
      BY <1>1, <1>4, <2>2, <3>2, <3>3, <3>4 DEF ShapeOK, Moves, Creating
    <3>5. CASE job[j].was # NoFile
      BY <1>1, <1>4, <2>2, <3>1, <3>3, <3>5 DEF ShapeOK, Moves, Creating
    <3> QED BY <3>4, <3>5
  <2>4. Writing(c) => Writing(job[j]) BY <1>1, <2>2 DEF Writing, Moves
  <2>5. LookOK(j)'
    <3>1. job'[j] = c BY <2>2 DEF Swap
    <3> QED BY <1>1, <1>3, <2>2, <2>4, <3>1 DEF LookOK, Moves, ghosts
  <2>6. MoveOK(c) BY <1>4, <2>2 DEF MoveOK, Moves
  <2>7. AsideOK(j)' BY <1>4, <2>2 DEF AsideOK, Swap, Moves
  <2>8. BlindOK(j)'
    <3>1. job'[j] = c /\ UNCHANGED <<author, phase>> BY <1>1, <2>2 DEF Swap, Quiet, turns
    <3> QED BY <1>1, <1>3, <2>2, <2>4, <3>1 DEF BlindOK, Moves, Harmless
  <2> QED BY <1>1, <1>4, <2>2, <2>3, <2>4, <2>5, <2>6, <2>7, <2>8, Pure DEF Moves
<1> QED BY <1>1, <1>5, <1>6

LEMMA FailStep == ASSUME FilesInv, NEW j \in Bodies, Fail(j) PROVE FilesInv'
<1>1. /\ job[j].pc \in {"move", "copy", "remove"} /\ Quiet /\ UNCHANGED <<seen, idea, ghosts>>
      /\ Goto(j, "undo")
  BY DEF Fail, Stands
<1>2. job[j] \in Job BY JobIs
<1>3. ShapeOK(job[j]) /\ MoveOK(job[j]) /\ AsideOK(j) BY DEF FilesInv
<1>4. job[j].tool = "move" BY <1>1, <1>2, <1>3 DEF ShapeOK, Job, Creating
<1>5. PICK c \in Job : Swap(j, c, {}) /\ Moves(job[j], c) /\ c.pc = "undo"
  BY <1>1, OnToIs, GotoSwaps DEF Places
<1>6. ShapeOK(c) BY <1>1, <1>3, <1>4, <1>5 DEF ShapeOK, Moves, Creating
<1>7. ~Writing(c) BY <1>4, <1>5 DEF Writing, Moves
<1>8. LookOK(j)' /\ BlindOK(j)' BY <1>5, <1>7 DEF LookOK, BlindOK, Swap
<1>9. MoveOK(c) BY <1>1, <1>3, <1>5 DEF MoveOK, Moves
<1>10. AsideOK(j)'
  <2>1. job'[j] = c /\ UNCHANGED <<author, phase, wrote, owners>>
    BY <1>1, <1>5 DEF Swap, Quiet, turns
  <2> QED BY <1>1, <1>3, <1>5, <2>1 DEF AsideOK, Moves, Held
<1> QED BY <1>1, <1>4, <1>5, <1>6, <1>7, <1>8, <1>9, <1>10, Pure DEF Moves

-----------------------------------------------------------------------------
(* The note, and with it the result.                                         *)
LEMMA NoteStep == ASSUME FilesInv, NEW j \in Bodies, Note(j) PROVE FilesInv'
<1> DEFINE w == j[1]  p == job[j].path
           x == IF job[j].tool = "read" THEN job[j].was ELSE job[j].next
<1>1. /\ job[j].pc = "note" /\ Over(j) /\ Quiet /\ Record(w, p, x)
      /\ idea' = [idea EXCEPT ![w][p] = Told(j)]
      /\ hidden' = [hidden EXCEPT ![w][p] = (x \cup IF job[j].live THEN {} ELSE @) \ Known(Told(j))]
  BY DEF Note, Stands, Notes
<1>2. job[j] \in Job /\ job \in [Bodies -> Job] BY JobIs
<1>3. ShapeOK(job[j]) BY DEF FilesInv
<1>4. w \in Windows BY BodyIs
<1>5. job[j].tool \in {"read", "write", "edit"} /\ p \in Paths /\ x \in Content
  BY <1>1, <1>2, <1>3 DEF ShapeOK, Job, Creating
<1>6. Swap(j, NoJob, {}) BY <1>1, <1>2, SwapOver
<1>7. Typed BY DEF FilesInv, FilesTypeOK
<1>8. idea[w][p] \in Content \cup {Unseen} /\ hidden[w][p] \in Content
  BY <1>4, <1>5, <1>7 DEF Typed
<1>9. Told(j) \in Content \cup {Unseen} /\ (~job[j].live => Told(j) = idea[w][p])
  <2>1. CASE ~job[j].live BY <1>8, <2>1 DEF Told
  <2>2. CASE job[j].live /\ job[j].tool = "edit"
    <3>1. Told(j) = Known(idea[w][p]) \cup (job[j].next \ job[j].was) BY <2>2 DEF Told
    <3>2. Known(idea[w][p]) \in Content
      <4>1. idea[w][p] \in Value \cup {Unseen} BY <1>8 DEF Value
      <4> QED BY <4>1, KnownType
    <3>3. job[j].next \in Content BY <1>5, <2>2
    <3>4. Told(j) \in Content BY <3>1, <3>2, <3>3 DEF Content
    <3> QED BY <2>2, <3>4
  <2>3. CASE job[j].live /\ job[j].tool # "edit" BY <1>5, <2>3 DEF Told
  <2> QED BY <2>1, <2>2, <2>3
<1>10. PICK h \in Content : /\ h = (x \cup IF job[j].live THEN {} ELSE hidden[w][p]) \ Known(Told(j))
                            /\ hidden' = [hidden EXCEPT ![w][p] = h]
  <2> DEFINE h == (x \cup IF job[j].live THEN {} ELSE hidden[w][p]) \ Known(Told(j))
  <2>1. h \in Content BY <1>5, <1>8 DEF Content
  <2>2. hidden' = [hidden EXCEPT ![w][p] = h] BY <1>1
  <2> QED BY <2>1, <2>2
<1>11. Typed'
  <2>1. seen' \in [Windows -> [Paths -> Content \cup {Unseen}]] BY <1>1, <1>4, <1>5, <1>7 DEF Typed, Record
  <2>2. left' \in [Windows -> [Paths -> Content \cup {Unseen}]] BY <1>1, <1>4, <1>5, <1>7 DEF Typed, Record
  <2>3. idea' \in [Windows -> [Paths -> Content \cup {Unseen}]] BY <1>1, <1>4, <1>5, <1>7, <1>9 DEF Typed
  <2>4. hidden' \in [Windows -> [Paths -> Content]] BY <1>4, <1>5, <1>7, <1>10 DEF Typed
  <2>5. job' \in [Bodies -> Job] BY <1>6 DEF Swap
  <2> QED BY <1>1, <1>7, <2>1, <2>2, <2>3, <2>4, <2>5 DEF Typed, Quiet, turns, bounds
<1>12. SeenOK'
  <2> SUFFICES ASSUME NEW v \in Windows, NEW q \in Paths
               PROVE  Known(seen'[v][q]) \subseteq Known(idea'[v][q]) \cup hidden'[v][q]
    BY DEF SeenOK
  <2>1. CASE v = w /\ q = p
    <3>1. seen'[v][q] = x /\ idea'[v][q] = Told(j) /\ hidden'[v][q] = h
      BY <1>1, <1>4, <1>5, <1>7, <1>10, <2>1 DEF Typed, Record
    <3>2. Known(x) = x BY <1>5, KnownIs
    <3> QED BY <1>10, <3>1, <3>2
  <2>2. CASE ~(v = w /\ q = p)
    <3>1. seen'[v][q] = seen[v][q] /\ idea'[v][q] = idea[v][q] /\ hidden'[v][q] = hidden[v][q]
      BY <1>1, <1>4, <1>5, <1>7, <1>10, <2>2 DEF Typed, Record
    <3> QED BY <3>1 DEF FilesInv, SeenOK
  <2> QED BY <2>1, <2>2
<1>13. LeftOK'
  <2> SUFFICES ASSUME escs = 0 PROVE LeftOK' BY <1>1 DEF LeftOK, Quiet, bounds
  <2>1. ASSUME NEW k \in Bodies, job'[k].tool # "none" PROVE job'[k].live
    BY <1>6, <2>1 DEF FilesInv, LeftOK, Swap, Alike, NoJob
  <2>2. ASSUME NEW v \in Windows, NEW q \in Paths
        PROVE  left'[v][q] \in {Unseen, seen'[v][q]} \/ Noting(v, q)'
    <3>1. CASE v = w /\ q = p
      BY <1>1, <1>4, <1>5, <1>7, <3>1 DEF Typed, Record
    <3>2. CASE ~(v = w /\ q = p)
      <4>1. seen'[v][q] = seen[v][q] /\ left'[v][q] = left[v][q]
        BY <1>1, <1>4, <1>5, <1>7, <3>2 DEF Typed, Record
      <4>2. Noting(v, q) => Noting(v, q)' BY <1>6, <3>2, NotingSame
      <4> QED BY <4>1, <4>2 DEF FilesInv, LeftOK
    <3> QED BY <3>1, <3>2
  <2> QED BY <2>1, <2>2 DEF LeftOK
<1>14. ASSUME ~job[j].live \/ job[j].tool \notin Writers PROVE Unsigned /\ Minds(j)
  <2>1. Unsigned BY <1>1 DEF Quiet, Unsigned, turns
  <2>2. ASSUME NEW k \in Bodies \ {j}, Writing(job[k])
        PROVE  /\ idea'[k[1]] = idea[k[1]]
               /\ \A q \in Paths : hidden[k[1]][q] \subseteq hidden'[k[1]][q] \cup Known(idea[k[1]][q])
    <3>1. CASE k[1] # w
      BY <1>1, <1>4, <1>10, <3>1
    <3>2. CASE k[1] = w
      <4>1. ~job[j].live
        <5>1. k[1] = j[1] /\ job[k].live /\ job[k].tool # "read" BY <2>2, <3>2 DEF Writing
        <5> QED BY <5>1 DEF FilesInv, LiveOK
      <4>2. idea'[w] = idea[w] BY <1>1, <1>4, <1>5, <1>7, <1>9, <4>1 DEF Typed
      <4>3. h = (x \cup hidden[w][p]) \ Known(idea[w][p]) BY <1>9, <1>10, <4>1
      <4>4. hidden'[w] = [hidden[w] EXCEPT ![p] = h] BY <1>4, <1>7, <1>10 DEF Typed
      <4>5. ASSUME NEW q \in Paths
            PROVE  hidden[w][q] \subseteq hidden'[w][q] \cup Known(idea[w][q])
        BY <1>4, <1>7, <4>3, <4>4 DEF Typed
      <4> QED BY <3>2, <4>2, <4>5
    <3> QED BY <3>1, <3>2
  <2> QED BY <2>1, <2>2 DEF Minds
<1>15. LookOK(j)' /\ PeerOK(j)' /\ BlindOK(j)' /\ AsideOK(j)' /\ MoveOK(NoJob)' BY <1>6, OverOwes
<1>16. UNCHANGED <<phase, lease, owners, file>> BY <1>1 DEF Quiet, turns
<1>17. ClaimOK' BY <1>1 DEF FilesInv, ClaimOK, Held, Quiet, turns
<1> QED BY <1>6, <1>11, <1>12, <1>13, <1>14, <1>15, <1>16, <1>17, NoJobType, Work

-----------------------------------------------------------------------------
(* The steps of a body that change files.                                    *)
\* What a step that changes files owes; the ledger is as it was.
LEMMA Lays ==
    ASSUME FilesInv, NEW j \in Bodies, NEW b \in Job, NEW S \in SUBSET Paths, Swap(j, b, S),
           ShapeOK(b), ~Writing(b), job[j].tool \in Writers,
           b.live => job[j].live /\ b.tool = job[j].tool,
           UNCHANGED <<seen, idea, hidden, phase, lease, owners, bounds>>,
           file' \in [Paths -> Value], wrote' \in [Windows -> SUBSET Paths],
           author' \in [Paths -> [1..MaxEdits -> Windows \cup {Nobody}]],
           left' \in [Windows -> [Paths -> Content \cup {Unseen}]],
           \A p \in Paths \ S : file'[p] = file[p],
           ~job[j].live => Unsigned, job[j].live => ClaimOK',
           LeftOK', AsideOK(j)', MoveOK(b)'
    PROVE  FilesInv'
<1>1. Minds(j) BY DEF Minds
<1>2. Typed' BY DEF FilesInv, FilesTypeOK, Typed, bounds, Swap
<1>3. SeenOK' BY DEF FilesInv, SeenOK
<1>4. LookOK(j)' /\ PeerOK(j)' /\ BlindOK(j)' BY DEF LookOK, PeerOK, BlindOK, Swap
<1>5. ~job[j].live \/ job[j].tool \notin Writers => Unsigned /\ Minds(j) BY <1>1
<1> QED BY <1>2, <1>3, <1>4, <1>5, Work

LEMMA SignsIs ==
    ASSUME FilesInv, NEW p \in Paths, NEW new, NEW who \in Windows \cup {Nobody}, Signs(p, new, who)
    PROVE  /\ author' \in [Paths -> [1..MaxEdits -> Windows \cup {Nobody}]]
           /\ \A q \in Paths, x \in 1..MaxEdits :
                  author'[q][x] = IF q = p /\ x \in new THEN who ELSE author[q][x]
<1>1. author \in [Paths -> [1..MaxEdits -> Windows \cup {Nobody}]] BY DEF FilesInv, FilesTypeOK, Typed
<1>2. [x \in 1..MaxEdits |-> IF x \in new THEN who ELSE author[p][x]]
          \in [1..MaxEdits -> Windows \cup {Nobody}]
  BY <1>1
<1> QED BY <1>1, <1>2 DEF Signs

LEMMA SignerIs ==
    ASSUME NEW j \in Bodies
    PROVE  Signer(j) \in Windows \cup {Nobody} /\ Signer(j) = IF job[j].live THEN j[1] ELSE Nobody
BY BodyIs DEF Signer

LEMMA CountedIs ==
    ASSUME FilesInv, NEW j \in Bodies, NEW S \in SUBSET Paths, Counted(j, S)
    PROVE  /\ wrote' \in [Windows -> SUBSET Paths]
           /\ \A v \in Windows : wrote[v] \subseteq wrote'[v]
           /\ job[j].live => S \subseteq wrote'[j[1]]
<1>1. wrote \in [Windows -> SUBSET Paths] BY DEF FilesInv, FilesTypeOK, Typed
<1>2. j[1] \in Windows BY BodyIs
<1> QED BY <1>1, <1>2 DEF Counted

LEMMA FileIs ==
    ASSUME FilesInv, NEW p \in Paths
    PROVE  file[p] \in Value /\ Known(file[p]) \in Content
<1>1. file[p] \in Value BY DEF FilesInv, FilesTypeOK, Typed
<1> QED BY <1>1, KnownType

\* Nobody takes back what he has noted as written.
LEMMA HeldOn ==
    ASSUME FilesInv, UNCHANGED <<phase, owners>>, \A v \in Windows : wrote[v] \subseteq wrote'[v],
           NEW p \in Paths, NEW x \in 1..MaxEdits, author'[p][x] = author[p][x], Held(p, x)
    PROVE  Held(p, x)'
<1>1. author[p][x] \in Windows \cup {Nobody} BY AuthorIs
<1> QED BY <1>1 DEF Held

\* A step that only empties files.
LEMMA Leaves ==
    ASSUME FilesInv, NEW j \in Bodies, NEW S \in SUBSET Paths, Counted(j, S) \/ UNCHANGED wrote,
           UNCHANGED <<phase, owners, author>>,
           \A q \in Paths : Known(file'[q]) \subseteq Known(file[q])
    PROVE  Unsigned /\ ClaimOK'
<1>1. \A v \in Windows : wrote[v] \subseteq wrote'[v] BY CountedIs
<1>2. Unsigned BY <1>1 DEF Unsigned
<1>3. ASSUME NEW q \in Paths, NEW x \in Known(file'[q]) PROVE Held(q, x)'
  <2>1. x \in Known(file[q]) /\ x \in 1..MaxEdits BY <1>3, FileIs DEF Content
  <2>2. Held(q, x) BY <2>1 DEF FilesInv, ClaimOK
  <2> QED BY <1>1, <2>1, <2>2, HeldOn
<1> QED BY <1>2, <1>3 DEF ClaimOK

\* A step that puts something into p: it signs what is new, and the rest was held.
LEMMA Puts ==
    ASSUME FilesInv, NEW j \in Bodies, NEW p \in Paths, NEW S \in SUBSET Paths, p \in S,
           Counted(j, S), NEW new \in Content, NEW kept \in Content,
           Signs(p, new, Signer(j)), UNCHANGED <<phase, owners>>,
           \A x \in kept : job[j].live /\ Held(p, x),
           \A q \in Paths \ {p} : Known(file'[q]) \subseteq Known(file[q]),
           Known(file'[p]) \subseteq Known(file[p]) \cup new \cup kept
    PROVE  /\ author' \in [Paths -> [1..MaxEdits -> Windows \cup {Nobody}]]
           /\ wrote' \in [Windows -> SUBSET Paths]
           /\ \A v \in Windows : wrote[v] \subseteq wrote'[v]
           /\ \A q \in Paths, x \in 1..MaxEdits :
                  author'[q][x] = IF q = p /\ x \in new THEN Signer(j) ELSE author[q][x]
           /\ ~job[j].live => Unsigned
           /\ job[j].live => ClaimOK'
<1>1. /\ author' \in [Paths -> [1..MaxEdits -> Windows \cup {Nobody}]]
      /\ \A q \in Paths, x \in 1..MaxEdits :
             author'[q][x] = IF q = p /\ x \in new THEN Signer(j) ELSE author[q][x]
  BY SignsIs, SignerIs
<1>2. /\ wrote' \in [Windows -> SUBSET Paths] /\ \A v \in Windows : wrote[v] \subseteq wrote'[v]
      /\ job[j].live => S \subseteq wrote'[j[1]]
  BY CountedIs
<1>3. new \subseteq 1..MaxEdits /\ kept \subseteq 1..MaxEdits BY DEF Content
<1>4. ASSUME ~job[j].live PROVE Unsigned
  <2>1. Signer(j) = Nobody BY <1>4, SignerIs
  <2>2. \A q \in Paths, x \in 1..MaxEdits : author'[q][x] \in {author[q][x], Nobody}
    BY <1>1, <2>1
  <2>3. \A q \in Paths : \A x \in Known(file'[q]) \ Known(file[q]) : author'[q][x] = Nobody
    BY <1>1, <1>3, <1>4, <2>1
  <2> QED BY <1>2, <2>2, <2>3 DEF Unsigned
<1>5. ASSUME job[j].live, NEW q \in Paths, NEW x \in Known(file'[q]) PROVE Held(q, x)'
  <2>1. CASE q = p /\ x \in new
    <3>1. author'[q][x] = j[1] BY <1>1, <1>3, <1>5, <2>1, SignerIs
    <3>2. q \in wrote'[j[1]] BY <1>2, <1>5, <2>1
    <3> QED BY <3>1, <3>2 DEF Held
  <2>2. CASE ~(q = p /\ x \in new)
    <3>1. x \in Known(file[q]) \/ (q = p /\ x \in kept) BY <1>5, <2>2
    <3>2. x \in 1..MaxEdits BY <1>3, <3>1, FileIs DEF Content
    <3>3. Held(q, x) BY <3>1 DEF FilesInv, ClaimOK
    <3>4. author'[q][x] = author[q][x] BY <1>1, <2>2, <3>2
    <3> QED BY <1>2, <3>2, <3>3, <3>4, HeldOn
  <2> QED BY <2>1, <2>2
<1>6. job[j].live => ClaimOK' BY <1>5 DEF ClaimOK
<1> QED BY <1>1, <1>2, <1>4, <1>6

\* What a window has written last is not yet noted.
LEMMA LeftNoted ==
    ASSUME FilesInv, NEW j \in Bodies, NEW b, NEW S, Swap(j, b, S), job[j].pc # "note",
           b.pc = "note", job[j].live => b.live, job[j].tool # "none",
           b.tool \in {"write", "edit"}, b.path \in Paths, UNCHANGED <<seen, escs>>,
           NEW z, left' = [left EXCEPT ![j[1]][b.path] = z]
    PROVE  LeftOK'
<1>1. SUFFICES ASSUME escs = 0 PROVE LeftOK' BY DEF LeftOK
<1>2. ASSUME NEW k \in Bodies, job'[k].tool # "none" PROVE job'[k].live
  BY <1>1, <1>2 DEF FilesInv, LeftOK, Swap, Alike
<1>3. ASSUME NEW w \in Windows, NEW p \in Paths, Noting(w, p) PROVE Noting(w, p)'
  BY <1>3, NotingSame
<1>4. Noting(j[1], b.path)'
  <2>1. j[2] \in Jobs /\ job'[<<j[1], j[2]>>] = b BY BodyIs DEF Swap
  <2> QED BY <2>1 DEF Noting
<1>5. ASSUME NEW w \in Windows, NEW p \in Paths, ~(w = j[1] /\ p = b.path)
      PROVE  left'[w][p] = left[w][p]
  BY <1>5 DEF FilesInv, FilesTypeOK, Typed
<1>6. ASSUME NEW w \in Windows, NEW p \in Paths
      PROVE  left'[w][p] \in {Unseen, seen'[w][p]} \/ Noting(w, p)'
  <2>1. CASE w = j[1] /\ p = b.path BY <1>4, <2>1
  <2>2. CASE ~(w = j[1] /\ p = b.path) BY <1>1, <1>3, <1>5, <2>2 DEF FilesInv, LeftOK
  <2> QED BY <2>1, <2>2
<1> QED BY <1>1, <1>2, <1>6 DEF LeftOK

LEMMA ReplaceStep == ASSUME FilesInv, NEW j \in Bodies, Replace(j) PROVE FilesInv'
<1> DEFINE p == job[j].path
           S == {p}
<1>1. /\ job[j].pc = "land" /\ file' = [file EXCEPT ![p] = job[j].next] /\ Counted(j, S)
      /\ left' = [left EXCEPT ![j[1]][p] = job[j].next] /\ Writes(j, OnTo(j, "note"), S)
      /\ Signs(p, job[j].next \ Known(file[p]), Signer(j))
      /\ UNCHANGED <<seen, idea, phase, lease, owners, bounds, hidden>>
  BY DEF Replace, Stands, OnTo
<1>2. job[j] \in Job /\ job \in [Bodies -> Job] BY JobIs
<1>3. ShapeOK(job[j]) BY DEF FilesInv
<1>4. /\ job[j].tool \in {"write", "edit"} /\ p \in Paths /\ job[j].next \in Content
  BY <1>1, <1>2, <1>3 DEF ShapeOK, Job, Creating
<1>5. PICK c \in Job : Swap(j, c, S) /\ Moves(job[j], c) /\ c.pc = "note"
  <2>1. OnTo(j, "note") \in Job /\ Moves(job[j], OnTo(j, "note")) /\ OnTo(j, "note").pc = "note"
    BY OnToIs DEF Places
  <2> QED BY <1>1, <1>2, <1>4, <2>1, SwapWrites
<1>6. ShapeOK(c) /\ ~Writing(c) BY <1>3, <1>4, <1>5 DEF ShapeOK, Writing, Moves, Creating
<1>7. LeftOK'
  <2>1. left' = [left EXCEPT ![j[1]][c.path] = job[j].next] BY <1>1, <1>5 DEF Moves
  <2>2. (job[j].live => c.live) /\ c.tool \in {"write", "edit"} /\ c.path \in Paths
    BY <1>4, <1>5 DEF Moves
  <2>3. job[j].pc # "note" /\ job[j].tool # "none" BY <1>1, <1>4
  <2>4. UNCHANGED <<seen, escs>> BY <1>1 DEF bounds
  <2>5. Swap(j, c, S) /\ c.pc = "note" BY <1>5
  <2> HIDE DEF S, p
  <2> QED BY <2>1, <2>2, <2>3, <2>4, <2>5, LeftNoted
<1>8. /\ file' \in [Paths -> Value] /\ \A q \in Paths \ S : file'[q] = file[q]
      /\ left' \in [Windows -> [Paths -> Content \cup {Unseen}]]
  <2>1. Typed /\ j[1] \in Windows BY BodyIs DEF FilesInv, FilesTypeOK
  <2> QED BY <1>1, <1>4, <2>1 DEF Typed, Value
<1>9. /\ author' \in [Paths -> [1..MaxEdits -> Windows \cup {Nobody}]]
      /\ wrote' \in [Windows -> SUBSET Paths]
      /\ (~job[j].live => Unsigned) /\ (job[j].live => ClaimOK')
  <2> DEFINE new == job[j].next \ Known(file[p])
  <2>1. file'[p] = job[j].next BY <1>1, <1>4, <1>8 DEF FilesInv, FilesTypeOK, Typed
  <2>2. Known(file'[p]) = job[j].next BY <1>4, <2>1, KnownIs
  <2>3. /\ \A q \in Paths \ {p} : Known(file'[q]) \subseteq Known(file[q])
        /\ Known(file'[p]) \subseteq Known(file[p]) \cup new \cup {}
    BY <1>8, <2>2
  <2>4. new \in Content /\ {} \in Content BY <1>4 DEF Content
  <2>5. S \in SUBSET Paths /\ p \in S BY <1>4
  <2>6. Signs(p, new, Signer(j)) /\ Counted(j, S) /\ UNCHANGED <<phase, owners>> BY <1>1
  <2> HIDE DEF new, S, p
  <2> QED BY <1>4, <2>3, <2>4, <2>5, <2>6, Puts DEF p
<1>10. AsideOK(j)' BY <1>4, <1>5 DEF AsideOK, Swap, Moves
<1>11. MoveOK(c)' BY <1>4, <1>5 DEF MoveOK, Moves
<1>12. job[j].tool \in Writers /\ (c.live => job[j].live /\ c.tool = job[j].tool)
  BY <1>4, <1>5 DEF Writers, Moves
<1> QED BY <1>1, <1>4, <1>5, <1>6, <1>7, <1>8, <1>9, <1>10, <1>11, <1>12, Lays

\* A body that is over had nothing more to note.
LEMMA OverLeft ==
    ASSUME FilesInv, NEW j \in Bodies, NEW S, Swap(j, NoJob, S), job[j].pc # "note",
           UNCHANGED <<left, seen, escs>>
    PROVE  LeftOK'
<1>1. NoJob.tool = "none" BY DEF NoJob
<1> QED BY <1>1, LeftSame

LEMMA NoJobIs == NoJob \in Job /\ ShapeOK(NoJob) /\ ~Writing(NoJob) /\ ~NoJob.live
BY NoJobType

LEMMA CreateStep == ASSUME FilesInv, NEW j \in Bodies, Create(j) PROVE FilesInv'
<1> DEFINE p == job[j].path
           S == {p}
<1>1. /\ job[j].pc = "create" /\ UNCHANGED <<seen, idea, phase, lease, owners, author, bounds, ghosts>>
      /\ \/ Over(j) /\ UNCHANGED <<file, wrote>>
         \/ /\ file' = [file EXCEPT ![p] = {}] /\ Counted(j, S)
            /\ Writes(j, OnTo(j, "fill"), S)
  BY DEF Create, Stands, OnTo
<1>2. job[j] \in Job /\ job \in [Bodies -> Job] BY JobIs
<1>3. ShapeOK(job[j]) /\ Typed BY DEF FilesInv, FilesTypeOK
<1>4. job[j].tool \in {"write", "create"} /\ p \in Paths /\ job[j].tool \in Writers
  BY <1>1, <1>2, <1>3 DEF ShapeOK, Job, Creating, Writers
<1>5. /\ author' \in [Paths -> [1..MaxEdits -> Windows \cup {Nobody}]]
      /\ left' \in [Windows -> [Paths -> Content \cup {Unseen}]]
      /\ UNCHANGED <<phase, owners, author>> /\ S \in SUBSET Paths
  BY <1>1, <1>3, <1>4 DEF Typed, ghosts
<1>6. UNCHANGED <<left, seen, escs>> BY <1>1 DEF ghosts, bounds
<1>7. CASE Over(j) /\ UNCHANGED <<file, wrote>>
  <2>1. Swap(j, NoJob, {}) BY <1>2, <1>7, SwapOver
  <2>2. LeftOK' BY <1>1, <1>6, <2>1, OverLeft
  <2>3. MoveOK(NoJob)' /\ AsideOK(j)' BY <2>1, OverOwes
  <2>4. /\ file' \in [Paths -> Value] /\ wrote' \in [Windows -> SUBSET Paths]
        /\ \A q \in Paths : file'[q] = file[q]
    BY <1>3, <1>7 DEF Typed
  <2>5. Unsigned /\ ClaimOK' BY <1>5, <1>7, <2>4, Leaves
  <2> QED BY <1>1, <1>4, <1>5, <2>1, <2>2, <2>3, <2>4, <2>5, NoJobIs, Lays DEF ghosts
<1>8. CASE /\ file' = [file EXCEPT ![p] = {}] /\ Counted(j, S)
           /\ Writes(j, OnTo(j, "fill"), S)
  <2>1. PICK c \in Job : Swap(j, c, S) /\ Moves(job[j], c) /\ c.pc = "fill"
    <3>1. OnTo(j, "fill") \in Job /\ Moves(job[j], OnTo(j, "fill")) /\ OnTo(j, "fill").pc = "fill"
      BY OnToIs DEF Places
    <3> QED BY <1>2, <1>4, <1>8, <3>1, SwapWrites
  <2>2. ShapeOK(c) /\ ~Writing(c) BY <1>1, <1>3, <1>4, <2>1 DEF ShapeOK, Writing, Moves, Creating
  <2>3. /\ job[j].pc # "note" /\ c.live = job[j].live /\ job[j].tool # "none"
        /\ c.tool = job[j].tool
    BY <1>1, <1>4, <2>1 DEF Moves
  <2>4. LeftOK' BY <1>6, <2>1, <2>3, LeftSame
  <2>5. {} \in Value BY DEF Value, Content
  <2>6. /\ file' \in [Paths -> Value] /\ \A q \in Paths \ S : file'[q] = file[q]
        /\ file'[p] = {}
    BY <1>3, <1>4, <1>8, <2>5 DEF Typed
  <2>7. wrote' \in [Windows -> SUBSET Paths] BY <1>4, <1>8, CountedIs
  <2>8. Known({}) = {} BY KnownIs DEF Content
  <2>9. Unsigned /\ ClaimOK'
    <3>1. \A q \in Paths : Known(file'[q]) \subseteq Known(file[q]) BY <2>6, <2>8
    <3> QED BY <1>5, <1>8, <3>1, Leaves
  <2>10. MoveOK(c)' BY <1>4, <2>1 DEF MoveOK, Moves
  <2>11. AsideOK(j)' BY <1>4, <2>1 DEF AsideOK, Swap, Moves
  <2>12. UNCHANGED <<seen, idea, hidden, phase, lease, owners, bounds>> BY <1>1 DEF ghosts
  <2> HIDE DEF p, S
  <2> QED BY <1>4, <1>5, <2>1, <2>2, <2>3, <2>4, <2>6, <2>7, <2>9, <2>10, <2>11, <2>12, Lays
<1> QED BY <1>1, <1>7, <1>8

LEMMA FillStep == ASSUME FilesInv, NEW j \in Bodies, Fill(j) PROVE FilesInv'
<1> DEFINE p == job[j].path
           S == {p}
           there == file[p] = {}
<1>1. /\ job[j].pc = "fill" /\ UNCHANGED <<seen, idea, phase, lease, owners, bounds, hidden>>
      /\ IF there THEN /\ file' = [file EXCEPT ![p] = job[j].next] /\ Counted(j, S)
                       /\ Signs(p, job[j].next, Signer(j))
                  ELSE UNCHANGED <<file, wrote, author>>
      /\ IF job[j].tool = "create" THEN Writes(j, NoJob, S) /\ UNCHANGED left
         ELSE /\ Writes(j, OnTo(j, "note"), S)
              /\ left' = IF there THEN [left EXCEPT ![j[1]][p] = job[j].next] ELSE left
  BY DEF Fill, Stands, OnTo
<1>2. job[j] \in Job /\ job \in [Bodies -> Job] BY JobIs
<1>3. ShapeOK(job[j]) /\ Typed /\ j[1] \in Windows BY BodyIs DEF FilesInv, FilesTypeOK
<1>4. /\ job[j].tool \in {"write", "create"} /\ p \in Paths /\ job[j].tool \in Writers
      /\ job[j].next \in Content
  BY <1>1, <1>2, <1>3 DEF ShapeOK, Job, Creating, Writers
<1>5. /\ file' \in [Paths -> Value] /\ \A q \in Paths \ S : file'[q] = file[q]
      /\ file'[p] \in {job[j].next, file[p]}
      /\ left' \in [Windows -> [Paths -> Content \cup {Unseen}]]
      /\ \E z : left' = [left EXCEPT ![j[1]][p] = z]
  <2>1. file' = [file EXCEPT ![p] = job[j].next] \/ file' = file BY <1>1
  <2>2. file \in [Paths -> Value] /\ job[j].next \in Value BY <1>3, <1>4 DEF Typed, Value
  <2>3. file' \in [Paths -> Value] /\ \A q \in Paths \ S : file'[q] = file[q]
    BY <1>4, <2>1, <2>2
  <2>4. file'[p] \in {job[j].next, file[p]} BY <1>4, <2>1, <2>2
  <2>5. left' \in [Windows -> [Paths -> Content \cup {Unseen}]]
    <3>1. left' = [left EXCEPT ![j[1]][p] = job[j].next] \/ left' = left BY <1>1
    <3>2. left \in [Windows -> [Paths -> Content \cup {Unseen}]] BY <1>3 DEF Typed
    <3> QED BY <1>3, <1>4, <3>1, <3>2
  <2>6. left = [left EXCEPT ![j[1]][p] = left[j[1]][p]] BY <1>3, <1>4 DEF Typed
  <2>7. left' = [left EXCEPT ![j[1]][p] = job[j].next] \/ left' = left BY <1>1
  <2> QED BY <2>3, <2>4, <2>5, <2>6, <2>7
<1>6. /\ author' \in [Paths -> [1..MaxEdits -> Windows \cup {Nobody}]]
      /\ wrote' \in [Windows -> SUBSET Paths]
      /\ (~job[j].live => Unsigned) /\ (job[j].live => ClaimOK')
  <2>1. CASE ~there
    <3>1. UNCHANGED <<file, wrote, author, phase, owners>> BY <1>1, <2>1
    <3>2. \A q \in Paths : Known(file'[q]) \subseteq Known(file[q]) BY <3>1
    <3>3. Unsigned /\ ClaimOK' BY <3>1, <3>2, Leaves
    <3> QED BY <1>3, <3>1, <3>3 DEF Typed
  <2>2. CASE there
    <3>1. Known(file'[p]) \subseteq Known(file[p]) \cup job[j].next \cup {}
      <4>1. Known(job[j].next) = job[j].next BY <1>4, KnownIs
      <4> QED BY <1>5, <4>1
    <3>2. \A q \in Paths \ {p} : Known(file'[q]) \subseteq Known(file[q]) BY <1>5
    <3>3. {} \in Content BY DEF Content
    <3>4. S \in SUBSET Paths /\ p \in S BY <1>4
    <3>5. Signs(p, job[j].next, Signer(j)) /\ Counted(j, S) /\ UNCHANGED <<phase, owners>>
      BY <1>1, <2>2
    <3> HIDE DEF S, p
    <3> QED BY <1>4, <3>1, <3>2, <3>3, <3>4, <3>5, Puts
  <2> QED BY <2>1, <2>2
<1>7. /\ UNCHANGED <<seen, idea, hidden, phase, lease, owners, bounds>> /\ UNCHANGED <<seen, escs>>
      /\ S \in SUBSET Paths /\ job[j].pc # "note" /\ job[j].tool # "none"
  BY <1>1, <1>4 DEF bounds
<1>8. CASE job[j].tool = "create"
  <2>1. Writes(j, NoJob, S) /\ UNCHANGED left BY <1>1, <1>8
  <2>2. Swap(j, NoJob, S) BY <1>2, <1>7, <2>1, NoJobIs, SwapWrites
  <2>3. LeftOK' BY <1>7, <2>1, <2>2, OverLeft
  <2>4. MoveOK(NoJob)' /\ AsideOK(j)' BY <2>2, OverOwes
  <2> HIDE DEF p, S
  <2> QED BY <1>4, <1>5, <1>6, <1>7, <2>2, <2>3, <2>4, NoJobIs, Lays
<1>9. CASE job[j].tool # "create"
  <2>1. PICK c \in Job : Swap(j, c, S) /\ Moves(job[j], c) /\ c.pc = "note"
    <3>1. OnTo(j, "note") \in Job /\ Moves(job[j], OnTo(j, "note")) /\ OnTo(j, "note").pc = "note"
      BY OnToIs DEF Places
    <3> QED BY <1>1, <1>2, <1>7, <1>9, <3>1, SwapWrites
  <2>2. job[j].tool = "write" BY <1>4, <1>9
  <2>3. ShapeOK(c) /\ ~Writing(c) BY <1>1, <1>3, <2>1, <2>2 DEF ShapeOK, Writing, Moves, Creating
  <2>4. /\ (job[j].live => c.live) /\ c.tool \in {"write", "edit"} /\ c.path \in Paths
        /\ c.path = p /\ (c.live => job[j].live /\ c.tool = job[j].tool)
    BY <1>4, <2>1, <2>2 DEF Moves
  <2>5. PICK z : left' = [left EXCEPT ![j[1]][c.path] = z] BY <1>5, <2>4
  <2>6. MoveOK(c)' /\ AsideOK(j)' BY <2>1, <2>2 DEF MoveOK, AsideOK, Moves, Swap
  <2>7. Swap(j, c, S) /\ c.pc = "note" BY <2>1
  <2> HIDE DEF p, S
  <2>8. LeftOK' BY <1>7, <2>4, <2>5, <2>7, LeftNoted
  <2> QED BY <1>4, <1>5, <1>6, <1>7, <2>3, <2>4, <2>6, <2>7, <2>8, Lays
<1> QED BY <1>8, <1>9

-----------------------------------------------------------------------------
(* The steps of a move.                                                      *)
LEMMA MoverIs ==
    ASSUME FilesInv, NEW j \in Bodies,
           job[j].pc \in {"stash", "move", "copy", "remove", "undo", "clean"}
    PROVE  /\ job[j].tool = "move" /\ job[j].path \in Paths /\ job[j].to \in Paths
           /\ job[j].path # job[j].to /\ {job[j].path, job[j].to} \in SUBSET Paths
           /\ job[j].was \in Content /\ job[j].aside \in Value /\ job[j].next \in Value
           /\ job[j] \in Job /\ job \in [Bodies -> Job] /\ MoveOK(job[j])
           /\ j[1] \in Windows /\ Typed /\ AsideOK(j) /\ ShapeOK(job[j])
<1>1. job[j] \in Job /\ job \in [Bodies -> Job] BY JobIs
<1>2. ShapeOK(job[j]) /\ MoveOK(job[j]) /\ Typed /\ AsideOK(j) BY DEF FilesInv, FilesTypeOK
<1>3. job[j].tool = "move" BY <1>1, <1>2 DEF ShapeOK, Job, Creating
<1>4. j[1] \in Windows BY BodyIs
<1>5. job[j].aside \in Value /\ job[j].next \in Value BY <1>1 DEF Job
<1>6. /\ job[j].path \in Paths /\ job[j].to \in Paths
      /\ job[j].path # job[j].to /\ job[j].was \in Content
  BY <1>2, <1>3 DEF ShapeOK
<1> QED BY <1>1, <1>2, <1>3, <1>4, <1>5, <1>6

\* What a step of a move owes.
LEMMA MoverLays ==
    ASSUME FilesInv, NEW j \in Bodies, NEW b \in Job, NEW S \in SUBSET Paths, Swap(j, b, S),
           job[j].pc \in {"stash", "move", "copy", "remove", "undo", "clean"},
           b = NoJob \/ (/\ b.tool = "move" /\ b.live = job[j].live /\ ShapeOK(b)),
           UNCHANGED <<seen, idea, phase, lease, owners, bounds, ghosts>>,
           file' \in [Paths -> Value], wrote' \in [Windows -> SUBSET Paths],
           author' \in [Paths -> [1..MaxEdits -> Windows \cup {Nobody}]],
           \A p \in Paths \ S : file'[p] = file[p],
           ~job[j].live => Unsigned, job[j].live => ClaimOK', AsideOK(j)', MoveOK(b)'
    PROVE  FilesInv'
<1>1. job[j].tool = "move" /\ Typed BY MoverIs
<1>2. job[j].tool \in Writers /\ job[j].pc # "note" /\ job[j].tool # "none" BY <1>1 DEF Writers
<1>3. /\ UNCHANGED <<left, seen, escs>>
      /\ UNCHANGED <<seen, idea, hidden, phase, lease, owners, bounds>>
      /\ left' \in [Windows -> [Paths -> Content \cup {Unseen}]]
  BY <1>1 DEF ghosts, bounds, Typed
<1>4. CASE b = NoJob
  <2>1. LeftOK' BY <1>2, <1>3, <1>4, OverLeft
  <2> QED BY <1>2, <1>3, <1>4, <2>1, NoJobIs, Lays
<1>5. CASE /\ b.tool = "move" /\ b.live = job[j].live /\ ShapeOK(b)
  <2>1. LeftOK' BY <1>2, <1>3, <1>5, LeftSame
  <2>2. ~Writing(b) /\ (b.live => job[j].live /\ b.tool = job[j].tool)
    BY <1>1, <1>5 DEF Writing
  <2> QED BY <1>2, <1>3, <1>5, <2>1, <2>2, Lays
<1> QED BY <1>4, <1>5

LEMMA MovesShape ==
    ASSUME NEW b \in Job, NEW c \in Job, Moves(b, c), ShapeOK(b), b.tool = "move",
           b.pc # "stash", c.pc \in {"move", "copy", "remove", "undo", "clean"}
    PROVE  ShapeOK(c)
BY DEF ShapeOK, Moves, Creating

\* A move goes on, and signs nothing of what it has set aside.
LEMMA AsideOn ==
    ASSUME FilesInv, NEW j \in Bodies, job[j].pc \in {"move", "copy", "remove", "undo", "clean"},
           NEW c \in Job, NEW S, Swap(j, c, S), Moves(job[j], c), c.pc # "stash",
           UNCHANGED <<phase, owners>>, \A v \in Windows : wrote[v] \subseteq wrote'[v],
           job[j].live => \A x \in Known(job[j].aside) : author'[job[j].to][x] = author[job[j].to][x]
    PROVE  AsideOK(j)'
<1> SUFFICES ASSUME job[j].live PROVE AsideOK(j)' BY DEF AsideOK, Swap, Moves
<1>1. /\ AsideOK(j) /\ job[j].tool = "move" /\ job'[j] = c BY MoverIs DEF Swap
<1>2. PICK q \in Paths, x \in Value : q = job[j].to /\ x = job[j].aside BY MoverIs
<1>3. Known(x) \subseteq 1..MaxEdits BY KnownType DEF Content
<1>4. ASSUME NEW y \in Known(x) PROVE Held(q, y)'
  <2>1. Held(q, y) /\ author'[q][y] = author[q][y] BY <1>1, <1>2, <1>4 DEF AsideOK
  <2> QED BY <1>3, <2>1, HeldOn
<1>5. c.to = q /\ c.aside = x /\ c.next = job[j].next /\ (c.own <=> job[j].own) BY <1>2 DEF Moves
<1>6. ~c.own /\ x = c.next =>
          \A y \in Known(c.next) : author'[q][y] = j[1] => owners'[q] # Nobody
  BY <1>1, <1>2, <1>5 DEF AsideOK
<1> QED BY <1>1, <1>4, <1>5, <1>6 DEF AsideOK

LEMMA SetAsideStep == ASSUME FilesInv, NEW j \in Bodies, SetAside(j) PROVE FilesInv'
<1> DEFINE q == job[j].to
           S == {q}
           body == [job[j] EXCEPT !.aside = file[q], !.pc = "move"]
<1>1. /\ job[j].pc = "stash" /\ UNCHANGED <<seen, idea, turns, author, bounds, ghosts>>
      /\ \/ Over(j) /\ UNCHANGED file
         \/ file[q] # NoFile /\ Writes(j, body, S) /\ file' = [file EXCEPT ![q] = NoFile]
  BY DEF SetAside, Stands, Stash
<1>2. /\ job[j].tool = "move" /\ job[j].path \in Paths /\ q \in Paths
      /\ job[j].path # q /\ job[j] \in Job /\ job \in [Bodies -> Job] /\ MoveOK(job[j]) /\ Typed
      /\ AsideOK(j) /\ ShapeOK(job[j])
  BY <1>1, MoverIs
<1>3. /\ UNCHANGED <<seen, idea, phase, lease, owners, bounds, ghosts>>
      /\ author' \in [Paths -> [1..MaxEdits -> Windows \cup {Nobody}]]
      /\ wrote' \in [Windows -> SUBSET Paths] /\ UNCHANGED <<phase, owners, author, wrote>>
  BY <1>1, <1>2 DEF turns, Typed
<1>4. CASE Over(j) /\ UNCHANGED file
  <2>1. Swap(j, NoJob, {}) BY <1>2, <1>4, SwapOver
  <2>2. MoveOK(NoJob)' /\ AsideOK(j)' BY <2>1, OverOwes
  <2>3. file' \in [Paths -> Value] /\ \A p \in Paths : file'[p] = file[p]
    BY <1>2, <1>4 DEF Typed
  <2>4. Unsigned /\ ClaimOK' BY <1>3, <2>3, Leaves
  <2> QED BY <1>1, <1>3, <2>1, <2>2, <2>3, <2>4, NoJobIs, MoverLays
<1>5. CASE file[q] # NoFile /\ Writes(j, body, S) /\ file' = [file EXCEPT ![q] = NoFile]
  <2>1. file[q] \in Value /\ S \in SUBSET Paths BY <1>2, FileIs
  <2>2. body \in Job BY <1>2, <2>1 DEF Job
  <2>3. /\ body.tool = "move" /\ body.live = job[j].live /\ body.path = job[j].path /\ body.to = q
        /\ body.was = job[j].was /\ body.next = job[j].next /\ body.aside = file[q] /\ body.pc = "move"
        /\ (body.disturbed <=> job[j].disturbed) /\ (body.own <=> job[j].own)
    BY <1>2 DEF Job
  <2>4. Swap(j, body, S) BY <1>2, <1>5, <2>1, <2>2, SwapWrites
  <2> HIDE DEF body
  <2>5. PICK c \in Job :
            /\ Swap(j, c, S) /\ c.tool = "move" /\ c.live = job[j].live /\ c.path = job[j].path
            /\ c.to = q /\ c.was = job[j].was /\ c.next = job[j].next /\ c.aside = file[q]
            /\ c.pc = "move" /\ (c.disturbed <=> job[j].disturbed) /\ (c.own <=> job[j].own)
    BY <2>2, <2>3, <2>4
  <2>6. ShapeOK(c) BY <1>1, <1>2, <1>5, <2>5 DEF ShapeOK, Creating
  <2>7. /\ file' \in [Paths -> Value] /\ \A p \in Paths \ S : file'[p] = file[p]
        /\ file'[q] = NoFile
    BY <1>2, <1>5 DEF Typed, Value
  <2>8. Unsigned /\ ClaimOK'
    <3>1. \A p \in Paths : Known(file'[p]) \subseteq Known(file[p]) BY <2>7, KnownNothing
    <3> QED BY <1>3, <2>1, <3>1, Leaves
  <2>9. MoveOK(c)'
    <3>1. file'[job[j].path] = file[job[j].path] BY <1>2, <2>7
    <3> QED BY <1>1, <1>2, <2>5, <2>7, <3>1 DEF MoveOK
  <2>10. AsideOK(j)'
    <3>1. job'[j] = c BY <2>5 DEF Swap
    <3>2. PICK r \in Paths : r = q BY <1>2
    <3>3. \A x \in Known(file[r]) : Held(r, x)' BY <1>3 DEF FilesInv, ClaimOK, Held
    <3>4. c.live /\ ~c.own => \A x \in Known(c.next) : author'[r][x] = j[1] => owners'[r] # Nobody
      BY <1>1, <1>2, <1>3, <2>5, <3>2 DEF AsideOK
    <3>5. c.to = r /\ c.aside = file[r] BY <2>5, <3>2
    <3> QED BY <3>1, <3>3, <3>4, <3>5 DEF AsideOK
  <2> QED BY <1>1, <1>3, <2>1, <2>5, <2>6, <2>7, <2>8, <2>9, <2>10, MoverLays
<1> QED BY <1>1, <1>4, <1>5

LEMMA OnwardIs ==
    ASSUME FilesInv, NEW j \in Bodies, job[j].pc \in {"move", "copy", "remove"},
           NEW pc \in {"copy", "remove", "clean"}, Onward(j, pc)
    PROVE  \E c \in Job : /\ Swap(j, c, {job[j].path, job[j].to}) /\ Moves(job[j], c)
                          /\ c.pc = pc /\ ShapeOK(c) /\ c.tool = "move" /\ c.live = job[j].live
<1>1. OnTo(j, pc) \in Job /\ Moves(job[j], OnTo(j, pc)) /\ OnTo(j, pc).pc = pc
  BY OnToIs DEF Places
<1>2. job[j].tool = "move" /\ {job[j].path, job[j].to} \in SUBSET Paths /\ job[j] \in Job
      /\ job \in [Bodies -> Job] /\ ShapeOK(job[j])
  BY MoverIs
<1>3. Swap(j, OnTo(j, pc), {job[j].path, job[j].to})
  <2>1. Writes(j, OnTo(j, pc), {job[j].path, job[j].to}) BY DEF Onward, OnTo
  <2> QED BY <1>1, <1>2, <2>1, SwapWrites
<1>4. ShapeOK(OnTo(j, pc)) BY <1>1, <1>2, MovesShape
<1>5. OnTo(j, pc).tool = "move" /\ OnTo(j, pc).live = job[j].live BY <1>1, <1>2 DEF Moves
<1> QED BY <1>1, <1>3, <1>4, <1>5

\* A step of a move that only empties files ...
LEMMA MoveLeaves ==
    ASSUME FilesInv, NEW j \in Bodies, job[j].pc \in {"move", "copy", "remove"},
           NEW pc \in {"copy", "remove", "clean"}, Onward(j, pc),
           NEW S \in SUBSET Paths, Counted(j, S),
           UNCHANGED <<seen, idea, phase, lease, owners, author, bounds, ghosts>>,
           file' \in [Paths -> Value], \A q \in Paths : Known(file'[q]) \subseteq Known(file[q]),
           \A r \in Paths \ {job[j].path, job[j].to} : file'[r] = file[r],
           \A c \in Job : Moves(job[j], c) /\ c.pc = pc => MoveOK(c)'
    PROVE  FilesInv'
<1> DEFINE T == {job[j].path, job[j].to}
<1>1. PICK c \in Job : /\ Swap(j, c, T) /\ Moves(job[j], c) /\ c.pc = pc /\ ShapeOK(c)
                       /\ c.tool = "move" /\ c.live = job[j].live
  BY OnwardIs
<1>2. T \in SUBSET Paths /\ Typed BY MoverIs
<1>3. /\ wrote' \in [Windows -> SUBSET Paths] /\ \A v \in Windows : wrote[v] \subseteq wrote'[v]
  BY CountedIs
<1>4. Unsigned /\ ClaimOK' BY Leaves
<1>5. author' \in [Paths -> [1..MaxEdits -> Windows \cup {Nobody}]] BY <1>2 DEF Typed
<1>6. AsideOK(j)' BY <1>1, <1>3, AsideOn
<1>7. MoveOK(c)' BY <1>1
<1>8. \A r \in Paths \ T : file'[r] = file[r] OBVIOUS
<1> HIDE DEF T
<1> QED BY <1>1, <1>2, <1>3, <1>4, <1>5, <1>6, <1>7, <1>8, MoverLays

\* ... and one that puts the source into the destination.
LEMMA MovePuts ==
    ASSUME FilesInv, NEW j \in Bodies, job[j].pc \in {"move", "copy"},
           NEW pc \in {"copy", "remove", "clean"}, Onward(j, pc),
           NEW S \in SUBSET Paths, Counted(j, S), job[j].to \in S,
           Signs(job[j].to, Carried(j), Signer(j)),
           UNCHANGED <<seen, idea, phase, lease, owners, bounds, ghosts>>,
           file' \in [Paths -> Value], file'[job[j].to] = file[job[j].path],
           file'[job[j].path] \in {file[job[j].path], NoFile},
           \A r \in Paths \ {job[j].path, job[j].to} : file'[r] = file[r],
           \A c \in Job : Moves(job[j], c) /\ c.pc = pc => MoveOK(c)'
    PROVE  FilesInv'
<1> DEFINE p == job[j].path
           q == job[j].to
           T == {p, q}
           kept == IF job[j].live THEN Known(job[j].aside) ELSE {}
<1>1. PICK c \in Job : /\ Swap(j, c, T) /\ Moves(job[j], c) /\ c.pc = pc /\ ShapeOK(c)
                       /\ c.tool = "move" /\ c.live = job[j].live
  BY OnwardIs
<1>2. /\ p \in Paths /\ q \in Paths /\ p # q /\ T \in SUBSET Paths /\ AsideOK(j)
      /\ job[j].aside \in Value /\ file[p] \in Value /\ Known(file[p]) \in Content
      /\ job[j].tool = "move"
  BY MoverIs, FileIs
<1>3. kept \in Content /\ Carried(j) \in Content /\ Carried(j) = Known(file[p]) \ kept
  <2>1. Known(job[j].aside) \in Content BY <1>2, KnownType
  <2> QED BY <1>2, <2>1 DEF Carried, Content
<1>4. \A x \in kept : job[j].live /\ Held(q, x) BY <1>2 DEF AsideOK
<1>5. \A r \in Paths \ {q} : Known(file'[r]) \subseteq Known(file[r]) BY KnownNothing
<1>6. Known(file'[q]) \subseteq Known(file[q]) \cup Carried(j) \cup kept BY <1>3
<1>7. /\ author' \in [Paths -> [1..MaxEdits -> Windows \cup {Nobody}]] /\ wrote' \in [Windows -> SUBSET Paths]
      /\ \A v \in Windows : wrote[v] \subseteq wrote'[v]
      /\ \A r \in Paths, x \in 1..MaxEdits :
             author'[r][x] = IF r = q /\ x \in Carried(j) THEN Signer(j) ELSE author[r][x]
      /\ ~job[j].live => Unsigned
      /\ job[j].live => ClaimOK'
  <2>1. Signs(q, Carried(j), Signer(j)) /\ Counted(j, S) /\ q \in S /\ UNCHANGED <<phase, owners>>
    OBVIOUS
  <2> HIDE DEF kept, q
  <2> QED BY <1>2, <1>3, <1>4, <1>5, <1>6, <2>1, Puts
<1>8. AsideOK(j)'
  <2>1. job[j].live => \A x \in Known(job[j].aside) : author'[q][x] = author[q][x]
    BY <1>2, <1>3, <1>7 DEF Content
  <2> QED BY <1>1, <1>7, <2>1, AsideOn
<1>9. MoveOK(c)' BY <1>1
<1>10. \A r \in Paths \ T : file'[r] = file[r] OBVIOUS
<1> HIDE DEF T
<1> QED BY <1>1, <1>2, <1>7, <1>8, <1>9, <1>10, MoverLays

LEMMA RenameStep ==
    ASSUME FilesInv, NEW j \in Bodies, NEW copies \in BOOLEAN, Rename(j, copies)
    PROVE  FilesInv'
<1> DEFINE p == job[j].path
           q == job[j].to
<1>1. /\ job[j].pc = "move" /\ UNCHANGED <<seen, idea, phase, lease, owners, bounds, ghosts>>
      /\ \/ /\ Onward(j, "copy") /\ file' = [file EXCEPT ![q] = {}] /\ Counted(j, {q})
            /\ UNCHANGED author
         \/ /\ Onward(j, "clean") /\ file' = [file EXCEPT ![q] = file[p], ![p] = NoFile]
            /\ Counted(j, {p, q}) /\ Signs(q, Carried(j), Signer(j))
  BY DEF Rename, Stands
<1>2. /\ p \in Paths /\ q \in Paths /\ p # q /\ MoveOK(job[j]) /\ Typed
      /\ file[p] \in Value /\ {p, q} \in SUBSET Paths /\ {q} \in SUBSET Paths
  BY <1>1, MoverIs, FileIs
<1>3. CASE /\ Onward(j, "copy") /\ file' = [file EXCEPT ![q] = {}] /\ Counted(j, {q})
           /\ UNCHANGED author
  <2>1. {} \in Value /\ Known({}) = {} BY KnownIs DEF Value, Content
  <2>2. /\ file' \in [Paths -> Value] /\ file'[q] = {} /\ file'[p] = file[p]
        /\ \A r \in Paths \ {q} : file'[r] = file[r]
    BY <1>2, <1>3, <2>1 DEF Typed
  <2>3. \A r \in Paths : Known(file'[r]) \subseteq Known(file[r]) BY <2>1, <2>2
  <2>4. ASSUME NEW c \in Job, Moves(job[j], c), c.pc = "copy" PROVE MoveOK(c)'
    BY <1>1, <1>2, <2>2, <2>4 DEF MoveOK, Moves
  <2> QED BY <1>1, <1>2, <1>3, <2>2, <2>3, <2>4, MoveLeaves
<1>4. CASE /\ Onward(j, "clean") /\ file' = [file EXCEPT ![q] = file[p], ![p] = NoFile]
           /\ Counted(j, {p, q}) /\ Signs(q, Carried(j), Signer(j))
  <2>1. /\ file' \in [Paths -> Value] /\ file'[q] = file[p] /\ file'[p] = NoFile
        /\ \A r \in Paths \ {p, q} : file'[r] = file[r]
    BY <1>2, <1>4 DEF Typed, Value
  <2>2. ASSUME NEW c \in Job, Moves(job[j], c), c.pc = "clean" PROVE MoveOK(c)'
    BY <1>1, <1>2, <2>1, <2>2 DEF MoveOK, Moves
  <2> QED BY <1>1, <1>2, <1>4, <2>1, <2>2, MovePuts
<1> QED BY <1>1, <1>3, <1>4

LEMMA CopyStep == ASSUME FilesInv, NEW j \in Bodies, Copy(j) PROVE FilesInv'
<1> DEFINE p == job[j].path
           q == job[j].to
<1>1. /\ job[j].pc = "copy" /\ UNCHANGED <<seen, idea, phase, lease, owners, bounds, ghosts>>
      /\ Signs(q, Carried(j), Signer(j)) /\ Counted(j, {q})
      /\ Onward(j, "remove") /\ file' = [file EXCEPT ![q] = file[p]]
  BY DEF Copy, Stands
<1>2. /\ p \in Paths /\ q \in Paths /\ p # q /\ {q} \in SUBSET Paths /\ MoveOK(job[j]) /\ Typed
      /\ file[p] \in Value
  BY <1>1, MoverIs, FileIs
<1>3. /\ file' \in [Paths -> Value] /\ file'[q] = file[p] /\ file'[p] = file[p]
      /\ \A r \in Paths \ {p, q} : file'[r] = file[r]
  BY <1>1, <1>2 DEF Typed
<1>4. ASSUME NEW c \in Job, Moves(job[j], c), c.pc = "remove" PROVE MoveOK(c)'
  BY <1>1, <1>2, <1>3, <1>4 DEF MoveOK, Moves
<1> QED BY <1>1, <1>2, <1>3, <1>4, MovePuts

LEMMA RemoveStep == ASSUME FilesInv, NEW j \in Bodies, Remove(j) PROVE FilesInv'
<1> DEFINE p == job[j].path
           q == job[j].to
<1>1. /\ job[j].pc = "remove" /\ UNCHANGED <<seen, idea, phase, lease, owners, author, bounds, ghosts>>
      /\ Counted(j, {p}) /\ Onward(j, "clean") /\ file' = [file EXCEPT ![p] = NoFile]
  BY DEF Remove, Stands
<1>2. /\ p \in Paths /\ q \in Paths /\ p # q /\ {p} \in SUBSET Paths /\ MoveOK(job[j]) /\ Typed
  BY <1>1, MoverIs
<1>3. /\ file' \in [Paths -> Value] /\ file'[p] = NoFile /\ file'[q] = file[q]
      /\ \A r \in Paths \ {p} : file'[r] = file[r]
  BY <1>1, <1>2 DEF Typed, Value
<1>4. \A r \in Paths : Known(file'[r]) \subseteq Known(file[r]) BY <1>3, KnownNothing
<1>5. ASSUME NEW c \in Job, Moves(job[j], c), c.pc = "clean" PROVE MoveOK(c)'
  BY <1>1, <1>2, <1>3, <1>5 DEF MoveOK, Moves
<1> QED BY <1>1, <1>2, <1>3, <1>4, <1>5, MoveLeaves

LEMMA UndoStep == ASSUME FilesInv, NEW j \in Bodies, Undo(j) PROVE FilesInv'
<1> DEFINE w == j[1]
           q == job[j].to
           S == {q}
           x == job[j].aside
<1>1. /\ job[j].pc = "undo" /\ UNCHANGED <<seen, idea, phase, lease, owners, bounds, ghosts>>
      /\ Writes(j, NoJob, S)
      /\ file' = IF x = NoFile THEN file ELSE [file EXCEPT ![q] = x]
      /\ \/ wrote' = IF file'[q] = job[j].next /\ ~job[j].own
                     THEN [wrote EXCEPT ![w] = @ \ S] ELSE wrote
         \/ ~job[j].live /\ Counted(j, S)
      /\ IF job[j].live THEN UNCHANGED author ELSE Signs(q, 1..MaxEdits, Nobody)
  BY DEF Undo, Stands
<1>2. /\ q \in Paths /\ S \in SUBSET Paths /\ Typed /\ w \in Windows /\ job[j].tool = "move"
      /\ x \in Value /\ Known(x) \in Content /\ job \in [Bodies -> Job]
      /\ AsideOK(j) /\ ShapeOK(job[j])
  BY <1>1, MoverIs, KnownType
<1>3. Swap(j, NoJob, S) BY <1>1, <1>2, NoJobIs, SwapWrites
<1>4. /\ file' \in [Paths -> Value] /\ \A r \in Paths \ S : file'[r] = file[r]
      /\ file'[q] = IF x = NoFile THEN file[q] ELSE x
  BY <1>1, <1>2 DEF Typed
<1>5. /\ wrote' \in [Windows -> SUBSET Paths]
      /\ \A v \in Windows, r \in Paths \ S : r \in wrote[v] => r \in wrote'[v]
  <2>1. CASE Counted(j, S) BY <1>2, <2>1, CountedIs
  <2>2. CASE wrote' = wrote BY <1>2, <2>2 DEF Typed
  <2>3. CASE wrote' = [wrote EXCEPT ![w] = @ \ S] BY <1>2, <2>3 DEF Typed
  <2> QED BY <1>1, <2>1, <2>2, <2>3
<1>6. author' \in [Paths -> [1..MaxEdits -> Windows \cup {Nobody}]]
  BY <1>1, <1>2, SignsIs DEF Typed
<1>7. ASSUME ~job[j].live PROVE Unsigned
  <2>1. \A r \in Paths, y \in 1..MaxEdits : author'[r][y] = IF r = q THEN Nobody ELSE author[r][y]
    <3>1. PICK all : all = 1..MaxEdits OBVIOUS
    <3>2. Signs(q, all, Nobody) BY <1>1, <1>7, <3>1
    <3>3. \A r \in Paths, y \in 1..MaxEdits :
             author'[r][y] = IF r = q /\ y \in all THEN Nobody ELSE author[r][y]
      BY <1>2, <3>2, SignsIs
    <3> QED BY <3>1, <3>3
  <2>2. ASSUME NEW r \in Paths, NEW y \in Known(file'[r]) \ Known(file[r]) PROVE author'[r][y] = Nobody
    <3>1. r = q BY <1>4, <2>2
    <3>2. y \in 1..MaxEdits BY <1>2, <1>4, <2>2, FileIs DEF Content
    <3> QED BY <2>1, <3>1, <3>2
  <2> QED BY <1>5, <2>1, <2>2 DEF Unsigned
<1>8. ASSUME job[j].live, NEW r \in Paths, NEW y \in Known(file'[r]) PROVE Held(r, y)'
  <2>1. UNCHANGED <<author, phase, owners>> BY <1>1, <1>8
  <2>2. Held(r, y)
    <3>1. CASE y \in Known(file[r]) BY <3>1 DEF FilesInv, ClaimOK
    <3>2. CASE y \notin Known(file[r])
      <4>1. r = q /\ y \in Known(x) BY <1>4, <1>8, <3>2
      <4> QED BY <1>2, <1>8, <4>1 DEF AsideOK
    <3> QED BY <3>1, <3>2
  <2>3. author[r][y] \in Windows \cup {Nobody}
    <3>1. y \in 1..MaxEdits BY <1>4, <1>8, KnownType DEF Content
    <3> QED BY <3>1, AuthorIs
  <2>4. CASE wrote' = wrote BY <2>1, <2>2, <2>4 DEF Held
  <2>5. CASE wrote' # wrote
    <3>1. wrote' = [wrote EXCEPT ![w] = @ \ S] /\ file'[q] = job[j].next /\ ~job[j].own
      BY <1>1, <1>8, <2>5
    <3>2. CASE r = q /\ author[r][y] = w
      <4>1. x # NoFile
        <5> SUFFICES ASSUME x = NoFile PROVE FALSE OBVIOUS
        <5>1. job[j].next = NoFile BY <1>1, <1>2 DEF ShapeOK
        <5> QED BY <1>8, <3>1, <3>2, <5>1, KnownNothing
      <4>2. x = job[j].next /\ y \in Known(job[j].next) BY <1>4, <1>8, <3>1, <3>2, <4>1
      <4>3. owners[q] # Nobody BY <1>2, <1>8, <2>1, <3>1, <3>2, <4>2 DEF AsideOK
      <4> QED BY <2>1, <3>2, <4>3 DEF Held
    <3>3. CASE ~(r = q /\ author[r][y] = w)
      <4>1. author[r][y] \in Windows /\ r \in wrote[author[r][y]] => r \in wrote'[author[r][y]]
        BY <1>2, <3>1, <3>3 DEF Typed
      <4> QED BY <2>1, <2>2, <2>3, <4>1 DEF Held
    <3> QED BY <3>2, <3>3
  <2> QED BY <2>4, <2>5
<1>9. job[j].live => ClaimOK' BY <1>8 DEF ClaimOK
<1>10. MoveOK(NoJob)' /\ AsideOK(j)' BY <1>3, OverOwes
<1> HIDE DEF S
<1> QED BY <1>1, <1>2, <1>3, <1>4, <1>5, <1>6, <1>7, <1>9, <1>10, NoJobIs, MoverLays

LEMMA CleanStep == ASSUME FilesInv, NEW j \in Bodies, Clean(j) PROVE FilesInv'
<1> DEFINE w == j[1]
           p == job[j].path
           q == job[j].to
<1>1. /\ job[j].pc = "clean" /\ Over(j) /\ UNCHANGED <<file, turns, bounds, author>>
      /\ seen' = [seen EXCEPT ![w][p] = Unseen, ![w][q] = Unseen]
      /\ left' = [left EXCEPT ![w][p] = Unseen, ![w][q] = Unseen]
      /\ idea' = IF job[j].live THEN [idea EXCEPT ![w][q] = idea[w][p], ![w][p] = Unseen] ELSE idea
      /\ hidden' = IF job[j].live THEN [hidden EXCEPT ![w][q] = hidden[w][p], ![w][p] = {}]
                                  ELSE hidden
  BY DEF Clean, Stands, Quiet
<1>2. /\ job[j].tool = "move" /\ p \in Paths /\ q \in Paths /\ p # q
      /\ job \in [Bodies -> Job] /\ w \in Windows /\ Typed /\ job[j].tool \in Writers
  BY <1>1, MoverIs DEF Writers
<1>3. Swap(j, NoJob, {}) BY <1>1, <1>2, SwapOver
<1>4. /\ seen' \in [Windows -> [Paths -> Content \cup {Unseen}]]
      /\ seen'[w][p] = Unseen /\ seen'[w][q] = Unseen
      /\ \A v \in Windows, r \in Paths : v # w \/ r \notin {p, q} => seen'[v][r] = seen[v][r]
  BY <1>1, <1>2 DEF Typed
<1>5. /\ left' \in [Windows -> [Paths -> Content \cup {Unseen}]]
      /\ left'[w][p] = Unseen /\ left'[w][q] = Unseen
      /\ \A v \in Windows, r \in Paths : v # w \/ r \notin {p, q} => left'[v][r] = left[v][r]
  BY <1>1, <1>2 DEF Typed
<1>6. /\ idea' \in [Windows -> [Paths -> Content \cup {Unseen}]]
      /\ \A v \in Windows, r \in Paths : v # w \/ r \notin {p, q} => idea'[v][r] = idea[v][r]
      /\ ~job[j].live => idea' = idea
  <2>1. CASE job[j].live
    <3>1. idea' = [idea EXCEPT ![w][q] = idea[w][p], ![w][p] = Unseen] BY <1>1, <2>1
    <3>2. idea \in [Windows -> [Paths -> Content \cup {Unseen}]] BY <1>2 DEF Typed
    <3> QED BY <1>2, <2>1, <3>1, <3>2
  <2>2. CASE ~job[j].live BY <1>1, <1>2, <2>2 DEF Typed
  <2> QED BY <2>1, <2>2
<1>7. /\ hidden' \in [Windows -> [Paths -> Content]]
      /\ \A v \in Windows, r \in Paths : v # w \/ r \notin {p, q} => hidden'[v][r] = hidden[v][r]
      /\ ~job[j].live => hidden' = hidden
  <2>1. CASE job[j].live
    <3>1. hidden' = [hidden EXCEPT ![w][q] = hidden[w][p], ![w][p] = {}] BY <1>1, <2>1
    <3>2. hidden \in [Windows -> [Paths -> Content]] /\ {} \in Content BY <1>2 DEF Typed, Content
    <3> QED BY <1>2, <2>1, <3>1, <3>2
  <2>2. CASE ~job[j].live BY <1>1, <1>2, <2>2 DEF Typed
  <2> QED BY <2>1, <2>2
<1>8. author' \in [Paths -> [1..MaxEdits -> Windows \cup {Nobody}]]
  BY <1>1, <1>2 DEF Typed
<1>9. Typed'
  <2>1. job' \in [Bodies -> Job] BY <1>3 DEF Swap
  <2>2. UNCHANGED <<file, phase, wrote, lease, owners, calls, escs, edits>>
    BY <1>1 DEF turns, bounds
  <2> QED BY <1>2, <1>4, <1>5, <1>6, <1>7, <1>8, <2>1, <2>2 DEF Typed
<1>10. SeenOK'
  <2> SUFFICES ASSUME NEW v \in Windows, NEW r \in Paths
               PROVE  Known(seen'[v][r]) \subseteq Known(idea'[v][r]) \cup hidden'[v][r]
    BY DEF SeenOK
  <2>1. CASE v = w /\ r \in {p, q} BY <1>4, <2>1, KnownNothing
  <2>2. CASE v # w \/ r \notin {p, q} BY <1>4, <1>6, <1>7, <2>2 DEF FilesInv, SeenOK
  <2> QED BY <2>1, <2>2
<1>11. LeftOK'
  <2> SUFFICES ASSUME escs = 0 PROVE LeftOK' BY <1>1 DEF LeftOK, bounds
  <2>1. ASSUME NEW k \in Bodies, job'[k].tool # "none" PROVE job'[k].live
    BY <1>3, <2>1 DEF FilesInv, LeftOK, Swap, Alike, NoJob
  <2>2. ASSUME NEW v \in Windows, NEW r \in Paths
        PROVE  left'[v][r] \in {Unseen, seen'[v][r]} \/ Noting(v, r)'
    <3>1. CASE v = w /\ r \in {p, q} BY <1>5, <3>1
    <3>2. CASE v # w \/ r \notin {p, q}
      <4>1. Noting(v, r) => Noting(v, r)' BY <1>1, <1>3, NotingSame
      <4> QED BY <1>4, <1>5, <3>2, <4>1 DEF FilesInv, LeftOK
    <3> QED BY <3>1, <3>2
  <2> QED BY <2>1, <2>2 DEF LeftOK
<1>12. ASSUME ~job[j].live \/ job[j].tool \notin Writers PROVE Unsigned /\ Minds(j)
  <2>1. ~job[j].live BY <1>2, <1>12
  <2>2. idea' = idea /\ hidden' = hidden BY <1>6, <1>7, <2>1
  <2>3. Minds(j) BY <2>2 DEF Minds
  <2>4. Unsigned BY <1>1 DEF Unsigned, turns
  <2> QED BY <2>3, <2>4
<1>13. LookOK(j)' /\ PeerOK(j)' /\ BlindOK(j)' /\ AsideOK(j)' /\ MoveOK(NoJob)' BY <1>3, OverOwes
<1>14. UNCHANGED <<phase, lease, owners>> /\ \A r \in Paths \ {} : file'[r] = file[r]
  BY <1>1 DEF turns
<1>15. ClaimOK' BY <1>1 DEF FilesInv, ClaimOK, Held, turns
<1> QED BY <1>3, <1>9, <1>10, <1>11, <1>12, <1>13, <1>14, <1>15, NoJobIs, Work

-----------------------------------------------------------------------------
(* A call.                                                                   *)
\* What a call owes: reads run side by side, a writing tool alone.
LEMMA Starts ==
    ASSUME FilesInv, NEW j \in Bodies, NEW b \in Job, Swap(j, b, {}), job[j].tool = "none",
           ShapeOK(b), phase[j[1]] = "turn", b.tool # "none" => b.live,
           UNCHANGED <<file, idea, hidden, phase, wrote, owners, author, escs>>,
           \/ /\ b.tool = "read" /\ UNCHANGED lease
              /\ \A k \in Running(j[1]) : job[<<j[1], k>>].tool = "read"
           \/ Running(j[1]) = {} /\ lease \in {Nobody, j[1]} /\ lease' = j[1],
           Typed', SeenOK',
           \A w \in Windows, p \in Paths :
               left'[w][p] \in {Unseen, seen'[w][p]} \/ UNCHANGED <<left[w][p], seen[w][p]>>,
           LookOK(j)', PeerOK(j)', BlindOK(j)', AsideOK(j)', MoveOK(b)'
    PROVE  FilesInv'
<1>1. ASSUME NEW k \in Bodies \ {j}
      PROVE  /\ Alike(job[k], job'[k], {}) /\ ShapeOK(job'[k])
             /\ ShapeOK(job[k]) /\ LiveOK(k) /\ MoveOK(job[k])
             /\ job[k].live /\ job[k].tool \notin {"none", "read"} => lease = k[1]
  BY DEF Swap, Alike, FilesInv, ShapeOK, FilesTypeOK, LeaseHeld
<1>2. job[j].pc = "none" /\ ~job[j].live /\ job'[j] = b BY DEF FilesInv, ShapeOK, Swap
<1>3. ASSUME Running(j[1]) = {}, lease \in {Nobody, j[1]}, lease' = j[1]
      PROVE  LeaseHeld' /\ (\A k \in Bodies : LiveOK(k)')
  <2>1. ASSUME NEW k \in Bodies \ {j}, job[k].live PROVE k[1] # j[1]
    BY <1>3, <2>1, BodyIs DEF Running
  <2>2. ASSUME NEW k \in Bodies \ {j}, job[k].live PROVE job[k].tool \in {"none", "read"}
    <3>1. k[1] \in Windows /\ k[1] # j[1] BY <2>1, <2>2, BodyIs
    <3> QED BY <1>1, <1>3, <2>2, <3>1, FileConstants
  <2>3. LeaseHeld' BY <1>1, <1>2, <1>3, <2>2 DEF LeaseHeld, Alike
  <2>4. ASSUME NEW k \in Bodies PROVE LiveOK(k)'
    BY <1>1, <1>2, <2>1 DEF LiveOK, Alike
  <2> QED BY <2>3, <2>4
<1>4. ASSUME b.tool = "read", UNCHANGED lease,
             \A k \in Running(j[1]) : job[<<j[1], k>>].tool = "read"
      PROVE  LeaseHeld' /\ (\A k \in Bodies : LiveOK(k)')
  <2>1. ASSUME NEW k \in Bodies \ {j}, job[k].live, k[1] = j[1] PROVE job[k].tool = "read"
    BY <1>4, <2>1, BodyIs DEF Running
  <2>2. LeaseHeld' BY <1>1, <1>2, <1>4 DEF LeaseHeld, Alike
  <2>3. ASSUME NEW k \in Bodies PROVE LiveOK(k)'
    BY <1>1, <1>2, <1>4, <2>1 DEF LiveOK, Alike
  <2> QED BY <2>2, <2>3
<1>5. LeaseHeld' /\ (\A k \in Bodies : LiveOK(k)')
  BY <1>3, <1>4
<1>6. Unsigned /\ Minds(j) /\ ClaimOK'
  <2>1. Unsigned /\ Minds(j) BY DEF Unsigned, Minds
  <2>2. ClaimOK' BY DEF FilesInv, ClaimOK, Held
  <2> QED BY <2>1, <2>2
<1>7. ASSUME NEW k \in Bodies \ {j}
      PROVE  LookOK(k)' /\ PeerOK(k)' /\ BlindOK(k)' /\ AsideOK(k)' /\ MoveOK(job[k])'
  BY <1>1, <1>6, OthersLook, PeerStill, AsideStill, OthersMove
<1>8. LeftOK'
  <2> SUFFICES ASSUME escs = 0 PROVE LeftOK' BY DEF LeftOK
  <2>1. ASSUME NEW k \in Bodies, job'[k].tool # "none" PROVE job'[k].live
    BY <1>1, <1>2, <2>1 DEF FilesInv, LeftOK, Alike
  <2>2. ASSUME NEW w \in Windows, NEW p \in Paths
        PROVE  left'[w][p] \in {Unseen, seen'[w][p]} \/ Noting(w, p)'
    <3>1. Noting(w, p) => Noting(w, p)' BY <1>2, NotingSame
    <3> QED BY <3>1 DEF FilesInv, LeftOK
  <2> QED BY <2>1, <2>2 DEF LeftOK
<1>9. ShapeOK(job[j])' /\ MoveOK(job[j])' BY <1>2 DEF ShapeOK
<1> QED BY <1>1, <1>5, <1>6, <1>7, <1>8, <1>9 DEF FilesInv, FilesTypeOK

\* A new body.
Fresh(b, tool, p, pc) ==
    /\ b.tool = tool /\ b.path = p /\ b.to = Nobody /\ b.pc = pc /\ b.live
    /\ b.was = file[p] /\ b.aside = NoFile

LEMMA FreshIs ==
    ASSUME FilesInv, NEW p \in Paths, NEW tool \in Writers \cup {"read"}, NEW pc \in Places
    PROVE  Body(tool, p, pc) \in Job /\ Fresh(Body(tool, p, pc), tool, p, pc)
<1>1. file[p] \in Value BY FileIs
<1> QED BY <1>1 DEF Body, Fresh, NoJob, Job, Value, Writers, Places

LEMMA FreshNext ==
    ASSUME NEW b \in Job, NEW tool, NEW p, NEW pc, NEW x \in Value, Fresh(b, tool, p, pc)
    PROVE  \E c \in Job : c = [b EXCEPT !.next = x] /\ Fresh(c, tool, p, pc) /\ c.next = x
<1>1. [b EXCEPT !.next = x] \in Job BY DEF Job
<1>2. [b EXCEPT !.next = x].next = x BY DEF Job
<1>3. Fresh([b EXCEPT !.next = x], tool, p, pc) BY DEF Fresh, Job
<1> QED BY <1>1, <1>2, <1>3

LEMMA CallIs ==
    ASSUME FilesInv, NEW w \in Windows, NEW i \in Jobs, NEW b \in Job, Call(w, i, b)
    PROVE  /\ <<w, i>> \in Bodies /\ <<w, i>>[1] = w /\ Swap(<<w, i>>, b, {})
           /\ job[<<w, i>>].tool = "none" /\ phase[w] = "turn"
           /\ UNCHANGED <<file, idea, hidden, phase, wrote, owners, author, escs>>
           /\ Typed
           /\ lease' \in Windows \cup {Nobody} /\ edits' \in 0..MaxEdits
              /\ {seen', left'} \subseteq [Windows -> [Paths -> Content \cup {Unseen}]] => Typed'
<1>1. <<w, i>> \in Bodies /\ <<w, i>>[1] = w BY BodyOf
<1>2. Typed BY DEF FilesInv, FilesTypeOK
<1>3. Swap(<<w, i>>, b, {}) BY <1>1, <1>2, SwapOnly DEF Call, Typed
<1>4. job[<<w, i>>].tool = "none" BY DEF Call, NoJob
<1>5. calls' \in 0..MaxCalls BY <1>2, FileConstants DEF Call, Typed
<1>6. job' \in [Bodies -> Job] BY <1>3 DEF Swap
<1>7. phase[w] = "turn" /\ UNCHANGED <<file, idea, hidden, phase, wrote, owners, author, escs>>
  BY DEF Call
<1>8. ASSUME lease' \in Windows \cup {Nobody}, edits' \in 0..MaxEdits,
             {seen', left'} \subseteq [Windows -> [Paths -> Content \cup {Unseen}]]
      PROVE  Typed'
  BY <1>2, <1>5, <1>6, <1>7, <1>8 DEF Typed
<1> QED BY <1>1, <1>2, <1>3, <1>4, <1>7, <1>8

LEMMA NewEditIs ==
    ASSUME FilesInv, NewEdit
    PROVE  edits' \in 0..MaxEdits /\ edits' \in 1..MaxEdits
<1>1. edits \in 0..MaxEdits /\ MaxEdits \in Nat BY FileConstants DEF FilesInv, FilesTypeOK, Typed
<1> QED BY <1>1 DEF NewEdit

LEMMA ReadStep ==
    ASSUME FilesInv, NEW w \in Windows, NEW i \in Jobs, NEW p \in Paths, Read(w, i, p)
    PROVE  FilesInv'
<1>1. PICK b \in Job : b = Body("read", p, "note") /\ Fresh(b, "read", p, "note")
  BY FreshIs DEF Places
<1>2. /\ Call(w, i, b) /\ UNCHANGED <<seen, left, lease, edits>> /\ file[p] # NoFile
      /\ \A k \in Running(w) : job[<<w, k>>].tool = "read"
  BY <1>1 DEF Read
<1>3. /\ <<w, i>> \in Bodies /\ <<w, i>>[1] = w /\ Swap(<<w, i>>, b, {})
      /\ job[<<w, i>>].tool = "none" /\ phase[w] = "turn"
      /\ UNCHANGED <<file, idea, hidden, phase, wrote, owners, author, escs>> /\ Typed
  BY <1>2, CallIs
<1>4. Typed'
  <2>1. /\ lease' \in Windows \cup {Nobody} /\ edits' \in 0..MaxEdits
        /\ {seen', left'} \subseteq [Windows -> [Paths -> Content \cup {Unseen}]]
    BY <1>2, <1>3 DEF Typed
  <2> QED BY <1>2, <2>1, CallIs
<1>5. SeenOK' BY <1>2, <1>3 DEF FilesInv, SeenOK
<1>6. file[p] \in Content BY <1>2, FileIs DEF Value
<1>7. ShapeOK(b) /\ ~Writing(b) /\ MoveOK(b)'
  BY <1>1, <1>6 DEF Fresh, ShapeOK, Writing, MoveOK, Creating
<1>8. b.tool = "read" /\ b.live BY <1>1 DEF Fresh
<1>9. LookOK(<<w, i>>)' /\ PeerOK(<<w, i>>)' /\ BlindOK(<<w, i>>)' /\ AsideOK(<<w, i>>)'
  BY <1>3, <1>7, <1>8 DEF LookOK, PeerOK, BlindOK, AsideOK, Swap
<1> QED BY <1>2, <1>3, <1>4, <1>5, <1>7, <1>8, <1>9, Starts

\* What a call under the lease owes.
LEMMA BeginLeased ==
    ASSUME FilesInv, NEW w \in Windows, NEW i \in Jobs, NEW b \in Job, Call(w, i, b), UnderLease(w),
           UNCHANGED <<seen, left>>, edits' \in 0..MaxEdits,
           ShapeOK(b), b.live, Writing(b) => Known(idea[w][b.path]) \subseteq b.next /\ b.pc = "guard",
           Writing(b) => b.was = file[b.path], MoveOK(b),
           b.tool = "move" => b.aside = NoFile /\ b.next = file[b.to] /\ (b.own <=> b.to \in wrote[w])
    PROVE  FilesInv'
<1>1. /\ <<w, i>> \in Bodies /\ <<w, i>>[1] = w /\ Swap(<<w, i>>, b, {})
      /\ job[<<w, i>>].tool = "none" /\ phase[w] = "turn"
      /\ UNCHANGED <<file, idea, hidden, phase, wrote, owners, author, escs>> /\ Typed
  BY CallIs
<1>2. Running(w) = {} /\ lease \in {Nobody, w} /\ lease' = w BY DEF UnderLease
<1>3. Typed'
  <2>1. {seen', left'} \subseteq [Windows -> [Paths -> Content \cup {Unseen}]]
    BY <1>1 DEF Typed
  <2> QED BY <1>2, <2>1, CallIs
<1>4. SeenOK' BY <1>1 DEF FilesInv, SeenOK
<1>5. LookOK(<<w, i>>)' /\ PeerOK(<<w, i>>)'
  <2>1. job'[<<w, i>>] = b BY <1>1 DEF Swap
  <2>2. ~Writing(b) \/ (Known(idea'[w][b.path]) \subseteq b.next /\ b.pc = "guard") BY <1>1
  <2>3. ~Writing(b) \/ b.was = file'[b.path] BY <1>1
  <2> QED BY <1>1, <2>1, <2>2, <2>3 DEF LookOK, PeerOK
<1>6. MoveOK(b)' BY <1>1 DEF MoveOK
<1>7. BlindOK(<<w, i>>)'
  <2> SUFFICES ASSUME Writing(b), NEW x \in Known(b.was) PROVE Held(b.path, x)'
    BY <1>1 DEF BlindOK, Swap
  <2>1. b.path \in Paths BY DEF ShapeOK, Writing
  <2> QED BY <1>1, <2>1 DEF FilesInv, ClaimOK, Held
<1>8. AsideOK(<<w, i>>)'
  <2> SUFFICES ASSUME b.tool = "move", ~b.own, NEW x \in Known(b.next), author[b.to][x] = w
               PROVE  owners[b.to] # Nobody
    <3>1. job'[<<w, i>>] = b BY <1>1 DEF Swap
    <3> QED BY <1>1, <3>1, KnownNothing DEF AsideOK
  <2>1. b.to \in Paths BY DEF ShapeOK
  <2>2. Held(b.to, x) BY <2>1 DEF FilesInv, ClaimOK
  <2>3. w # Nobody BY FileConstants
  <2> QED BY <1>1, <2>2, <2>3 DEF Held
<1> QED BY <1>1, <1>2, <1>3, <1>4, <1>5, <1>6, <1>7, <1>8, Starts

LEMMA WriteStep ==
    ASSUME FilesInv, NEW w \in Windows, NEW i \in Jobs, NEW p \in Paths, Write(w, i, p)
    PROVE  FilesInv'
<1> DEFINE x == Known(idea[w][p]) \cup {edits'}
<1>1. /\ UnderLease(w) /\ NewEdit /\ UNCHANGED <<seen, left>>
      /\ Call(w, i, [Body("write", p, "guard") EXCEPT !.next = x])
  BY DEF Write
<1>2. edits' \in 0..MaxEdits /\ edits' \in 1..MaxEdits BY <1>1, NewEditIs
<1>3. x \in Content /\ x \in Value
  <2>1. idea[w][p] \in Value \cup {Unseen} BY DEF FilesInv, FilesTypeOK, Typed, Value
  <2>2. Known(idea[w][p]) \in Content BY <2>1, KnownType
  <2> QED BY <1>2, <2>2 DEF Content, Value
<1>4. Body("write", p, "guard") \in Job /\ Fresh(Body("write", p, "guard"), "write", p, "guard")
  BY FreshIs DEF Writers, Places
<1>5. PICK b \in Job : /\ b = [Body("write", p, "guard") EXCEPT !.next = x]
                       /\ Fresh(b, "write", p, "guard") /\ b.next = x
  BY <1>3, <1>4, FreshNext
<1>6. ShapeOK(b) /\ b.live /\ MoveOK(b) /\ b.tool # "move" BY <1>3, <1>5 DEF ShapeOK, Fresh, MoveOK, Creating
<1>7. /\ Known(idea[w][b.path]) \subseteq b.next /\ b.pc = "guard"
      /\ b.was = file[b.path]
  BY <1>5 DEF Fresh
<1>8. Call(w, i, b) BY <1>1, <1>5
<1> QED BY <1>1, <1>2, <1>6, <1>7, <1>8, BeginLeased

LEMMA EditTextStep ==
    ASSUME FilesInv, NEW w \in Windows, NEW i \in Jobs, NEW p \in Paths, EditText(w, i, p)
    PROVE  FilesInv'
<1> DEFINE x == file[p] \cup {edits'}
<1>1. /\ UnderLease(w) /\ NewEdit /\ UNCHANGED <<seen, left>> /\ file[p] # NoFile
      /\ Call(w, i, [Body("edit", p, "compare") EXCEPT !.next = x])
  BY DEF EditText
<1>2. edits' \in 0..MaxEdits /\ edits' \in 1..MaxEdits BY <1>1, NewEditIs
<1>3. file[p] \in Content /\ x \in Content /\ x \in Value
  <2>1. file[p] \in Content BY <1>1, FileIs DEF Value
  <2> QED BY <1>2, <2>1 DEF Content, Value
<1>4. Body("edit", p, "compare") \in Job /\ Fresh(Body("edit", p, "compare"), "edit", p, "compare")
  BY FreshIs DEF Writers, Places
<1>5. PICK b \in Job : /\ b = [Body("edit", p, "compare") EXCEPT !.next = x]
                       /\ Fresh(b, "edit", p, "compare") /\ b.next = x
  BY <1>3, <1>4, FreshNext
<1>6. ShapeOK(b) /\ b.live /\ MoveOK(b) /\ ~Writing(b) /\ b.tool # "move"
  BY <1>3, <1>5 DEF ShapeOK, Fresh, MoveOK, Writing, Creating
<1>7. Call(w, i, b) BY <1>1, <1>5
<1> QED BY <1>1, <1>2, <1>6, <1>7, BeginLeased

LEMMA EditNewStep ==
    ASSUME FilesInv, NEW w \in Windows, NEW i \in Jobs, NEW p \in Paths, EditNew(w, i, p)
    PROVE  FilesInv'
<1> DEFINE x == {edits'}
<1>1. /\ UnderLease(w) /\ NewEdit /\ UNCHANGED <<seen, left>> /\ file[p] = NoFile
      /\ Call(w, i, [Body("create", p, "compare") EXCEPT !.next = x])
  BY DEF EditNew
<1>2. edits' \in 0..MaxEdits /\ edits' \in 1..MaxEdits BY <1>1, NewEditIs
<1>3. x \in Content /\ x \in Value BY <1>2 DEF Content, Value
<1>4. /\ Body("create", p, "compare") \in Job
      /\ Fresh(Body("create", p, "compare"), "create", p, "compare")
  BY FreshIs DEF Writers, Places
<1>5. PICK b \in Job : /\ b = [Body("create", p, "compare") EXCEPT !.next = x]
                       /\ Fresh(b, "create", p, "compare") /\ b.next = x
  BY <1>3, <1>4, FreshNext
<1>6. ShapeOK(b) /\ b.live /\ MoveOK(b) /\ ~Writing(b) /\ b.tool # "move"
  BY <1>1, <1>3, <1>5 DEF ShapeOK, Fresh, MoveOK, Writing, Creating
<1>7. Call(w, i, b) BY <1>1, <1>5
<1> QED BY <1>1, <1>2, <1>6, <1>7, BeginLeased

LEMMA RewriteStep ==
    ASSUME FilesInv, NEW w \in Windows, NEW i \in Jobs, NEW p \in Paths, Rewrite(w, i, p)
    PROVE  FilesInv'
<1>1. /\ UnderLease(w) /\ file[p] # NoFile /\ idea[w][p] = file[p] /\ Call(w, i, NoJob)
      /\ seen' = [seen EXCEPT ![w][p] = file[p]]
      /\ left' = [left EXCEPT ![w][p] = IF @ = file[p] THEN file[p] ELSE Unseen]
      /\ UNCHANGED edits
  BY DEF Rewrite, Record
<1>2. /\ <<w, i>> \in Bodies /\ <<w, i>>[1] = w /\ Swap(<<w, i>>, NoJob, {})
      /\ job[<<w, i>>].tool = "none" /\ phase[w] = "turn"
      /\ UNCHANGED <<file, idea, hidden, phase, wrote, owners, author, escs>> /\ Typed
  BY <1>1, CallIs, NoJobIs
<1>3. file[p] \in Content BY <1>1, FileIs DEF Value
<1>4. /\ seen' \in [Windows -> [Paths -> Content \cup {Unseen}]] /\ seen'[w][p] = file[p]
      /\ \A v \in Windows, q \in Paths : v # w \/ q # p => seen'[v][q] = seen[v][q]
  BY <1>1, <1>2, <1>3 DEF Typed
<1>5. /\ left' \in [Windows -> [Paths -> Content \cup {Unseen}]]
      /\ left'[w][p] \in {Unseen, file[p]}
      /\ \A v \in Windows, q \in Paths : v # w \/ q # p => left'[v][q] = left[v][q]
  BY <1>1, <1>2, <1>3 DEF Typed
<1>6. Typed'
  <2>1. lease' \in Windows \cup {Nobody} /\ edits' \in 0..MaxEdits
    BY <1>1, <1>2 DEF Typed, UnderLease
  <2> QED BY <1>1, <1>4, <1>5, <2>1, CallIs, NoJobIs
<1>7. SeenOK'
  <2> SUFFICES ASSUME NEW v \in Windows, NEW q \in Paths
               PROVE  Known(seen'[v][q]) \subseteq Known(idea'[v][q]) \cup hidden'[v][q]
    BY DEF SeenOK
  <2>1. CASE v = w /\ q = p BY <1>1, <1>2, <1>4, <2>1
  <2>2. CASE v # w \/ q # p BY <1>2, <1>4, <2>2 DEF FilesInv, SeenOK
  <2> QED BY <2>1, <2>2
<1>8. \A v \in Windows, q \in Paths :
          left'[v][q] \in {Unseen, seen'[v][q]} \/ UNCHANGED <<left[v][q], seen[v][q]>>
  BY <1>4, <1>5
<1>9. /\ LookOK(<<w, i>>)' /\ PeerOK(<<w, i>>)' /\ BlindOK(<<w, i>>)' /\ AsideOK(<<w, i>>)'
      /\ MoveOK(NoJob)'
  BY <1>2, OverOwes
<1>10. Running(w) = {} /\ lease \in {Nobody, w} /\ lease' = w BY <1>1 DEF UnderLease
<1>11. NoJob.tool = "none" BY DEF NoJob
<1> QED BY <1>2, <1>6, <1>7, <1>8, <1>9, <1>10, <1>11, NoJobIs, Starts

Away(b, q, x, own) == [b EXCEPT !.to = q, !.next = x, !.own = own]
LEMMA FreshMove ==
    ASSUME NEW b \in Job, NEW tool, NEW p, NEW pc, NEW x \in Value, NEW q \in Paths,
           NEW own \in BOOLEAN, Fresh(b, tool, p, pc)
    PROVE  LET c == Away(b, q, x, own) IN
           /\ c \in Job /\ c.tool = tool /\ c.path = p /\ c.to = q /\ c.pc = pc /\ c.live
           /\ c.was = file[p] /\ c.next = x /\ c.aside = NoFile /\ (c.own <=> own)
BY DEF Job, Fresh, Away

LEMMA FileMoveStep ==
    ASSUME FilesInv, NEW w \in Windows, NEW i \in Jobs, NEW p \in Paths, NEW q \in Paths,
           Move(w, i, p, q)
    PROVE  FilesInv'
<1> DEFINE pc == IF file[q] = NoFile THEN "move" ELSE "stash"
           own == q \in wrote[w]
           body == Away(Body("move", p, pc), q, file[q], own)
<1>1. /\ UnderLease(w) /\ UNCHANGED <<seen, left, edits>> /\ file[p] # NoFile /\ p # q
      /\ Call(w, i, body)
  BY DEF Move, Movable, Away
<1>2. file[p] \in Content /\ file[q] \in Value /\ own \in BOOLEAN BY <1>1, FileIs DEF Value
<1>3. Body("move", p, pc) \in Job /\ Fresh(Body("move", p, pc), "move", p, pc)
  BY FreshIs DEF Writers, Places
<1>4. /\ body \in Job /\ body.tool = "move" /\ body.path = p /\ body.to = q /\ body.pc = pc
      /\ body.live /\ body.was = file[p] /\ body.next = file[q] /\ body.aside = NoFile
      /\ (body.own <=> own)
  <2> HIDE DEF own, pc
  <2> QED BY <1>2, <1>3, FreshMove
<1> HIDE DEF body
<1>5. ShapeOK(body) /\ ~Writing(body) BY <1>1, <1>2, <1>4 DEF ShapeOK, Writing, Creating
<1>6. MoveOK(body) BY <1>4 DEF MoveOK
<1>7. edits' \in 0..MaxEdits
  BY <1>1 DEF FilesInv, FilesTypeOK, Typed
<1> QED BY <1>1, <1>4, <1>5, <1>6, <1>7, BeginLeased

-----------------------------------------------------------------------------
(* Turns, crashes and the other programs.                                    *)
\* Bodies may stop or be forgotten; nothing else of them changes.
Stops(k) == \/ job'[k] = job[k] \/ job'[k] = NoJob
            \/ job'[k] = [job[k] EXCEPT !.live = FALSE]

LEMMA Ends ==
    ASSUME FilesInv, NEW w \in Windows, \A k \in Bodies : Stops(k), job' \in [Bodies -> Job],
           \A k \in Bodies : k[1] = w => ~job'[k].live,
           \A k \in Bodies : k[1] # w => job'[k] = job[k],
           phase' \in [Windows -> {"turn", "seal", "gone"}], phase[w] # "gone",
           \A v \in Windows \ {w} : phase'[v] = phase[v],
           lease' = Released(w), UNCHANGED <<file, author, owners, calls, edits>>,
           \A v \in Windows \ {w} : idea'[v] = idea[v] /\ hidden'[v] = hidden[v],
           wrote' \in [Windows -> SUBSET Paths],
           wrote' = wrote \/ (phase'[w] = "gone" /\ \A v \in Windows \ {w} : wrote'[v] = wrote[v]),
           escs' \in 0..MaxEscs,
           {seen', idea', left'} \subseteq [Windows -> [Paths -> Content \cup {Unseen}]],
           hidden' \in [Windows -> [Paths -> Content]],
           SeenOK', LeftOK'
    PROVE  FilesInv'
<1>1. Typed BY DEF FilesInv, FilesTypeOK
<1>2. ASSUME NEW k \in Bodies
      PROVE  /\ ShapeOK(job'[k]) /\ MoveOK(job[k])'
             /\ job'[k].live => job'[k] = job[k] /\ k[1] # w
  <2>1. job[k] \in Job /\ ShapeOK(job[k]) /\ MoveOK(job[k]) BY <1>1 DEF FilesInv, Typed
  <2>2. job'[k].live => job'[k] = job[k] /\ k[1] # w OBVIOUS
  <2>3. CASE job'[k] = job[k] BY <2>1, <2>2, <2>3 DEF MoveOK
  <2>4. CASE job'[k] = NoJob
    <3>1. ShapeOK(NoJob) /\ NoJob.tool = "none" BY NoJobType DEF NoJob
    <3> QED BY <2>2, <2>4, <3>1 DEF MoveOK
  <2>5. CASE job'[k] = [job[k] EXCEPT !.live = FALSE]
    <3>1. PICK c \in Job :
             /\ c = job'[k] /\ c.tool = job[k].tool /\ c.path = job[k].path /\ c.to = job[k].to
             /\ c.pc = job[k].pc /\ c.was = job[k].was /\ c.next = job[k].next
             /\ c.aside = job[k].aside /\ (c.disturbed <=> job[k].disturbed) /\ ~c.live
      BY <2>1, <2>5 DEF Job
    <3>2. ShapeOK(c) BY <2>1, <3>1 DEF ShapeOK, Creating
    <3>3. MoveOK(job[k])' BY <2>1, <3>1 DEF MoveOK
    <3> QED BY <2>2, <3>1, <3>2, <3>3
  <2> QED BY <2>3, <2>4, <2>5 DEF Stops
<1>3. Typed'
  <2>1. lease' \in Windows \cup {Nobody} BY <1>1 DEF Typed, Released
  <2> QED BY <1>1, <2>1 DEF Typed
<1>4. LeaseHeld'
  <2> SUFFICES ASSUME NEW k \in Bodies, job'[k].live, job'[k].tool \notin {"none", "read"}
               PROVE  lease' = k[1]
    BY DEF LeaseHeld
  <2>1. lease = k[1] /\ k[1] # w BY <1>2 DEF FilesInv, FilesTypeOK, LeaseHeld
  <2> QED BY <2>1 DEF Released
<1>5. ASSUME NEW k \in Bodies PROVE LiveOK(k)'
  <2>1. job'[k].live => phase'[k[1]] = "turn"
    <3>1. k[1] \in Windows BY BodyIs
    <3> QED BY <1>2, <3>1 DEF FilesInv, LiveOK
  <2>2. \A l \in Bodies : l[1] = k[1] /\ job'[l].live /\ job'[k].live /\ job'[k].tool # "read"
                          => l = k
    BY <1>2 DEF FilesInv, LiveOK
  <2> QED BY <2>1, <2>2 DEF LiveOK
<1>6. ASSUME NEW k \in Bodies
      PROVE  Writing(job'[k]) \/ (job'[k].tool = "move" /\ job'[k].live) =>
                 job'[k] = job[k] /\ k[1] \in Windows \ {w} /\ job[k] \in Job
  BY <1>1, <1>2, BodyIs DEF Writing, Typed
<1>7. ASSUME NEW p \in Paths, NEW x \in 1..MaxEdits
      PROVE  (Held(p, x) => Held(p, x)') /\ \A v : Harmless(p, x, v) => Harmless(p, x, v)'
  <2>1. author[p][x] \in Windows \cup {Nobody} BY AuthorIs
  <2>2. phase[author[p][x]] = "gone" /\ author[p][x] # Nobody => phase'[author[p][x]] = "gone"
    BY <2>1
  <2>3. ASSUME Held(p, x) PROVE Held(p, x)'
    <3>1. CASE author[p][x] = Nobody BY <3>1 DEF Held
    <3>2. CASE author[p][x] # Nobody
      <4>1. author[p][x] \in Windows BY <2>1, <3>2
      <4>2. \/ phase'[author[p][x]] = "gone"
            \/ p \in wrote[author[p][x]] => p \in wrote'[author[p][x]]
        BY <4>1
      <4> QED BY <2>2, <2>3, <3>2, <4>2 DEF Held
    <3> QED BY <3>1, <3>2
  <2>4. ASSUME NEW v, Harmless(p, x, v) PROVE Harmless(p, x, v)'
    BY <2>2, <2>4 DEF Harmless
  <2> QED BY <2>3, <2>4
<1>8. ClaimOK'
  <2> SUFFICES ASSUME NEW p \in Paths, NEW x \in Known(file[p]) PROVE Held(p, x)'
    BY DEF ClaimOK
  <2>1. Held(p, x) /\ x \in 1..MaxEdits BY FileIs DEF FilesInv, ClaimOK, Content
  <2> QED BY <1>7, <2>1
<1>9. ASSUME NEW k \in Bodies PROVE LookOK(k)'
  BY <1>6 DEF FilesInv, LookOK
<1>10. ASSUME NEW k \in Bodies, Writing(job'[k])
       PROVE  PeerOK(k)' /\ BlindOK(k)'
  <2>1. /\ job'[k] = job[k] /\ Writing(job[k]) /\ PeerOK(k) /\ BlindOK(k)
    BY <1>6, <1>10 DEF FilesInv
  <2>2. PICK p \in Paths, b \in Job : b = job[k] /\ p = b.path /\ b.was \in Value
    BY <1>6, <1>10, <2>1 DEF FilesInv, ShapeOK, Writing, Job
  <2>3. ASSUME NEW x \in Known(file[p]) \ Known(b.was) PROVE Harmless(p, x, k[1])'
    <3>1. Harmless(p, x, k[1]) BY <2>1, <2>2, <2>3 DEF PeerOK
    <3>2. x \in 1..MaxEdits BY <2>3, FileIs DEF Content
    <3> QED BY <1>7, <3>1, <3>2
  <2>4. ASSUME NEW x \in Known(b.was)
        PROVE  /\ b.pc = "guard" => Held(p, x)'
               /\ b.pc # "guard" /\ b.blind /\ ~Harmless(p, x, k[1])' =>
                      author[p][x] \in b.sealing \/ b.claim \notin {Nobody, author[p][x]}
    <3>1. x \in 1..MaxEdits BY <2>2, KnownType DEF Content
    <3>2. Held(p, x) => Held(p, x)' BY <1>7, <3>1
    <3>3. Harmless(p, x, k[1]) => Harmless(p, x, k[1])' BY <1>7, <3>1
    <3> QED BY <2>1, <2>2, <3>2, <3>3 DEF BlindOK
  <2>5. PeerOK(k)' BY <2>1, <2>2, <2>3 DEF PeerOK
  <2>6. BlindOK(k)' BY <2>1, <2>2, <2>4 DEF BlindOK
  <2> QED BY <2>5, <2>6
<1>11. ASSUME NEW k \in Bodies PROVE PeerOK(k)' /\ BlindOK(k)'
  BY <1>10 DEF PeerOK, BlindOK
<1>12. ASSUME NEW k \in Bodies PROVE AsideOK(k)'
  <2> SUFFICES ASSUME job'[k].tool = "move", job'[k].live PROVE AsideOK(k)' BY DEF AsideOK
  <2>1. job'[k] = job[k] /\ AsideOK(k) BY <1>6 DEF FilesInv
  <2>2. PICK q \in Paths, b \in Job : b = job[k] /\ q = b.to /\ b.aside \in Value
    BY <1>6, <2>1 DEF FilesInv, ShapeOK, Job
  <2>3. Known(b.aside) \subseteq 1..MaxEdits BY <2>2, KnownType DEF Content
  <2>4. ASSUME NEW x \in Known(b.aside) PROVE Held(q, x)'
    <3>1. Held(q, x) BY <2>1, <2>2 DEF AsideOK
    <3> QED BY <1>7, <2>3, <3>1
  <2> QED BY <2>1, <2>2, <2>4 DEF AsideOK
<1> QED BY <1>2, <1>3, <1>4, <1>5, <1>8, <1>9, <1>11, <1>12 DEF FilesInv, FilesTypeOK

LEMMA EndTurnStep == ASSUME FilesInv, NEW w \in Windows, EndTurn(w) PROVE FilesInv'
<1>1. /\ phase[w] = "turn" /\ Running(w) = {} /\ phase' = [phase EXCEPT ![w] = "seal"]
      /\ lease' = Released(w)
      /\ UNCHANGED <<file, seen, idea, job, wrote, owners, author, bounds, ghosts>>
  BY DEF EndTurn
<1>2. Typed /\ SeenOK /\ LeftOK BY DEF FilesInv, FilesTypeOK
<1>3. ASSUME NEW k \in Bodies, k[1] = w PROVE ~job[k].live
  BY <1>1, <1>3, BodyIs DEF Running
<1>4. UNCHANGED <<seen, idea, left, hidden, wrote, escs, calls, edits, job>>
  BY <1>1 DEF ghosts, bounds
<1>5. SeenOK' /\ LeftOK'
  <2>1. SeenOK' BY <1>2, <1>4 DEF SeenOK
  <2>2. LeftOK' BY <1>2, <1>4 DEF LeftOK, Noting
  <2> QED BY <2>1, <2>2
<1>6. \A k \in Bodies : Stops(k) /\ (k[1] = w => ~job'[k].live) /\ job'[k] = job[k]
  BY <1>1, <1>3 DEF Stops
<1>7. phase' \in [Windows -> {"turn", "seal", "gone"}] /\ \A v \in Windows \ {w} : phase'[v] = phase[v]
  BY <1>1, <1>2 DEF Typed
<1>8. /\ wrote' \in [Windows -> SUBSET Paths] /\ hidden' \in [Windows -> [Paths -> Content]]
      /\ {seen', idea', left'} \subseteq [Windows -> [Paths -> Content \cup {Unseen}]]
      /\ job' \in [Bodies -> Job] /\ escs' \in 0..MaxEscs /\ phase[w] # "gone"
  BY <1>1, <1>2, <1>4 DEF Typed
<1> QED BY <1>1, <1>4, <1>5, <1>6, <1>7, <1>8, Ends

\* After an Esc or a crash nothing is said of what was written last.
LEMMA Escaped == ASSUME FilesInv, escs' = escs + 1, escs < MaxEscs PROVE LeftOK' /\ escs' \in 0..MaxEscs
<1>1. escs \in 0..MaxEscs /\ MaxEscs \in Nat BY FileConstants DEF FilesInv, FilesTypeOK, Typed
<1>2. escs' # 0 /\ escs' \in 0..MaxEscs BY <1>1
<1> QED BY <1>2 DEF LeftOK

LEMMA Stopped == ASSUME NEW b \in Job PROVE [b EXCEPT !.live = FALSE] \in Job
                                            /\ ~[b EXCEPT !.live = FALSE].live
BY DEF Job

LEMMA EscStep == ASSUME FilesInv, NEW w \in Windows, Esc(w) PROVE FilesInv'
<1>1. /\ phase[w] = "turn" /\ escs < MaxEscs /\ escs' = escs + 1
      /\ phase' = [phase EXCEPT ![w] = "seal"] /\ lease' = Released(w)
      /\ job' = [j \in Bodies |-> IF j[1] = w THEN [job[j] EXCEPT !.live = FALSE] ELSE job[j]]
      /\ UNCHANGED <<file, seen, idea, wrote, owners, author, calls, edits, ghosts>>
  BY DEF Esc
<1>2. Typed /\ SeenOK BY DEF FilesInv, FilesTypeOK
<1>3. LeftOK' /\ escs' \in 0..MaxEscs BY <1>1, Escaped
<1>4. ASSUME NEW k \in Bodies
      PROVE  job'[k] \in Job /\ Stops(k) /\ (k[1] = w => ~job'[k].live)
             /\ (k[1] # w => job'[k] = job[k])
  <2>1. job[k] \in Job BY JobIs
  <2>2. CASE k[1] = w
    <3>1. job'[k] = [job[k] EXCEPT !.live = FALSE] BY <1>1, <2>2
    <3> QED BY <2>1, <2>2, <3>1, Stopped DEF Stops
  <2>3. CASE k[1] # w
    <3>1. job'[k] = job[k] BY <1>1, <2>3
    <3> QED BY <2>1, <2>3, <3>1 DEF Stops
  <2> QED BY <2>2, <2>3
<1>5. job' \in [Bodies -> Job]
  <2>1. job' = [j \in Bodies |-> job'[j]] BY <1>1
  <2> QED BY <1>4, <2>1
<1>6. UNCHANGED <<seen, idea, left, hidden>> /\ SeenOK'
  BY <1>1, <1>2 DEF ghosts, SeenOK
<1>7. phase' \in [Windows -> {"turn", "seal", "gone"}] /\ \A v \in Windows \ {w} : phase'[v] = phase[v]
  BY <1>1, <1>2 DEF Typed
<1>8. /\ wrote' \in [Windows -> SUBSET Paths] /\ hidden' \in [Windows -> [Paths -> Content]]
      /\ {seen', idea', left'} \subseteq [Windows -> [Paths -> Content \cup {Unseen}]]
  BY <1>1, <1>2, <1>6 DEF Typed
<1> QED BY <1>1, <1>3, <1>4, <1>5, <1>6, <1>7, <1>8, Ends

LEMMA SealStep == ASSUME FilesInv, NEW w \in Windows, Seal(w) PROVE FilesInv'
<1>1. /\ phase[w] = "seal" /\ phase' = [phase EXCEPT ![w] = "turn"]
      /\ owners' = [p \in Paths |-> IF p \in wrote[w] THEN w ELSE owners[p]]
      /\ wrote' = [wrote EXCEPT ![w] = {}]
      /\ UNCHANGED <<file, seen, idea, job, lease, author, bounds, ghosts>>
  BY DEF Seal
<1>2. /\ FilesTypeOK /\ SeenOK /\ LeftOK /\ Typed /\ LeaseHeld
      /\ ClaimOK
      /\ \A j \in Bodies : /\ ShapeOK(job[j]) /\ LiveOK(j) /\ LookOK(j) /\ PeerOK(j)
                           /\ BlindOK(j) /\ AsideOK(j) /\ MoveOK(job[j]) /\ job[j] \in Job
  BY JobIs DEF FilesInv, FilesTypeOK
<1>3. /\ phase' \in [Windows -> {"turn", "seal", "gone"}]
      /\ \A v \in Windows : phase'[v] = phase[v] \/ phase'[v] = "turn"
      /\ \A v \in Windows : phase[v] = "gone" => phase'[v] = "gone"
  BY <1>1, <1>2 DEF Typed
<1>4. Typed'
  <2>1. owners' \in [Paths -> Windows \cup {Nobody}] /\ wrote' \in [Windows -> SUBSET Paths]
    BY <1>1, <1>2 DEF Typed
  <2> QED BY <1>1, <1>2, <1>3, <2>1 DEF Typed, bounds, ghosts
<1>5. /\ SeenOK' /\ LeftOK' /\ LeaseHeld' /\ UNCHANGED <<job, idea, hidden, file>>
  BY <1>1, <1>2 DEF SeenOK, LeftOK, LeaseHeld, Noting, bounds, ghosts
<1>6. ASSUME NEW k \in Bodies PROVE ShapeOK(job[k])' /\ LookOK(k)' /\ MoveOK(job[k])'
  BY <1>1, <1>2, <1>5 DEF ShapeOK, LookOK, MoveOK
<1>7. ASSUME NEW k \in Bodies PROVE LiveOK(k)'
  <2>1. k[1] \in Windows BY BodyIs
  <2> QED BY <1>1, <1>2, <1>3, <2>1 DEF LiveOK
<1>8. ASSUME NEW p \in Paths, NEW x \in 1..MaxEdits
      PROVE  (Held(p, x) => Held(p, x)') /\ \A v : Harmless(p, x, v) => Harmless(p, x, v)'
  <2>1. author[p][x] \in Windows \cup {Nobody} BY AuthorIs
  <2>2. phase[author[p][x]] = "gone" /\ author[p][x] # Nobody => phase'[author[p][x]] = "gone"
    BY <1>3, <2>1
  <2>3. /\ owners[p] # Nobody => owners'[p] # Nobody
        /\ author[p][x] # Nobody /\ p \in wrote[author[p][x]] =>
               p \in wrote'[author[p][x]] \/ owners'[p] # Nobody
    <3>1. w # Nobody BY FileConstants
    <3> QED BY <1>1, <1>2, <2>1, <3>1 DEF Typed
  <2>4. ASSUME Held(p, x) PROVE Held(p, x)' BY <1>1, <2>2, <2>3, <2>4 DEF Held
  <2>5. ASSUME NEW v, Harmless(p, x, v) PROVE Harmless(p, x, v)'
    BY <1>1, <2>2, <2>5 DEF Harmless
  <2> QED BY <2>4, <2>5
<1>9. ClaimOK'
  <2> SUFFICES ASSUME NEW p \in Paths, NEW x \in Known(file[p]) PROVE Held(p, x)'
    BY <1>5 DEF ClaimOK
  <2>1. Held(p, x) /\ x \in 1..MaxEdits BY <1>2, FileIs DEF ClaimOK, Content
  <2> QED BY <1>8, <2>1
<1>10. ASSUME NEW k \in Bodies, Writing(job[k])
       PROVE  PeerOK(k)' /\ BlindOK(k)'
  <2>1. PICK p \in Paths, b \in Job : b = job[k] /\ p = b.path /\ b.was \in Value
    BY <1>2, <1>10 DEF ShapeOK, Writing, Job
  <2>2. ASSUME NEW x \in Known(file[p]) \ Known(b.was) PROVE Harmless(p, x, k[1])'
    <3>1. Harmless(p, x, k[1]) BY <1>2, <1>10, <2>1, <2>2 DEF PeerOK
    <3>2. x \in 1..MaxEdits BY <2>2, FileIs DEF Content
    <3> QED BY <1>8, <3>1, <3>2
  <2>3. ASSUME NEW x \in Known(b.was)
        PROVE  /\ b.pc = "guard" => Held(p, x)'
               /\ b.pc # "guard" /\ b.blind /\ ~Harmless(p, x, k[1])' =>
                      author[p][x] \in b.sealing \/ b.claim \notin {Nobody, author[p][x]}
    <3>1. x \in 1..MaxEdits BY <2>1, KnownType DEF Content
    <3>2. Held(p, x) => Held(p, x)' BY <1>8, <3>1
    <3>3. Harmless(p, x, k[1]) => Harmless(p, x, k[1])' BY <1>8, <3>1
    <3> QED BY <1>2, <1>10, <2>1, <3>2, <3>3 DEF BlindOK
  <2>4. PeerOK(k)' BY <1>5, <2>1, <2>2 DEF PeerOK
  <2>5. BlindOK(k)' BY <1>1, <1>5, <2>1, <2>3 DEF BlindOK
  <2> QED BY <2>4, <2>5
<1>11. ASSUME NEW k \in Bodies PROVE PeerOK(k)' /\ BlindOK(k)'
  BY <1>5, <1>10 DEF PeerOK, BlindOK
<1>12. ASSUME NEW k \in Bodies PROVE AsideOK(k)'
  <2> SUFFICES ASSUME job[k].tool = "move", job[k].live PROVE AsideOK(k)' BY <1>5 DEF AsideOK
  <2>1. job'[k] = job[k] /\ AsideOK(k) BY <1>2, <1>5
  <2>2. PICK q \in Paths, b \in Job : b = job[k] /\ q = b.to /\ b.aside \in Value
    BY <1>2, <2>1 DEF ShapeOK, Job
  <2>3. Known(b.aside) \subseteq 1..MaxEdits BY <2>2, KnownType DEF Content
  <2>4. ASSUME NEW x \in Known(b.aside) PROVE Held(q, x)'
    <3>1. Held(q, x) BY <2>1, <2>2 DEF AsideOK
    <3> QED BY <1>8, <2>3, <3>1
  <2>5. owners[q] # Nobody => owners'[q] # Nobody
    <3>1. w # Nobody BY FileConstants
    <3> QED BY <1>1, <3>1
  <2> QED BY <1>1, <2>1, <2>2, <2>4, <2>5 DEF AsideOK
<1> QED BY <1>4, <1>5, <1>6, <1>7, <1>9, <1>11, <1>12 DEF FilesInv, FilesTypeOK

LEMMA CrashStep == ASSUME FilesInv, NEW w \in Windows, Crash(w) PROVE FilesInv'
<1>1. /\ phase[w] # "gone" /\ escs < MaxEscs /\ escs' = escs + 1
      /\ phase' = [phase EXCEPT ![w] = "gone"] /\ lease' = Released(w)
      /\ job' = [j \in Bodies |-> IF j[1] # w THEN job[j] ELSE IF job[j].aside = NoFile THEN NoJob
                                  ELSE [job[j] EXCEPT !.live = FALSE]]
      /\ seen' = [seen EXCEPT ![w] = Nothing] /\ idea' = [idea EXCEPT ![w] = Nothing]
      /\ left' = [left EXCEPT ![w] = Nothing]
      /\ hidden' = [hidden EXCEPT ![w] = [p \in Paths |-> {}]]
      /\ wrote' = [wrote EXCEPT ![w] = {}]
      /\ UNCHANGED <<file, owners, author, calls, edits>>
  BY DEF Crash
<1>2. Typed /\ SeenOK BY DEF FilesInv, FilesTypeOK
<1>3. LeftOK' /\ escs' \in 0..MaxEscs BY <1>1, Escaped
<1>4. ASSUME NEW k \in Bodies
      PROVE  job'[k] \in Job /\ Stops(k) /\ (k[1] = w => ~job'[k].live)
             /\ (k[1] # w => job'[k] = job[k])
  <2>1. job[k] \in Job BY JobIs
  <2>2. CASE k[1] = w /\ job[k].aside # NoFile
    <3>1. job'[k] = [job[k] EXCEPT !.live = FALSE] BY <1>1, <2>2
    <3> QED BY <2>1, <2>2, <3>1, Stopped DEF Stops
  <2>3. CASE k[1] = w /\ job[k].aside = NoFile
    <3>1. job'[k] = NoJob BY <1>1, <2>3
    <3> QED BY <2>1, <2>3, <3>1, NoJobIs DEF Stops
  <2>4. CASE k[1] # w
    <3>1. job'[k] = job[k] BY <1>1, <2>4
    <3> QED BY <2>1, <2>4, <3>1 DEF Stops
  <2> QED BY <2>2, <2>3, <2>4
<1>5. job' \in [Bodies -> Job]
  <2>1. job' = [j \in Bodies |-> job'[j]] BY <1>1
  <2> QED BY <1>4, <2>1
<1>6. Nothing \in [Paths -> Content \cup {Unseen}] /\ [p \in Paths |-> {}] \in [Paths -> Content]
  BY DEF Nothing, Content
<1>7. /\ {seen', idea', left'} \subseteq [Windows -> [Paths -> Content \cup {Unseen}]]
      /\ hidden' \in [Windows -> [Paths -> Content]] /\ wrote' \in [Windows -> SUBSET Paths]
      /\ phase' \in [Windows -> {"turn", "seal", "gone"}]
  BY <1>1, <1>2, <1>6 DEF Typed
<1>8. \A v \in Windows \ {w} : /\ seen'[v] = seen[v] /\ idea'[v] = idea[v]
                               /\ hidden'[v] = hidden[v] /\ phase'[v] = phase[v]
                               /\ wrote'[v] = wrote[v]
  BY <1>1, <1>2 DEF Typed
<1>9. phase'[w] = "gone" BY <1>1, <1>2 DEF Typed
<1>10. SeenOK'
  <2> SUFFICES ASSUME NEW v \in Windows, NEW q \in Paths
               PROVE  Known(seen'[v][q]) \subseteq Known(idea'[v][q]) \cup hidden'[v][q]
    BY DEF SeenOK
  <2>1. CASE v = w
    <3>1. seen'[v][q] = Unseen BY <1>1, <1>2, <2>1 DEF Typed, Nothing
    <3> QED BY <3>1, KnownNothing
  <2>2. CASE v # w BY <1>2, <1>8, <2>2 DEF SeenOK
  <2> QED BY <2>1, <2>2
<1> QED BY <1>1, <1>3, <1>4, <1>5, <1>7, <1>8, <1>9, <1>10, Ends

LEMMA OutsideStep == ASSUME FilesInv, NEW p \in Paths, Outside(p) PROVE FilesInv'
<1>1. /\ \/ /\ NewEdit /\ file' = [file EXCEPT ![p] = Known(@) \cup {edits'}]
            /\ Signs(p, {edits'}, Nobody)
         \/ file' = [file EXCEPT ![p] = NoFile] /\ UNCHANGED <<author, edits>>
      /\ job' = Disturbed({p})
      /\ UNCHANGED <<seen, idea, turns, calls, escs, ghosts>>
  BY DEF Outside
<1>2. Typed /\ SeenOK /\ LeftOK /\ LeaseHeld BY DEF FilesInv, FilesTypeOK
<1>3. /\ job' \in [Bodies -> Job]
      /\ \A k \in Bodies : Alike(job[k], job'[k], {p})
  BY <1>1, <1>2, DisturbedAlike DEF Typed
<1>4. UNCHANGED <<seen, idea, phase, wrote, lease, owners, calls, escs, left, hidden>>
  BY <1>1 DEF turns, ghosts
<1>5. /\ author' \in [Paths -> [1..MaxEdits -> Windows \cup {Nobody}]] /\ edits' \in 0..MaxEdits
      /\ file' \in [Paths -> Value] /\ \A q \in Paths \ {p} : file'[q] = file[q]
      /\ \A q \in Paths, x \in 1..MaxEdits : author'[q][x] \in {author[q][x], Nobody}
      /\ \A x \in Known(file'[p]) \ Known(file[p]) : author'[p][x] = Nobody
  <2>1. CASE /\ NewEdit /\ file' = [file EXCEPT ![p] = Known(@) \cup {edits'}]
             /\ Signs(p, {edits'}, Nobody)
    <3>1. /\ edits' \in 0..MaxEdits /\ edits' \in 1..MaxEdits
          /\ author' \in [Paths -> [1..MaxEdits -> Windows \cup {Nobody}]]
          /\ \A q \in Paths, x \in 1..MaxEdits :
                 author'[q][x] = IF q = p /\ x \in {edits'} THEN Nobody ELSE author[q][x]
      BY <2>1, NewEditIs, SignsIs
    <3>2. Known(file[p]) \in Content BY FileIs
    <3>3. Known(file[p]) \cup {edits'} \in Content BY <3>1, <3>2 DEF Content
    <3>4. file' \in [Paths -> Value] /\ file'[p] = Known(file[p]) \cup {edits'}
          /\ \A q \in Paths \ {p} : file'[q] = file[q]
      BY <1>2, <2>1, <3>3 DEF Typed, Value
    <3>5. Known(file'[p]) = Known(file[p]) \cup {edits'} BY <3>3, <3>4, KnownIs
    <3> QED BY <3>1, <3>4, <3>5
  <2>2. CASE file' = [file EXCEPT ![p] = NoFile] /\ UNCHANGED <<author, edits>>
    <3>1. file' \in [Paths -> Value] /\ file'[p] = NoFile
          /\ \A q \in Paths \ {p} : file'[q] = file[q]
      BY <1>2, <2>2 DEF Typed, Value
    <3>2. author' \in [Paths -> [1..MaxEdits -> Windows \cup {Nobody}]] /\ edits' \in 0..MaxEdits
      BY <1>2, <2>2 DEF Typed
    <3> QED BY <2>2, <3>1, <3>2, KnownNothing
  <2> QED BY <1>1, <2>1, <2>2
<1>6. Typed' BY <1>2, <1>3, <1>4, <1>5 DEF Typed
<1>7. SeenOK' BY <1>2, <1>4 DEF SeenOK
<1>8. LeftOK'
  <2> SUFFICES ASSUME escs = 0 PROVE LeftOK' BY <1>4 DEF LeftOK
  <2>1. ASSUME NEW k \in Bodies, job'[k].tool # "none" PROVE job'[k].live
    BY <1>2, <1>3, <2>1 DEF LeftOK, Alike
  <2>2. ASSUME NEW w \in Windows, NEW q \in Paths, Noting(w, q) PROVE Noting(w, q)'
    BY <1>3, <2>2, BodyOf DEF Noting, Alike
  <2> QED BY <1>2, <1>4, <2>1, <2>2 DEF LeftOK
<1>9. LeaseHeld' BY <1>2, <1>3, <1>4 DEF LeaseHeld, Alike
<1>10. ASSUME NEW k \in Bodies PROVE ShapeOK(job[k])' /\ LiveOK(k)' /\ LookOK(k)'
  <2>1. Alike(job[k], job'[k], {p}) /\ ShapeOK(job[k]) /\ LiveOK(k) /\ LookOK(k)
    BY <1>3 DEF FilesInv
  <2>2. ShapeOK(job'[k]) BY <2>1 DEF ShapeOK, Alike, Creating
  <2>3. LiveOK(k)' BY <1>3, <1>4, <2>1 DEF LiveOK, Alike
  <2>4. LookOK(k)' BY <1>4, <2>1 DEF LookOK, Writing, Alike
  <2> QED BY <2>2, <2>3, <2>4 DEF ShapeOK
<1>11. Unsigned
  <2>1. \A q \in Paths : \A x \in Known(file'[q]) \ Known(file[q]) : author'[q][x] = Nobody
    BY <1>5
  <2> QED BY <1>4, <1>5, <2>1 DEF Unsigned
<1>12. ASSUME NEW k \in Bodies PROVE MoveOK(job[k])'
  <2>1. Alike(job[k], job'[k], {p}) /\ ShapeOK(job[k]) /\ MoveOK(job[k]) BY <1>3 DEF FilesInv
  <2> SUFFICES ASSUME job[k].tool = "move", ~job'[k].disturbed
               PROVE  MoveOK(job[k])'
    BY <2>1 DEF MoveOK, Alike
  <2>2. job[k].path \in Paths \ {p} /\ job[k].to \in Paths \ {p} BY <2>1 DEF ShapeOK, Alike
  <2>3. file'[job[k].path] = file[job[k].path] /\ file'[job[k].to] = file[job[k].to]
    BY <1>5, <2>2
  <2> QED BY <2>1, <2>3 DEF MoveOK, Alike
<1>13. ClaimOK' BY <1>4, <1>11, ClaimStill
<1>14. ASSUME NEW k \in Bodies PROVE PeerOK(k)' /\ BlindOK(k)' /\ AsideOK(k)'
  BY <1>3, <1>4, <1>11, PeerStill, AsideStill
<1> QED BY <1>6, <1>7, <1>8, <1>9, <1>10, <1>12, <1>13, <1>14 DEF FilesInv, FilesTypeOK

-----------------------------------------------------------------------------
(* The invariant.                                                            *)
LEMMA FilesInvInit == FilesInit => FilesInv
<1> SUFFICES ASSUME FilesInit PROVE FilesInv OBVIOUS
<1>1. /\ file \in [Paths -> {NoFile, {}}]
      /\ seen = [w \in Windows |-> [p \in Paths |-> Unseen]] /\ idea = seen /\ left = seen
      /\ job = [j \in Bodies |-> NoJob]
      /\ phase = [w \in Windows |-> "turn"] /\ wrote = [w \in Windows |-> {}]
      /\ lease = Nobody /\ owners = [p \in Paths |-> Nobody]
      /\ author = [p \in Paths |-> [x \in 1..MaxEdits |-> Nobody]] /\ calls = 0 /\ escs = 0 /\ edits = 0
      /\ hidden = [w \in Windows |-> [p \in Paths |-> {}]]
  BY DEF FilesInit, Nothing
<1>2. {} \in Content /\ {NoFile, {}} \subseteq Value BY DEF Content, Value
<1>3. Typed
  <2>1. 0 \in 0..MaxCalls /\ 0 \in 0..MaxEscs /\ 0 \in 0..MaxEdits BY FileConstants
  <2>2. job \in [Bodies -> Job] BY <1>1, NoJobIs
  <2>3. file \in [Paths -> Value] /\ hidden \in [Windows -> [Paths -> Content]] BY <1>1, <1>2
  <2>4. {seen, idea, left} \subseteq [Windows -> [Paths -> Content \cup {Unseen}]] BY <1>1
  <2> QED BY <1>1, <2>1, <2>2, <2>3, <2>4 DEF Typed
<1>4. ASSUME NEW j \in Bodies
      PROVE  /\ job[j] = NoJob /\ ShapeOK(job[j]) /\ ~job[j].live /\ ~Writing(job[j])
             /\ MoveOK(job[j]) /\ job[j].tool = "none"
  <2>1. job[j] = NoJob /\ NoJob.tool = "none" BY <1>1 DEF NoJob
  <2> QED BY <2>1, NoJobType
<1>5. LeaseHeld BY <1>4 DEF LeaseHeld
<1>6. SeenOK /\ LeftOK BY <1>1, <1>4, KnownNothing DEF SeenOK, LeftOK
<1>7. ClaimOK
  <2>1. ASSUME NEW p \in Paths PROVE Known(file[p]) = {}
    BY <1>1, <1>2, KnownNothing, KnownIs
  <2> QED BY <2>1 DEF ClaimOK
<1>8. ASSUME NEW j \in Bodies PROVE LiveOK(j) /\ LookOK(j) /\ PeerOK(j) /\ BlindOK(j) /\ AsideOK(j)
  BY <1>4 DEF LiveOK, LookOK, PeerOK, BlindOK, AsideOK
<1> QED BY <1>3, <1>4, <1>5, <1>6, <1>7, <1>8 DEF FilesInv, FilesTypeOK

LEMMA FilesInvStep == FilesInv /\ [FilesNext]_fileVars => FilesInv'
<1> SUFFICES ASSUME FilesInv, [FilesNext]_fileVars PROVE FilesInv' OBVIOUS
<1>1. CASE UNCHANGED fileVars
  <2>1. UNCHANGED <<file, seen, idea, job, phase, wrote, lease, owners, author, calls, escs,
                    edits, left, hidden>>
    BY <1>1 DEF fileVars, turns, ghosts, bounds
  <2>2. Typed' /\ LeaseHeld' BY <2>1 DEF FilesInv, FilesTypeOK, Typed, LeaseHeld
  <2>3. SeenOK' BY <2>1 DEF FilesInv, SeenOK
  <2>4. LeftOK' BY <2>1 DEF FilesInv, LeftOK, Noting
  <2>5. ASSUME NEW j \in Bodies
        PROVE  /\ ShapeOK(job[j])' /\ LiveOK(j)' /\ LookOK(j)' /\ PeerOK(j)'
               /\ BlindOK(j)' /\ AsideOK(j)' /\ MoveOK(job[j])'
    <3>1. ShapeOK(job[j])' BY <2>1 DEF FilesInv, ShapeOK
    <3>2. LiveOK(j)' BY <2>1 DEF FilesInv, LiveOK
    <3>3. LookOK(j)' /\ PeerOK(j)' BY <2>1 DEF FilesInv, LookOK, PeerOK, Harmless
    <3>4. MoveOK(job[j])' BY <2>1 DEF FilesInv, MoveOK
    <3>5. BlindOK(j)' BY <2>1 DEF FilesInv, BlindOK, Harmless, Held
    <3>6. AsideOK(j)' BY <2>1 DEF FilesInv, AsideOK, Held
    <3> QED BY <3>1, <3>2, <3>3, <3>4, <3>5, <3>6
  <2>6. ClaimOK' BY <2>1 DEF FilesInv, ClaimOK, Held
  <2> QED BY <2>2, <2>3, <2>4, <2>5, <2>6 DEF FilesInv, FilesTypeOK
<1>2. ASSUME NEW w \in Windows, EndTurn(w) \/ Esc(w) \/ Seal(w) \/ Crash(w) PROVE FilesInv'
  BY <1>2, EndTurnStep, EscStep, SealStep, CrashStep
<1>3. ASSUME NEW w \in Windows, NEW i \in Jobs, NEW p \in Paths,
             \/ Read(w, i, p) \/ Write(w, i, p) \/ Rewrite(w, i, p)
             \/ EditText(w, i, p) \/ EditNew(w, i, p)
             \/ \E q \in Paths : Move(w, i, p, q)
      PROVE  FilesInv'
  BY <1>3, ReadStep, WriteStep, RewriteStep, EditTextStep, EditNewStep, FileMoveStep
<1>4. ASSUME NEW p \in Paths, Outside(p) PROVE FilesInv' BY <1>4, OutsideStep
<1>5. ASSUME NEW j \in Bodies,
             \/ Guard(j) \/ Compare(j) \/ Replace(j) \/ Create(j) \/ Fill(j) \/ Note(j)
             \/ SetAside(j) \/ Copy(j) \/ Remove(j) \/ Fail(j) \/ Undo(j) \/ Clean(j)
             \/ \E copies \in BOOLEAN : Rename(j, copies)
      PROVE  FilesInv'
  BY <1>5, GuardStep, CompareStep, ReplaceStep, CreateStep, FillStep, NoteStep, SetAsideStep,
     CopyStep, RemoveStep, FailStep, UndoStep, CleanStep, RenameStep
<1> QED BY <1>1, <1>2, <1>3, <1>4, <1>5 DEF FilesNext

LEMMA FilesInvariant == FilesSpec => []FilesInv
BY FilesInvInit, FilesInvStep, PTL DEF FilesSpec

-----------------------------------------------------------------------------
(* What the runs check.                                                      *)

(* What file_write of a running turn takes from a running peer: from a file  *)
(* its window has looked at, only what it recorded without being told; from  *)
(* one it never looked at, only work of a turn that had not been sealed when *)
(* it asked, or whose claim a third had followed (overwrite_conflict,        *)
(* live_peer_claim).                                                         *)
THEOREM FilesKept == FilesSpec => Survives
<1>1. ASSUME FilesInv, NEW j \in Bodies, NEW x \in 1..MaxEdits, Buries(j, x), ~job[j].blind
      PROVE  Unshown(j, x)
  <2>1. Writing(job[j]) /\ job[j].pc # "guard" BY <1>1 DEF Buries, Writing
  <2>2. LookOK(j) /\ PeerOK(j) BY <1>1 DEF FilesInv
  <2>3. x \in Known(job[j].was)
    <3>1. ~Harmless(job[j].path, x, j[1]) BY <1>1 DEF Buries, Harmless
    <3> QED BY <1>1, <2>1, <2>2, <3>1 DEF Buries, PeerOK
  <2>4. /\ Known(idea[j[1]][job[j].path]) \subseteq job[j].next
        /\ Known(job[j].was) \subseteq Known(idea[j[1]][job[j].path]) \cup hidden[j[1]][job[j].path]
    BY <1>1, <2>1, <2>2 DEF LookOK
  <2> QED BY <1>1, <2>3, <2>4 DEF Buries, Unshown
<1>2. ASSUME FilesInv, NEW j \in Bodies, NEW x \in 1..MaxEdits, Buries(j, x), job[j].blind
      PROVE  Unclaimed(j, x)
  <2>1. Writing(job[j]) /\ job[j].pc # "guard" BY <1>2 DEF Buries, Writing
  <2>2. BlindOK(j) /\ PeerOK(j) BY <1>2 DEF FilesInv
  <2>3. ~Harmless(job[j].path, x, j[1]) BY <1>2 DEF Buries, Harmless
  <2>4. x \in Known(job[j].was) BY <1>2, <2>1, <2>2, <2>3 DEF Buries, PeerOK
  <2> QED BY <1>2, <2>1, <2>2, <2>3, <2>4 DEF BlindOK, Unclaimed
<1>3. FilesInv => [\A j \in Bodies, x \in 1..MaxEdits : Buries(j, x) =>
          IF job[j].blind THEN Unclaimed(j, x) ELSE Unshown(j, x)]_fileVars
  BY <1>1, <1>2
<1> QED BY <1>3, FilesInvariant, PTL DEF Survives

\* A step of body k leaves the others where they stand.
LEMMA OverStands ==
    ASSUME FilesInv, NEW k \in Bodies, NEW j \in Bodies \ {k}, NEW b, job' = [job EXCEPT ![k] = b]
    PROVE  job'[j].pc = job[j].pc
<1>1. job \in [Bodies -> Job] BY JobIs
<1> QED BY <1>1

LEMMA WriteStands ==
    ASSUME FilesInv, NEW k \in Bodies, NEW j \in Bodies \ {k}, NEW b, NEW S, Writes(k, b, S)
    PROVE  job'[j].pc = job[j].pc
<1>1. job \in [Bodies -> Job] /\ job[j] \in Job BY JobIs
<1>2. job'[j] = Disturbed(S)[j] BY DEF Writes, Disturbed
<1>3. \/ Disturbed(S)[j] = [job[j] EXCEPT !.disturbed = job[j].tool = "move"]
      \/ Disturbed(S)[j] = job[j]
  BY DEF Disturbed
<1>4. [job[j] EXCEPT !.disturbed = job[j].tool = "move"].pc = job[j].pc BY <1>1 DEF Job
<1> QED BY <1>2, <1>3, <1>4

\* Only its own step, or a crash, ends a body that stands at the guard or at the undo.
LEMMA EndsItself ==
    ASSUME FilesInv, FilesNext, NEW j \in Bodies, job[j].pc \in {"guard", "undo"},
           job'[j].pc = "none", phase'[j[1]] # "gone"
    PROVE  Guard(j) \/ Undo(j)
<1>1. job \in [Bodies -> Job] /\ job[j] \in Job /\ j[1] \in Windows BY JobIs, BodyIs
<1>2. Typed BY DEF FilesInv, FilesTypeOK
<1>4. ASSUME NEW w \in Windows, EndTurn(w) \/ Seal(w) PROVE job'[j].pc = job[j].pc
  BY <1>4 DEF EndTurn, Seal
<1>5. ASSUME NEW w \in Windows, Esc(w) PROVE job'[j].pc = job[j].pc
  <2>1. job'[j] = IF j[1] = w THEN [job[j] EXCEPT !.live = FALSE] ELSE job[j] BY <1>5 DEF Esc
  <2>2. [job[j] EXCEPT !.live = FALSE].pc = job[j].pc BY <1>1 DEF Job
  <2> QED BY <2>1, <2>2
<1>6. ASSUME NEW w \in Windows, Crash(w) PROVE job'[j].pc = job[j].pc
  <2>1. phase'[w] = "gone" BY <1>2, <1>6 DEF Crash, Typed
  <2>2. j[1] # w BY <2>1
  <2> QED BY <1>6, <2>2 DEF Crash
<1>7. ASSUME NEW w \in Windows, NEW i \in Jobs, NEW b, Call(w, i, b) PROVE job'[j].pc = job[j].pc
  <2>1. job[<<w, i>>].pc = "none" BY <1>7 DEF Call, NoJob
  <2> QED BY <1>1, <1>7, <2>1 DEF Call
<1>8. ASSUME NEW w \in Windows, NEW i \in Jobs, NEW p \in Paths,
             \/ Read(w, i, p) \/ Write(w, i, p) \/ Rewrite(w, i, p)
             \/ EditText(w, i, p) \/ EditNew(w, i, p)
             \/ \E q \in Paths : Move(w, i, p, q)
      PROVE  job'[j].pc = job[j].pc
  <2>1. \E b : Call(w, i, b) BY <1>8 DEF Read, Write, Rewrite, EditText, EditNew, Move
  <2> QED BY <1>7, <2>1
<1>9. ASSUME NEW p \in Paths, Outside(p) PROVE job'[j].pc = job[j].pc
  BY <1>1, <1>9, DisturbedAlike DEF Outside, Alike
<1>10. ASSUME NEW k \in Bodies,
             \/ Guard(k) \/ Compare(k) \/ Replace(k) \/ Create(k) \/ Fill(k) \/ Note(k)
             \/ SetAside(k) \/ Copy(k) \/ Remove(k) \/ Fail(k) \/ Undo(k) \/ Clean(k)
             \/ \E copies \in BOOLEAN : Rename(k, copies)
      PROVE  job'[j].pc = job[j].pc \/ Guard(j) \/ Undo(j)
  <2>1. CASE k = j
    BY <1>10, <2>1 DEF Compare, Replace, Create, Fill, Note, SetAside, Copy, Remove, Fail, Clean,
       Rename, Stands
  <2>2. CASE k # j
    <3> SUFFICES ASSUME job'[j].pc # job[j].pc PROVE FALSE OBVIOUS
    <3>1. ~Over(k) /\ \A pc : ~Goto(k, pc) BY <2>2, OverStands DEF Over, Goto
    <3>2. \A b, S : ~Writes(k, b, S) BY <2>2, WriteStands
    <3>3. ~Guard(k) BY <2>2, <3>1, OverStands DEF Guard
    <3>4. ~(Compare(k) \/ Note(k) \/ Clean(k) \/ Fail(k)) BY <3>1 DEF Compare, Note, Clean, Fail
    <3>5. ~Replace(k) BY <3>2 DEF Replace
    <3>6. ~Create(k) /\ ~SetAside(k) BY <3>1, <3>2 DEF Create, SetAside
    <3>7. ~Fill(k) /\ ~Undo(k) BY <3>2 DEF Fill, Undo
    <3>8. ~Copy(k) /\ ~Remove(k) BY <3>2 DEF Copy, Remove, Onward
    <3>9. \A copies \in BOOLEAN : ~Rename(k, copies) BY <3>2 DEF Rename, Onward
    <3> QED BY <1>10, <3>3, <3>4, <3>5, <3>6, <3>7, <3>8, <3>9
  <2> QED BY <2>1, <2>2
<1> QED BY <1>4, <1>5, <1>6, <1>8, <1>9, <1>10 DEF FilesNext

(* While no turn has been dropped and no process has died, file_write never  *)
(* refuses a file that is as this window's own last write left it            *)
(* (read_ledger::note and forget).                                           *)
THEOREM OwnWorkKept == FilesSpec => OwnWorkKnown
<1>1. ASSUME FilesInv, FilesNext, NEW j \in Bodies, job[j].pc = "guard", job'[j].pc = "none",
             phase'[j[1]] # "gone", escs = 0
      PROVE  job[j].was # left[j[1]][job[j].path]
  <2> DEFINE w == j[1]
             p == job[j].path
  <2>1. job[j] \in Job /\ job \in [Bodies -> Job] /\ w \in Windows BY <1>1, JobIs, BodyIs
  <2>2. /\ ShapeOK(job[j]) /\ LiveOK(j) /\ LeftOK BY <1>1 DEF FilesInv
  <2>3. job[j].tool = "write" /\ p \in Paths /\ job[j].live
    BY <1>1, <2>1, <2>2 DEF ShapeOK, Creating, Job, LeftOK
  <2>4. Guard(j) BY <1>1, EndsItself DEF Undo, Stands
  <2>5. job[j].was # NoFile /\ Stale(w, p, job[j].was)
    <3>1. ~(job' = [job EXCEPT ![j] = [@ EXCEPT
                       !.pc = "compare", !.blind = (seen[w][p] = Unseen),
                       !.claim = owners[p], !.sealing = {x \in Windows : p \in wrote[x]}]])
      <4>1. [job[j] EXCEPT !.pc = "compare", !.blind = (seen[w][p] = Unseen),
                           !.claim = owners[p],
                           !.sealing = {x \in Windows : p \in wrote[x]}].pc = "compare"
        BY <2>1 DEF Job
      <4> QED BY <1>1, <2>1, <4>1
    <3> QED BY <2>4, <3>1 DEF Guard
  <2>6. job[j].was # Unseen BY <2>1, FileConstants DEF Job, Value
  <2>7. ~Noting(w, p)
    <3> SUFFICES ASSUME Noting(w, p) PROVE FALSE OBVIOUS
    <3>1. PICK i \in Jobs : job[<<w, i>>].pc = "note" /\ job[<<w, i>>].tool \in {"write", "edit"}
      BY DEF Noting
    <3>2. <<w, i>> \in Bodies /\ <<w, i>>[1] = w BY <2>1, BodyOf
    <3>3. job[<<w, i>>].live BY <1>1, <2>2, <3>1, <3>2 DEF LeftOK
    <3>4. <<w, i>> = j BY <2>2, <2>3, <3>2, <3>3 DEF LiveOK
    <3> QED BY <1>1, <3>1, <3>4
  <2>8. left[w][p] \in {Unseen, seen[w][p]} BY <1>1, <2>1, <2>2, <2>3, <2>7 DEF LeftOK
  <2> QED BY <2>5, <2>6, <2>8 DEF Stale
<1>2. FilesInv /\ [FilesNext]_fileVars => [\A j \in Bodies :
          job[j].pc = "guard" /\ job'[j].pc = "none" /\ phase'[j[1]] # "gone" /\ escs = 0
              => job[j].was # left[j[1]][job[j].path]]_fileVars
  BY <1>1
<1> QED BY <1>2, FilesInvariant, PTL DEF OwnWorkKnown, FilesSpec

LEMMA Keeps == FilesInv => FilesTypeOK /\ BothKept
<1> SUFFICES ASSUME FilesInv PROVE BothKept BY DEF FilesInv
<1>1. ASSUME NEW j \in Bodies, job[j].tool = "move", ~job[j].disturbed
      PROVE  LET b == job[j] IN
             /\ b.was \in {file[b.path], file[b.to]}
             /\ b.next \in {NoFile, file[b.to], b.aside}
                  \/ (file[b.to] = b.was /\ file[b.path] = NoFile)
  BY <1>1 DEF FilesInv, ShapeOK, MoveOK
<1> QED BY <1>1 DEF BothKept

(* file_move loses neither file at any step, by Esc, a failure or a death,   *)
(* and one that fails has put the old destination back, unless somebody      *)
(* else wrote to either path meanwhile (FileMove::execute, move_path).       *)
THEOREM MovesSafe == FilesSpec => MoveSafe
<1>1. ASSUME FilesInv, FilesNext, NEW j \in Bodies, job[j].pc = "undo", job'[j].pc = "none",
             phase'[j[1]] # "gone", ~job[j].disturbed
      PROVE  file'[job[j].path] = job[j].was /\ job[j].next \in {NoFile, file'[job[j].to]}
  <2>1. Undo(j) BY <1>1, EndsItself DEF Guard, Stands
  <2>2. /\ job[j].tool = "move" /\ job[j].path \in Paths /\ job[j].to \in Paths
        /\ job[j].path # job[j].to /\ MoveOK(job[j]) /\ Typed
    BY <1>1, MoverIs
  <2>3. job[j].aside = job[j].next /\ file[job[j].path] = job[j].was
    BY <1>1, <2>2 DEF MoveOK
  <2>4. file' = IF job[j].aside = NoFile THEN file ELSE [file EXCEPT ![job[j].to] = job[j].aside]
    BY <2>1 DEF Undo
  <2> QED BY <2>2, <2>3, <2>4 DEF Typed
<1>2. FilesInv /\ FilesInv' /\ [FilesNext]_fileVars => [FilesTypeOK' /\ BothKept' /\ \A j \in Bodies :
          LET b == job[j] IN
          b.pc = "undo" /\ job'[j].pc = "none" /\ phase'[j[1]] # "gone" /\ ~b.disturbed
              => file'[b.path] = b.was /\ b.next \in {NoFile, file'[b.to]}]_fileVars
  <2>1. FilesInv' => FilesTypeOK' /\ BothKept' BY Keeps, PTL
  <2> QED BY <1>1, <2>1
<1> QED BY <1>2, FilesInvariant, FilesInvStep, PTL DEF MoveSafe, FilesSpec

===============================================================================
