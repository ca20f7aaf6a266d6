---------------------------- MODULE LeaseProofs -----------------------------
(***************************************************************************)
(* Proofs about the two leases on the file system: the crash-recovery      *)
(* lease of a process (RecoveryLease) and the writer lease of a worktree   *)
(* (WorkspaceLease).                                                       *)
(***************************************************************************)
EXTENDS RecoveryLease, WorkspaceLease, TLAPS

(***************************************************************************)
(* The commit protocol of the recovery lease, for every set of             *)
(* conversations and drafts and every number of generations, when a write  *)
(* fails only before its rename and removals succeed.                      *)
(***************************************************************************)

SoundIO == Faults \subseteq {"early"}

Writing == op # Nothing /\ op.at \in {"hist", "draft", "publish", "undoHist", "undoDraft"}
Reaping == op # Nothing /\ op.at \in {"reapHist", "reapDraft"}

Clean(g) == histF[g] = NoConv /\ draftF[g] = NoDraft

\* The lease is held, in memory and on disk alike.
MemIsDisk ==
    /\ mem # Nothing => mem = disk
    /\ status = "running" => mem # Nothing
    /\ op # Nothing => mem # Nothing
    /\ op # Nothing => status \in {"running", "crashed"}
    /\ status \in {"clearing", "exited"} => mem = Nothing
    /\ status \in {"off", "unprotected"} => mem = Nothing /\ disk = Nothing /\ last = Nothing
                                            /\ ~touched /\ body = "none"
    /\ status = "off" => \A g \in Gens : Clean(g)

\* How far checkpoint_history has come, and what it has written so far.
OpProgress ==
    op # Nothing =>
        /\ Writing => op.old = mem.gen /\ op.gen = mem.gen + 1
        /\ Reaping => op.old + 1 = mem.gen /\ op.gen = mem.gen /\ op.old > 0
        /\ op.at \in {"draft", "publish"} => histF[op.gen] = op.conv
        /\ op.at = "publish" => draftF[op.gen] = op.draft
        /\ op.at = "hist" => draftF[op.gen] = NoDraft
        /\ op.at = "draft" => op.draft # NoDraft
        /\ op.at = "draft" => draftF[op.gen] = NoDraft
        /\ op.at = "undoDraft" => histF[op.gen] = NoConv
        /\ op.at = "reapDraft" => histF[op.old] = NoConv

\* Only the committed generation and the one being written or reaped have files.
NoStrays ==
    mem # Nothing =>
        \A g \in Gens :
            \/ g = mem.gen
            \/ Writing /\ g = op.gen
            \/ Reaping /\ g = op.old
            \/ Clean(g)

\* The committed generation holds what the last successful commit saved.
Committed ==
    mem # Nothing =>
        /\ mem.gen = 0 <=> last = Nothing
        /\ mem.gen > 0 => Boundary(mem.gen) = last

Flagged ==
    mem # Nothing /\ ~markLost /\ (touched \/ body = "started") => mem.effects

IInv == TypeOK /\ MemIsDisk /\ OpProgress /\ NoStrays /\ Committed /\ Flagged

-----------------------------------------------------------------------------
(* The records the actions build are manifests and operations.             *)

LEMMA ManifestFresh == Fresh \in Manifest \ {Nothing}
<1>1. Fresh \in Manifest  BY ConstAssumption DEF Fresh, Manifest, Phases
<1>2. QED  BY <1>1, NothingAssumption

LEMMA ManifestUpdates ==
    ASSUME NEW m \in Manifest
    PROVE  /\ \A p \in Phases : /\ [m EXCEPT !.phase = p] \in Manifest \ {Nothing}
                                /\ [m EXCEPT !.phase = p].gen = m.gen
                                /\ [m EXCEPT !.phase = p].effects = m.effects
           /\ [m EXCEPT !.ckpt = TRUE] \in Manifest \ {Nothing}
           /\ [m EXCEPT !.ckpt = TRUE].gen = m.gen
           /\ [m EXCEPT !.ckpt = TRUE].effects = m.effects
           /\ [m EXCEPT !.effects = TRUE] \in Manifest \ {Nothing}
           /\ [m EXCEPT !.effects = TRUE].gen = m.gen
           /\ [m EXCEPT !.effects = TRUE].effects = TRUE
BY NothingAssumption DEF Manifest

LEMMA OpMoves ==
    ASSUME NEW o \in Op,
           NEW s \in {"hist", "draft", "publish", "undoHist", "undoDraft", "reapHist", "reapDraft"}
    PROVE  /\ [o EXCEPT !.at = s] \in Op \ {Nothing}
           /\ [o EXCEPT !.at = s].at = s
           /\ [o EXCEPT !.at = s].conv = o.conv
           /\ [o EXCEPT !.at = s].draft = o.draft
           /\ [o EXCEPT !.at = s].phase = o.phase
           /\ [o EXCEPT !.at = s].gen = o.gen
           /\ [o EXCEPT !.at = s].old = o.old
BY NothingAssumption DEF Op

LEMMA StartedOp ==
    ASSUME NEW m \in Manifest, m.gen < MaxGen, NEW c \in Convs,
           NEW d \in Drafts \cup {NoDraft}, NEW p \in Phases
    PROVE  [at |-> "hist", conv |-> c, draft |-> d, phase |-> p,
            gen |-> m.gen + 1, old |-> m.gen] \in Op \ {Nothing}
<1>1. m.gen \in Nat /\ m.gen + 1 \in Gens /\ m.gen \in 0..MaxGen
  BY ConstAssumption DEF Manifest, Gens
<1>2. QED  BY <1>1, NothingAssumption DEF Op

LEMMA CommittedManifest ==
    ASSUME TypeOK, op \in Op, mem \in Manifest
    PROVE  /\ NextManifest \in Manifest \ {Nothing}
           /\ NextManifest.gen = op.gen
           /\ NextManifest.phase = op.phase
           /\ NextManifest.effects = (mem.effects /\ op.phase # "Idle")
<1>1. LenOf[op.conv] \in Nat /\ op.gen \in 0..MaxGen /\ op.phase \in Phases
  BY ConstAssumption DEF Op, Gens
<1>2. (mem.ckpt /\ op.phase # "Idle") \in BOOLEAN /\ (mem.effects /\ op.phase # "Idle") \in BOOLEAN
  OBVIOUS
<1>3. NextManifest \in Manifest
  BY <1>1, <1>2 DEF NextManifest, Manifest
<1>4. QED  BY <1>3, NothingAssumption DEF NextManifest

-----------------------------------------------------------------------------
LEMMA InitIInv == Init => IInv
BY ConstAssumption, NothingAssumption DEF Init, IInv, TypeOK, MemIsDisk, OpProgress, NoStrays,
   Committed, Flagged, Clean, Gens, Writing, Reaping

LEMMA StepIInv ==
    ASSUME SoundIO, IInv, [Next]_vars
    PROVE  IInv'
<1> USE ConstAssumption, NothingAssumption DEF SoundIO, IInv
<1>1. CASE Begin
  <2>1. TypeOK'
    BY <1>1, ManifestFresh DEF Begin, TypeOK, ghosts
  <2>2. MemIsDisk'
    BY <1>1, ManifestFresh DEF Begin, MemIsDisk, TypeOK, ghosts
  <2>3. /\ op' = Nothing /\ mem' \in {Fresh, Nothing} /\ last' = Nothing
        /\ ~touched' /\ body' = "none"
        /\ \A g \in Gens : Clean(g)'
    BY <1>1 DEF Begin, MemIsDisk, Clean, ghosts
  <2>4. OpProgress' /\ NoStrays' /\ Committed' /\ Flagged'
    BY <2>3 DEF OpProgress, NoStrays, Committed, Flagged, Writing, Reaping, Clean, Fresh
  <2>5. QED  BY <2>1, <2>2, <2>4
<1>2. CASE SetCheckpoint
  <2>1. TypeOK'
    BY <1>2, ManifestUpdates, ZenonT(60) DEF SetCheckpoint, files, ghosts, Quiet, WriteManifest, TypeOK,
       MemIsDisk, Phases
  <2>2. MemIsDisk'
    BY <1>2, ManifestUpdates DEF SetCheckpoint, files, ghosts, Quiet, WriteManifest, TypeOK,
       MemIsDisk, Clean
  <2>3. OpProgress'
    BY <1>2 DEF SetCheckpoint, files, ghosts, Quiet, WriteManifest, TypeOK, MemIsDisk,
       OpProgress, NoStrays, Clean, Writing, Reaping, Op, Manifest, Gens
  <2>4. NoStrays'
    BY <1>2 DEF SetCheckpoint, files, ghosts, Quiet, WriteManifest, TypeOK, MemIsDisk,
       OpProgress, NoStrays, Clean, Writing, Reaping, Op, Manifest, Gens
  <2>5. Committed'
    BY <1>2 DEF SetCheckpoint, files, ghosts, Quiet, WriteManifest, TypeOK, MemIsDisk,
       OpProgress, Committed, Boundary, Writing, Reaping, Op, Manifest, Gens, BoundaryPair
  <2>6. Flagged'
    BY <1>2 DEF SetCheckpoint, files, ghosts, Quiet, WriteManifest, TypeOK, MemIsDisk,
       Flagged, Manifest, Op
  <2>7. QED  BY <2>1, <2>2, <2>3, <2>4, <2>5, <2>6
<1>3. CASE ToolStart
  <2>1. TypeOK'
    <3>1. mem \in Manifest
      BY <1>3 DEF ToolStart, Quiet, MemIsDisk, TypeOK
    <3>2. mem' \in Manifest /\ disk' \in Manifest \cup {Nothing}
      <4>1. CASE mem.effects
        BY <1>3, <3>1, <4>1 DEF ToolStart, TypeOK
      <4>2. CASE ~mem.effects
        <5>1. [mem EXCEPT !.effects = TRUE] \in Manifest
          BY <3>1, ManifestUpdates
        <5>2. QED  BY <1>3, <3>1, <4>2, <5>1 DEF ToolStart, WriteManifest, TypeOK
      <4>3. QED  BY <4>1, <4>2
    <3>3. markLost' \in BOOLEAN
      BY <1>3 DEF ToolStart, TypeOK
    <3>4. QED  BY <1>3, <3>2, <3>3 DEF ToolStart, TypeOK
  <2>a. /\ mem \in Manifest /\ mem # Nothing /\ mem = disk
        /\ mem' \in {mem, [mem EXCEPT !.effects = TRUE]} /\ mem' = disk'
        /\ status = "running" /\ UNCHANGED <<status, op, histF, draftF, last>>
    <3>1. /\ mem \in Manifest /\ mem # Nothing /\ mem = disk
          /\ status = "running" /\ UNCHANGED <<status, op, histF, draftF, last>>
      BY <1>3 DEF ToolStart, Quiet, MemIsDisk, TypeOK
    <3>2. mem' \in {mem, [mem EXCEPT !.effects = TRUE]} /\ mem' = disk'
      <4>1. CASE mem.effects
        BY <1>3, <3>1, <4>1 DEF ToolStart
      <4>2. CASE ~mem.effects
        BY <1>3, <3>1, <4>2 DEF ToolStart, WriteManifest
      <4>3. QED  BY <4>1, <4>2
    <3>3. QED  BY <3>1, <3>2
  <2>b. mem' # Nothing /\ mem'.gen = mem.gen
    BY <2>a, ManifestUpdates
  <2>2. MemIsDisk'
    BY <2>a, <2>b DEF MemIsDisk
  <2>3. OpProgress'
    BY <1>3 DEF ToolStart, files, ghosts, Quiet, WriteManifest, TypeOK, MemIsDisk,
       OpProgress, NoStrays, Clean, Writing, Reaping, Op, Manifest, Gens
  <2>4. NoStrays'
    BY <1>3 DEF ToolStart, files, ghosts, Quiet, WriteManifest, TypeOK, MemIsDisk,
       OpProgress, NoStrays, Clean, Writing, Reaping, Op, Manifest, Gens
  <2>5. Committed'
    BY <2>a, <2>b DEF Committed, Boundary
  <2>6. Flagged'
    BY <1>3 DEF ToolStart, files, ghosts, Quiet, WriteManifest, TypeOK, MemIsDisk, Flagged,
       Manifest, Op
  <2>7. QED  BY <2>1, <2>2, <2>3, <2>4, <2>5, <2>6
<1>4. CASE ToolActs
  BY <1>4 DEF ToolActs, TypeOK, MemIsDisk, OpProgress, NoStrays, Committed, Flagged, Clean,
     Writing, Reaping, Boundary, Quiet, files, ghosts
<1>5. CASE ToolEnds
  BY <1>5 DEF ToolEnds, TypeOK, MemIsDisk, OpProgress, NoStrays, Committed, Flagged, Clean,
     Writing, Reaping, Boundary, Quiet, files, ghosts
<1>6. CASE WriteHist
  <2>1. TypeOK'
    <3>1. op \in Op
      BY <1>6 DEF WriteHist, At, TypeOK
    <3>2. op' \in Op
      BY <1>6, <3>1 DEF WriteHist, Goto, Op
    <3>3. histF' \in [Gens -> Convs \cup {NoConv}]
      BY <1>6, <3>1 DEF WriteHist, TypeOK, Op
    <3>4. QED  BY <1>6, <3>2, <3>3 DEF WriteHist, TypeOK, ghosts, CommitFrame
  <2>2. MemIsDisk'
    BY <1>6, OpMoves DEF WriteHist, files, ghosts, At, Goto, CommitFrame, TypeOK, MemIsDisk,
       Clean
  <2>3. OpProgress'
    BY <1>6 DEF WriteHist, files, ghosts, At, Goto, CommitFrame, TypeOK, MemIsDisk,
       OpProgress, NoStrays, Clean, Writing, Reaping, Op, Manifest, Gens
  <2>4. NoStrays'
    <3>1. op \in Op /\ mem \in Manifest
      BY <1>6 DEF WriteHist, At, TypeOK, MemIsDisk
    <3>2. Writing' /\ op'.gen = op.gen
      BY <1>6, <3>1 DEF WriteHist, Goto, Op, Writing
    <3>3. \A g \in Gens : g # op.gen => histF'[g] = histF[g] /\ draftF'[g] = draftF[g]
      BY <1>6 DEF WriteHist, TypeOK
    <3>4. ~Reaping
      BY <1>6 DEF WriteHist, At, Reaping
    <3>5. QED  BY <1>6, <3>2, <3>3, <3>4 DEF WriteHist, NoStrays, Clean
  <2>5. Committed'
    BY <1>6 DEF WriteHist, files, ghosts, At, Goto, CommitFrame, TypeOK, MemIsDisk,
       OpProgress, Committed, Boundary, Writing, Reaping, Op, Manifest, Gens, BoundaryPair
  <2>6. Flagged'
    BY <1>6 DEF WriteHist, files, ghosts, At, Goto, CommitFrame, TypeOK, MemIsDisk, Flagged,
       Manifest, Op
  <2>7. QED  BY <2>1, <2>2, <2>3, <2>4, <2>5, <2>6
<1>7. CASE WriteDraft
  <2>1. TypeOK'
    <3>1. op \in Op
      BY <1>7 DEF WriteDraft, At, TypeOK
    <3>2. op' \in Op
      BY <1>7, <3>1 DEF WriteDraft, Goto, Op
    <3>3. draftF' \in [Gens -> Drafts \cup {NoDraft}]
      BY <1>7, <3>1 DEF WriteDraft, TypeOK, Op
    <3>4. QED  BY <1>7, <3>2, <3>3 DEF WriteDraft, TypeOK, ghosts, CommitFrame
  <2>2. MemIsDisk'
    BY <1>7, OpMoves DEF WriteDraft, files, ghosts, At, Goto, CommitFrame, TypeOK,
       MemIsDisk, Clean
  <2>3. OpProgress'
    BY <1>7 DEF WriteDraft, files, ghosts, At, Goto, CommitFrame, TypeOK, MemIsDisk,
       OpProgress, NoStrays, Clean, Writing, Reaping, Op, Manifest, Gens
  <2>4. NoStrays'
    <3>1. op \in Op /\ mem \in Manifest
      BY <1>7 DEF WriteDraft, At, TypeOK, MemIsDisk
    <3>2. Writing' /\ op'.gen = op.gen
      BY <1>7, <3>1 DEF WriteDraft, Goto, Op, Writing
    <3>3. \A g \in Gens : g # op.gen => histF'[g] = histF[g] /\ draftF'[g] = draftF[g]
      BY <1>7 DEF WriteDraft, TypeOK
    <3>4. ~Reaping
      BY <1>7 DEF WriteDraft, At, Reaping
    <3>5. QED  BY <1>7, <3>2, <3>3, <3>4 DEF WriteDraft, NoStrays, Clean
  <2>5. Committed'
    BY <1>7 DEF WriteDraft, files, ghosts, At, Goto, CommitFrame, TypeOK, MemIsDisk,
       OpProgress, Committed, Boundary, Writing, Reaping, Op, Manifest, Gens, BoundaryPair
  <2>6. Flagged'
    BY <1>7 DEF WriteDraft, files, ghosts, At, Goto, CommitFrame, TypeOK, MemIsDisk,
       Flagged, Manifest, Op
  <2>7. QED  BY <2>1, <2>2, <2>3, <2>4, <2>5, <2>6
<1>8. CASE Publish
  <2>1. TypeOK'
    <3>1. op \in Op /\ mem \in Manifest
      BY <1>8 DEF Publish, At, TypeOK, MemIsDisk
    <3>2. op' \in Op \cup {Nothing}
      BY <1>8, <3>1 DEF Publish, Goto, Op
    <3>3. mem' \in Manifest /\ disk' \in Manifest \cup {Nothing}
      BY <1>8, <3>1, CommittedManifest DEF Publish, TypeOK
    <3>4. last' \in BoundaryPair \cup {Nothing}
      BY <1>8, <3>1 DEF Publish, ghosts, TypeOK, Op, BoundaryPair
    <3>5. touched' \in BOOLEAN /\ markLost' \in BOOLEAN
      BY <1>8 DEF Publish, ghosts, TypeOK
    <3>6. QED  BY <1>8, <3>2, <3>3, <3>4, <3>5 DEF Publish, TypeOK
  <2>2. MemIsDisk'
    <3>1. op \in Op /\ mem \in Manifest /\ mem = disk /\ mem # Nothing
      BY <1>8 DEF Publish, At, TypeOK, MemIsDisk
    <3>2. mem' = disk' /\ mem' \in {mem, NextManifest}
      BY <1>8, <3>1 DEF Publish
    <3>3. mem' # Nothing
      BY <3>1, <3>2, CommittedManifest
    <3>4. status' = "running"
      BY <1>8 DEF Publish, At
    <3>5. QED  BY <3>2, <3>3, <3>4 DEF MemIsDisk
  <2>3. OpProgress'
    <3>1. op \in Op /\ mem \in Manifest /\ op.gen = mem.gen + 1 /\ op.old = mem.gen
      BY <1>8 DEF Publish, At, TypeOK, MemIsDisk, OpProgress, Writing
    <3>2. CASE mem' = mem /\ last' = last /\ op' = [op EXCEPT !.at = "undoHist"] /\ UNCHANGED <<ghosts, body>>
      BY <1>8, <3>1, <3>2, OpMoves DEF Publish, At, OpProgress, Writing, Reaping
    <3>3. CASE /\ mem' = NextManifest /\ last' = [conv |-> op.conv, draft |-> op.draft]
               /\ touched' = (touched /\ op.phase # "Idle") /\ markLost' = (markLost /\ op.phase # "Idle")
               /\ IF op.old > 0 THEN op' = [op EXCEPT !.at = "reapHist"] ELSE op' = Nothing
               /\ body' = IF op.phase = "Idle" /\ body # "none" THEN "detached" ELSE body
      BY <1>8, <3>1, <3>3, CommittedManifest DEF Publish, At, OpProgress, Writing, Reaping, Op, Manifest
    <3>4. QED  BY <1>8, <3>2, <3>3 DEF Publish, ghosts, Goto
  <2>4. NoStrays'
    <3>1. op \in Op /\ mem \in Manifest /\ op.gen = mem.gen + 1 /\ op.old = mem.gen
      BY <1>8 DEF Publish, At, TypeOK, MemIsDisk, OpProgress, Writing
    <3>2. CASE mem' = mem /\ last' = last /\ op' = [op EXCEPT !.at = "undoHist"] /\ UNCHANGED <<ghosts, body>>
      BY <1>8, <3>1, <3>2 DEF Publish, At, NoStrays, Writing, Reaping, Clean, Op
    <3>3. CASE /\ mem' = NextManifest /\ last' = [conv |-> op.conv, draft |-> op.draft]
               /\ touched' = (touched /\ op.phase # "Idle") /\ markLost' = (markLost /\ op.phase # "Idle")
               /\ IF op.old > 0 THEN op' = [op EXCEPT !.at = "reapHist"] ELSE op' = Nothing
               /\ body' = IF op.phase = "Idle" /\ body # "none" THEN "detached" ELSE body
      <4>1. mem'.gen = op.gen
        BY <3>1, <3>3, CommittedManifest
      <4>2. \A g \in Gens : g = mem.gen \/ g = op.gen \/ Clean(g)'
        BY <1>8, <3>1 DEF Publish, At, NoStrays, Writing, Reaping, Clean
      <4>3. op.old > 0 => Reaping' /\ op'.old = mem.gen
        BY <3>1, <3>3 DEF Reaping, Op
      <4>4. mem.gen \in Gens => op.old > 0
        BY <3>1 DEF Gens
      <4>5. QED  BY <4>1, <4>2, <4>3, <4>4 DEF NoStrays
    <3>4. QED  BY <1>8, <3>2, <3>3 DEF Publish, ghosts, Goto
  <2>5. Committed'
    <3>1. op \in Op /\ mem \in Manifest /\ op.gen = mem.gen + 1 /\ op.old = mem.gen
      BY <1>8 DEF Publish, At, TypeOK, MemIsDisk, OpProgress, Writing
    <3>2. CASE mem' = mem /\ last' = last /\ op' = [op EXCEPT !.at = "undoHist"] /\ UNCHANGED <<ghosts, body>>
      BY <1>8, <3>1, <3>2, OpMoves DEF Publish, At, Committed, Boundary
    <3>3. CASE /\ mem' = NextManifest /\ last' = [conv |-> op.conv, draft |-> op.draft]
               /\ touched' = (touched /\ op.phase # "Idle") /\ markLost' = (markLost /\ op.phase # "Idle")
               /\ IF op.old > 0 THEN op' = [op EXCEPT !.at = "reapHist"] ELSE op' = Nothing
               /\ body' = IF op.phase = "Idle" /\ body # "none" THEN "detached" ELSE body
      <4>1. mem'.gen = op.gen /\ op.gen \in Gens
        BY <3>1, <3>3, CommittedManifest DEF Op
      <4>2. histF'[op.gen] = op.conv /\ draftF'[op.gen] = op.draft
        BY <1>8 DEF Publish, At, OpProgress
      <4>3. last' # Nothing
        BY <3>1, <3>3 DEF Op, BoundaryPair
      <4>4. QED  BY <3>3, <4>1, <4>2, <4>3 DEF Committed, Boundary, Gens
    <3>4. QED  BY <1>8, <3>2, <3>3 DEF Publish, ghosts, Goto
  <2>6. Flagged'
    <3>1. op \in Op /\ mem \in Manifest /\ op.gen = mem.gen + 1 /\ op.old = mem.gen
      BY <1>8 DEF Publish, At, TypeOK, MemIsDisk, OpProgress, Writing
    <3>2. CASE mem' = mem /\ last' = last /\ op' = [op EXCEPT !.at = "undoHist"] /\ UNCHANGED <<ghosts, body>>
      BY <1>8, <3>1, <3>2, OpMoves DEF Publish, At, Flagged, ghosts
    <3>3. CASE /\ mem' = NextManifest /\ last' = [conv |-> op.conv, draft |-> op.draft]
               /\ touched' = (touched /\ op.phase # "Idle") /\ markLost' = (markLost /\ op.phase # "Idle")
               /\ IF op.old > 0 THEN op' = [op EXCEPT !.at = "reapHist"] ELSE op' = Nothing
               /\ body' = IF op.phase = "Idle" /\ body # "none" THEN "detached" ELSE body
      BY <1>8, <3>1, <3>3, CommittedManifest DEF Publish, At, Flagged, TypeOK
    <3>4. QED  BY <1>8, <3>2, <3>3 DEF Publish, ghosts, Goto
  <2>7. QED  BY <2>1, <2>2, <2>3, <2>4, <2>5, <2>6
<1>9. CASE UndoHist
  <2>1. TypeOK'
    BY <1>9, OpMoves DEF UndoHist, files, ghosts, At, Goto, CommitFrame, RemoveFile, TypeOK,
       MemIsDisk, Phases
  <2>2. MemIsDisk'
    BY <1>9, OpMoves DEF UndoHist, files, ghosts, At, Goto, CommitFrame, RemoveFile, TypeOK,
       MemIsDisk, Clean
  <2>3. OpProgress'
    BY <1>9 DEF UndoHist, files, ghosts, At, Goto, CommitFrame, RemoveFile, TypeOK,
       MemIsDisk, OpProgress, NoStrays, Clean, Writing, Reaping, Op, Manifest, Gens
  <2>4. NoStrays'
    <3>1. /\ op \in Op /\ mem \in Manifest /\ Writing
          /\ histF' = [histF EXCEPT ![op.gen] = NoConv]
          /\ UNCHANGED <<mem, draftF>>
      BY <1>9 DEF UndoHist, At, RemoveFile, TypeOK, MemIsDisk, Writing
    <3>2. \A g \in Gens : g = mem.gen \/ g = op.gen \/ Clean(g)
      BY <1>9, <3>1 DEF UndoHist, At, NoStrays, Writing, Reaping
    <3>3. Writing' /\ op'.gen = op.gen
      BY <1>9, <3>1 DEF UndoHist, Goto, Op, Writing
    <3>4. \A g \in Gens : Clean(g) => Clean(g)'
      BY <3>1 DEF Clean, TypeOK
    <3>5. QED  BY <3>1, <3>2, <3>3, <3>4 DEF NoStrays
  <2>5. Committed'
    BY <1>9 DEF UndoHist, files, ghosts, At, Goto, CommitFrame, RemoveFile, TypeOK,
       MemIsDisk, OpProgress, Committed, Boundary, Writing, Reaping, Op, Manifest, Gens,
       BoundaryPair
  <2>6. Flagged'
    BY <1>9 DEF UndoHist, files, ghosts, At, Goto, CommitFrame, RemoveFile, TypeOK,
       MemIsDisk, Flagged, Manifest, Op
  <2>7. QED  BY <2>1, <2>2, <2>3, <2>4, <2>5, <2>6
<1>10. CASE UndoDraft
  <2>1. TypeOK'
    BY <1>10, OpMoves DEF UndoDraft, files, ghosts, At, Goto, CommitFrame, RemoveFile,
       TypeOK, MemIsDisk, Phases
  <2>2. MemIsDisk'
    BY <1>10, OpMoves DEF UndoDraft, files, ghosts, At, Goto, CommitFrame, RemoveFile,
       TypeOK, MemIsDisk, Clean
  <2>3. OpProgress'
    BY <1>10 DEF UndoDraft, files, ghosts, At, Goto, CommitFrame, RemoveFile, TypeOK,
       MemIsDisk, OpProgress, NoStrays, Clean, Writing, Reaping, Op, Manifest, Gens
  <2>4. NoStrays'
    <3>1. draftF' = [draftF EXCEPT ![op.gen] = NoDraft] /\ histF[op.gen] = NoConv
      BY <1>10 DEF UndoDraft, At, RemoveFile, OpProgress
    <3>2. \A g \in Gens : g = mem.gen \/ g = op.gen \/ Clean(g)
      BY <1>10 DEF UndoDraft, At, NoStrays, Writing, Reaping, MemIsDisk
    <3>3. \A g \in Gens : g = mem.gen \/ (histF[g] = NoConv /\ draftF'[g] = NoDraft)
      BY <3>1, <3>2 DEF Clean, TypeOK
    <3>4. QED  BY <1>10, <3>3 DEF UndoDraft, NoStrays, Clean
  <2>5. Committed'
    BY <1>10 DEF UndoDraft, files, ghosts, At, Goto, CommitFrame, RemoveFile, TypeOK,
       MemIsDisk, OpProgress, Committed, Boundary, Writing, Reaping, Op, Manifest, Gens,
       BoundaryPair
  <2>6. Flagged'
    BY <1>10 DEF UndoDraft, files, ghosts, At, Goto, CommitFrame, RemoveFile, TypeOK,
       MemIsDisk, Flagged, Manifest, Op
  <2>7. QED  BY <2>1, <2>2, <2>3, <2>4, <2>5, <2>6
<1>11. CASE ReapHist
  <2>1. TypeOK'
    BY <1>11, OpMoves DEF ReapHist, files, ghosts, At, Goto, CommitFrame, RemoveFile,
       TypeOK, MemIsDisk, Phases
  <2>2. MemIsDisk'
    BY <1>11, OpMoves DEF ReapHist, files, ghosts, At, Goto, CommitFrame, RemoveFile,
       TypeOK, MemIsDisk, Clean
  <2>3. OpProgress'
    BY <1>11 DEF ReapHist, files, ghosts, At, Goto, CommitFrame, RemoveFile, TypeOK,
       MemIsDisk, OpProgress, NoStrays, Clean, Writing, Reaping, Op, Manifest, Gens
  <2>4. NoStrays'
    <3>1. /\ op \in Op /\ mem \in Manifest /\ Reaping
          /\ histF' = [histF EXCEPT ![op.old] = NoConv]
          /\ UNCHANGED <<mem, draftF>>
      BY <1>11 DEF ReapHist, At, RemoveFile, TypeOK, MemIsDisk, Reaping
    <3>2. \A g \in Gens : g = mem.gen \/ g = op.old \/ Clean(g)
      BY <1>11, <3>1 DEF ReapHist, At, NoStrays, Writing, Reaping
    <3>3. Reaping' /\ op'.old = op.old
      BY <1>11, <3>1 DEF ReapHist, Goto, Op, Reaping
    <3>4. \A g \in Gens : Clean(g) => Clean(g)'
      BY <3>1 DEF Clean, TypeOK
    <3>5. QED  BY <3>1, <3>2, <3>3, <3>4 DEF NoStrays
  <2>5. Committed'
    BY <1>11 DEF ReapHist, files, ghosts, At, Goto, CommitFrame, RemoveFile, TypeOK,
       MemIsDisk, OpProgress, Committed, Boundary, Writing, Reaping, Op, Manifest, Gens,
       BoundaryPair
  <2>6. Flagged'
    BY <1>11 DEF ReapHist, files, ghosts, At, Goto, CommitFrame, RemoveFile, TypeOK,
       MemIsDisk, Flagged, Manifest, Op
  <2>7. QED  BY <2>1, <2>2, <2>3, <2>4, <2>5, <2>6
<1>12. CASE ReapDraft
  <2>1. TypeOK'
    BY <1>12, OpMoves DEF ReapDraft, files, ghosts, At, Goto, CommitFrame, RemoveFile,
       TypeOK, MemIsDisk, Phases
  <2>2. MemIsDisk'
    BY <1>12, OpMoves DEF ReapDraft, files, ghosts, At, Goto, CommitFrame, RemoveFile,
       TypeOK, MemIsDisk, Clean
  <2>3. OpProgress'
    BY <1>12 DEF ReapDraft, files, ghosts, At, Goto, CommitFrame, RemoveFile, TypeOK,
       MemIsDisk, OpProgress, NoStrays, Clean, Writing, Reaping, Op, Manifest, Gens
  <2>4. NoStrays'
    BY <1>12, ZenonT(60) DEF ReapDraft, files, ghosts, At, Goto, CommitFrame, RemoveFile, TypeOK,
       MemIsDisk, OpProgress, NoStrays, Clean, Writing, Reaping, Op, Manifest, Gens
  <2>5. Committed'
    BY <1>12 DEF ReapDraft, files, ghosts, At, Goto, CommitFrame, RemoveFile, TypeOK,
       MemIsDisk, OpProgress, Committed, Boundary, Writing, Reaping, Op, Manifest, Gens,
       BoundaryPair
  <2>6. Flagged'
    BY <1>12 DEF ReapDraft, files, ghosts, At, Goto, CommitFrame, RemoveFile, TypeOK,
       MemIsDisk, Flagged, Manifest, Op
  <2>7. QED  BY <2>1, <2>2, <2>3, <2>4, <2>5, <2>6
<1>13. CASE TurnStart
  <2>1. TypeOK'
    <3>1. mem \in Manifest
      BY <1>13 DEF TurnStart, Quiet, MemIsDisk, TypeOK
    <3>2. op' \in Op
      <4>1. PICK d \in Drafts : StartCommit(d, "WaitingModel")
        BY <1>13 DEF TurnStart
      <4>2. QED  BY <3>1, <4>1, StartedOp DEF StartCommit, TypeOK, Phases
    <3>3. QED  BY <1>13, <3>2 DEF TurnStart, TypeOK, files, ghosts
  <2>2. MemIsDisk'
    BY <1>13, StartedOp DEF TurnStart, files, ghosts, Quiet, StartCommit, TypeOK, MemIsDisk,
       Clean
  <2>3. OpProgress'
    BY <1>13 DEF TurnStart, files, ghosts, Quiet, StartCommit, TypeOK, MemIsDisk,
       OpProgress, NoStrays, Clean, Writing, Reaping, Op, Manifest, Gens
  <2>4. NoStrays'
    BY <1>13 DEF TurnStart, files, ghosts, Quiet, StartCommit, TypeOK, MemIsDisk,
       OpProgress, NoStrays, Clean, Writing, Reaping, Op, Manifest, Gens
  <2>5. Committed'
    BY <1>13 DEF TurnStart, files, ghosts, Quiet, StartCommit, TypeOK, MemIsDisk,
       OpProgress, Committed, Boundary, Writing, Reaping, Op, Manifest, Gens, BoundaryPair
  <2>6. Flagged'
    BY <1>13 DEF TurnStart, files, ghosts, Quiet, StartCommit, TypeOK, MemIsDisk, Flagged,
       Manifest, Op
  <2>7. QED  BY <2>1, <2>2, <2>3, <2>4, <2>5, <2>6
<1>14. CASE PrepAbort
  BY <1>14 DEF PrepAbort, Quiet, TypeOK, MemIsDisk, OpProgress, NoStrays, Committed,
     Flagged, Clean, Writing, Reaping, Boundary, files, ghosts
<1>15. CASE RunStart
  <2>a. mem \in Manifest /\ mem # Nothing /\ mem = disk
    BY <1>15 DEF RunStart, Quiet, MemIsDisk, TypeOK
  <2>b. LET m == [mem EXCEPT !.phase = "WaitingModel"] IN
        m \in Manifest /\ m # Nothing /\ mem' \in {mem, m} /\ mem' = disk'
    <3>1. "WaitingModel" \in Phases
      BY DEF Phases
    <3>2. [mem EXCEPT !.phase = "WaitingModel"] \in Manifest
      BY <2>a, <3>1, ManifestUpdates
    <3>3. QED  BY <1>15, <2>a, <3>2 DEF RunStart, SetPhase, WriteManifest
  <2>1. TypeOK'
    BY <1>15, <2>a, <2>b DEF RunStart, TypeOK, ghosts
  <2>2. MemIsDisk'
    BY <1>15, <2>a, <2>b DEF RunStart, Quiet, MemIsDisk
  <2>3. OpProgress'
    BY <1>15 DEF RunStart, files, ghosts, Quiet, SetPhase, WriteManifest, TypeOK, MemIsDisk,
       OpProgress, NoStrays, Clean, Writing, Reaping, Op, Manifest, Gens
  <2>4. NoStrays'
    BY <1>15 DEF RunStart, files, ghosts, Quiet, SetPhase, WriteManifest, TypeOK, MemIsDisk,
       OpProgress, NoStrays, Clean, Writing, Reaping, Op, Manifest, Gens
  <2>5. Committed'
    BY <1>15 DEF RunStart, files, ghosts, Quiet, SetPhase, WriteManifest, TypeOK, MemIsDisk,
       OpProgress, Committed, Boundary, Writing, Reaping, Op, Manifest, Gens, BoundaryPair
  <2>6. Flagged'
    BY <1>15 DEF RunStart, files, ghosts, Quiet, SetPhase, WriteManifest, TypeOK, MemIsDisk,
       Flagged, Manifest, Op
  <2>7. QED  BY <2>1, <2>2, <2>3, <2>4, <2>5, <2>6
<1>16. CASE RunStep
  <2>1. TypeOK'
    <3>1. mem \in Manifest
      BY <1>16 DEF RunStep, Quiet, MemIsDisk, TypeOK
    <3>2. mem' \in Manifest /\ disk' \in Manifest \cup {Nothing}
      <4>1. PICK p \in Phases : WriteManifest([mem EXCEPT !.phase = p])
        BY <1>16 DEF RunStep, SetPhase, Phases
      <4>2. [mem EXCEPT !.phase = p] \in Manifest
        BY <3>1, ManifestUpdates
      <4>3. QED  BY <3>1, <4>1, <4>2 DEF WriteManifest, TypeOK
    <3>3. QED  BY <1>16, <3>2 DEF RunStep, TypeOK, ghosts
  <2>2. MemIsDisk'
    <3>1. mem \in Manifest
      BY <1>16 DEF RunStep, Quiet, MemIsDisk, TypeOK
    <3>2. mem' = disk' /\ mem' # Nothing
      BY <1>16, <3>1, ManifestUpdates DEF RunStep, SetPhase, WriteManifest, MemIsDisk, Phases, Quiet
    <3>3. QED  BY <1>16, <3>2 DEF RunStep, Quiet, MemIsDisk, TypeOK, ghosts
  <2>3. OpProgress'
    BY <1>16 DEF RunStep, files, ghosts, Quiet, SetPhase, WriteManifest, TypeOK, MemIsDisk,
       OpProgress, NoStrays, Clean, Writing, Reaping, Op, Manifest, Gens
  <2>4. NoStrays'
    BY <1>16 DEF RunStep, files, ghosts, Quiet, SetPhase, WriteManifest, TypeOK, MemIsDisk,
       OpProgress, NoStrays, Clean, Writing, Reaping, Op, Manifest, Gens
  <2>5. Committed'
    BY <1>16 DEF RunStep, files, ghosts, Quiet, SetPhase, WriteManifest, TypeOK, MemIsDisk,
       OpProgress, Committed, Boundary, Writing, Reaping, Op, Manifest, Gens, BoundaryPair
  <2>6. Flagged'
    BY <1>16 DEF RunStep, files, ghosts, Quiet, SetPhase, WriteManifest, TypeOK, MemIsDisk,
       Flagged, Manifest, Op
  <2>7. QED  BY <2>1, <2>2, <2>3, <2>4, <2>5, <2>6
<1>17. CASE RunOver
  <2>a. mem \in Manifest /\ mem # Nothing /\ mem = disk
    BY <1>17 DEF RunOver, Quiet, MemIsDisk, TypeOK
  <2>b. LET m == [mem EXCEPT !.phase = "Finalizing"] IN
        m \in Manifest /\ m # Nothing /\ mem' \in {mem, m} /\ mem' = disk'
    <3>1. "Finalizing" \in Phases
      BY DEF Phases
    <3>2. [mem EXCEPT !.phase = "Finalizing"] \in Manifest
      BY <2>a, <3>1, ManifestUpdates
    <3>3. QED  BY <1>17, <2>a, <3>2 DEF RunOver, SetPhase, WriteManifest
  <2>1. TypeOK'
    BY <1>17, <2>a, <2>b DEF RunOver, TypeOK, ghosts
  <2>2. MemIsDisk'
    BY <1>17, <2>a, <2>b DEF RunOver, Quiet, MemIsDisk
  <2>3. OpProgress'
    BY <1>17 DEF RunOver, files, ghosts, Quiet, SetPhase, WriteManifest, TypeOK, MemIsDisk,
       OpProgress, NoStrays, Clean, Writing, Reaping, Op, Manifest, Gens
  <2>4. NoStrays'
    BY <1>17 DEF RunOver, files, ghosts, Quiet, SetPhase, WriteManifest, TypeOK, MemIsDisk,
       OpProgress, NoStrays, Clean, Writing, Reaping, Op, Manifest, Gens
  <2>5. Committed'
    BY <1>17 DEF RunOver, files, ghosts, Quiet, SetPhase, WriteManifest, TypeOK, MemIsDisk,
       OpProgress, Committed, Boundary, Writing, Reaping, Op, Manifest, Gens, BoundaryPair
  <2>6. Flagged'
    BY <1>17 DEF RunOver, files, ghosts, Quiet, SetPhase, WriteManifest, TypeOK, MemIsDisk,
       Flagged, Manifest, Op
  <2>7. QED  BY <2>1, <2>2, <2>3, <2>4, <2>5, <2>6
<1>18. CASE TurnCommit
  <2>1. TypeOK'
    BY <1>18, StartedOp DEF TurnCommit, files, ghosts, Quiet, StartCommit, TypeOK,
       MemIsDisk, Phases
  <2>2. MemIsDisk'
    BY <1>18, StartedOp DEF TurnCommit, files, ghosts, Quiet, StartCommit, TypeOK,
       MemIsDisk, Clean
  <2>3. OpProgress'
    BY <1>18 DEF TurnCommit, files, ghosts, Quiet, StartCommit, TypeOK, MemIsDisk,
       OpProgress, NoStrays, Clean, Writing, Reaping, Op, Manifest, Gens
  <2>4. NoStrays'
    BY <1>18 DEF TurnCommit, files, ghosts, Quiet, StartCommit, TypeOK, MemIsDisk,
       OpProgress, NoStrays, Clean, Writing, Reaping, Op, Manifest, Gens
  <2>5. Committed'
    BY <1>18 DEF TurnCommit, files, ghosts, Quiet, StartCommit, TypeOK, MemIsDisk,
       OpProgress, Committed, Boundary, Writing, Reaping, Op, Manifest, Gens, BoundaryPair
  <2>6. Flagged'
    BY <1>18 DEF TurnCommit, files, ghosts, Quiet, StartCommit, TypeOK, MemIsDisk, Flagged,
       Manifest, Op
  <2>7. QED  BY <2>1, <2>2, <2>3, <2>4, <2>5, <2>6
<1>19. CASE SwapConv
  BY <1>19 DEF SwapConv, Quiet, TypeOK, MemIsDisk, OpProgress, NoStrays, Committed, Flagged,
     Clean, Writing, Reaping, Boundary, files, ghosts
<1>20. CASE Clear
  BY <1>20 DEF Clear, Quiet, TypeOK, MemIsDisk, OpProgress, NoStrays, Committed, Flagged,
     Clean, Writing, Reaping, Boundary, files, ghosts
<1>21. CASE ClearFile
  <2>1. TypeOK'
    BY <1>21 DEF ClearFile, files, ghosts, TypeOK, MemIsDisk, Phases
  <2>2. MemIsDisk'
    BY <1>21 DEF ClearFile, files, ghosts, TypeOK, MemIsDisk, Clean
  <2>3. OpProgress'
    BY <1>21 DEF ClearFile, files, ghosts, TypeOK, MemIsDisk, OpProgress, NoStrays, Clean,
       Writing, Reaping, Op, Manifest, Gens
  <2>4. NoStrays'
    BY <1>21 DEF ClearFile, files, ghosts, TypeOK, MemIsDisk, OpProgress, NoStrays, Clean,
       Writing, Reaping, Op, Manifest, Gens
  <2>5. Committed'
    BY <1>21 DEF ClearFile, files, ghosts, TypeOK, MemIsDisk, OpProgress, Committed,
       Boundary, Writing, Reaping, Op, Manifest, Gens, BoundaryPair
  <2>6. Flagged'
    BY <1>21 DEF ClearFile, files, ghosts, TypeOK, MemIsDisk, Flagged, Manifest, Op
  <2>7. QED  BY <2>1, <2>2, <2>3, <2>4, <2>5, <2>6
<1>22. CASE Crash
  BY <1>22 DEF Crash, TypeOK, MemIsDisk, OpProgress, NoStrays, Committed, Flagged, Clean,
     Writing, Reaping, Boundary, Quiet, files, ghosts
<1>23. CASE UNCHANGED vars
  BY <1>23 DEF vars, files, ghosts, TypeOK, MemIsDisk, OpProgress, NoStrays, Committed,
     Flagged, Clean, Writing, Reaping, Boundary
<1>24. QED
  BY <1>1, <1>2, <1>3, <1>4, <1>5, <1>6, <1>7, <1>8, <1>9, <1>10, <1>11, <1>12, <1>13,
     <1>14, <1>15, <1>16, <1>17, <1>18, <1>19, <1>20, <1>21, <1>22, <1>23 DEF Next
-----------------------------------------------------------------------------
\* The strengthened invariant holds in every reachable state.
THEOREM LeaseInvariant == ASSUME SoundIO PROVE Spec => []IInv
<1>1. IInv /\ [Next]_vars => IInv'
  BY StepIInv
<1>2. QED  BY InitIInv, <1>1, PTL DEF Spec

\* Type correctness of the lease, its files and the call in progress.
THEOREM LeaseTypeOK == ASSUME SoundIO PROVE Spec => []TypeOK
BY LeaseInvariant, PTL DEF IInv

\* Wherever checkpoint_history is interrupted, the last commit that returned Ok
\* is what the files hold.
THEOREM LeaseRecoverable == ASSUME SoundIO PROVE Spec => []LastCommitRecoverable
<1>1. IInv => LastCommitRecoverable
  BY ConstAssumption DEF IInv, LastCommitRecoverable, MemIsDisk, Committed, TypeOK, Manifest
<1>2. QED  BY LeaseInvariant, <1>1, PTL

\* An effect of an attached tool body is visible in the manifest on disk.
THEOREM LeaseFlagged == ASSUME SoundIO PROVE Spec => []EffectsFlagged
<1>1. IInv => EffectsFlagged
  BY DEF IInv, EffectsFlagged, MemIsDisk, Flagged
<1>2. QED  BY LeaseInvariant, <1>1, PTL

\* Between two calls the only sidecars are those of the committed generation.
THEOREM LeaseNoStrays == ASSUME SoundIO PROVE Spec => []NoStraySidecars
<1>1. IInv => NoStraySidecars
  BY DEF IInv, NoStraySidecars, Quiet, MemIsDisk, NoStrays, Writing, Reaping, Clean
<1>2. QED  BY LeaseInvariant, <1>1, PTL

\* A clean exit gives the lease up first, and then removes the files in any order:
\* what is left of the committed generation is what was committed.
Remains ==
    mem = Nothing /\ disk # Nothing /\ disk.gen > 0 =>
        /\ last # Nothing
        /\ histF[disk.gen] \in {last.conv, NoConv}
        /\ draftF[disk.gen] \in {last.draft, NoDraft}

LEMMA InitRemains == Init => Remains
BY DEF Init, Remains

LEMMA StepRemains ==
    ASSUME IInv, IInv', Remains, [Next]_vars
    PROVE  Remains'
<1>1. SUFFICES ASSUME mem' = Nothing, disk' # Nothing, disk'.gen > 0
               PROVE  (/\ last # Nothing
                       /\ histF[disk.gen] \in {last.conv, NoConv}
                       /\ draftF[disk.gen] \in {last.draft, NoDraft})'
  BY DEF Remains
<1>2. CASE Clear
  <2>1. /\ mem # Nothing /\ mem = disk /\ mem.gen > 0 /\ mem \in Manifest
        /\ UNCHANGED <<disk, histF, draftF, last>>
    BY <1>1, <1>2 DEF Clear, Quiet, files, ghosts, IInv, MemIsDisk, TypeOK
  <2>2. last # Nothing /\ Boundary(disk.gen) = last
    BY <2>1 DEF IInv, Committed, Manifest
  <2>3. QED  BY <2>1, <2>2 DEF Boundary
<1>3. CASE ClearFile
  <2>1. /\ mem = Nothing /\ disk' = disk /\ disk \in Manifest /\ last' = last
    BY <1>1, <1>3 DEF ClearFile, ghosts, files, IInv, TypeOK
  <2>2. disk.gen \in Gens
    BY <1>1, <2>1, ConstAssumption DEF Manifest, Gens
  <2>3. /\ histF'[disk.gen] \in {histF[disk.gen], NoConv}
        /\ draftF'[disk.gen] \in {draftF[disk.gen], NoDraft}
    BY <1>3, <2>2 DEF ClearFile, files, IInv, TypeOK
  <2>4. QED  BY <1>1, <2>1, <2>3 DEF Remains
<1>4. CASE Crash
  BY <1>1, <1>4 DEF Crash, files, ghosts, Remains
<1>5. CASE UNCHANGED vars
  BY <1>1, <1>5 DEF vars, files, ghosts, Remains
<1>6. CASE Begin
  BY <1>1, <1>6, ManifestFresh DEF Begin, IInv, MemIsDisk
<1>7. CASE status = "running" /\ status' = "running"
  BY <1>1, <1>7 DEF IInv, MemIsDisk
<1>8. QED
  BY <1>2, <1>3, <1>4, <1>5, <1>6, <1>7 DEF Next, Quiet, At, CommitFrame, SetCheckpoint, ToolStart,
     ToolActs, ToolEnds, WriteHist, WriteDraft, Publish, UndoHist, UndoDraft, ReapHist, ReapDraft,
     TurnStart, PrepAbort, RunStart, RunStep, RunOver, TurnCommit, SwapConv

\* recovery.rs, scan_stale after clear(): what a later process is offered is the last
\* committed conversation even when the owner died half-way through the deletions of
\* a clean exit; of the draft it may miss all, never show another one.
THEOREM LeaseOfferIsLastCommit == ASSUME SoundIO PROVE Spec => []OfferIsLastCommit
<1>1. IInv /\ Remains => OfferIsLastCommit
  <2>1. SUFFICES ASSUME IInv, Remains, Offer = "offer"
                 PROVE  /\ last # Nothing /\ histF[disk.gen] = last.conv
                        /\ draftF[disk.gen] \in {last.draft, NoDraft}
    BY DEF OfferIsLastCommit
  <2>2. disk # Nothing /\ disk.gen # 0 /\ histF[disk.gen] # NoConv /\ disk \in Manifest
    BY <2>1 DEF Offer, Readable, IInv, TypeOK
  <2>3. disk.gen > 0
    BY <2>2, ConstAssumption DEF Manifest
  <2>4. CASE mem = Nothing
    BY <2>1, <2>2, <2>3, <2>4 DEF Remains
  <2>5. CASE mem # Nothing
    <3>1. last # Nothing /\ Boundary(disk.gen) = last
      BY <2>1, <2>2, <2>3, <2>5 DEF IInv, MemIsDisk, Committed
    <3>2. QED  BY <3>1 DEF Boundary
  <2>6. QED  BY <2>4, <2>5
<1>2. IInv /\ IInv' /\ Remains /\ [Next]_vars => Remains'
  BY StepRemains
<1>3. QED  BY LeaseInvariant, InitRemains, <1>1, <1>2, PTL DEF Spec

\* Only a new Idle generation lowers the flag on disk.
LowersOnlyByIdle ==
    disk # Nothing /\ disk' # Nothing /\ disk.effects /\ ~disk'.effects =>
        disk'.phase = "Idle" /\ disk'.gen = disk.gen + 1

LEMMA LowersStep ==
    ASSUME SoundIO, IInv, [Next]_vars, disk # Nothing, disk' # disk
    PROVE  LowersOnlyByIdle
<1> USE DEF SoundIO
<1>1. CASE Publish
  <2>1. /\ op \in Op /\ mem \in Manifest /\ mem = disk /\ op.gen = mem.gen + 1
        /\ disk' = NextManifest
    BY <1>1 DEF Publish, At, IInv, TypeOK, MemIsDisk, OpProgress, Writing
  <2>2. QED
    BY <2>1, CommittedManifest DEF IInv, LowersOnlyByIdle
<1>2. CASE SetCheckpoint \/ RunStart \/ RunStep \/ RunOver \/ ToolStart
  <2>1. mem \in Manifest /\ mem = disk
    BY <1>2 DEF SetCheckpoint, RunStart, RunStep, RunOver, ToolStart, Quiet, IInv, MemIsDisk, TypeOK
  <2>2. \/ disk' = [mem EXCEPT !.ckpt = TRUE] \/ disk' = [mem EXCEPT !.effects = TRUE]
        \/ \E p \in Phases : disk' = [mem EXCEPT !.phase = p]
    BY <1>2 DEF SetCheckpoint, RunStart, RunStep, RunOver, ToolStart, SetPhase, WriteManifest, Phases
  <2>3. disk'.effects = mem.effects \/ disk'.effects = TRUE
    <3>1. \A p \in Phases : [mem EXCEPT !.phase = p].effects = mem.effects
      BY <2>1, ManifestUpdates
    <3>2. [mem EXCEPT !.ckpt = TRUE].effects = mem.effects /\ [mem EXCEPT !.effects = TRUE].effects = TRUE
      BY <2>1, ManifestUpdates
    <3>3. QED  BY <2>2, <3>1, <3>2
  <2>4. QED  BY <2>1, <2>3 DEF LowersOnlyByIdle
<1>3. CASE ClearFile
  BY <1>3 DEF ClearFile, LowersOnlyByIdle
<1>4. QED
  BY <1>1, <1>2, <1>3 DEF Next, vars, files, ghosts, IInv, MemIsDisk, Begin, ToolActs, ToolEnds,
     WriteHist, WriteDraft, UndoHist, UndoDraft, ReapHist, ReapDraft, TurnStart, PrepAbort,
     TurnCommit, SwapConv, Clear, Crash

THEOREM LeaseFlagMonotone == ASSUME SoundIO PROVE Spec => FlagLoweredOnlyByIdleCommit
<1>1. IInv /\ [Next]_vars =>
        [disk # Nothing /\ disk' # Nothing /\ disk.effects /\ ~disk'.effects =>
           disk'.phase = "Idle" /\ disk'.gen = disk.gen + 1]_vars
  BY LowersStep DEF LowersOnlyByIdle
<1>2. QED  BY LeaseInvariant, <1>1, PTL DEF Spec, FlagLoweredOnlyByIdleCommit

-----------------------------------------------------------------------------
(* Refinement.                                                             *)

absBar == <<savedBar, flagBar, reqBar, openBar>>

LEMMA RegisterInit == Init => Register!AInit
BY DEF Init, Register!AInit, savedBar, flagBar, reqBar, openBar

\* Any change that keeps the committed generation's files, the flag on disk and
\* the request is invisible.
LEMMA Invisible ==
    ASSUME IInv, IInv', mem # Nothing, mem' # Nothing, 
           mem'.gen = mem.gen, mem'.effects = mem.effects,
           mem.gen # 0 => histF'[mem.gen] = histF[mem.gen] /\ draftF'[mem.gen] = draftF[mem.gen]
    PROVE  savedBar' = savedBar /\ flagBar' = flagBar /\ openBar' = openBar
BY DEF IInv, MemIsDisk, savedBar, flagBar, openBar, Boundary

LEMMA RequestOf ==
    ASSUME NEW o \in Op
    PROVE  [conv |-> o.conv, draft |-> o.draft, idle |-> (o.phase = "Idle")]
             \in [conv : Convs, draft : Drafts \cup {NoDraft}, idle : BOOLEAN] \ {Nothing}
<1>1. (o.phase = "Idle") \in BOOLEAN
  OBVIOUS
<1>2. o.conv \in Convs /\ o.draft \in Drafts \cup {NoDraft}
  BY DEF Op
<1>3. [conv |-> o.conv, draft |-> o.draft, idle |-> (o.phase = "Idle")]
        \in [conv : Convs, draft : Drafts \cup {NoDraft}, idle : BOOLEAN]
  BY <1>1, <1>2
<1>4. QED  BY <1>3, NoRequestAssumption

LEMMA OpFields ==
    ASSUME NEW o \in Op, NEW s
    PROVE  LET n == [o EXCEPT !.at = s] IN
           n.at = s /\ n.conv = o.conv /\ n.draft = o.draft /\ n.phase = o.phase
BY DEF Op

LEMMA RegisterStep ==
    ASSUME SoundIO, IInv, IInv', [Next]_vars
    PROVE  Register!ANext \/ UNCHANGED absBar
<1> USE ConstAssumption DEF SoundIO
<1>1. CASE Begin
  BY <1>1 DEF Begin, IInv, MemIsDisk, Fresh, ghosts, absBar, savedBar, flagBar, reqBar, openBar
<1>2. CASE SetCheckpoint \/ RunStart \/ RunStep \/ RunOver
  <2>1. /\ mem # Nothing /\ mem' # Nothing /\ mem'.gen = mem.gen /\ mem'.effects = mem.effects
        /\ UNCHANGED <<histF, draftF>> /\ op = Nothing /\ op' = Nothing
    <3>1. mem \in Manifest /\ mem # Nothing
      BY <1>2 DEF SetCheckpoint, RunStart, RunStep, RunOver, Quiet, IInv, MemIsDisk, TypeOK
    <3>2. CASE UNCHANGED mem
      BY <1>2, <3>1, <3>2 DEF SetCheckpoint, RunStart, RunStep, RunOver, Quiet
    <3>3. CASE mem' # mem
      <4>1. mem' = [mem EXCEPT !.ckpt = TRUE] \/ \E p \in Phases : mem' = [mem EXCEPT !.phase = p]
        BY <1>2, <3>3 DEF SetCheckpoint, RunStart, RunStep, RunOver, SetPhase, WriteManifest, Phases
      <4>2. mem' # Nothing /\ mem'.gen = mem.gen /\ mem'.effects = mem.effects
        <5>1. CASE mem' = [mem EXCEPT !.ckpt = TRUE]
          BY <3>1, <5>1, ManifestUpdates
        <5>2. CASE \E p \in Phases : mem' = [mem EXCEPT !.phase = p]
          <6>1. PICK p \in Phases : mem' = [mem EXCEPT !.phase = p]
            BY <5>2
          <6>2. QED  BY <3>1, <6>1, ManifestUpdates
        <5>3. QED  BY <4>1, <5>1, <5>2
      <4>3. QED
        BY <1>2, <3>1, <4>2 DEF SetCheckpoint, RunStart, RunStep, RunOver, Quiet
    <3>4. QED  BY <3>2, <3>3
  <2>2. QED  BY <2>1, Invisible DEF absBar, reqBar
<1>3. CASE ToolStart
  <2>1. /\ mem \in Manifest /\ mem # Nothing /\ mem = disk
        /\ mem' = disk' /\ mem' # Nothing /\ op = Nothing /\ op' = Nothing
    BY <1>3 DEF ToolStart, Quiet, IInv, MemIsDisk, TypeOK
  <2>2. /\ UNCHANGED <<status, histF, draftF>>
        /\ mem' = mem \/ mem' = [mem EXCEPT !.effects = TRUE]
    BY <1>3 DEF ToolStart, WriteManifest
  <2>3. CASE mem' = mem
    BY <2>1, <2>2, <2>3, Invisible DEF absBar, reqBar
  <2>4. CASE mem' = [mem EXCEPT !.effects = TRUE]
    <3>1. mem'.gen = mem.gen /\ mem'.effects = TRUE
      BY <2>1, <2>4, ManifestUpdates
    <3>2. flagBar' = TRUE /\ savedBar' = savedBar /\ reqBar' = reqBar /\ openBar /\ openBar'
          /\ reqBar = Nothing
      BY <2>1, <2>2, <3>1 DEF flagBar, savedBar, reqBar, openBar, Boundary
    <3>3. QED  BY <3>2 DEF Register!ANext, Register!Raise
  <2>5. QED  BY <2>2, <2>3, <2>4
<1>4. CASE ToolActs \/ ToolEnds \/ PrepAbort \/ SwapConv
  BY <1>4 DEF ToolActs, ToolEnds, PrepAbort, SwapConv, files, ghosts, absBar, savedBar, flagBar,
     reqBar, openBar, Boundary
<1>5. CASE WriteHist \/ WriteDraft
  <2>1. /\ op \in Op /\ op # Nothing /\ mem \in Manifest /\ mem # Nothing /\ op.gen # mem.gen
        /\ op.at \in {"hist", "draft"} /\ UNCHANGED <<mem, status>>
    BY <1>5 DEF WriteHist, WriteDraft, At, CommitFrame, IInv, TypeOK, MemIsDisk, OpProgress,
       Writing, Manifest
  <2>2. /\ op' = [op EXCEPT !.at = "draft"] \/ op' = [op EXCEPT !.at = "publish"]
              \/ op' = [op EXCEPT !.at = "undoHist"]
        /\ mem.gen # 0 => histF'[mem.gen] = histF[mem.gen] /\ draftF'[mem.gen] = draftF[mem.gen]
    <3>1. CASE WriteHist
      <4>1. /\ op' = [op EXCEPT !.at = "draft"] \/ op' = [op EXCEPT !.at = "publish"]
                  \/ op' = [op EXCEPT !.at = "undoHist"]
            /\ histF' = histF \/ histF' = [histF EXCEPT ![op.gen] = op.conv]
            /\ UNCHANGED draftF
        BY <3>1 DEF WriteHist, Goto
      <4>2. mem.gen # 0 => mem.gen \in DOMAIN histF /\ mem.gen \in DOMAIN draftF
        BY <2>1, ConstAssumption DEF IInv, TypeOK, Manifest, Gens
      <4>3. mem.gen # 0 => histF'[mem.gen] = histF[mem.gen] /\ draftF'[mem.gen] = draftF[mem.gen]
        BY <2>1, <4>1, <4>2
      <4>4. QED  BY <4>1, <4>3
    <3>2. CASE WriteDraft
      <4>1. /\ op' = [op EXCEPT !.at = "draft"] \/ op' = [op EXCEPT !.at = "publish"]
                  \/ op' = [op EXCEPT !.at = "undoHist"]
            /\ draftF' = draftF \/ draftF' = [draftF EXCEPT ![op.gen] = op.draft]
            /\ UNCHANGED histF
        BY <3>2 DEF WriteDraft, Goto
      <4>2. mem.gen # 0 => mem.gen \in DOMAIN histF /\ mem.gen \in DOMAIN draftF
        BY <2>1, ConstAssumption DEF IInv, TypeOK, Manifest, Gens
      <4>3. mem.gen # 0 => histF'[mem.gen] = histF[mem.gen] /\ draftF'[mem.gen] = draftF[mem.gen]
        BY <2>1, <4>1, <4>2
      <4>4. QED  BY <4>1, <4>3
    <3>3. QED  BY <1>5, <3>1, <3>2
  <2>3. savedBar' = savedBar /\ flagBar' = flagBar /\ openBar' = openBar
    BY <2>1, <2>2, Invisible
  <2>4. reqBar # Nothing /\ openBar
    BY <2>1, RequestOf DEF reqBar, openBar
  <2>5. reqBar' \in {reqBar, Nothing}
    <3>1. CASE op' = [op EXCEPT !.at = "undoHist"]
      BY <2>1, <3>1, OpFields DEF reqBar
    <3>2. CASE op' = [op EXCEPT !.at = "draft"] \/ op' = [op EXCEPT !.at = "publish"]
      <4>1. op'.conv = op.conv /\ op'.draft = op.draft /\ op'.phase = op.phase
        BY <2>1, <3>2 DEF Op
      <4>2. QED  BY <2>1, <4>1 DEF reqBar
    <3>3. QED  BY <2>2, <3>1, <3>2
  <2>6. QED  BY <2>3, <2>4, <2>5 DEF absBar, Register!ANext, Register!Abort
<1>6. CASE Publish
  <2>1. /\ op \in Op /\ op # Nothing /\ mem \in Manifest /\ mem # Nothing /\ mem = disk
        /\ op.at = "publish" /\ UNCHANGED <<status, histF, draftF>>
        /\ histF[op.gen] = op.conv /\ draftF[op.gen] = op.draft
    BY <1>6 DEF Publish, At, IInv, TypeOK, MemIsDisk, OpProgress
  <2>2. /\ reqBar = [conv |-> op.conv, draft |-> op.draft, idle |-> (op.phase = "Idle")]
        /\ reqBar # Nothing /\ openBar
    BY <2>1, RequestOf DEF reqBar, openBar
  <2>3. CASE UNCHANGED <<mem, disk>> /\ op' = [op EXCEPT !.at = "undoHist"]
    <3>1. savedBar' = savedBar /\ flagBar' = flagBar /\ openBar' = openBar
      BY <2>1, <2>3, Invisible
    <3>2. reqBar' = Nothing
      BY <2>1, <2>3 DEF reqBar, Op
    <3>3. QED  BY <2>2, <3>1, <3>2 DEF Register!ANext, Register!Abort
  <2>4. CASE /\ mem' = NextManifest /\ disk' = NextManifest
             /\ op' = Nothing \/ op' = [op EXCEPT !.at = "reapHist"]
    <3>1. /\ mem' # Nothing /\ disk'.gen = op.gen /\ op.gen # 0
          /\ disk'.effects = (mem.effects /\ op.phase # "Idle")
      BY <2>1, <2>4, CommittedManifest DEF Op, Gens, IInv
    <3>2. savedBar' = [conv |-> op.conv, draft |-> op.draft]
      BY <2>1, <3>1 DEF savedBar, Boundary
    <3>3. flagBar' = IF reqBar.idle THEN FALSE ELSE flagBar
      BY <2>1, <2>2, <3>1 DEF flagBar
    <3>4. reqBar' = Nothing /\ openBar'
      BY <2>1, <2>4, <3>1 DEF reqBar, openBar, Op
    <3>5. QED  BY <2>2, <3>2, <3>3, <3>4 DEF Register!ANext, Register!Commit
  <2>5. QED  BY <1>6, <2>3, <2>4 DEF Publish, Goto
<1>7. CASE UndoHist \/ UndoDraft \/ ReapHist \/ ReapDraft
  <2>1. /\ op \in Op /\ op # Nothing /\ mem \in Manifest /\ mem # Nothing
        /\ op.at \in {"undoHist", "undoDraft", "reapHist", "reapDraft"} /\ UNCHANGED <<mem, status>>
        /\ op.at \in {"undoHist", "undoDraft"} => op.gen # mem.gen
        /\ op.at \in {"reapHist", "reapDraft"} => op.old # mem.gen
    BY <1>7 DEF UndoHist, UndoDraft, ReapHist, ReapDraft, At, CommitFrame, IInv, TypeOK, MemIsDisk,
       OpProgress, Writing, Reaping, Manifest, Op
  <2>2. /\ op' = Nothing \/ op' = [op EXCEPT !.at = "undoDraft"] \/ op' = [op EXCEPT !.at = "reapDraft"]
        /\ mem.gen # 0 => histF'[mem.gen] = histF[mem.gen] /\ draftF'[mem.gen] = draftF[mem.gen]
    <3>1. CASE UndoHist \/ UndoDraft
      <4>1. /\ op' = Nothing \/ op' = [op EXCEPT !.at = "undoDraft"]
            /\ histF' = histF \/ histF' = [histF EXCEPT ![op.gen] = NoConv]
            /\ draftF' = draftF \/ draftF' = [draftF EXCEPT ![op.gen] = NoDraft]
        BY <3>1 DEF UndoHist, UndoDraft, Goto, RemoveFile
      <4>2. mem.gen # 0 => mem.gen \in DOMAIN histF /\ mem.gen \in DOMAIN draftF
        BY <2>1, ConstAssumption DEF IInv, TypeOK, Manifest, Gens
      <4>3. op.gen # mem.gen
        BY <2>1, <3>1 DEF UndoHist, UndoDraft, At
      <4>4. mem.gen # 0 => histF'[mem.gen] = histF[mem.gen] /\ draftF'[mem.gen] = draftF[mem.gen]
        BY <4>1, <4>2, <4>3
      <4>5. QED  BY <4>1, <4>4
    <3>2. CASE ReapHist \/ ReapDraft
      <4>1. /\ op' = Nothing \/ op' = [op EXCEPT !.at = "reapDraft"]
            /\ histF' = histF \/ histF' = [histF EXCEPT ![op.old] = NoConv]
            /\ draftF' = draftF \/ draftF' = [draftF EXCEPT ![op.old] = NoDraft]
        BY <3>2 DEF ReapHist, ReapDraft, Goto, RemoveFile
      <4>2. mem.gen # 0 => mem.gen \in DOMAIN histF /\ mem.gen \in DOMAIN draftF
        BY <2>1, ConstAssumption DEF IInv, TypeOK, Manifest, Gens
      <4>3. op.old # mem.gen
        BY <2>1, <3>2 DEF ReapHist, ReapDraft, At
      <4>4. mem.gen # 0 => histF'[mem.gen] = histF[mem.gen] /\ draftF'[mem.gen] = draftF[mem.gen]
        BY <4>1, <4>2, <4>3
      <4>5. QED  BY <4>1, <4>4
    <3>3. QED  BY <1>7, <3>1, <3>2
  <2>3. savedBar' = savedBar /\ flagBar' = flagBar /\ openBar' = openBar
    BY <2>1, <2>2, Invisible
  <2>4. reqBar = Nothing /\ reqBar' = Nothing
    BY <2>1, <2>2 DEF reqBar, Op
  <2>5. QED  BY <2>3, <2>4 DEF absBar
<1>8. CASE TurnStart \/ TurnCommit
  <2>1. /\ op = Nothing /\ mem # Nothing /\ UNCHANGED <<status, mem, disk, histF, draftF>>
        /\ op' \in Op /\ op'.at = "hist"
    <3>1. PICK d \in Drafts \cup {NoDraft}, p \in Phases : StartCommit(d, p)
      BY <1>8 DEF TurnStart, TurnCommit, Phases
    <3>2. QED
      <4>1. mem \in Manifest /\ conv \in Convs /\ op = Nothing
            /\ UNCHANGED <<status, mem, disk, histF, draftF>>
        BY <1>8 DEF TurnStart, TurnCommit, Quiet, IInv, MemIsDisk, TypeOK, files
      <4>2. op' \in Op /\ op'.at = "hist"
        BY <3>1, <4>1, StartedOp DEF StartCommit
      <4>3. QED  BY <4>1, <4>2, NothingAssumption
  <2>2. reqBar = Nothing /\ openBar /\ reqBar' \in Register!Request
    BY <2>1, RequestOf, NothingAssumption DEF reqBar, openBar, Register!Request
  <2>3. savedBar' = savedBar /\ flagBar' = flagBar /\ openBar' = openBar
    BY <2>1 DEF savedBar, flagBar, openBar, Boundary
  <2>4. QED  BY <2>2, <2>3 DEF Register!ANext, Register!Ask
<1>9. CASE Clear
  BY <1>9 DEF Clear, Quiet, IInv, MemIsDisk, savedBar, flagBar, reqBar, openBar,
     Register!ANext, Register!Close
<1>10. CASE ClearFile
  BY <1>10 DEF ClearFile, IInv, MemIsDisk, absBar, savedBar, flagBar, reqBar, openBar
<1>11. CASE Crash
  BY <1>11 DEF Crash, IInv, MemIsDisk, files, ghosts, absBar, savedBar, flagBar, reqBar, openBar, Boundary
<1>12. CASE UNCHANGED vars
  BY <1>12 DEF vars, files, ghosts, absBar, savedBar, flagBar, reqBar, openBar, Boundary
<1>13. QED
  BY <1>1, <1>2, <1>3, <1>4, <1>5, <1>6, <1>7, <1>8, <1>9, <1>10, <1>11, <1>12 DEF Next

\* The multi-file commit protocol implements an atomic register, whatever file
\* operation the process fails at or dies after.
THEOREM LeaseImplementsRegister == ASSUME SoundIO PROVE Spec => ImplementsRegister
<1>1. IInv /\ IInv' /\ [Next]_vars => [Register!ANext]_<<savedBar, flagBar, reqBar, openBar>>
  BY RegisterStep DEF absBar
<1>2. QED
  BY LeaseInvariant, RegisterInit, <1>1, PTL
     DEF Spec, ImplementsRegister, Register!ASpec, Register!absVars

-----------------------------------------------------------------------------
(***************************************************************************)
(* Proofs about the workspace writer lease, for any processes, worktrees,  *)
(* turns and sub-agents.  Type correctness, the lock discipline and the    *)
(* absence of phantom registry entries hold whatever Esc detaches; mutual  *)
(* exclusion holds on every base that is not loose.                        *)
(***************************************************************************)

LEMMA TaskTypes == \A x \in Tasks : /\ Top(x) \in Turns
                                    /\ Proc(x) \in Procs
                                    /\ Root(x) \in Worktrees
BY LeaseConstants DEF Tasks, Top, Proc, Root

LEMMA NoTaskIsNobody == Nobody \notin Tasks
BY NobodyIsNoTask DEF Tasks

LEMMA TurnTypes == /\ Turns \subseteq Tasks
                   /\ Kids \subseteq Tasks
                   /\ \A t \in Turns : Top(t) = t
                   /\ \A k \in Kids : Top(k) = Spawner[k] /\ Spawner[k] \in Turns
BY LeaseConstants, KidsAreNotTurns DEF Tasks, Top

\* Dropping a handle writes one registry entry, or none.
LEMMA DropEffect ==
    ASSUME WriterTypeOK, NEW x \in Tasks, DropHandle(x)
    PROVE  /\ held' \in [Procs -> [Worktrees -> Nat]]
           /\ \A p \in Procs, w \in Worktrees :
                 IF p = Proc(x) /\ w = Root(x)
                 THEN /\ pc[x] = "owner" => held'[p][w] = 0
                      /\ pc[x] = "nested" /\ held[p][w] > 0 => held'[p][w] = held[p][w] - 1
                      /\ held'[p][w] <= held[p][w]
                      /\ ~Covered(x) => held'[p][w] = held[p][w]
                 ELSE held'[p][w] = held[p][w]
<1> DEFINE P == Proc(x)  R == Root(x)
<1>1. P \in Procs /\ R \in Worktrees BY TaskTypes
<1>2. held \in [Procs -> [Worktrees -> Nat]] BY DEF WriterTypeOK
<1>3. held[P][R] \in Nat BY <1>1, <1>2
<1>4. CASE pc[x] = "owner"
  <2>1. held' = [held EXCEPT ![P][R] = 0] BY <1>4 DEF DropHandle, SetEntry
  <2> QED BY <1>1, <1>2, <1>3, <1>4, <2>1 DEF Covered
<1>5. CASE pc[x] = "nested"
  <2>1. held' = [held EXCEPT ![P][R] = IF held[P][R] > 0 THEN held[P][R] - 1 ELSE 0]
    BY <1>5 DEF DropHandle, SetEntry, Entry
  <2> DEFINE n == IF held[P][R] > 0 THEN held[P][R] - 1 ELSE 0
  <2>2. n \in Nat /\ n <= held[P][R] /\ (held[P][R] > 0 => n = held[P][R] - 1) BY <1>3
  <2>3. held' = [held EXCEPT ![P][R] = n] BY <2>1
  <2> HIDE DEF n
  <2> QED BY <1>1, <1>2, <1>3, <1>5, <2>2, <2>3 DEF Covered
<1>6. CASE ~Covered(x)
  <2>1. held' = held BY <1>6 DEF DropHandle, Covered
  <2> QED BY <1>2, <1>6, <2>1 DEF Covered
<1> QED BY <1>4, <1>5, <1>6 DEF Covered

---------------------------------------------------------------------------
LEMMA WriterTypeInit == WriterInit => WriterTypeOK
<1> SUFFICES ASSUME WriterInit PROVE WriterTypeOK
  OBVIOUS
<1>1. loose \subseteq Procs \X Worktrees BY DEF WriterInit
<1>2. /\ pc \in [Tasks -> States] /\ stage \in [Turns -> Stages]
      /\ held \in [Procs -> [Worktrees -> Nat]]
  BY DEF WriterInit, States, Stages
<1>3. /\ awaited \in [Turns -> Kids \cup {Nobody}] /\ store \subseteq Tasks
      /\ ws \in [Worktrees -> Tasks \cup {Nobody}]
      /\ based \in [Turns -> BOOLEAN] /\ foreign \in [Turns -> BOOLEAN]
  BY DEF WriterInit
<1> QED BY <1>1, <1>2, <1>3 DEF WriterTypeOK

\* Every variable keeps its type (whatever Esc detaches).
THEOREM WriterWellTyped == WriterSpec => []WriterTypeOK
<1>1. WriterInit => WriterTypeOK
  BY WriterTypeInit
<1>2. WriterTypeOK /\ [WriterNext]_writerVars => WriterTypeOK'
  <2> SUFFICES ASSUME WriterTypeOK, [WriterNext]_writerVars PROVE WriterTypeOK'
    OBVIOUS
  <2> USE DEF WriterTypeOK, States, Stages
  <2>1. ASSUME NEW t \in Turns, StartTurn(t) PROVE WriterTypeOK'
    <3>1. Base(t) \in Procs \X Worktrees BY TurnTypes, TaskTypes DEF Base
    <3> QED BY <2>1, <3>1, TurnTypes DEF StartTurn, SetPc, locks
  <2>2. ASSUME NEW t \in Turns, Seal(t) PROVE WriterTypeOK'
    <3>1. t \in Tasks /\ DropHandle(t) BY <2>2, TurnTypes DEF Seal
    <3>2. held' \in [Procs -> [Worktrees -> Nat]] BY <3>1, DropEffect
    <3>3. pc' \in [Tasks -> States] BY <2>2, <3>1 DEF Seal, SetPc
    <3> QED BY <2>2, <3>2, <3>3 DEF Seal, Settle, locks
  <2>3. ASSUME NEW t \in Turns, Esc(t) PROVE WriterTypeOK'
    <3>1. t \in Tasks /\ DropHandle(t) BY <2>3, TurnTypes DEF Esc
    <3>2. held' \in [Procs -> [Worktrees -> Nat]] BY <3>1, DropEffect
    <3>3. pc' \in [Tasks -> States] BY <2>3, <3>1 DEF Esc, SetPc, Rest
    <3>4. stage' \in [Turns -> Stages] BY <2>3 DEF Esc
    <3>5. awaited' \in [Turns -> Kids \cup {Nobody}] BY <2>3 DEF Esc
    <3>6. Base(t) \in Procs \X Worktrees BY TurnTypes, TaskTypes DEF Base
    <3> QED BY <2>3, <3>2, <3>3, <3>4, <3>5, <3>6 DEF Esc, locks
  <2>4. ASSUME NEW k \in Kids, StartKid(k) PROVE WriterTypeOK'
    BY <2>4, TurnTypes DEF StartKid, SetPc, locks, ledger
  <2>5. ASSUME NEW x \in Tasks, AskLease(x) PROVE WriterTypeOK'
    <3>1. Proc(x) \in Procs /\ Root(x) \in Worktrees BY TaskTypes
    <3>2. held[Proc(x)][Root(x)] + 1 \in Nat BY <3>1
    <3> DEFINE n == held[Proc(x)][Root(x)] + 1
    <3>3. held' \in [Procs -> [Worktrees -> Nat]]
      <4>1. held' = held \/ held' = [held EXCEPT ![Proc(x)][Root(x)] = n]
        BY <2>5 DEF AskLease, SetEntry, Entry
      <4>2. n \in Nat BY <3>2
      <4> HIDE DEF n
      <4> QED BY <4>1, <4>2, <3>1
    <3>4. pc' \in [Tasks -> States] BY <2>5 DEF AskLease, SetPc
    <3>5. stage' \in [Turns -> Stages] BY <2>5 DEF AskLease
    <3> QED BY <2>5, <3>3, <3>4, <3>5 DEF AskLease, locks, ledger
  <2>6. ASSUME NEW x \in Tasks, TakeStore(x) PROVE WriterTypeOK'
    BY <2>6 DEF TakeStore, SetPc, ledger
  <2>7. ASSUME NEW x \in Tasks, TakeWs(x) PROVE WriterTypeOK'
    <3>1. ws' \in [Worktrees -> Tasks \cup {Nobody}] BY <2>7 DEF TakeWs
    <3> QED BY <2>7, <3>1 DEF TakeWs, SetPc, ledger
  <2>8. ASSUME NEW x \in Tasks, GiveUp(x) PROVE WriterTypeOK'
    BY <2>8 DEF GiveUp, SetPc, ledger
  <2>9. ASSUME NEW x \in Tasks, Enter(x) PROVE WriterTypeOK'
    <3>1. Proc(x) \in Procs /\ Root(x) \in Worktrees BY TaskTypes
    <3>2. held' \in [Procs -> [Worktrees -> Nat]]
      BY <2>9, <3>1 DEF Enter, SetEntry
    <3> QED BY <2>9, <3>2 DEF Enter, SetPc, locks, ledger
  <2>10. ASSUME NEW x \in Tasks, Edit(x) PROVE WriterTypeOK'
    <3>1. based' \in [Turns -> BOOLEAN]
      <4>1. (Top(x) \in Sealers) \in BOOLEAN OBVIOUS
      <4> QED BY <2>10, <4>1, TaskTypes DEF Edit
    <3>2. foreign' \in [Turns -> BOOLEAN]
      <4>1. \A t \in Turns : (foreign[t] \/ (based[t] /\ Root(t) = Root(x) /\ ProcOf[t] # Proc(x))) \in BOOLEAN
        OBVIOUS
      <4> QED BY <2>10, <4>1 DEF Edit
    <3> QED BY <2>10, <3>1, <3>2 DEF Edit, locks
  <2>11. ASSUME NEW x \in Tasks, EndLoop(x) PROVE WriterTypeOK'
    <3>1. held' \in [Procs -> [Worktrees -> Nat]] BY <2>11, DropEffect DEF EndLoop
    <3> DEFINE to == IF pc[x] = "owner" THEN "unlock" ELSE Rest(x)
    <3>2. to \in {"unlock", "run", "idle"} /\ (to = "run" => x \in Turns) BY DEF Rest, Seals
    <3>3. Return(x, to) BY <2>11 DEF EndLoop
    <3> HIDE DEF to
    <3>4. pc' \in [Tasks -> States] BY <3>2, <3>3 DEF Return, SetPc
    <3>5. stage' \in [Turns -> Stages] BY <3>2, <3>3 DEF Return
    <3>6. awaited' \in [Turns -> Kids \cup {Nobody}] BY <3>3 DEF Return
    <3> QED BY <2>11, <3>1, <3>4, <3>5, <3>6 DEF EndLoop, Settle, locks
  <2>12. ASSUME NEW x \in Tasks, Unlock(x) PROVE WriterTypeOK'
    <3> DEFINE to == Rest(x)
    <3>2. to \in {"run", "idle"} /\ (to = "run" => x \in Turns) BY DEF Rest, Seals
    <3>3. Return(x, to) BY <2>12 DEF Unlock
    <3> HIDE DEF to
    <3>4. pc' \in [Tasks -> States] BY <3>2, <3>3 DEF Return, SetPc
    <3>5. stage' \in [Turns -> Stages] BY <3>2, <3>3 DEF Return
    <3>6. awaited' \in [Turns -> Kids \cup {Nobody}] BY <3>3 DEF Return
    <3>7. ws' \in [Worktrees -> Tasks \cup {Nobody}] BY <2>12 DEF Unlock
    <3> QED BY <2>12, <3>4, <3>5, <3>6, <3>7 DEF Unlock, Settle
  <2>13. ASSUME NEW p \in Procs, CrashOf(p) PROVE WriterTypeOK'
    <3> DEFINE gone == {x \in Tasks : Proc(x) = p}
    <3>1. /\ pc' = [x \in Tasks |-> IF x \in gone THEN "idle" ELSE pc[x]]
          /\ held' = [held EXCEPT ![p] = [w \in Worktrees |-> 0]]
          /\ ws' = [w \in Worktrees |-> IF ws[w] \in gone THEN Nobody ELSE ws[w]]
          /\ store' = store \ gone
      BY <2>13 DEF CrashOf
    <3>2. pc' \in [Tasks -> States] BY <3>1
    <3>3. held' \in [Procs -> [Worktrees -> Nat]] BY <3>1
    <3>4. ws' \in [Worktrees -> Tasks \cup {Nobody}] BY <3>1
    <3>5. \A t \in Turns : (t \notin gone /\ based[t]) \in BOOLEAN /\ (t \notin gone /\ foreign[t]) \in BOOLEAN
      OBVIOUS
    <3>6. based' \in [Turns -> BOOLEAN] /\ foreign' \in [Turns -> BOOLEAN]
      BY <2>13, <3>5 DEF CrashOf
    <3>7. stage' \in [Turns -> Stages] /\ awaited' \in [Turns -> Kids \cup {Nobody}]
      BY <2>13 DEF CrashOf
    <3>8. loose' \subseteq Procs \X Worktrees BY <2>13 DEF CrashOf, Settle
    <3> QED BY <3>1, <3>2, <3>3, <3>4, <3>6, <3>7, <3>8
  <2>14. CASE UNCHANGED writerVars BY <2>14 DEF writerVars, locks, ledger
  <2> QED BY <2>1, <2>2, <2>3, <2>4, <2>5, <2>6, <2>7, <2>8, <2>9, <2>10, <2>11,
             <2>12, <2>13, <2>14 DEF WriterNext
<1> QED BY <1>1, <1>2, PTL DEF WriterSpec

---------------------------------------------------------------------------
\* The lock files say exactly which tasks are between TakeWs and Unlock.
Locked == {"reg", "owner", "unlock"}
FilesInv ==
    /\ \A x \in Tasks : pc[x] \in Locked <=> ws[Root(x)] = x
    /\ \A w \in Worktrees : ws[w] # Nobody => Root(ws[w]) = w
    /\ \A x \in store : pc[x] \in Locked \cup {"ws"}

\* A turn awaits a sub-agent only inside its agent loop, not mid-acquisition.
AwaitInv == \A t \in Turns :
    awaited[t] # Nobody => stage[t] = "loop" /\ (pc[t] = "run" \/ Covered(t))

LockInv == FilesInv /\ NoPhantomEntry /\ AwaitInv

\* A step that moves one task and leaves the workspace locks alone.
LEMMA FilesStep ==
    ASSUME WriterTypeOK, FilesInv, NEW x \in Tasks, NEW s \in States,
           pc' = [pc EXCEPT ![x] = s], ws' = ws,
           store' \subseteq store \cup {x},
           pc[x] \in Locked <=> s \in Locked,
           x \in store' => s \in Locked \cup {"ws"}
    PROVE  FilesInv'
<1>1. \A y \in Tasks : pc'[y] = IF y = x THEN s ELSE pc[y] BY DEF WriterTypeOK
<1>2. \A y \in Tasks : pc'[y] \in Locked <=> ws'[Root(y)] = y BY <1>1 DEF FilesInv
<1>3. \A y \in store' : pc'[y] \in Locked \cup {"ws"} BY <1>1 DEF FilesInv, WriterTypeOK
<1> QED BY <1>2, <1>3 DEF FilesInv

LEMMA PhantomStep ==
    ASSUME WriterTypeOK, NoPhantomEntry, NEW x \in Tasks, NEW s \in States,
           pc' = [pc EXCEPT ![x] = s], ws' = ws,
           \A p \in Procs, w \in Worktrees : held'[p][w] > 0 => held[p][w] > 0,
           pc[x] = "owner" => s = "owner" \/ ~(held'[Proc(x)][Root(x)] > 0),
           pc[x] \in Locked => ws[Root(x)] = x,
           \A w \in Worktrees : ws[w] # Nobody => Root(ws[w]) = w
    PROVE  NoPhantomEntry'
<1> SUFFICES ASSUME NEW p \in Procs, NEW w \in Worktrees, held'[p][w] > 0
             PROVE  \E y \in Tasks : ws'[w] = y /\ Proc(y) = p /\ pc'[y] = "owner"
  BY DEF NoPhantomEntry
<1>1. PICK y \in Tasks : ws[w] = y /\ Proc(y) = p /\ pc[y] = "owner" BY DEF NoPhantomEntry
<1>2. Root(y) = w BY <1>1, NoTaskIsNobody
<1>3. CASE y = x
  <2>1. s = "owner" BY <1>1, <1>2, <1>3
  <2> QED BY <1>1, <1>3, <2>1 DEF WriterTypeOK
<1>4. CASE y # x BY <1>1, <1>4 DEF WriterTypeOK
<1> QED BY <1>3, <1>4

LEMMA AwaitStep == WriterTypeOK /\ AwaitInv /\ [WriterNext]_writerVars => AwaitInv'
<1> SUFFICES ASSUME WriterTypeOK, AwaitInv, [WriterNext]_writerVars, NEW u \in Turns, awaited'[u] # Nobody
             PROVE  stage'[u] = "loop" /\ (pc'[u] = "run" \/ Covered(u)')
  BY DEF AwaitInv
<1> USE DEF WriterTypeOK, Covered
<1>a. u \in Tasks BY TurnTypes
<1>b. awaited[u] # Nobody => stage[u] = "loop" /\ (pc[u] = "run" \/ Covered(u)) BY DEF AwaitInv
<1>1. ASSUME NEW x \in Tasks, NEW s \in States, pc' = [pc EXCEPT ![x] = s],
             x # u, awaited'[u] = awaited[u],
             stage' = stage \/ \E v : stage' = [stage EXCEPT ![x] = v]
      PROVE  stage'[u] = "loop" /\ (pc'[u] = "run" \/ Covered(u)')
  BY <1>1, <1>a, <1>b
<1>2. ASSUME NEW t \in Turns, StartTurn(t) PROVE stage'[u] = "loop" /\ (pc'[u] = "run" \/ Covered(u)')
  BY <1>2, <1>a, <1>b, TurnTypes DEF StartTurn, SetPc
<1>3. ASSUME NEW t \in Turns, Seal(t) PROVE stage'[u] = "loop" /\ (pc'[u] = "run" \/ Covered(u)')
  BY <1>3, <1>a, <1>b, TurnTypes DEF Seal, SetPc
<1>4. ASSUME NEW t \in Turns, Esc(t) PROVE stage'[u] = "loop" /\ (pc'[u] = "run" \/ Covered(u)')
  BY <1>4, <1>a, <1>b, TurnTypes DEF Esc, SetPc
<1>5. ASSUME NEW k \in Kids, StartKid(k) PROVE stage'[u] = "loop" /\ (pc'[u] = "run" \/ Covered(u)')
  <2>1. Spawner[k] \in Turns /\ k \notin Turns BY TurnTypes, KidsAreNotTurns
  <2> QED BY <1>5, <1>a, <1>b, <2>1 DEF StartKid, SetPc, InLoop
<1>6. ASSUME NEW x \in Tasks, AskLease(x) PROVE stage'[u] = "loop" /\ (pc'[u] = "run" \/ Covered(u)')
  BY <1>6, <1>a, <1>b DEF AskLease, MayAsk, Suspended, InLoop, SetPc
<1>7. ASSUME NEW x \in Tasks, TakeStore(x) \/ TakeWs(x) \/ GiveUp(x) \/ Enter(x)
      PROVE  stage'[u] = "loop" /\ (pc'[u] = "run" \/ Covered(u)')
  BY <1>7, <1>a, <1>b DEF TakeStore, TakeWs, GiveUp, Enter, SetPc, Waiting
<1>8. ASSUME NEW x \in Tasks, Edit(x) PROVE stage'[u] = "loop" /\ (pc'[u] = "run" \/ Covered(u)')
  BY <1>8, <1>a, <1>b DEF Edit
<1>9. ASSUME NEW x \in Tasks, NEW to \in {"unlock", "run", "idle"}, Return(x, to),
             x = u => awaited[u] = Nobody
      PROVE  stage'[u] = "loop" /\ (pc'[u] = "run" \/ Covered(u)')
  BY <1>9, <1>a, <1>b DEF Return, SetPc
<1>10. ASSUME NEW x \in Tasks, EndLoop(x) PROVE stage'[u] = "loop" /\ (pc'[u] = "run" \/ Covered(u)')
  <2> DEFINE to == IF pc[x] = "owner" THEN "unlock" ELSE Rest(x)
  <2>1. to \in {"unlock", "run", "idle"} BY DEF Rest
  <2>2. Return(x, to) /\ (x = u => awaited[u] = Nobody) BY <1>10 DEF EndLoop, Suspended
  <2> HIDE DEF to
  <2> QED BY <1>9, <2>1, <2>2
<1>11. ASSUME NEW x \in Tasks, Unlock(x) PROVE stage'[u] = "loop" /\ (pc'[u] = "run" \/ Covered(u)')
  <2> DEFINE to == Rest(x)
  <2>1. to \in {"unlock", "run", "idle"} BY DEF Rest
  <2>2. Return(x, to) /\ (x = u => awaited[u] = Nobody) BY <1>11, <1>b DEF Unlock
  <2> HIDE DEF to
  <2> QED BY <1>9, <2>1, <2>2
<1>12. ASSUME NEW p \in Procs, CrashOf(p) PROVE stage'[u] = "loop" /\ (pc'[u] = "run" \/ Covered(u)')
  BY <1>12, <1>a, <1>b DEF CrashOf
<1>13. CASE UNCHANGED writerVars BY <1>13, <1>a, <1>b DEF writerVars
<1> QED BY <1>2, <1>3, <1>4, <1>5, <1>6, <1>7, <1>8, <1>10, <1>11, <1>12, <1>13 DEF WriterNext

LEMMA LockInvStep == WriterTypeOK /\ WriterTypeOK' /\ LockInv /\ [WriterNext]_writerVars => LockInv'
<1> SUFFICES ASSUME WriterTypeOK, WriterTypeOK', FilesInv, NoPhantomEntry, AwaitInv, [WriterNext]_writerVars
             PROVE  FilesInv' /\ NoPhantomEntry'
  BY AwaitStep DEF LockInv
<1>a. \A y \in Tasks : /\ pc[y] \in Locked => ws[Root(y)] = y
                       /\ Proc(y) \in Procs /\ Root(y) \in Worktrees
  BY TaskTypes DEF FilesInv
<1>b. \A w \in Worktrees : ws[w] # Nobody => Root(ws[w]) = w BY DEF FilesInv
<1>c. \A p \in Procs, w \in Worktrees : held[p][w] \in Nat /\ held'[p][w] \in Nat BY DEF WriterTypeOK
<1>1. ASSUME NEW x \in Tasks, DropHandle(x), NEW s \in States,
             pc' = [pc EXCEPT ![x] = s], ws' = ws, store' = store,
             s = IF pc[x] = "owner" THEN "unlock" ELSE s,
             pc[x] # "owner" => s \in {"run", "idle"},
             pc[x] = "run" \/ Covered(x)
      PROVE  FilesInv' /\ NoPhantomEntry'
  <2>1. pc[x] \in Locked <=> s \in Locked BY <1>1 DEF Locked, Covered
  <2>2. x \in store => s \in Locked \cup {"ws"} BY <1>1 DEF FilesInv, Locked, Covered
  <2>3. FilesInv' BY <1>1, <2>1, <2>2, FilesStep
  <2>4. \A p \in Procs, w \in Worktrees : held'[p][w] > 0 => held[p][w] > 0
    <3> TAKE p \in Procs, w \in Worktrees
    <3>1. held'[p][w] <= held[p][w] BY <1>1, <1>c, DropEffect
    <3> QED BY <3>1, <1>c
  <2>5. pc[x] = "owner" => ~(held'[Proc(x)][Root(x)] > 0)
    <3>1. pc[x] = "owner" => held'[Proc(x)][Root(x)] = 0 BY <1>1, <1>a, DropEffect
    <3> QED BY <3>1
  <2>6. NoPhantomEntry' BY <1>1, <1>a, <1>b, <2>4, <2>5, PhantomStep
  <2> QED BY <2>3, <2>6
<1>2. ASSUME NEW x \in Tasks, NEW s \in States, pc' = [pc EXCEPT ![x] = s], ws' = ws,
             held' = held, store' \subseteq store \cup {x},
             pc[x] \notin Locked, s \notin Locked, x \in store' => s = "ws"
      PROVE  FilesInv' /\ NoPhantomEntry'
  <2>1. FilesInv' BY <1>2, FilesStep
  <2>2. pc[x] # "owner" BY <1>2 DEF Locked
  <2>3. NoPhantomEntry' BY <1>2, <1>a, <1>b, <2>2, PhantomStep
  <2> QED BY <2>1, <2>3
<1>3. ASSUME NEW t \in Turns, StartTurn(t) PROVE FilesInv' /\ NoPhantomEntry'
  <2>1. t \notin store BY <1>3 DEF StartTurn, FilesInv, Locked
  <2> QED BY <1>2, <1>3, <2>1, TurnTypes DEF StartTurn, SetPc, locks, Locked, States
<1>4. ASSUME NEW t \in Turns, Seal(t) PROVE FilesInv' /\ NoPhantomEntry'
  <2> DEFINE s == IF pc[t] = "owner" THEN "unlock" ELSE "idle"
  <2>1. /\ t \in Tasks /\ DropHandle(t) /\ s \in States /\ pc' = [pc EXCEPT ![t] = s]
        /\ ws' = ws /\ store' = store /\ (pc[t] = "run" \/ Covered(t))
    BY <1>4, TurnTypes DEF Seal, SetPc, locks, States
  <2>2. s = (IF pc[t] = "owner" THEN "unlock" ELSE s) /\ (pc[t] # "owner" => s \in {"run", "idle"})
    OBVIOUS
  <2> HIDE DEF s
  <2> QED BY <1>1, <2>1, <2>2
<1>6. ASSUME NEW k \in Kids, StartKid(k) PROVE FilesInv' /\ NoPhantomEntry'
  <2>1. k \notin store BY <1>6 DEF StartKid, FilesInv, Locked
  <2> QED BY <1>2, <1>6, <2>1, TurnTypes DEF StartKid, SetPc, locks, Locked, States
<1>7. ASSUME NEW x \in Tasks, AskLease(x) PROVE FilesInv' /\ NoPhantomEntry'
  <2>1. x \notin store /\ pc[x] = "run" BY <1>7 DEF AskLease, MayAsk, FilesInv, Locked
  <2>2. ws' = ws /\ store' = store BY <1>7 DEF AskLease, locks
  <2>3. CASE Entry(x) > 0
    <3>1. pc' = [pc EXCEPT ![x] = "nested"] BY <1>7, <2>3 DEF AskLease, SetPc
    <3>2. held' = [held EXCEPT ![Proc(x)][Root(x)] = Entry(x) + 1]
      BY <1>7, <2>3 DEF AskLease, SetEntry
    <3>3. \A p \in Procs, w \in Worktrees : held'[p][w] > 0 => held[p][w] > 0
      <4> TAKE p \in Procs, w \in Worktrees
      <4>1. CASE p = Proc(x) /\ w = Root(x) BY <2>3, <4>1 DEF Entry
      <4>2. CASE ~(p = Proc(x) /\ w = Root(x))
        <5> DEFINE n == Entry(x) + 1
        <5>1. held' = [held EXCEPT ![Proc(x)][Root(x)] = n] BY <3>2
        <5> HIDE DEF n
        <5>2. held'[p][w] = held[p][w] BY <5>1, <4>2, <1>a DEF WriterTypeOK
        <5> QED BY <5>2
      <4> QED BY <4>1, <4>2
    <3>4. "nested" \in States /\ "nested" \notin Locked /\ pc[x] \notin Locked
      BY <2>1 DEF States, Locked
    <3>5. FilesInv' BY <2>1, <2>2, <3>1, <3>4, FilesStep
    <3>6. NoPhantomEntry' BY <1>a, <1>b, <2>1, <2>2, <3>1, <3>3, <3>4, PhantomStep
    <3> QED BY <3>5, <3>6
  <2>4. CASE ~(Entry(x) > 0)
    BY <1>2, <1>7, <2>1, <2>2, <2>4 DEF AskLease, SetPc, Locked, States
  <2> QED BY <2>3, <2>4
<1>8. ASSUME NEW x \in Tasks, TakeStore(x) PROVE FilesInv' /\ NoPhantomEntry'
  BY <1>2, <1>8 DEF TakeStore, SetPc, Locked, States
<1>9. ASSUME NEW x \in Tasks, TakeWs(x) PROVE FilesInv' /\ NoPhantomEntry'
  <2>1. /\ pc' = [pc EXCEPT ![x] = "reg"] /\ ws' = [ws EXCEPT ![Root(x)] = x]
        /\ held' = held /\ store' = store /\ pc[x] = "ws" /\ ws[Root(x)] = Nobody
    BY <1>9 DEF TakeWs, SetPc
  <2>2. \A y \in Tasks : pc'[y] = IF y = x THEN "reg" ELSE pc[y] BY <2>1 DEF WriterTypeOK
  <2>3. \A w \in Worktrees : ws'[w] = IF w = Root(x) THEN x ELSE ws[w] BY <2>1, <1>a DEF WriterTypeOK
  <2>4. \A y \in Tasks : pc'[y] \in Locked <=> ws'[Root(y)] = y
    <3> TAKE y \in Tasks
    <3>1. CASE y = x BY <3>1, <2>2, <2>3, <1>a DEF Locked
    <3>2. CASE y # x
      <4>1. pc[y] \in Locked <=> ws[Root(y)] = y BY DEF FilesInv
      <4>2. ws'[Root(y)] = y <=> ws[Root(y)] = y
        BY <2>1, <2>3, <3>2, <1>a, NoTaskIsNobody
      <4> QED BY <2>2, <3>2, <4>1, <4>2
    <3> QED BY <3>1, <3>2
  <2>5. \A w \in Worktrees : ws'[w] # Nobody => Root(ws'[w]) = w BY <2>3, <1>b
  <2>6. \A y \in store' : pc'[y] \in Locked \cup {"ws"}
    BY <2>1, <2>2 DEF FilesInv, Locked, WriterTypeOK
  <2>7. FilesInv' BY <2>4, <2>5, <2>6 DEF FilesInv
  <2>8. NoPhantomEntry'
    <3> SUFFICES ASSUME NEW p \in Procs, NEW w \in Worktrees, held'[p][w] > 0
                 PROVE  \E y \in Tasks : ws'[w] = y /\ Proc(y) = p /\ pc'[y] = "owner"
      BY DEF NoPhantomEntry
    <3>1. PICK y \in Tasks : ws[w] = y /\ Proc(y) = p /\ pc[y] = "owner"
      BY <2>1 DEF NoPhantomEntry
    <3>2. w # Root(x) /\ y # x BY <2>1, <3>1, NoTaskIsNobody
    <3> QED BY <2>2, <2>3, <3>1, <3>2
  <2> QED BY <2>7, <2>8
<1>10. ASSUME NEW x \in Tasks, GiveUp(x) PROVE FilesInv' /\ NoPhantomEntry'
  <2>1. /\ pc' = [pc EXCEPT ![x] = "run"] /\ ws' = ws /\ held' = held
        /\ store' \subseteq store /\ x \notin store' /\ pc[x] \notin Locked
    BY <1>10 DEF GiveUp, SetPc, Waiting, Locked
  <2>2. "run" \in States /\ "run" \notin Locked BY DEF States, Locked
  <2> QED BY <1>2, <2>1, <2>2
<1>11. ASSUME NEW x \in Tasks, Enter(x) PROVE FilesInv' /\ NoPhantomEntry'
  <2>1. /\ pc' = [pc EXCEPT ![x] = "owner"] /\ ws' = ws /\ store' = store /\ pc[x] = "reg"
        /\ held' = [held EXCEPT ![Proc(x)][Root(x)] = 1]
    BY <1>11 DEF Enter, SetPc, SetEntry, locks
  <2>2. FilesInv' BY <2>1, FilesStep DEF Locked, States
  <2>3. ws[Root(x)] = x BY <2>1, <1>a DEF Locked
  <2>4. NoPhantomEntry'
    <3> SUFFICES ASSUME NEW p \in Procs, NEW w \in Worktrees, held'[p][w] > 0
                 PROVE  \E y \in Tasks : ws'[w] = y /\ Proc(y) = p /\ pc'[y] = "owner"
      BY DEF NoPhantomEntry
    <3>1. CASE p = Proc(x) /\ w = Root(x) BY <2>1, <2>3, <3>1 DEF WriterTypeOK
    <3>2. CASE ~(p = Proc(x) /\ w = Root(x))
      <4>1. held'[p][w] = held[p][w] BY <2>1, <3>2, <1>a DEF WriterTypeOK
      <4>2. PICK y \in Tasks : ws[w] = y /\ Proc(y) = p /\ pc[y] = "owner"
        BY <4>1 DEF NoPhantomEntry
      <4> QED BY <2>1, <4>2 DEF WriterTypeOK
    <3> QED BY <3>1, <3>2
  <2> QED BY <2>2, <2>4
<1>12. ASSUME NEW x \in Tasks, Edit(x) PROVE FilesInv' /\ NoPhantomEntry'
  BY <1>12 DEF Edit, FilesInv, NoPhantomEntry, locks
<1>13. ASSUME NEW x \in Tasks, EndLoop(x) PROVE FilesInv' /\ NoPhantomEntry'
  <2> DEFINE s == IF pc[x] = "owner" THEN "unlock" ELSE Rest(x)
  <2>1. /\ DropHandle(x) /\ s \in States /\ pc' = [pc EXCEPT ![x] = s]
        /\ ws' = ws /\ store' = store /\ (pc[x] = "run" \/ Covered(x))
    BY <1>13 DEF EndLoop, Return, SetPc, locks, States, Rest
  <2>2. s = (IF pc[x] = "owner" THEN "unlock" ELSE s) /\ (pc[x] # "owner" => s \in {"run", "idle"})
    BY DEF Rest
  <2> HIDE DEF s
  <2> QED BY <1>1, <2>1, <2>2
<1>14. ASSUME NEW x \in Tasks, Unlock(x) PROVE FilesInv' /\ NoPhantomEntry'
  <2> DEFINE s == Rest(x)
  <2>1. /\ pc' = [pc EXCEPT ![x] = s] /\ ws' = [ws EXCEPT ![Root(x)] = Nobody]
        /\ held' = held /\ store' = store \ {x} /\ pc[x] = "unlock" /\ s \in {"run", "idle"}
    BY <1>14 DEF Unlock, Return, SetPc, Rest
  <2> HIDE DEF s
  <2>2. \A y \in Tasks : pc'[y] = IF y = x THEN s ELSE pc[y] BY <2>1 DEF WriterTypeOK
  <2>3. \A w \in Worktrees : ws'[w] = IF w = Root(x) THEN Nobody ELSE ws[w]
    BY <2>1, <1>a DEF WriterTypeOK
  <2>4. ws[Root(x)] = x BY <2>1, <1>a DEF Locked
  <2>5. \A y \in Tasks : pc'[y] \in Locked <=> ws'[Root(y)] = y
    <3> TAKE y \in Tasks
    <3>1. CASE y = x BY <3>1, <2>1, <2>2, <2>3, <1>a, NoTaskIsNobody DEF Locked
    <3>2. CASE y # x
      <4>1. pc[y] \in Locked <=> ws[Root(y)] = y BY DEF FilesInv
      <4>2. ws'[Root(y)] = y <=> ws[Root(y)] = y
        BY <2>3, <2>4, <3>2, <1>a, NoTaskIsNobody
      <4> QED BY <2>2, <3>2, <4>1, <4>2
    <3> QED BY <3>1, <3>2
  <2>6. \A w \in Worktrees : ws'[w] # Nobody => Root(ws'[w]) = w BY <2>3, <1>b
  <2>7. \A y \in store' : pc'[y] \in Locked \cup {"ws"}
    BY <2>1, <2>2 DEF FilesInv, WriterTypeOK
  <2>8. FilesInv' BY <2>5, <2>6, <2>7 DEF FilesInv
  <2>9. NoPhantomEntry'
    <3> SUFFICES ASSUME NEW p \in Procs, NEW w \in Worktrees, held'[p][w] > 0
                 PROVE  \E y \in Tasks : ws'[w] = y /\ Proc(y) = p /\ pc'[y] = "owner"
      BY DEF NoPhantomEntry
    <3>1. PICK y \in Tasks : ws[w] = y /\ Proc(y) = p /\ pc[y] = "owner"
      BY <2>1 DEF NoPhantomEntry
    <3>2. y # x BY <2>1, <3>1
    <3>3. w # Root(x) BY <2>4, <3>1, <3>2
    <3> QED BY <2>2, <2>3, <3>1, <3>2, <3>3
  <2> QED BY <2>8, <2>9
<1>15. ASSUME NEW p \in Procs, CrashOf(p) PROVE FilesInv' /\ NoPhantomEntry'
  <2> DEFINE gone == {x \in Tasks : Proc(x) = p}
  <2>1. /\ pc' = [x \in Tasks |-> IF x \in gone THEN "idle" ELSE pc[x]]
        /\ held' = [held EXCEPT ![p] = [w \in Worktrees |-> 0]]
        /\ ws' = [w \in Worktrees |-> IF ws[w] \in gone THEN Nobody ELSE ws[w]]
        /\ store' = store \ gone
    BY <1>15 DEF CrashOf
  <2>2. \A y \in Tasks : pc'[y] \in Locked <=> ws'[Root(y)] = y
    <3> TAKE y \in Tasks
    <3>1. ws'[Root(y)] = IF ws[Root(y)] \in gone THEN Nobody ELSE ws[Root(y)]
      BY <2>1, <1>a
    <3>2. pc'[y] = IF y \in gone THEN "idle" ELSE pc[y] BY <2>1
    <3> QED BY <3>1, <3>2, NoTaskIsNobody DEF FilesInv, Locked
  <2>3. \A w \in Worktrees : ws'[w] # Nobody => Root(ws'[w]) = w BY <2>1, <1>b
  <2>4. \A y \in store' : pc'[y] \in Locked \cup {"ws"} BY <2>1 DEF FilesInv, WriterTypeOK
  <2>5. FilesInv' BY <2>2, <2>3, <2>4 DEF FilesInv
  <2>6. NoPhantomEntry'
    <3> SUFFICES ASSUME NEW r \in Procs, NEW w \in Worktrees, held'[r][w] > 0
                 PROVE  \E y \in Tasks : ws'[w] = y /\ Proc(y) = r /\ pc'[y] = "owner"
      BY DEF NoPhantomEntry
    <3>1. r # p /\ held'[r][w] = held[r][w] BY <2>1 DEF WriterTypeOK
    <3>2. PICK y \in Tasks : ws[w] = y /\ Proc(y) = r /\ pc[y] = "owner"
      BY <3>1 DEF NoPhantomEntry
    <3>3. y \notin gone BY <3>1, <3>2
    <3> QED BY <2>1, <3>2, <3>3
  <2> QED BY <2>5, <2>6
<1>16. ASSUME NEW t \in Turns, Esc(t) PROVE FilesInv' /\ NoPhantomEntry'
  <2> DEFINE s == IF pc[t] = "owner" THEN "unlock" ELSE Rest(t)
  <2>1. /\ t \in Tasks /\ DropHandle(t) /\ s \in States /\ pc' = [pc EXCEPT ![t] = s]
        /\ ws' = ws /\ store' = store
    BY <1>16, TurnTypes DEF Esc, SetPc, locks, States, Rest
  <2>2. s = (IF pc[t] = "owner" THEN "unlock" ELSE s) /\ (pc[t] # "owner" => s \in {"run", "idle"})
    BY DEF Rest
  <2>3. pc[t] = "run" \/ Covered(t) BY <1>16 DEF Esc, Suspended, AwaitInv
  <2> HIDE DEF s
  <2> QED BY <1>1, <2>1, <2>2, <2>3
<1>17. CASE UNCHANGED writerVars BY <1>17 DEF writerVars, locks, FilesInv, NoPhantomEntry
<1> QED BY <1>3, <1>4, <1>6, <1>7, <1>8, <1>9, <1>10, <1>11, <1>12, <1>13, <1>14,
           <1>15, <1>16, <1>17 DEF WriterNext

LEMMA LockInvInit == WriterInit => LockInv
BY TaskTypes, NoTaskIsNobody DEF WriterInit, LockInv, FilesInv, NoPhantomEntry, AwaitInv, Locked

LEMMA LockInvariant == WriterSpec => []LockInv
<1>1. WriterTypeOK /\ WriterTypeOK' /\ LockInv /\ [WriterNext]_writerVars => LockInv' BY LockInvStep
<1> QED BY <1>1, LockInvInit, WriterWellTyped, PTL DEF WriterSpec

\* A registry entry always stands for lock files its process owns (whatever Esc detaches).
THEOREM WriterNoPhantom == WriterSpec => []NoPhantomEntry
<1>1. LockInv => NoPhantomEntry BY DEF LockInv
<1> QED BY <1>1, LockInvariant, PTL

\* Locks are held only by tasks inside an acquisition or a lease (whatever Esc detaches).
THEOREM WriterNoLeakedLock == WriterSpec => []NoLeakedLock
<1>1. WriterTypeOK /\ LockInv => NoLeakedLock
  <2> SUFFICES ASSUME WriterTypeOK, FilesInv PROVE NoLeakedLock
    BY DEF LockInv
  <2>1. \A w \in Worktrees : ws[w] # Nobody => pc[ws[w]] \in Locked
    BY DEF FilesInv, WriterTypeOK
  <2> QED BY <2>1 DEF NoLeakedLock, FilesInv, Locked
<1> QED BY <1>1, LockInvariant, WriterWellTyped, PTL

\* The registry and the lock files agree with the tasks that hold them.
THEOREM WriterLocksMatch == WriterSpec => []LocksMatch
<1>1. NoPhantomEntry /\ NoLeakedLock => LocksMatch BY DEF LocksMatch
<1> QED BY <1>1, WriterNoPhantom, WriterNoLeakedLock, PTL

---------------------------------------------------------------------------
\* A base that is not loose has one turn and the sub-agent it awaits; a nested
\* handle is that sub-agent's, under a turn that owns the lock files.
TeamAt(b) ==
    /\ \A t, u \in Turns : t # u /\ Base(t) = b /\ Base(u) = b /\ pc[t] # "idle" => pc[u] = "idle"
    /\ \A k \in Kids : Base(k) = b /\ pc[k] # "idle" => awaited[Spawner[k]] = k
    /\ \A t \in Turns : Base(t) = b /\ awaited[t] # Nobody
          => Spawner[awaited[t]] = t /\ pc[awaited[t]] # "idle"
    /\ \A t \in Turns : Base(t) = b /\ awaited[t] # Nobody /\ pc[t] = "owner"
          => pc[awaited[t]] \in {"run", "nested"}
NestAt(b) ==
    /\ \A t \in Turns : Base(t) = b => pc[t] # "nested"
    /\ \A k \in Kids : Base(k) = b /\ pc[k] = "nested" => pc[Spawner[k]] = "owner" /\ Entry(k) > 1
    /\ \A x \in Tasks : Base(x) = b /\ pc[x] = "owner" => Entry(x) > 0

\* A task and the turn it works for are on one base.
LEMMA KidBase == \A k \in Kids : Base(k) = Base(Spawner[k])
BY TurnTypes DEF Base, Proc, Root

\* Two busy tasks of one process on one worktree: one awaits the other.
LEMMA Team ==
    ASSUME WriterTypeOK, AwaitInv, NEW b, TeamAt(b), NEW x \in Tasks, NEW y \in Tasks,
           x # y, Base(x) = b, Base(y) = b, pc[x] # "idle", pc[y] # "idle"
    PROVE  \/ x \in Turns /\ y \in Kids /\ Spawner[y] = x /\ awaited[x] = y
           \/ y \in Turns /\ x \in Kids /\ Spawner[x] = y /\ awaited[y] = x
<1>1. ASSUME NEW z \in Tasks, pc[z] # "idle", Base(z) = b
      PROVE  /\ Top(z) \in Turns /\ pc[Top(z)] # "idle" /\ Base(Top(z)) = b
             /\ z \in Turns => Top(z) = z
             /\ z \notin Turns => z \in Kids /\ Top(z) = Spawner[z] /\ awaited[Top(z)] = z
  <2>1. CASE z \in Turns BY <1>1, <2>1, TurnTypes
  <2>2. CASE z \in Kids
    <3>1. z # Nobody /\ z \notin Turns BY <2>2, NobodyIsNoTask, KidsAreNotTurns
    <3>2. awaited[Spawner[z]] = z /\ Spawner[z] \in Turns /\ Top(z) = Spawner[z]
      BY <1>1, <2>2, TurnTypes DEF TeamAt
    <3>3. pc[Spawner[z]] = "run" \/ Covered(Spawner[z]) BY <3>1, <3>2 DEF AwaitInv
    <3> QED BY <1>1, <2>2, <3>1, <3>2, <3>3, KidBase DEF Covered
  <2> QED BY <2>1, <2>2 DEF Tasks
<1>2. Top(x) = Top(y) BY <1>1 DEF TeamAt
<1>5. CASE x \in Turns /\ y \notin Turns BY <1>1, <1>2, <1>5
<1>6. CASE x \notin Turns /\ y \in Turns BY <1>1, <1>2, <1>6
<1>7. CASE x \in Turns /\ y \in Turns BY <1>1, <1>2, <1>7
<1>8. CASE x \notin Turns /\ y \notin Turns BY <1>1, <1>2, <1>8
<1> QED BY <1>5, <1>6, <1>7, <1>8

\* Who is awaited by whom.
LEMMA TeamStep ==
    ASSUME NEW b, b \notin loose, b \notin loose', WriterTypeOK, WriterTypeOK', AwaitInv, TeamAt(b), NestAt(b), [WriterNext]_writerVars
    PROVE  TeamAt(b)'
<1> USE DEF WriterTypeOK
<1>a. \A k \in Kids : /\ k \in Tasks /\ k # Nobody /\ k \notin Turns /\ Spawner[k] \in Turns
                      /\ Base(k) = Base(Spawner[k])
  BY TurnTypes, KidBase, NobodyIsNoTask, KidsAreNotTurns
<1>b. \A t \in Turns : /\ t \in Tasks
                       /\ awaited[t] # Nobody => awaited[t] \in Kids /\ (pc[t] = "run" \/ Covered(t))
  BY TurnTypes DEF AwaitInv
\* A move of one task that neither starts nor ends it.
<1>1. ASSUME NEW x \in Tasks, NEW s \in States, pc' = [pc EXCEPT ![x] = s],
             pc[x] # "idle", s # "idle", awaited' = awaited,
             x \in Kids /\ Base(x) = b /\ pc[Spawner[x]] = "owner" => s \in {"run", "nested"},
             x \in Turns /\ s = "owner" => awaited[x] = Nobody
      PROVE  TeamAt(b)'
  <2>1. \A y \in Tasks : pc'[y] = IF y = x THEN s ELSE pc[y] BY <1>1
  <2>2. \A t, u \in Turns : t # u /\ Base(t) = b /\ Base(u) = b /\ pc'[t] # "idle" => pc'[u] = "idle"
    BY <1>1, <2>1, <1>b DEF TeamAt
  <2>3. \A k \in Kids : Base(k) = b /\ pc'[k] # "idle" => awaited'[Spawner[k]] = k
    BY <1>1, <2>1, <1>a DEF TeamAt
  <2>4. \A t \in Turns : Base(t) = b /\ awaited'[t] # Nobody => Spawner[awaited'[t]] = t /\ pc'[awaited'[t]] # "idle"
    BY <1>1, <2>1, <1>a, <1>b DEF TeamAt
  <2>5. \A t \in Turns : Base(t) = b /\ awaited'[t] # Nobody /\ pc'[t] = "owner" => pc'[awaited'[t]] \in {"run", "nested"}
    <3> SUFFICES ASSUME NEW t \in Turns, Base(t) = b, awaited[t] # Nobody, pc'[t] = "owner"
                 PROVE  pc'[awaited[t]] \in {"run", "nested"}
      BY <1>1
    <3>1. awaited[t] \in Kids /\ Spawner[awaited[t]] = t BY <1>b DEF TeamAt
    <3>2. t # x BY <1>1, <2>1, <1>b
    <3>3. pc[t] = "owner" BY <2>1, <3>2, <1>b
    <3> QED BY <1>1, <2>1, <3>1, <3>3, <1>a DEF TeamAt
  <2> QED BY <2>2, <2>3, <2>4, <2>5 DEF TeamAt
\* A task that ends, and whose awaiting turn, if any, resumes.
<1>2. ASSUME NEW x \in Tasks, pc' = [pc EXCEPT ![x] = "idle"],
             x \in Turns => awaited[x] = Nobody,
             awaited' = [t \in Turns |-> IF awaited[t] = x THEN Nobody ELSE awaited[t]]
      PROVE  TeamAt(b)'
  <2>1. \A y \in Tasks : pc'[y] = IF y = x THEN "idle" ELSE pc[y] BY <1>2
  <2>2. \A t, u \in Turns : t # u /\ Base(t) = b /\ Base(u) = b /\ pc'[t] # "idle" => pc'[u] = "idle"
    BY <2>1, <1>b DEF TeamAt
  <2>3. \A k \in Kids : Base(k) = b /\ pc'[k] # "idle" => awaited'[Spawner[k]] = k
    BY <1>2, <2>1, <1>a DEF TeamAt
  <2>4. \A t \in Turns : Base(t) = b /\ awaited'[t] # Nobody => Spawner[awaited'[t]] = t /\ pc'[awaited'[t]] # "idle"
    BY <1>2, <2>1, <1>a, <1>b DEF TeamAt
  <2>5. \A t \in Turns : Base(t) = b /\ awaited'[t] # Nobody /\ pc'[t] = "owner" => pc'[awaited'[t]] \in {"run", "nested"}
    BY <1>2, <2>1, <1>a, <1>b DEF TeamAt
  <2> QED BY <2>2, <2>3, <2>4, <2>5 DEF TeamAt
<1>3. ASSUME NEW t \in Turns, StartTurn(t) PROVE TeamAt(b)'
  <2>1. pc' = [pc EXCEPT ![t] = "run"] /\ awaited' = awaited /\ pc[t] = "idle" /\ DirFree(t)
    BY <1>3 DEF StartTurn, SetPc
  <2>0. Base(t) = b => \A u \in Turns : Base(u) = b => pc[u] = "idle"
    BY <1>3, <2>1, TurnTypes DEF StartTurn, DirFree, Unguarded, Beside, Base, Proc
  <2>2. \A y \in Tasks : pc'[y] = IF y = t THEN "run" ELSE pc[y] BY <2>1
  <2>3. \A u, v \in Turns : u # v /\ Base(u) = b /\ Base(v) = b /\ pc'[u] # "idle" => pc'[v] = "idle"
    BY <2>0, <2>1, <2>2, <1>b DEF TeamAt
  <2>4. \A k \in Kids : Base(k) = b /\ pc'[k] # "idle" => awaited'[Spawner[k]] = k
    BY <2>1, <2>2, <1>a DEF TeamAt
  <2>5. \A u \in Turns : Base(u) = b /\ awaited'[u] # Nobody => Spawner[awaited'[u]] = u /\ pc'[awaited'[u]] # "idle"
    BY <2>1, <2>2, <1>a, <1>b DEF TeamAt
  <2>6. \A u \in Turns : Base(u) = b /\ awaited'[u] # Nobody /\ pc'[u] = "owner" => pc'[awaited'[u]] \in {"run", "nested"}
    BY <2>1, <2>2, <1>a, <1>b DEF TeamAt
  <2> QED BY <2>3, <2>4, <2>5, <2>6 DEF TeamAt
<1>4. ASSUME NEW t \in Turns, Seal(t) PROVE TeamAt(b)'
  <2>1. awaited[t] = Nobody BY <1>4 DEF Seal, AwaitInv
  <2>2. t \in Tasks /\ awaited' = awaited /\ (pc[t] = "run" \/ Covered(t))
    BY <1>4, <1>b DEF Seal
  <2>3. CASE pc[t] = "owner"
    <3>1. pc' = [pc EXCEPT ![t] = "unlock"] BY <1>4, <2>3 DEF Seal, SetPc
    <3> QED BY <1>1, <2>1, <2>2, <2>3, <3>1, <1>a DEF States
  <2>4. CASE pc[t] # "owner"
    <3>1. pc' = [pc EXCEPT ![t] = "idle"] BY <1>4, <2>4 DEF Seal, SetPc
    <3>2. awaited' = [u \in Turns |-> IF awaited[u] = t THEN Nobody ELSE awaited[u]]
      BY <2>2, <1>a, NobodyIsNoTask
    <3> QED BY <1>2, <2>1, <2>2, <3>1, <3>2
  <2> QED BY <2>3, <2>4
<1>5. ASSUME NEW k \in Kids, StartKid(k) PROVE TeamAt(b)'
  <2> DEFINE t == Spawner[k]
  <2>1. /\ pc' = [pc EXCEPT ![k] = "run"] /\ awaited' = [awaited EXCEPT ![t] = k]
        /\ pc[k] = "idle" /\ awaited[t] = Nobody /\ t \in Turns
    BY <1>5, <1>a DEF StartKid, SetPc, Suspended
  <2> HIDE DEF t
  <2>2. \A y \in Tasks : pc'[y] = IF y = k THEN "run" ELSE pc[y] BY <2>1
  <2>3. \A u \in Turns : awaited'[u] = IF u = t THEN k ELSE awaited[u] BY <2>1
  <2>4. \A u, v \in Turns : u # v /\ Base(u) = b /\ Base(v) = b /\ pc'[u] # "idle" => pc'[v] = "idle"
    BY <2>2, <1>a, <1>b DEF TeamAt
  <2>5. \A j \in Kids : Base(j) = b /\ pc'[j] # "idle" => awaited'[Spawner[j]] = j
    <3> SUFFICES ASSUME NEW j \in Kids, Base(j) = b, pc'[j] # "idle" PROVE awaited'[Spawner[j]] = j
      OBVIOUS
    <3>1. CASE j = k BY <2>1, <2>3, <3>1 DEF t
    <3>2. CASE j # k
      <4>1. awaited[Spawner[j]] = j BY <2>2, <3>2, <1>a DEF TeamAt
      <4>2. Spawner[j] # t BY <4>1, <2>1, <1>a
      <4> QED BY <4>1, <4>2, <2>3, <1>a
    <3> QED BY <3>1, <3>2
  <2>6. \A u \in Turns : Base(u) = b /\ awaited'[u] # Nobody => Spawner[awaited'[u]] = u /\ pc'[awaited'[u]] # "idle"
    BY <2>1, <2>2, <2>3, <1>a, <1>b DEF TeamAt, t
  <2>7. \A u \in Turns : Base(u) = b /\ awaited'[u] # Nobody /\ pc'[u] = "owner" => pc'[awaited'[u]] \in {"run", "nested"}
    BY <2>1, <2>2, <2>3, <1>a, <1>b DEF TeamAt
  <2> QED BY <2>4, <2>5, <2>6, <2>7 DEF TeamAt
<1>6. ASSUME NEW x \in Tasks, AskLease(x) PROVE TeamAt(b)'
  <2>1. pc[x] = "run" /\ awaited' = awaited BY <1>6 DEF AskLease, MayAsk
  <2>2. CASE Entry(x) > 0
    <3>1. pc' = [pc EXCEPT ![x] = "nested"] BY <1>6, <2>2 DEF AskLease, SetPc
    <3> QED BY <1>1, <2>1, <3>1 DEF States
  <2>3. CASE ~(Entry(x) > 0)
    <3>1. pc' = [pc EXCEPT ![x] = "store"] BY <1>6, <2>3 DEF AskLease, SetPc
    <3>2. x \in Kids /\ Base(x) = b => pc[Spawner[x]] # "owner"
      BY <2>3, <1>a, TurnTypes DEF NestAt, Entry, Proc, Root
    <3> QED BY <1>1, <2>1, <3>1, <3>2 DEF States
  <2> QED BY <2>2, <2>3
<1>c. ASSUME NEW k \in Kids, Base(k) = b, pc[k] # "idle", pc[k] \notin {"run", "nested"}
      PROVE  pc[Spawner[k]] # "owner"
  BY <1>c, <1>a DEF TeamAt
<1>7. ASSUME NEW x \in Tasks, TakeStore(x) PROVE TeamAt(b)'
  <2>1. pc' = [pc EXCEPT ![x] = "ws"] /\ pc[x] = "store" /\ awaited' = awaited
    BY <1>7 DEF TakeStore, SetPc
  <2> QED BY <1>1, <1>c, <2>1 DEF States
<1>8. ASSUME NEW x \in Tasks, TakeWs(x) PROVE TeamAt(b)'
  <2>1. pc' = [pc EXCEPT ![x] = "reg"] /\ pc[x] = "ws" /\ awaited' = awaited
    BY <1>8 DEF TakeWs, SetPc
  <2> QED BY <1>1, <1>c, <2>1 DEF States
<1>9. ASSUME NEW x \in Tasks, GiveUp(x) PROVE TeamAt(b)'
  <2>1. pc' = [pc EXCEPT ![x] = "run"] /\ pc[x] \in {"store", "ws"} /\ awaited' = awaited
    BY <1>9 DEF GiveUp, SetPc, Waiting
  <2> QED BY <1>1, <2>1 DEF States
<1>10. ASSUME NEW x \in Tasks, Enter(x) PROVE TeamAt(b)'
  <2>1. pc' = [pc EXCEPT ![x] = "owner"] /\ pc[x] = "reg" /\ awaited' = awaited
    BY <1>10 DEF Enter, SetPc
  <2>2. x \in Turns => awaited[x] = Nobody BY <2>1 DEF AwaitInv, Covered
  <2> QED BY <1>1, <1>c, <2>1, <2>2 DEF States
<1>11. ASSUME NEW x \in Tasks, Edit(x) PROVE TeamAt(b)'
  BY <1>11 DEF Edit, TeamAt
<1>12. ASSUME NEW x \in Tasks, NEW to \in {"unlock", "run", "idle"}, Return(x, to),
              pc[x] # "idle", x \in Turns => awaited[x] = Nobody,
              x \in Kids /\ Base(x) = b /\ to # "idle" => pc[Spawner[x]] # "owner"
       PROVE  TeamAt(b)'
  <2>1. CASE to = "idle" BY <1>2, <1>12, <2>1 DEF Return, SetPc
  <2>2. CASE to # "idle"
    <3>1. awaited' = awaited
      <4>1. awaited' = [t \in Turns |-> awaited[t]] BY <1>12, <2>2 DEF Return
      <4> QED BY <4>1
    <3>2. pc' = [pc EXCEPT ![x] = to] BY <1>12 DEF Return, SetPc
    <3> QED BY <1>1, <1>12, <2>2, <3>1, <3>2 DEF States
  <2> QED BY <2>1, <2>2
<1>13. ASSUME NEW x \in Tasks, EndLoop(x) PROVE TeamAt(b)'
  <2> DEFINE to == IF pc[x] = "owner" THEN "unlock" ELSE Rest(x)
  <2>1. to \in {"unlock", "run", "idle"} BY DEF Rest
  <2>2. /\ Return(x, to) /\ pc[x] # "idle" /\ (x \in Turns => awaited[x] = Nobody)
    BY <1>13 DEF EndLoop, Suspended, Covered
  <2>3. x \in Kids /\ to # "idle" => pc[x] = "owner" BY <1>a DEF Rest, Seals
  <2>4. x \in Kids /\ Base(x) = b /\ to # "idle" => pc[Spawner[x]] # "owner" BY <1>c, <2>3
  <2> HIDE DEF to
  <2> QED BY <1>12, <2>1, <2>2, <2>4
<1>14. ASSUME NEW x \in Tasks, Unlock(x) PROVE TeamAt(b)'
  <2> DEFINE to == Rest(x)
  <2>1. to \in {"unlock", "run", "idle"} BY DEF Rest
  <2>2. Return(x, to) /\ pc[x] = "unlock" BY <1>14 DEF Unlock
  <2>3. x \in Turns => awaited[x] = Nobody BY <2>2 DEF AwaitInv, Covered
  <2>4. x \in Kids => to = "idle" BY <1>a DEF Rest, Seals
  <2> HIDE DEF to
  <2> QED BY <1>12, <2>1, <2>2, <2>3, <2>4
<1>15. ASSUME NEW t \in Turns, Esc(t) PROVE TeamAt(b)'
  <2>1. Base(t) # b BY <1>15 DEF Esc
  <2>2. \E s \in States : pc' = [pc EXCEPT ![t] = s] BY <1>15 DEF Esc, SetPc, Rest, States
  <2>3. awaited' = [awaited EXCEPT ![t] = Nobody] BY <1>15 DEF Esc
  <2>4. \A y \in Tasks : y # t => pc'[y] = pc[y] BY <2>2
  <2>5. \A u \in Turns : u # t => awaited'[u] = awaited[u] BY <2>3
  <2>6. \A k \in Kids : Base(k) = b => Spawner[k] # t /\ k # t BY <2>1, <1>a
  <2>7. \A u \in Turns : Base(u) = b => u # t /\ (awaited[u] # Nobody => awaited[u] \in Kids /\ awaited[u] # t)
    BY <2>1, <1>a, <1>b
  <2> QED BY <2>4, <2>5, <2>6, <2>7, <1>a, <1>b DEF TeamAt
<1>16. ASSUME NEW p \in Procs, CrashOf(p) PROVE TeamAt(b)'
  <2> DEFINE gone == {x \in Tasks : Proc(x) = p}
  <2>1. /\ \A x \in Tasks : pc'[x] = IF x \in gone THEN "idle" ELSE pc[x]
        /\ \A t \in Turns : awaited'[t] = IF t \in gone THEN Nobody ELSE awaited[t]
    BY <1>16 DEF CrashOf
  <2>2. \A k \in Kids : k \in gone <=> Spawner[k] \in gone
    BY <1>a, TurnTypes DEF Proc
  <2> HIDE DEF gone
  <2>3. \A t, u \in Turns : t # u /\ Base(t) = b /\ Base(u) = b /\ pc'[t] # "idle" => pc'[u] = "idle"
    BY <2>1, <1>b DEF TeamAt
  <2>4. \A k \in Kids : Base(k) = b /\ pc'[k] # "idle" => awaited'[Spawner[k]] = k
    BY <2>1, <2>2, <1>a DEF TeamAt
  <2>5. \A t \in Turns : Base(t) = b /\ awaited'[t] # Nobody => Spawner[awaited'[t]] = t /\ pc'[awaited'[t]] # "idle"
    BY <2>1, <2>2, <1>a, <1>b DEF TeamAt
  <2>6. \A t \in Turns : Base(t) = b /\ awaited'[t] # Nobody /\ pc'[t] = "owner" => pc'[awaited'[t]] \in {"run", "nested"}
    BY <2>1, <2>2, <1>a, <1>b DEF TeamAt
  <2> QED BY <2>3, <2>4, <2>5, <2>6 DEF TeamAt
<1>17. CASE UNCHANGED writerVars BY <1>17 DEF writerVars, TeamAt
<1> QED BY <1>3, <1>4, <1>5, <1>6, <1>7, <1>8, <1>9, <1>10, <1>11, <1>13, <1>14, <1>15,
           <1>16, <1>17 DEF WriterNext

\* How deep the registry counts, and who nests under whom.
LEMMA NestStep ==
    ASSUME NEW b, b \notin loose, b \notin loose', WriterTypeOK, WriterTypeOK', LockInv, TeamAt(b), NestAt(b), [WriterNext]_writerVars
    PROVE  NestAt(b)'
<1> USE DEF WriterTypeOK
<1>a. \A k \in Kids : /\ k \in Tasks /\ k # Nobody /\ k \notin Turns /\ Spawner[k] \in Turns
                      /\ Beside(k, Spawner[k]) /\ k # Spawner[k]
  BY TurnTypes, KidBase, NobodyIsNoTask, KidsAreNotTurns DEF Beside
<1>b. \A t \in Turns : t \in Tasks BY TurnTypes
<1>c. AwaitInv /\ NoPhantomEntry BY DEF LockInv
<1>d. \A y \in Tasks : Proc(y) \in Procs /\ Root(y) \in Worktrees /\ Entry(y) \in Nat /\ Entry(y)' \in Nat
  BY TaskTypes DEF Entry
<1>e. \A x, y \in Tasks : Beside(x, y) => Entry(x) = Entry(y) /\ Entry(x)' = Entry(y)'
  BY DEF Beside, Base, Entry
\* A move into a state that needs no entry, the registry unchanged.
<1>1. ASSUME NEW x \in Tasks, NEW s \in States, pc' = [pc EXCEPT ![x] = s],
             s \notin {"owner", "nested"}, held' = held,
             Base(x) = b /\ pc[x] = "owner" => x \in Kids
      PROVE  NestAt(b)'
  <2>1. \A y \in Tasks : pc'[y] = IF y = x THEN s ELSE pc[y] BY <1>1
  <2>2. \A y \in Tasks : Entry(y)' = Entry(y) BY <1>1 DEF Entry
  <2>3. \A k \in Kids : Base(k) = b /\ pc'[k] = "nested" => pc'[Spawner[k]] = "owner" /\ Entry(k)' > 1
    BY <1>1, <2>1, <2>2, <1>a DEF NestAt, Beside
  <2> QED BY <1>1, <2>1, <2>2, <2>3, <1>b DEF NestAt
\* A task drops its handle, if it has one, and leaves its lease.
<1>2. ASSUME NEW x \in Tasks, NEW s \in States, pc' = [pc EXCEPT ![x] = s],
             s \notin {"owner", "nested"}, DropHandle(x), pc[x] # "idle",
             x \in Turns => awaited[x] = Nobody
      PROVE  NestAt(b)'
  <2>1. \A y \in Tasks : pc'[y] = IF y = x THEN s ELSE pc[y] BY <1>2
  <2>2. \A y \in Tasks : ~Beside(x, y) => Entry(y)' = Entry(y)
    BY <1>2, <1>d, DropEffect DEF Entry, Beside, Base
  <2>3. ASSUME NEW y \in Tasks, Base(y) = b, Beside(x, y), x # y, pc[y] # "idle"
        PROVE  y \in Turns /\ x \in Kids /\ Spawner[x] = y /\ awaited[y] = x
    BY <1>2, <2>3, <1>c, Team, NobodyIsNoTask, <1>a DEF Beside
  <2>4. \A t \in Turns : Base(t) = b => pc'[t] # "nested" BY <1>2, <2>1, <1>b DEF NestAt
  <2>5. \A k \in Kids : Base(k) = b /\ pc'[k] = "nested" => pc'[Spawner[k]] = "owner" /\ Entry(k)' > 1
    <3> SUFFICES ASSUME NEW k \in Kids, Base(k) = b, pc'[k] = "nested"
                 PROVE  pc'[Spawner[k]] = "owner" /\ Entry(k)' > 1
      OBVIOUS
    <3>1. k # x /\ pc[k] = "nested" BY <1>2, <2>1, <1>a
    <3>2. ~Beside(x, k) BY <2>3, <3>1, <1>a
    <3>3. Spawner[k] # x BY <3>2, <1>a DEF Beside
    <3>4. pc[Spawner[k]] = "owner" /\ Entry(k) > 1 BY <3>1 DEF NestAt
    <3>5. Entry(k)' = Entry(k) BY <2>2, <3>2, <1>a
    <3>6. pc'[Spawner[k]] = pc[Spawner[k]] BY <2>1, <3>3, <1>a, <1>b
    <3> QED BY <3>4, <3>5, <3>6
  <2>6. \A y \in Tasks : Base(y) = b /\ pc'[y] = "owner" => Entry(y)' > 0
    <3> SUFFICES ASSUME NEW y \in Tasks, Base(y) = b, pc'[y] = "owner" PROVE Entry(y)' > 0
      OBVIOUS
    <3>1. y # x /\ pc[y] = "owner" BY <1>2, <2>1
    <3>2. CASE ~Beside(x, y) BY <2>2, <3>1, <3>2 DEF NestAt
    <3>3. CASE Beside(x, y)
      <4>1. x \in Kids /\ Spawner[x] = y /\ awaited[y] = x BY <2>3, <3>1, <3>3
      <4>2. pc[x] \in {"run", "nested"} BY <3>1, <4>1, <1>a DEF TeamAt
      <4>3. CASE pc[x] = "run"
        <5>1. ~Covered(x) BY <4>3 DEF Covered
        <5>2. Entry(x)' = Entry(x) BY <1>2, <5>1, <1>d, DropEffect DEF Entry
        <5>3. Entry(y) > 0 BY <3>1 DEF NestAt
        <5> QED BY <3>3, <5>2, <5>3, <1>e
      <4>4. CASE pc[x] = "nested"
        <5>1. Entry(x) > 1 BY <3>3, <4>1, <4>4 DEF NestAt, Beside
        <5>2. Entry(x) > 0 BY <5>1, <1>d
        <5>3. Entry(x)' = Entry(x) - 1 BY <1>2, <4>4, <5>2, <1>d, DropEffect DEF Entry
        <5>4. Entry(x)' > 0 BY <5>1, <5>3, <1>d
        <5> QED BY <3>3, <5>4, <1>e
      <4> QED BY <4>2, <4>3, <4>4
    <3> QED BY <3>2, <3>3
  <2> QED BY <2>4, <2>5, <2>6 DEF NestAt
<1>3. ASSUME NEW t \in Turns, StartTurn(t) PROVE NestAt(b)'
  BY <1>1, <1>3, <1>b DEF StartTurn, SetPc, States
<1>4. ASSUME NEW t \in Turns, Seal(t) PROVE NestAt(b)'
  <2> DEFINE s == IF pc[t] = "owner" THEN "unlock" ELSE "idle"
  <2>1. pc' = [pc EXCEPT ![t] = s] /\ DropHandle(t) /\ (pc[t] = "run" \/ Covered(t)) /\ stage[t] = "measure"
    BY <1>4 DEF Seal, SetPc
  <2>2. s \in States /\ s \notin {"owner", "nested"} BY DEF States
  <2>3. awaited[t] = Nobody BY <2>1, <1>c DEF AwaitInv
  <2>4. pc[t] # "idle" BY <2>1 DEF Covered
  <2> HIDE DEF s
  <2> QED BY <1>2, <2>1, <2>2, <2>3, <2>4, <1>b
<1>5. ASSUME NEW k \in Kids, StartKid(k) PROVE NestAt(b)'
  BY <1>1, <1>5, <1>a DEF StartKid, SetPc, States
<1>6. ASSUME NEW x \in Tasks, AskLease(x) PROVE NestAt(b)'
  <2>1. /\ pc[x] = "run" /\ (x \in Turns => awaited[x] = Nobody)
    BY <1>6 DEF AskLease, MayAsk, Suspended
  <2>2. CASE ~(Entry(x) > 0)
    BY <1>1, <1>6, <2>1, <2>2 DEF AskLease, SetPc, States
  <2>3. CASE Entry(x) > 0
    <3>1. pc' = [pc EXCEPT ![x] = "nested"] /\ SetEntry(x, Entry(x) + 1)
      BY <1>6, <2>3 DEF AskLease, SetPc
    <3>2. \A y \in Tasks : pc'[y] = IF y = x THEN "nested" ELSE pc[y] BY <3>1
    <3>3. Entry(x)' = Entry(x) + 1 /\ \A y \in Tasks : ~Beside(x, y) => Entry(y)' = Entry(y)
      <4> DEFINE n == Entry(x) + 1
      <4>1. held' = [held EXCEPT ![Proc(x)][Root(x)] = n] BY <3>1 DEF SetEntry
      <4> HIDE DEF n
      <4>2. \A y \in Tasks : ~Beside(x, y) => Entry(y)' = Entry(y) BY <4>1, <1>d DEF Entry, Beside, Base
      <4>3. Entry(x)' = n BY <4>1, <1>d DEF Entry
      <4> QED BY <4>2, <4>3 DEF n
    <3>4. PICK y \in Tasks : ws[Root(x)] = y /\ Proc(y) = Proc(x) /\ pc[y] = "owner"
      BY <2>3, <1>c, <1>d DEF NoPhantomEntry, Entry
    <3>5. Beside(x, y) /\ x # y
      <4>1. Root(y) = Root(x) BY <3>4, <1>d, NoTaskIsNobody DEF LockInv, FilesInv
      <4> QED BY <2>1, <3>4, <4>1 DEF Beside, Base
    <3>6. Base(x) = b => x \in Kids /\ Spawner[x] = y
      <4> SUFFICES ASSUME Base(x) = b PROVE x \in Kids /\ Spawner[x] = y
        OBVIOUS
      <4>0. Base(y) = b BY <3>5 DEF Beside
      <4>1. \/ x \in Turns /\ y \in Kids /\ Spawner[y] = x /\ awaited[x] = y
            \/ y \in Turns /\ x \in Kids /\ Spawner[x] = y /\ awaited[y] = x
        BY <2>1, <3>4, <3>5, <4>0, <1>c, Team
      <4>2. ~(x \in Turns /\ y \in Kids /\ awaited[x] = y)
        BY <2>1, NobodyIsNoTask, KidsAreNotTurns, <1>a
      <4> QED BY <4>1, <4>2
    <3>7. \A t \in Turns : Base(t) = b => pc'[t] # "nested" BY <3>2, <3>6, <1>a, <1>b DEF NestAt
    <3>8. \A k \in Kids : Base(k) = b /\ pc'[k] = "nested" => pc'[Spawner[k]] = "owner" /\ Entry(k)' > 1
      <4> SUFFICES ASSUME NEW k \in Kids, Base(k) = b, pc'[k] = "nested"
                   PROVE  pc'[Spawner[k]] = "owner" /\ Entry(k)' > 1
        OBVIOUS
      <4>1. CASE k = x
        <5>1. Entry(x)' > 1 BY <2>3, <3>3, <1>d
        <5> QED BY <3>2, <3>4, <3>5, <3>6, <4>1, <5>1
      <4>2. CASE k # x
        <5>1. pc[k] = "nested" BY <3>2, <4>2, <1>a
        <5>2. ~Beside(x, k)
          <6> SUFFICES ASSUME Base(x) = b PROVE FALSE
            BY DEF Beside
          <6> QED BY <2>1, <3>6, <4>2, <5>1, <1>a, <1>c, Team
        <5>3. pc[Spawner[k]] = "owner" /\ Entry(k) > 1 BY <5>1 DEF NestAt
        <5>4. Entry(k)' = Entry(k) BY <3>3, <5>2, <1>a
        <5>5. Spawner[k] # x BY <3>6, <1>a DEF Beside
        <5>6. pc'[Spawner[k]] = pc[Spawner[k]] BY <3>2, <5>5, <1>a, <1>b
        <5> QED BY <5>3, <5>4, <5>6
      <4> QED BY <4>1, <4>2
    <3>9. \A z \in Tasks : Base(z) = b /\ pc'[z] = "owner" => Entry(z)' > 0
      <4> SUFFICES ASSUME NEW z \in Tasks, Base(z) = b, pc'[z] = "owner" PROVE Entry(z)' > 0
        OBVIOUS
      <4>1. pc[z] = "owner" BY <3>2
      <4>2. Entry(z) > 0 BY <4>1 DEF NestAt
      <4>3. CASE Beside(x, z)
        <5>1. Entry(x)' > 0 BY <2>3, <3>3, <1>d
        <5> QED BY <4>3, <5>1, <1>e
      <4> QED BY <3>3, <4>2, <4>3
    <3> QED BY <3>7, <3>8, <3>9 DEF NestAt
  <2> QED BY <2>2, <2>3
<1>7. ASSUME NEW x \in Tasks, TakeStore(x) PROVE NestAt(b)'
  BY <1>1, <1>7 DEF TakeStore, SetPc, States
<1>8. ASSUME NEW x \in Tasks, TakeWs(x) PROVE NestAt(b)'
  BY <1>1, <1>8 DEF TakeWs, SetPc, States
<1>9. ASSUME NEW x \in Tasks, GiveUp(x) PROVE NestAt(b)'
  BY <1>1, <1>9 DEF GiveUp, SetPc, States, Waiting
<1>10. ASSUME NEW x \in Tasks, Enter(x) PROVE NestAt(b)'
  <2>1. /\ pc' = [pc EXCEPT ![x] = "owner"] /\ pc[x] = "reg"
        /\ held' = [held EXCEPT ![Proc(x)][Root(x)] = 1]
    BY <1>10 DEF Enter, SetPc, SetEntry
  <2>2. \A y \in Tasks : pc'[y] = IF y = x THEN "owner" ELSE pc[y] BY <2>1
  <2>3. Entry(x)' = 1 /\ \A y \in Tasks : ~Beside(x, y) => Entry(y)' = Entry(y)
    BY <2>1, <1>d DEF Entry, Beside, Base
  <2>4. x \in Turns => awaited[x] = Nobody BY <2>1, <1>c DEF AwaitInv, Covered
  <2>5. \A k \in Kids : Base(k) = b /\ pc'[k] = "nested" => pc'[Spawner[k]] = "owner" /\ Entry(k)' > 1
    <3> SUFFICES ASSUME NEW k \in Kids, Base(k) = b, pc'[k] = "nested"
                 PROVE  pc'[Spawner[k]] = "owner" /\ Entry(k)' > 1
      OBVIOUS
    <3>1. k # x /\ pc[k] = "nested" BY <2>2, <1>a
    <3>2. pc[Spawner[k]] = "owner" /\ Entry(k) > 1 BY <3>1 DEF NestAt
    <3>3. ~Beside(x, k)
      <4>1. x # Spawner[k] BY <2>1, <3>2
      <4> SUFFICES ASSUME Base(x) = b PROVE FALSE
        BY DEF Beside
      <4> QED BY <2>1, <2>4, <3>1, <4>1, <1>a, <1>c, Team
    <3> QED BY <2>2, <2>3, <3>2, <3>3, <1>a, <1>b
  <2>6. \A y \in Tasks : Base(y) = b /\ pc'[y] = "owner" => Entry(y)' > 0
    <3> SUFFICES ASSUME NEW y \in Tasks, Base(y) = b, pc'[y] = "owner" PROVE Entry(y)' > 0
      OBVIOUS
    <3>1. CASE Beside(x, y) BY <2>3, <3>1, <1>e
    <3>2. CASE ~Beside(x, y)
      <4>1. y # x BY <3>2 DEF Beside
      <4> QED BY <2>2, <2>3, <3>2, <4>1 DEF NestAt
    <3> QED BY <3>1, <3>2
  <2>7. \A t \in Turns : Base(t) = b => pc'[t] # "nested" BY <2>2, <1>b DEF NestAt
  <2> QED BY <2>5, <2>6, <2>7 DEF NestAt
<1>11. ASSUME NEW x \in Tasks, Edit(x) PROVE NestAt(b)'
  BY <1>11 DEF Edit, NestAt, Entry
<1>12. ASSUME NEW x \in Tasks, EndLoop(x) PROVE NestAt(b)'
  <2> DEFINE s == IF pc[x] = "owner" THEN "unlock" ELSE Rest(x)
  <2>1. /\ DropHandle(x) /\ pc' = [pc EXCEPT ![x] = s] /\ pc[x] # "idle"
        /\ x \in Turns => awaited[x] = Nobody
    BY <1>12 DEF EndLoop, Return, SetPc, Suspended, Covered
  <2>2. s \in States /\ s \notin {"owner", "nested"} BY DEF States, Rest
  <2> HIDE DEF s
  <2> QED BY <1>2, <2>1, <2>2
<1>13. ASSUME NEW x \in Tasks, Unlock(x) PROVE NestAt(b)'
  <2> DEFINE s == Rest(x)
  <2>1. pc' = [pc EXCEPT ![x] = s] /\ held' = held /\ pc[x] = "unlock"
    BY <1>13 DEF Unlock, Return, SetPc
  <2>2. s \in States /\ s \notin {"owner", "nested"} BY DEF States, Rest
  <2> HIDE DEF s
  <2> QED BY <1>1, <2>1, <2>2
<1>14. ASSUME NEW t \in Turns, Esc(t) PROVE NestAt(b)'
  <2>1. t \in Tasks /\ Base(t) # b /\ DropHandle(t) BY <1>14, <1>b DEF Esc
  <2>2. \E s \in States : pc' = [pc EXCEPT ![t] = s] BY <1>14 DEF Esc, SetPc, Rest, States
  <2>3. \A y \in Tasks : y # t => pc'[y] = pc[y] BY <2>2
  <2>4. \A y \in Tasks : Base(y) = b => y # t /\ Entry(y)' = Entry(y)
    BY <2>1, <1>d, DropEffect DEF Entry, Base
  <2>5. \A k \in Kids : Base(k) = b => Spawner[k] # t BY <2>1, KidBase
  <2> QED BY <2>3, <2>4, <2>5, <1>a, <1>b DEF NestAt
<1>15. ASSUME NEW p \in Procs, CrashOf(p) PROVE NestAt(b)'
  <2> DEFINE gone == {x \in Tasks : Proc(x) = p}
  <2>1. /\ \A x \in Tasks : pc'[x] = IF x \in gone THEN "idle" ELSE pc[x]
        /\ held' = [held EXCEPT ![p] = [w \in Worktrees |-> 0]]
    BY <1>15 DEF CrashOf
  <2>2. \A x \in Tasks : x \notin gone => Entry(x)' = Entry(x) BY <2>1, <1>d DEF Entry
  <2>3. \A k \in Kids : k \in gone <=> Spawner[k] \in gone
    BY <1>a, <1>b DEF Beside, Base
  <2> HIDE DEF gone
  <2>4. \A t \in Turns : Base(t) = b => pc'[t] # "nested" BY <2>1, <1>b DEF NestAt
  <2>5. \A k \in Kids : Base(k) = b /\ pc'[k] = "nested" => pc'[Spawner[k]] = "owner" /\ Entry(k)' > 1
    BY <2>1, <2>2, <2>3, <1>a, <1>b DEF NestAt
  <2>6. \A x \in Tasks : Base(x) = b /\ pc'[x] = "owner" => Entry(x)' > 0 BY <2>1, <2>2 DEF NestAt
  <2> QED BY <2>4, <2>5, <2>6 DEF NestAt
<1>16. CASE UNCHANGED writerVars BY <1>16 DEF writerVars, NestAt, Entry
<1> QED BY <1>3, <1>4, <1>5, <1>6, <1>7, <1>8, <1>9, <1>10, <1>11, <1>12, <1>13, <1>14,
           <1>15, <1>16 DEF WriterNext

Bases == Procs \X Worktrees
WriterInv == WriterTypeOK /\ LockInv /\ \A b \in Bases \ loose : TeamAt(b) /\ NestAt(b)

\* A base stops being loose only when its tasks are at rest.
LEMMA Settled ==
    ASSUME WriterTypeOK, [WriterNext]_writerVars, NEW b, b \in loose, b \notin loose'
    PROVE  AtRest(b)
<1>1. ASSUME NEW t \in Turns, StartTurn(t) \/ Esc(t) PROVE AtRest(b)
  BY <1>1 DEF StartTurn, Esc
<1>2. ASSUME NEW k \in Kids, StartKid(k) PROVE AtRest(b)
  BY <1>2 DEF StartKid, ledger
<1>3. ASSUME NEW x \in Tasks, \/ AskLease(x) \/ TakeStore(x) \/ TakeWs(x) \/ GiveUp(x)
                              \/ Enter(x) \/ Edit(x)
      PROVE  AtRest(b)
  BY <1>3 DEF AskLease, TakeStore, TakeWs, GiveUp, Enter, Edit, ledger
<1>4. ASSUME Settle PROVE AtRest(b)
  BY <1>4 DEF Settle
<1>5. ASSUME NEW x \in Tasks, EndLoop(x) \/ Unlock(x) PROVE Settle
  BY <1>5 DEF EndLoop, Unlock
<1>6. ASSUME NEW t \in Turns, Seal(t) PROVE Settle
  BY <1>6 DEF Seal
<1>7. ASSUME NEW p \in Procs, CrashOf(p) PROVE Settle
  BY <1>7 DEF CrashOf
<1>8. CASE UNCHANGED writerVars BY <1>8 DEF writerVars, ledger
<1> QED BY <1>1, <1>2, <1>3, <1>4, <1>5, <1>6, <1>7, <1>8 DEF WriterNext

\* Where all tasks are at rest there is no team to speak of.
LEMMA RestingTeam ==
    ASSUME AwaitInv', NEW b, AtRest(b)
    PROVE  TeamAt(b)' /\ NestAt(b)'
<1>1. \A y \in Tasks : Base(y) = b => pc'[y] = "idle" BY DEF AtRest
<1>2. \A t \in Turns : t \in Tasks /\ (Base(t) = b => awaited'[t] = Nobody)
  BY <1>1, TurnTypes DEF AwaitInv, Covered
<1> QED BY <1>1, <1>2, TurnTypes DEF TeamAt, NestAt

\* The inductive invariant behind mutual exclusion.
THEOREM WriterInvariant == WriterSpec => []WriterInv
<1>1. WriterInit => WriterInv
  <2>1. WriterInit => WriterTypeOK BY WriterTypeInit
  <2>2. WriterInit => \A b : TeamAt(b) /\ NestAt(b)
    BY TurnTypes DEF WriterInit, TeamAt, NestAt
  <2> QED BY <2>1, <2>2, LockInvInit DEF WriterInv
<1>2. WriterInv /\ WriterTypeOK' /\ [WriterNext]_writerVars => WriterInv'
  <2> SUFFICES ASSUME WriterInv, WriterTypeOK', [WriterNext]_writerVars PROVE WriterInv'
    OBVIOUS
  <2>1. WriterTypeOK /\ LockInv /\ AwaitInv BY DEF WriterInv, LockInv
  <2>2. LockInv' BY <2>1, LockInvStep
  <2>3. ASSUME NEW b \in Bases, b \notin loose' PROVE TeamAt(b)' /\ NestAt(b)'
    <3>1. CASE b \in loose
      <4>1. AtRest(b) BY <2>1, <2>3, <3>1, Settled
      <4> QED BY <2>2, <4>1, RestingTeam DEF LockInv
    <3>2. CASE b \notin loose
      <4>1. TeamAt(b) /\ NestAt(b) BY <2>3, <3>2 DEF WriterInv
      <4> QED BY <2>1, <2>3, <3>2, <4>1, TeamStep, NestStep
    <3> QED BY <3>1, <3>2
  <2> QED BY <2>2, <2>3 DEF WriterInv
<1> QED BY <1>1, <1>2, WriterWellTyped, PTL DEF WriterSpec

\* Where the base is not loose, a lease stands for lock files of the process.
LEMMA CoveredOwns ==
    ASSUME WriterInv, NEW x \in Tasks, Covered(x), Base(x) \notin loose
    PROVE  /\ ws[Root(x)] \in Tasks /\ Proc(ws[Root(x)]) = Proc(x)
<1>a. WriterTypeOK /\ NoPhantomEntry BY DEF WriterInv, LockInv
<1>b. NestAt(Base(x))
  <2>1. Base(x) \in Bases BY TaskTypes DEF Base, Bases
  <2> QED BY <2>1 DEF WriterInv
<1>1. CASE pc[x] = "owner"
  <2>1. Entry(x) > 0 BY <1>1, <1>b DEF NestAt
  <2> QED BY <2>1, <1>a, TaskTypes DEF NoPhantomEntry, Entry
<1>2. CASE pc[x] = "nested"
  <2>1. x \in Kids BY <1>2, <1>b DEF NestAt, Tasks
  <2>2. Entry(x) > 1 BY <1>2, <2>1, <1>b DEF NestAt
  <2>3. Entry(x) \in Nat BY <1>a, TaskTypes DEF Entry, WriterTypeOK
  <2>4. Entry(x) > 0 BY <2>2, <2>3
  <2> QED BY <2>4, <1>a, TaskTypes DEF NoPhantomEntry, Entry
<1> QED BY <1>1, <1>2 DEF Covered

LEMMA InvExcludes == WriterInv => Exclusion /\ NoSelfWait
<1> SUFFICES ASSUME WriterInv PROVE Exclusion /\ NoSelfWait
  OBVIOUS
<1>a. WriterTypeOK /\ FilesInv /\ NoPhantomEntry /\ AwaitInv
  BY DEF WriterInv, LockInv
<1>b. \A x \in Tasks : Base(x) \notin loose => TeamAt(Base(x)) /\ NestAt(Base(x))
  <2>1. \A x \in Tasks : Base(x) \in Bases BY TaskTypes DEF Base, Bases
  <2> QED BY <2>1 DEF WriterInv
<1>1. Exclusion
  <2> SUFFICES ASSUME NEW x \in Tasks, NEW y \in Tasks, Covered(x), Covered(y),
                      Root(x) = Root(y), x # y, Base(x) \notin loose, Base(y) \notin loose
               PROVE  (x \in Turns /\ awaited[x] = y) \/ (y \in Turns /\ awaited[y] = x)
    BY DEF Exclusion
  <2>1. Base(x) = Base(y) BY CoveredOwns DEF Base
  <2>2. pc[x] # "idle" /\ pc[y] # "idle" BY DEF Covered
  <2> QED BY <2>1, <2>2, <1>a, <1>b, Team
<1>2. NoSelfWait
  <2> SUFFICES ASSUME NEW x \in Tasks, Waiting(x), Base(x) \notin loose, ws[Root(x)] # Nobody,
                      Proc(ws[Root(x)]) = Proc(x)
               PROVE  FALSE
    BY DEF NoSelfWait
  <2> DEFINE y == ws[Root(x)]
  <2>1. y \in Tasks /\ Root(y) = Root(x) /\ pc[y] \in Locked
    BY <1>a, TaskTypes DEF FilesInv, WriterTypeOK
  <2>2. pc[x] \in {"store", "ws"} /\ x # y BY <2>1 DEF Waiting, Locked
  <2>3. CASE x \in Turns /\ awaited[x] = y
    BY <2>1, <2>2, <2>3, <1>a, NoTaskIsNobody DEF AwaitInv, Covered
  <2>6. Base(y) = Base(x) BY <2>1 DEF Base
  <2>4. CASE y \in Turns /\ x \in Kids /\ Spawner[x] = y /\ awaited[y] = x
    <3>1. pc[y] = "owner" BY <2>1, <2>4, <1>a, NoTaskIsNobody DEF AwaitInv, Covered, Locked
    <3>2. x # Nobody BY NoTaskIsNobody
    <3> HIDE DEF y
    <3> QED BY <2>2, <2>4, <2>6, <3>1, <3>2, <1>b DEF TeamAt
  <2>5. pc[x] # "idle" /\ pc[y] # "idle" BY <2>1, <2>2 DEF Locked
  <2> HIDE DEF y
  <2> QED BY <2>1, <2>2, <2>3, <2>4, <2>5, <2>6, <1>a, <1>b, Team
<1> QED BY <1>1, <1>2

\* Two tasks holding a lease on one worktree are a turn and its sub-agent, where
\* neither stands on a loose base.
THEOREM WriterExclusion == WriterSpec => []Exclusion
<1> QED BY InvExcludes, WriterInvariant, PTL

\* On a base that is not loose no acquisition waits for a lock of its own process.
THEOREM WriterNoSelfWait == WriterSpec => []NoSelfWait
<1> QED BY InvExcludes, WriterInvariant, PTL

\* While a turn or its sub-agent keeps the lease, no other process writes, where
\* neither of the two is loose on the worktree.
THEOREM WriterNoForeignWrite == WriterSpec => NoForeignWriteUnderLease
<1> DEFINE Kept == \A t \in Turns, x \in Tasks :
              Edit(x) /\ foreign'[t] # foreign[t] /\ {Base(t), Base(x)} \cap loose = {}
                 => \A y \in Tasks : Top(y) = t => ~Covered(y)
<1>1. WriterInv => Kept
  <2> SUFFICES ASSUME WriterInv, NEW t \in Turns, NEW x \in Tasks, Edit(x), foreign'[t] # foreign[t],
                      Base(t) \notin loose, Base(x) \notin loose,
                      NEW y \in Tasks, Top(y) = t, Covered(y)
               PROVE  FALSE
    OBVIOUS
  <2>1. foreign \in [Turns -> BOOLEAN] BY DEF WriterInv, WriterTypeOK
  <2>2. Root(t) = Root(x) /\ ProcOf[t] # Proc(x) BY <2>1 DEF Edit
  <2>3. Covered(x) BY DEF Edit
  <2>4. Proc(y) = ProcOf[t] /\ Root(y) = Root(t) BY TurnTypes DEF Proc, Root
  <2>5. Base(y) = Base(t) BY <2>4, TurnTypes DEF Base, Proc
  <2> QED BY <2>2, <2>3, <2>4, <2>5, CoveredOwns
<1>2. WriterInv /\ [WriterNext]_writerVars => [Kept]_writerVars BY <1>1
<1> QED BY <1>2, WriterInvariant, PTL DEF WriterSpec, NoForeignWriteUnderLease

=============================================================================
