---------------------------- MODULE RecoveryLease ----------------------------
(***************************************************************************)
(* The recovery lease of ONE aizen process (core/recovery.rs), file        *)
(* operation by file operation, as the REPL drives it through its turns    *)
(* (main.rs).  The process may die between any two file operations; what   *)
(* a later process would be offered is read off the files by Offer.        *)
(*                                                                         *)
(* Every public function holds the ACTIVE mutex from entry to return, so   *)
(* inside a process the calls are serialised: "op" is the one call that    *)
(* is between two file operations, and no other call starts meanwhile.     *)
(***************************************************************************)
EXTENDS Naturals

CONSTANTS Convs,      \* conversations
          LenOf,      \* [Convs -> Nat], how many messages each one has
          Drafts,     \* unsent inputs
          NoConv,     \* the history sidecar is missing
          NoDraft,    \* no draft given, or the draft sidecar is missing
          Nothing,    \* no manifest, no operation, no offer
          MaxGen,     \* bound on sidecar generations
          Faults      \* which I/O faults can happen, see below

(* "early":  an atomic write fails before its rename, nothing is published. *)
(* "late":   the write fails after its rename (the last hardening step),    *)
(*           the file is published and the caller still gets an error.      *)
(* "remove": a best-effort removal of a sidecar fails and is ignored.       *)
ASSUME ConstAssumption ==
    /\ LenOf \in [Convs -> Nat]
    /\ NoConv \notin Convs
    /\ NoDraft \notin Drafts
    /\ MaxGen \in Nat
    /\ Faults \subseteq {"early", "late", "remove"}

Phases == {"Idle", "WaitingModel", "ExecutingTools", "AwaitingApproval", "Finalizing"}
Gens   == 1..MaxGen

Manifest == [phase : Phases, len : Nat, gen : 0..MaxGen,
             ckpt : BOOLEAN, effects : BOOLEAN]


VARIABLES
    status,   \* "off", "running", "unprotected", "clearing", "exited", "crashed"
    turn,     \* where the REPL is in its turn: "prompt", "prep", "run", "final"
    op,       \* checkpoint_history in progress: Nothing or an Op record
    mem,      \* ActiveLease.manifest
    disk,     \* manifest.json
    histF,    \* history.<gen>.json
    draftF,   \* draft.<gen>.txt
    conv,     \* the live conversation in memory
    body,     \* an effecting tool body: "none", "started", "acting", "detached"
    last,     \* ghost: conversation and draft of the last commit that returned Ok
    touched,  \* ghost: an attached body had an effect since the last Idle commit
    markLost  \* ghost: raising the flag failed since the last Idle commit

files     == <<disk, histF, draftF>>
ghosts    == <<last, touched, markLost>>
vars      == <<status, turn, op, mem, files, conv, body, ghosts>>

Op == [at : {"hist", "draft", "publish", "undoHist", "undoDraft", "reapHist", "reapDraft"},
       conv : Convs, draft : Drafts \cup {NoDraft}, phase : Phases,
       gen : Gens, old : 0..MaxGen]

BoundaryPair == [conv : Convs, draft : Drafts \cup {NoDraft}]

ASSUME NothingAssumption ==
    Nothing \notin Manifest /\ Nothing \notin Op /\ Nothing \notin BoundaryPair

ASSUME NoRequestAssumption ==
    Nothing \notin [conv : Convs, draft : Drafts \cup {NoDraft}, idle : BOOLEAN]

Fresh == [phase |-> "Idle", len |-> 0, gen |-> 0, ckpt |-> FALSE, effects |-> FALSE]

-----------------------------------------------------------------------------
(* What scan_stale makes of the files once the owner's lock is free:       *)
(* nothing, a quarantine, or an offer.                                     *)
Readable(m) == /\ histF[m.gen] # NoConv
               /\ LenOf[histF[m.gen]] >= m.len

Offer == IF disk = Nothing \/ disk.gen = 0 \/ disk.len = 0 THEN "none"
         ELSE IF ~Readable(disk) THEN "quarantine"
         ELSE "offer"

Boundary(g) == [conv |-> histF[g], draft |-> draftF[g]]

-----------------------------------------------------------------------------
Init ==
    /\ status = "off" /\ turn = "prompt"
    /\ op = Nothing /\ mem = Nothing /\ disk = Nothing
    /\ histF = [g \in Gens |-> NoConv]
    /\ draftF = [g \in Gens |-> NoDraft]
    /\ conv \in Convs
    /\ body = "none"
    /\ last = Nothing /\ touched = FALSE /\ markLost = FALSE

Quiet == status = "running" /\ op = Nothing

\* begin(): the lock and the first manifest, or no lease at all.
Begin ==
    /\ status = "off"
    /\ \/ /\ status' = "running" /\ mem' = Fresh /\ disk' = Fresh
       \/ /\ status' = "unprotected" /\ UNCHANGED <<mem, disk>>
    /\ UNCHANGED <<turn, op, histF, draftF, conv, body, ghosts>>

\* atomic_write_owner_only of the manifest, then the in-memory copy: a failed
\* write rolls the copy back, and a late failure has published the new bytes.
WriteManifest(m) ==
    \/ mem' = m /\ disk' = m
    \/ "early" \in Faults /\ UNCHANGED <<mem, disk>>
    \/ "late" \in Faults /\ disk' = m /\ UNCHANGED mem

SetPhase(p) == WriteManifest([mem EXCEPT !.phase = p])

SetCheckpoint ==
    /\ Quiet /\ turn = "run"
    /\ WriteManifest([mem EXCEPT !.ckpt = TRUE])
    /\ UNCHANGED <<status, turn, op, histF, draftF, conv, body, ghosts>>

\* run_tool_body of an effecting tool: mark_side_effects_possible (a no-op when
\* the flag is already up), and only then the body, whatever the write returned.
ToolStart ==
    /\ Quiet /\ turn = "run" /\ body = "none" /\ mem.phase = "ExecutingTools"
    /\ body' = "started"
    /\ IF mem.effects THEN UNCHANGED <<mem, disk, markLost>>
       ELSE /\ WriteManifest([mem EXCEPT !.effects = TRUE])
            /\ markLost' = (markLost \/ ~mem'.effects)
    /\ UNCHANGED <<status, turn, op, histF, draftF, conv, last, touched>>

ToolActs ==
    /\ status = "running" /\ body = "started"
    /\ body' = "acting" /\ touched' = TRUE
    /\ UNCHANGED <<status, turn, op, mem, files, conv, last, markLost>>

ToolEnds ==
    /\ status = "running" /\ body # "none" /\ body' = "none"
    /\ UNCHANGED <<status, turn, op, mem, files, conv, ghosts>>

-----------------------------------------------------------------------------
(* checkpoint_history: history, draft, manifest, then the old generation.  *)
\* Variant: the committed generation is overwritten in place.
StartCommitInPlace(d, p) ==
    /\ mem.gen < MaxGen
    /\ op' = [at |-> "hist", conv |-> conv, draft |-> d, phase |-> p,
              gen |-> IF mem.gen = 0 THEN 1 ELSE mem.gen, old |-> 0]

StartCommit(d, p) ==
    /\ mem.gen < MaxGen
    /\ op' = [at |-> "hist", conv |-> conv, draft |-> d, phase |-> p,
              gen |-> mem.gen + 1, old |-> mem.gen]

At(step)   == status = "running" /\ op # Nothing /\ op.at = step
Goto(step) == op' = [op EXCEPT !.at = step]

CommitFrame == UNCHANGED <<status, turn, conv, body>>

\* Variant: the manifest is published without the draft.
WriteHistSkipsDraft ==
    /\ At("hist")
    /\ histF' = [histF EXCEPT ![op.gen] = op.conv] /\ Goto("publish")
    /\ UNCHANGED <<mem, disk, draftF, ghosts>> /\ CommitFrame

WriteHist ==
    /\ At("hist")
    /\ \/ /\ histF' = [histF EXCEPT ![op.gen] = op.conv]
          /\ IF op.draft = NoDraft THEN Goto("publish") ELSE Goto("draft")
       \/ "early" \in Faults /\ Goto("undoHist") /\ UNCHANGED histF
       \/ /\ "late" \in Faults /\ Goto("undoHist")
          /\ histF' = [histF EXCEPT ![op.gen] = op.conv]
    /\ UNCHANGED <<mem, disk, draftF, ghosts>> /\ CommitFrame

WriteDraft ==
    /\ At("draft")
    /\ \/ /\ draftF' = [draftF EXCEPT ![op.gen] = op.draft]
          /\ Goto("publish")
       \/ "early" \in Faults /\ Goto("undoHist") /\ UNCHANGED draftF
       \/ /\ "late" \in Faults /\ Goto("undoHist")
          /\ draftF' = [draftF EXCEPT ![op.gen] = op.draft]
    /\ UNCHANGED <<mem, disk, histF, ghosts>> /\ CommitFrame

\* Variant: every commit lowers the flag, not only an Idle one.
NextManifestAlwaysClears ==
    [phase   |-> op.phase, len |-> LenOf[op.conv], gen |-> op.gen,
     ckpt    |-> mem.ckpt /\ op.phase # "Idle", effects |-> FALSE]

\* The manifest a commit publishes: an Idle boundary lowers the flag.
NextManifest ==
    [phase   |-> op.phase, len |-> LenOf[op.conv], gen |-> op.gen,
     ckpt    |-> mem.ckpt /\ op.phase # "Idle",
     effects |-> mem.effects /\ op.phase # "Idle"]

Publish ==
    /\ At("publish")
    /\ \/ /\ disk' = NextManifest /\ mem' = NextManifest
          /\ last' = [conv |-> op.conv, draft |-> op.draft]
          /\ touched'  = (touched /\ op.phase # "Idle")
          /\ markLost' = (markLost /\ op.phase # "Idle")
          /\ IF op.old > 0 THEN Goto("reapHist") ELSE op' = Nothing
          /\ body' = IF op.phase = "Idle" /\ body # "none" THEN "detached" ELSE body
       \/ /\ "early" \in Faults /\ Goto("undoHist")
          /\ UNCHANGED <<disk, mem, ghosts, body>>
       \/ /\ "late" \in Faults /\ disk' = NextManifest /\ Goto("undoHist")
          /\ UNCHANGED <<mem, ghosts, body>>
    /\ UNCHANGED <<status, turn, histF, draftF, conv>>

RemoveFile(f, g, gone) ==
    \/ f' = [f EXCEPT ![g] = gone]
    \/ "remove" \in Faults /\ UNCHANGED f

\* Variant: the new generation is reaped.
ReapNewHist   == /\ At("reapHist") /\ RemoveFile(histF, op.gen, NoConv) /\ Goto("reapDraft")
                 /\ UNCHANGED <<mem, disk, draftF, ghosts>> /\ CommitFrame

UndoHist  == /\ At("undoHist") /\ RemoveFile(histF, op.gen, NoConv) /\ Goto("undoDraft")
             /\ UNCHANGED <<mem, disk, draftF, ghosts>> /\ CommitFrame

UndoDraft == /\ At("undoDraft") /\ RemoveFile(draftF, op.gen, NoDraft) /\ op' = Nothing
             /\ UNCHANGED <<mem, disk, histF, ghosts>> /\ CommitFrame

ReapHist  == /\ At("reapHist") /\ RemoveFile(histF, op.old, NoConv) /\ Goto("reapDraft")
             /\ UNCHANGED <<mem, disk, draftF, ghosts>> /\ CommitFrame

ReapDraft == /\ At("reapDraft") /\ RemoveFile(draftF, op.old, NoDraft) /\ op' = Nothing
             /\ UNCHANGED <<mem, disk, histF, ghosts>> /\ CommitFrame

-----------------------------------------------------------------------------
(* The REPL's turn.                                                        *)
TurnStart ==
    /\ Quiet /\ turn = "prompt" /\ turn' = "prep"
    /\ \E d \in Drafts : StartCommit(d, "WaitingModel")
    /\ UNCHANGED <<status, mem, files, conv, body, ghosts>>

\* The two early "continue"s of the prep window: no Idle commit follows.
PrepAbort ==
    /\ Quiet /\ turn = "prep" /\ turn' = "prompt"
    /\ UNCHANGED <<status, op, mem, files, conv, body, ghosts>>

RunStart ==
    /\ Quiet /\ turn = "prep" /\ turn' = "run"
    /\ SetPhase("WaitingModel")
    /\ conv' \in Convs
    /\ UNCHANGED <<status, op, histF, draftF, body, ghosts>>

\* The phase changes of the agent loop, and the messages it appends.
RunStep ==
    /\ Quiet /\ turn = "run"
    /\ \E p \in {"ExecutingTools", "AwaitingApproval", "WaitingModel"} : SetPhase(p)
    /\ conv' \in Convs
    /\ UNCHANGED <<status, turn, op, histF, draftF, body, ghosts>>

\* The turn's future returned, or Esc dropped it with a tool body still running.
RunOver ==
    /\ Quiet /\ turn = "run" /\ turn' = "final"
    /\ SetPhase("Finalizing")
    /\ conv' \in Convs
    /\ UNCHANGED <<status, op, histF, draftF, body, ghosts>>

TurnCommit ==
    /\ Quiet /\ turn = "final" /\ turn' = "prompt"
    /\ StartCommit(NoDraft, "Idle")
    /\ UNCHANGED <<status, mem, files, conv, body, ghosts>>

\* A slash command at the prompt (/new, /resume, /compact) swaps the
\* conversation; nothing is checkpointed.
SwapConv ==
    /\ Quiet /\ turn = "prompt" /\ conv' \in Convs
    /\ UNCHANGED <<status, turn, op, mem, files, body, ghosts>>

\* clear(): ACTIVE is taken, then remove_dir_all deletes in directory order.
Clear ==
    /\ Quiet /\ turn = "prompt"
    /\ status' = "clearing" /\ mem' = Nothing
    /\ UNCHANGED <<turn, op, files, conv, body, ghosts>>

ClearFile ==
    /\ status = "clearing" /\ UNCHANGED <<turn, op, mem, conv, body, ghosts>>
    /\ \/ disk # Nothing /\ disk' = Nothing /\ UNCHANGED <<status, histF, draftF>>
       \/ \E g \in Gens : /\ histF[g] # NoConv
                          /\ histF' = [histF EXCEPT ![g] = NoConv]
                          /\ UNCHANGED <<status, disk, draftF>>
       \/ \E g \in Gens : /\ draftF[g] # NoDraft
                          /\ draftF' = [draftF EXCEPT ![g] = NoDraft]
                          /\ UNCHANGED <<status, disk, histF>>
       \/ /\ disk = Nothing
          /\ \A g \in Gens : histF[g] = NoConv /\ draftF[g] = NoDraft
          /\ status' = "exited" /\ UNCHANGED files

Crash ==
    /\ status \in {"running", "clearing"} /\ status' = "crashed"
    /\ body' = "none"
    /\ UNCHANGED <<turn, op, mem, files, conv, ghosts>>

Next ==
    \/ Begin \/ SetCheckpoint \/ ToolStart \/ ToolActs \/ ToolEnds
    \/ WriteHist \/ WriteDraft \/ Publish
    \/ UndoHist \/ UndoDraft \/ ReapHist \/ ReapDraft
    \/ TurnStart \/ PrepAbort \/ RunStart \/ RunStep \/ RunOver \/ TurnCommit \/ SwapConv
    \/ Clear \/ ClearFile \/ Crash

Spec == Init /\ [][Next]_vars

-----------------------------------------------------------------------------
(* Properties.  mem # Nothing says that the process began a lease and did  *)
(* not give it up: it is running, or it crashed while it was.              *)

\* Every variable keeps to the shape the code gives it.
TypeOK ==
    /\ status \in {"off", "running", "unprotected", "clearing", "exited", "crashed"}
    /\ turn \in {"prompt", "prep", "run", "final"}
    /\ op \in Op \cup {Nothing}
    /\ mem \in Manifest \cup {Nothing}
    /\ disk \in Manifest \cup {Nothing}
    /\ histF \in [Gens -> Convs \cup {NoConv}]
    /\ draftF \in [Gens -> Drafts \cup {NoDraft}]
    /\ conv \in Convs
    /\ body \in {"none", "started", "acting", "detached"}
    /\ last \in BoundaryPair \cup {Nothing}
    /\ touched \in BOOLEAN /\ markLost \in BOOLEAN

\* Whatever file operation the process dies after, the boundary of the last
\* commit that returned Ok is what the files hold: history and draft of the
\* same commit (checkpoint_history: sidecars first, manifest last, and the old
\* generation removed only afterwards).
LastCommitRecoverable ==
    mem # Nothing /\ last # Nothing =>
        /\ disk.gen > 0
        /\ Boundary(disk.gen) = last

\* What is offered is the last committed conversation even when the owner died
\* half-way through the deletions of a clean exit; of the draft it may miss all,
\* never show another one.
OfferIsLastCommit ==
    Offer = "offer" =>
        /\ last # Nothing /\ histF[disk.gen] = last.conv
        /\ draftF[disk.gen] \in {last.draft, NoDraft}

\* A tool that had an effect since the last Idle boundary is visible to whoever
\* recovers the session, unless the write that raises the flag failed.  (A body
\* that Esc detached and that outlives the Idle commit is not counted.)
EffectsFlagged ==
    mem # Nothing /\ touched /\ ~markLost => disk.effects

\* "Keep this true until a complete post-turn Idle boundary is durably
\* committed": only the manifest of a new Idle generation lowers the flag.
FlagLoweredOnlyByIdleCommit ==
    [][disk # Nothing /\ disk' # Nothing /\ disk.effects /\ ~disk'.effects =>
         disk'.phase = "Idle" /\ disk'.gen = disk.gen + 1]_vars

\* A failed commit or a failed manifest update leaves no sidecar behind, so a
\* reused generation number never meets a draft of the attempt before it.
NoStraySidecars ==
    Quiet => \A g \in Gens : g # mem.gen => histF[g] = NoConv /\ draftF[g] = NoDraft

-----------------------------------------------------------------------------
(* The files implement the register of CommitRegister: a commit happens    *)
(* when the manifest is published, every other file operation is invisible. *)
savedBar == IF mem = Nothing \/ disk.gen = 0 THEN Nothing ELSE Boundary(disk.gen)
flagBar  == mem # Nothing /\ disk.effects
reqBar   == IF mem # Nothing /\ op # Nothing /\ op.at \in {"hist", "draft", "publish"}
            THEN [conv |-> op.conv, draft |-> op.draft, idle |-> (op.phase = "Idle")]
            ELSE Nothing
openBar  == status \in {"off", "unprotected"} \/ mem # Nothing

Register == INSTANCE CommitRegister WITH
    saved <- savedBar, flag <- flagBar, req <- reqBar, open <- openBar

\* Failures and crashes included, what a recovery would restore changes like an
\* atomic register that a failed commit leaves alone (checkpoint_history).
ImplementsRegister == Register!ASpec
=============================================================================
