----------------------------- MODULE TimeMachine -----------------------------
(* The checkpoint store of one worktree (features/timemachine.rs): the       *)
(* ledger, the one-entry journal, the refs of the private git store, the     *)
(* chat files and the working tree they are about.  Every file operation is  *)
(* a step, and a process may be stopped before any of      *)
(* them, by a crash, by Esc or by a `?`: what is on the disk then is what    *)
(* the next operation finds in recover_pending().                            *)
(* A commit is represented by the tree it names; journal phases, which       *)
(* nothing reads back except the doctor's report, are left out, and so are   *)
(* the recovery refs, a second pin on a preimage whose own ref is here.      *)
EXTENDS Naturals, FiniteSets, FiniteSetsExt

CONSTANTS
    Procs,      \* aizen processes in one worktree: windows, `aizen time ...`
    Trees,      \* contents of the working tree
    Half,       \* a tree that read-tree was interrupted in
    None,
    MaxId,      \* bound: checkpoint ids
    MaxGen,     \* bound: ledger generations
    Keep,       \* timemachine_keep
    KeepSafety  \* timemachine_keep_safety

Ids      == 1..MaxId
Contents == Trees \cup {Half}
Journals == [kind : {"Save", "Restore", "Prune", "Clear", "Doctor"}, gen : 0..MaxGen,
             id : 0..MaxId, tree : {None} \cup Contents, pre : 0..MaxId]

ASSUME TimeAssumption ==
    /\ MaxId \in Nat /\ MaxGen \in Nat /\ Keep \in Nat \ {0} /\ KeepSafety \in Nat
    /\ Half \notin Trees /\ None \notin Contents /\ None \notin Journals

VARIABLES
    ledger,     \* ledger.json
    journal,    \* journal.json
    refs,       \* refs/ng/tm/<worktree>/<id>
    chats,      \* chat/<id>.json
    tree,       \* the working tree
    proc,       \* what each process is doing
    edited      \* history: edited since an operation last looked at the tree

disk == <<ledger, journal, refs, chats>>
vars == <<ledger, journal, refs, chats, tree, proc, edited>>

Kinds    == {"SafetyNet", "Milestone", "Recovery"}
Snapshots == [id : Ids, tree : Contents, parent : 0..MaxId, kind : Kinds, chat : BOOLEAN]

(* save_protected_change_in; save(auto), the phase mark; save(manual);       *)
(* save_with_chat.                                                           *)
Saves    == {"net", "phase", "manual", "talk"}
Travels  == {"restore", "undo", "redo"}
Drops    == {"trim", "prune", "clear"}
Cleaning == {"prune", "clear", "gc", "repair"}
(* These hold the workspace writer lease of WorkspaceLease throughout.       *)
Leased   == Travels \cup {"net"}

Live       == {s.id : s \in ledger.snaps}
Snap(id)   == CHOOSE s \in ledger.snaps : s.id = id
Newest     == Snap(Max(Live))
Idle       == [pc |-> "idle", op |-> None, id |-> 0, tree |-> None, pre |-> 0, todo |-> {}]

Init ==
    /\ ledger = [gen |-> 0, snaps |-> {}, cursor |-> 0, next |-> 1]
    /\ journal = None
    /\ refs = [id \in Ids |-> None]
    /\ chats = {}
    /\ tree \in Trees
    /\ proc = [p \in Procs |-> Idle]
    /\ edited = FALSE

At(p, pc)   == proc[p].pc = pc
Go(p, pc)   == proc' = [proc EXCEPT ![p].pc = pc]
Finish(p)   == proc' = [proc EXCEPT ![p] = Idle]
Waiting     == {"idle", "ask"}

(* Files one step writes; the ledger's generation grows with every save.     *)
Journal(j)  == journal' = j /\ UNCHANGED <<ledger, refs, chats>>
SaveLedger(snaps, cursor, next) ==
    /\ ledger.gen < MaxGen
    /\ ledger' = [gen |-> ledger.gen + 1, snaps |-> snaps, cursor |-> cursor, next |-> next]
    /\ UNCHANGED <<journal, refs, chats>>
SaveCursor(id) == SaveLedger(ledger.snaps, id, ledger.next)
SetRef(id, t)  == refs' = [refs EXCEPT ![id] = t] /\ UNCHANGED <<ledger, journal, chats>>
SetChats(c)    == chats' = c /\ UNCHANGED <<ledger, journal, refs>>
Entry(kind)    == [kind |-> kind, gen |-> ledger.gen, id |-> 0, tree |-> None, pre |-> 0]

-----------------------------------------------------------------------------
(* Starting and stopping.  undo() and redo() choose their target from a      *)
(* ledger read before the metadata lock is asked for.                        *)
Current   == IF ledger.cursor # 0 \/ Live = {} THEN ledger.cursor ELSE Max(Live)
UndoTo    == IF Current = 0 THEN {} ELSE {Snap(Current).parent} \ {0}
Children  == {s.id : s \in {x \in ledger.snaps : x.parent = Current /\ x.kind # "Recovery"}}
RedoTo    == IF Current = 0 \/ Children = {} THEN {} ELSE {Max(Children)}

NoLease(op) == op \in Leased => \A q \in Procs : proc[q].op \notin Leased
Unlocked    == \A q \in Procs : proc[q].pc \in Waiting
First       == IF journal = None THEN "work" ELSE "recover"

(* Waiting for a lock before anything is read is not yet a step, and whether *)
(* it is a save, a restore (of which target) or a cleaning makes no          *)
(* difference before recover_pending is through.                             *)
Begin(p) ==
    /\ At(p, "idle") /\ Unlocked
    /\ proc' = [proc EXCEPT ![p] = [Idle EXCEPT !.pc = First, !.op = "any"]]
    /\ UNCHANGED <<disk, tree, edited>>

PreRead(p) ==
    /\ At(p, "idle")
    /\ \E op \in {"undo", "redo"} :
        /\ NoLease(op)
        /\ \E id \in IF op = "undo" THEN UndoTo ELSE RedoTo :
            proc' = [proc EXCEPT ![p] = [Idle EXCEPT !.pc = "ask", !.op = op, !.id = id]]
    /\ UNCHANGED <<disk, tree, edited>>

Acquire(p) ==
    /\ At(p, "ask") /\ Unlocked
    /\ Go(p, First)
    /\ UNCHANGED <<disk, tree, edited>>

(* A crash, a failed file or git operation, a lock timeout: the locks go     *)
(* with the process or with their guards, the files stay.                    *)
Stop(p) ==
    /\ ~At(p, "idle")
    /\ Finish(p)
    /\ edited' = (edited /\ At(p, "ask"))
    /\ UNCHANGED <<disk, tree>>

Edit ==
    /\ \E t \in Trees : tree' = IF tree = Half THEN Half ELSE t
    /\ edited' = ~Unlocked
    /\ UNCHANGED <<disk, proc>>

-----------------------------------------------------------------------------
(* recover_pending, the first thing every operation does under the lock.     *)
Pending(p, kinds) ==
    /\ At(p, "recover")
    /\ journal.kind \in kinds
    /\ journal.gen <= ledger.gen

RecoverSaveUnlisted(p) ==
    /\ Pending(p, {"Save"})
    /\ IF refs[journal.id] # None /\ refs[journal.id] = journal.tree
       THEN SetRef(journal.id, None) /\ UNCHANGED proc
       ELSE Journal(None) /\ Go(p, "work")
    /\ UNCHANGED <<tree, edited>>

RecoverSave(p) ==
    /\ Pending(p, {"Save"})
    /\ IF journal.id \in Live THEN Journal(None) /\ Go(p, "work")
       ELSE IF journal.tree # None /\ refs[journal.id] = journal.tree
            THEN SetRef(journal.id, None) /\ UNCHANGED proc
       ELSE IF journal.id \in chats THEN SetChats(chats \ {journal.id}) /\ UNCHANGED proc
       ELSE Journal(None) /\ Go(p, "work")
    /\ UNCHANGED <<tree, edited>>

(* A look that fails counts as neither tree.                                 *)
RecoverRestore(p) ==
    /\ Pending(p, {"Restore"})
    /\ journal.id \in Live
    /\ \E seen \in {tree, None} :
        IF seen = Snap(journal.id).tree
        THEN proc' = [proc EXCEPT ![p].pc = "settle", ![p].pre = journal.id]
        ELSE /\ journal.pre \in Live
             /\ proc' = [proc EXCEPT ![p].pre = journal.pre,
                    ![p].pc = IF seen = Snap(journal.pre).tree THEN "settle" ELSE "rollback"]
    /\ edited' = FALSE
    /\ UNCHANGED <<disk, tree>>

RolledBack(p) ==
    /\ At(p, "rolled")
    /\ tree = Snap(proc[p].pre).tree
    /\ Go(p, "settle")
    /\ edited' = FALSE
    /\ UNCHANGED <<disk, tree>>

Settle(p) ==
    /\ At(p, "settle")
    /\ SaveCursor(proc[p].pre)
    /\ Go(p, "settled")
    /\ UNCHANGED <<tree, edited>>

Settled(p) ==
    /\ At(p, "settled")
    /\ Journal(None)
    /\ proc' = [proc EXCEPT ![p].pc = "work", ![p].pre = 0]
    /\ UNCHANGED <<tree, edited>>

RecoverDrop(p) ==
    /\ Pending(p, {"Prune", "Clear", "Doctor"})
    /\ Journal(None)
    /\ Go(p, "work")
    /\ UNCHANGED <<tree, edited>>

(* read-tree --reset -u: what it overwrites is gone once it has begun, and   *)
(* it may leave a tree that is not the one asked for.                        *)
Goal(p) == IF proc[p].pc \in {"apply", "applying"} THEN proc[p].id ELSE proc[p].pre

BeginApply(p) ==
    /\ proc[p].pc \in {"rollback", "apply", "unapply"}
    /\ tree' = Half
    /\ Go(p, CASE At(p, "rollback") -> "rolling"
               [] At(p, "apply")    -> "applying"
               [] At(p, "unapply")  -> "unapplying")
    /\ UNCHANGED <<disk, edited>>

EndApply(p) ==
    /\ proc[p].pc \in {"rolling", "applying", "unapplying"}
    /\ tree' \in {Snap(Goal(p)).tree, Half}
    /\ CASE At(p, "rolling")    -> Go(p, "rolled")
         [] At(p, "applying")   -> Go(p, "verify") \/ Go(p, "unapply")
         [] At(p, "unapplying") -> Finish(p)
    /\ UNCHANGED <<disk, edited>>

-----------------------------------------------------------------------------
(* validate_snapshot_ref *)
Reachable(id) == id \in Live /\ refs[id] = Snap(id).tree

(* What a process at work turns out to do; if that needs the writer lease,   *)
(* it has had it from the start, and nobody else has it now.                 *)
Working(p, op) ==
    /\ At(p, "work")
    /\ proc[p].op = IF op \in Saves \cup Cleaning \cup {"restore"} THEN "any" ELSE op
    /\ op \in Leased => \A q \in Procs \ {p} : proc[q].op \notin Leased

(* save_in, capture_checkpoint_locked.  A trim follows the saves that prune, *)
(* under locks of its own.                                                   *)
Saved(p, op, id) ==
    IF op = "net" THEN Finish(p)
    ELSE proc' = [proc EXCEPT ![p] = [Idle EXCEPT !.pc = "ask", !.op = "trim", !.id = id]]

Reusable(op) == op \in {"net", "phase"} /\ Live # {} /\ Newest.tree = tree

Reuse(p) ==
    /\ \E op \in Saves :
        /\ Working(p, op) /\ Reusable(op)
        /\ Saved(p, op, Newest.id)
    /\ SaveCursor(Newest.id)
    /\ edited' = FALSE
    /\ UNCHANGED tree

Wanted(p) == IF proc[p].op = "any" THEN Live ELSE Live \cap {proc[p].id}

Capture(p) ==
    /\ \E op \in Saves \cup Travels, id \in Wanted(p) \cup {0} :
        /\ Working(p, op)
        /\ IF op \in Saves THEN id = 0 /\ ~Reusable(op)
           ELSE id # 0 /\ Reachable(id) /\ Snap(id).tree # tree
        /\ proc' = [proc EXCEPT ![p] = [@ EXCEPT !.pc = "commit", !.op = op, !.id = id,
                                                 !.tree = tree]]
    /\ ledger.next <= MaxId
    /\ Journal([Entry("Save") EXCEPT !.id = ledger.next])
    /\ edited' = FALSE
    /\ UNCHANGED tree

CommitTree(p) ==
    /\ At(p, "commit")
    /\ Journal([journal EXCEPT !.tree = proc[p].tree])
    /\ Go(p, "ref")
    /\ UNCHANGED <<tree, edited>>

MakeRef(p) ==
    /\ At(p, "ref")
    /\ refs[journal.id] = None
    /\ SetRef(journal.id, proc[p].tree)
    /\ Go(p, IF proc[p].op = "talk" THEN "chat" ELSE "enter")
    /\ UNCHANGED <<tree, edited>>

WriteChat(p) ==
    /\ At(p, "chat")
    /\ \/ SetChats(chats \cup {journal.id}) /\ Go(p, "enter")
       \/ SetRef(journal.id, None) /\ Go(p, "noChat")
    /\ UNCHANGED <<tree, edited>>

NoChat(p) ==
    /\ At(p, "noChat")
    /\ Journal(None)
    /\ Finish(p)
    /\ UNCHANGED <<tree, edited>>

Enter(p) ==
    /\ At(p, "enter")
    /\ LET snap == [id |-> journal.id, tree |-> proc[p].tree, parent |-> ledger.cursor,
                    kind |-> CASE proc[p].op \in Travels -> "Recovery"
                               [] proc[p].op = "net"     -> "SafetyNet"
                               [] OTHER                  -> "Milestone",
                    chat |-> proc[p].op = "talk"]
       IN  SaveLedger(ledger.snaps \cup {snap}, snap.id, snap.id + 1)
    /\ Go(p, "entered")
    /\ UNCHANGED <<tree, edited>>

Entered(p) ==
    /\ At(p, "entered")
    /\ Journal(None)
    /\ IF proc[p].op \in Travels
       THEN proc' = [proc EXCEPT ![p].pc = "arm", ![p].pre = journal.id, ![p].tree = None]
       ELSE Saved(p, proc[p].op, journal.id)
    /\ UNCHANGED <<tree, edited>>

-----------------------------------------------------------------------------
(* restore_in.  A tree that is already the target is not captured: the       *)
(* preimage is then whatever the cursor names.                               *)
AlreadyThereNoPre(p) ==
    /\ \E op \in Travels, id \in Wanted(p) :
        /\ Working(p, op)
        /\ Reachable(id) /\ Snap(id).tree = tree
        /\ proc' = [proc EXCEPT ![p] = [@ EXCEPT !.pc = "arm", !.op = op, !.id = id]]
    /\ edited' = FALSE
    /\ UNCHANGED <<disk, tree>>

NeverCaptured(p) ==
    /\ \E op \in Travels, id \in Wanted(p) :
        /\ Working(p, op)
        /\ Reachable(id)
        /\ proc' = [proc EXCEPT ![p] =
                    [@ EXCEPT !.pc = "arm", !.op = op, !.id = id, !.pre = ledger.cursor]]
    /\ edited' = FALSE
    /\ UNCHANGED <<disk, tree>>

AlreadyThere(p) ==
    /\ \E op \in Travels, id \in Wanted(p) :
        /\ Working(p, op)
        /\ Reachable(id) /\ Snap(id).tree = tree
        /\ proc' = [proc EXCEPT ![p] =
                    [@ EXCEPT !.pc = "arm", !.op = op, !.id = id, !.pre = ledger.cursor]]
    /\ edited' = FALSE
    /\ UNCHANGED <<disk, tree>>

Arm(p) ==
    /\ At(p, "arm")
    /\ Journal([Entry("Restore") EXCEPT !.id = proc[p].id, !.pre = proc[p].pre])
    /\ Go(p, "apply")
    /\ UNCHANGED <<tree, edited>>

VerifyTrusts(p) ==
    /\ At(p, "verify")
    /\ Go(p, "land")
    /\ edited' = FALSE
    /\ UNCHANGED <<disk, tree>>

Verify(p) ==
    /\ At(p, "verify")
    /\ IF tree = Snap(proc[p].id).tree THEN Go(p, "land")
       ELSE IF proc[p].pre \in Live THEN Go(p, "unapply")
       ELSE Finish(p)
    /\ edited' = FALSE
    /\ UNCHANGED <<disk, tree>>

Land(p) ==
    /\ At(p, "land")
    /\ SaveCursor(proc[p].id)
    /\ Go(p, "landed")
    /\ UNCHANGED <<tree, edited>>

Landed(p) ==
    /\ At(p, "landed")
    /\ Journal(None)
    /\ Finish(p)
    /\ UNCHANGED <<tree, edited>>

-----------------------------------------------------------------------------
(* prune_after_save, prune, clear: the ledger first, then the refs.          *)
(* enforce_retention_plan: the oldest safety nets beyond the floor, then the *)
(* oldest of the cheapest tier until the total fits.                         *)
Retire(keep, floor, protected) ==
    LET spare == {s \in ledger.snaps : s.id \notin protected \cup {ledger.cursor}}
        nets  == {s \in spare : s.kind = "SafetyNet"}
        thin  == {s \in nets : Cardinality({n \in nets : n.id > s.id}) >= floor}
        rest  == spare \ thin
        total == Cardinality(ledger.snaps \ thin)
        before(a, b) == \/ a.kind = "SafetyNet" /\ b.kind # "SafetyNet"
                        \/ (a.kind = "SafetyNet") = (b.kind = "SafetyNet") /\ a.id < b.id
    IN  thin \cup {s \in rest : keep + Cardinality({r \in rest : before(r, s)}) < total}

(* The anchors of the run of this process are protected too: any id an       *)
(* earlier save returned.                                                    *)
Plans(p) ==
    CASE proc[p].op = "trim"  -> {Retire(Keep, KeepSafety, {proc[p].id, a}) : a \in 0..MaxId}
      [] proc[p].op = "prune" -> {Retire(k, k, {}) : k \in 1..MaxId}
      [] proc[p].op = "clear" -> {ledger.snaps}

TrimNothing(p) ==
    /\ Working(p, "trim")
    /\ Cardinality(ledger.snaps) <= Keep
    /\ Finish(p)
    /\ UNCHANGED <<disk, tree, edited>>

AskDrop(p) ==
    /\ \E op \in Drops :
        /\ Working(p, op)
        /\ op = "trim" => Cardinality(ledger.snaps) > Keep
        /\ Journal(Entry(IF op = "clear" THEN "Clear" ELSE "Prune"))
        /\ proc' = [proc EXCEPT ![p].pc = "drop", ![p].op = op]
    /\ UNCHANGED <<tree, edited>>

Drop(p) ==
    /\ At(p, "drop")
    /\ \E gone \in Plans(p) :
        /\ SaveLedger(ledger.snaps \ gone, IF proc[p].op = "clear" THEN 0 ELSE ledger.cursor,
                      ledger.next)
        /\ proc' = [proc EXCEPT ![p].pc = "reap", ![p].todo = gone]
    /\ UNCHANGED <<tree, edited>>

(* delete_snapshots, one at a time; a ref that names another commit stops it.*)
Reap(p) ==
    /\ At(p, "reap") /\ proc[p].todo # {}
    /\ LET s == CHOOSE x \in proc[p].todo : \A y \in proc[p].todo : x.id <= y.id
       IN  IF refs[s.id] # None
           THEN refs[s.id] = s.tree /\ SetRef(s.id, None) /\ UNCHANGED proc
           ELSE /\ SetChats(chats \ {s.id})
                /\ proc' = [proc EXCEPT ![p].todo = @ \ {s}]
    /\ UNCHANGED <<tree, edited>>

Reaped(p) ==
    /\ At(p, "reap") /\ proc[p].todo = {}
    /\ Journal(None)
    /\ Finish(p)
    /\ UNCHANGED <<tree, edited>>

-----------------------------------------------------------------------------
(* doctor_gc removes what no snapshot names; doctor_repair     *)
(* only recovers.                                                            *)
Orphans == {id \in Ids \ Live : refs[id] # None}

StartSweep(p) ==
    /\ Working(p, "gc")
    /\ Journal(Entry("Doctor"))
    /\ Go(p, "sweep")
    /\ UNCHANGED <<tree, edited>>

SweepOne(p) ==
    /\ At(p, "sweep")
    /\ \/ \E id \in Orphans : SetRef(id, None)
       \/ \E id \in chats \ Live : SetChats(chats \ {id})
    /\ UNCHANGED <<tree, proc, edited>>

SweepDone(p) ==
    /\ At(p, "sweep")
    /\ Orphans = {} /\ chats \subseteq Live
    /\ Journal(None)
    /\ Finish(p)
    /\ UNCHANGED <<tree, edited>>

Repaired(p) ==
    /\ Working(p, "repair")
    /\ Finish(p)
    /\ UNCHANGED <<disk, tree, edited>>

Recovery(p) == \/ RecoverSave(p) \/ RecoverRestore(p) \/ RolledBack(p)
               \/ Settle(p) \/ Settled(p) \/ RecoverDrop(p)
Saving(p)   == \/ Reuse(p) \/ Capture(p) \/ CommitTree(p) \/ MakeRef(p)
               \/ WriteChat(p) \/ NoChat(p) \/ Enter(p) \/ Entered(p)
Travel(p)   == \/ AlreadyThere(p) \/ Arm(p) \/ BeginApply(p) \/ EndApply(p)
               \/ Verify(p) \/ Land(p) \/ Landed(p)
Dropping(p) == \/ TrimNothing(p) \/ AskDrop(p) \/ Drop(p) \/ Reap(p) \/ Reaped(p)
Doctor(p)   == \/ StartSweep(p) \/ SweepOne(p) \/ SweepDone(p) \/ Repaired(p)

Next ==
    \/ Edit
    \/ \E p \in Procs : \/ Begin(p) \/ PreRead(p) \/ Acquire(p) \/ Stop(p)
                        \/ Recovery(p) \/ Saving(p) \/ Travel(p) \/ Dropping(p) \/ Doctor(p)

Spec == Init /\ [][Next]_vars

-----------------------------------------------------------------------------
TypeOK ==
    /\ ledger \in [gen : 0..MaxGen, snaps : SUBSET Snapshots, cursor : 0..MaxId, next : 1..MaxId + 1]
    /\ journal \in {None} \cup Journals
    /\ refs \in [Ids -> {None} \cup Contents]
    /\ chats \subseteq Ids
    /\ tree \in Contents /\ edited \in BOOLEAN

(* Whenever the power goes, every checkpoint the ledger lists can be         *)
(* restored: its ref names its commit and its conversation is there (refs    *)
(* before the ledger when one is added, after it when one is dropped).       *)
Pinned ==
    \A s \in ledger.snaps :
        /\ refs[s.id] = s.tree
        /\ s.chat => s.id \in chats

(* The next checkpoint can always be created: a ref under an id the ledger   *)
(* has not reached is one the journal accounts for, so that recover_pending  *)
(* removes it before update_ref_create would refuse.                         *)
NextIdFree ==
    \A id \in Ids : id >= ledger.next /\ refs[id] # None =>
        /\ journal # None /\ journal.kind = "Save"
        /\ journal.id = id /\ journal.tree = refs[id]

(* Every process can read the ledger there is: its cursor is set as soon as  *)
(* there are checkpoints, and names one of them, which normalize() would     *)
(* otherwise refuse at every later operation (retention keeps the cursor).   *)
Loadable == /\ ledger.cursor \in Live \/ (ledger.cursor = 0 /\ Live = {})
            /\ \A id \in Live : id < ledger.next

(* Wherever an operation of either process stopped, the store it leaves is   *)
(* one the next operation can load, add to and restore from.                 *)
Sound == TypeOK /\ Pinned /\ NextIdFree /\ Loadable

(* A restore left pending can always be settled by the next operation: its   *)
(* target and its preimage are still in the ledger, with their refs, and the *)
(* journal is of no later generation.                                        *)
Settleable ==
    journal # None =>
        /\ journal.gen <= ledger.gen
        /\ journal.kind = "Restore" => Reachable(journal.id) /\ Reachable(journal.pre)

(* No checkpoint holds a half-applied tree: while one is on the disk, the    *)
(* journal of the restore that left it is too, and is recovered first.       *)
NoHalfSaved == \A s \in ledger.snaps : s.tree # Half

(* An interrupted restore can be settled, and until it is nothing captures   *)
(* the tree it left half-applied (recover_pending before every operation).   *)
Recoverable == Settleable /\ NoHalfSaved

(* A restore overwrites nothing that no checkpoint holds, unless somebody    *)
(* has edited the tree since it looked.                                      *)
PreimageKept ==
    [][ \A p \in Procs : At(p, "apply") /\ At(p, "applying")' =>
            edited \/ \E s \in ledger.snaps : s.tree = tree ]_vars

(* A restore, finished or recovered, is over only when the tree is the one   *)
(* the cursor names, and that is its target or its preimage.                 *)
EndsWhole ==
    [][ journal # None /\ journal.kind = "Restore" /\ journal' # journal =>
            /\ ledger.cursor \in {journal.id, journal.pre}
            /\ edited \/ Snap(ledger.cursor).tree = tree ]_vars

(* Saving a checkpoint does not cost anybody work: what the recovery before  *)
(* it overwrites is half-applied or held by a checkpoint ("`/checkpoint`     *)
(* saves one now", docs/REFERENCE.md).  An operation that has not chosen yet *)
(* may be that save.  Broken when somebody goes on editing after a restore   *)
(* that was interrupted, or failed and was undone.                           *)
SaveKeepsWork ==
    [][ \A p \in Procs : proc[p].op = "any" /\ At(p, "rollback") /\ At(p, "rolling")' =>
            tree = Half \/ \E s \in ledger.snaps : s.tree = tree ]_vars
=============================================================================
