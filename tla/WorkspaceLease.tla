---------------------------- MODULE WorkspaceLease ----------------------------
(***************************************************************************)
(* The workspace writer lease (core/workspace_txn.rs on core/repo_lock.rs) *)
(* and the tasks that write under it: top-level turns of several aizen     *)
(* processes, the write-capable sub-agent a turn awaits on its barrier     *)
(* path, and the ledger seal a REPL turn runs after its agent loop.        *)
(*                                                                         *)
(* A worktree has two lock files.  Nobody takes the repository store lock  *)
(* exclusively, so taking it never waits; the workspace lock is exclusive  *)
(* and per handle, hence the process-wide HELD registry that lets a nested *)
(* holder pass without touching the files.                                 *)
(***************************************************************************)
EXTENDS Integers, FiniteSets

CONSTANTS Procs, Worktrees,
          Turns,       \* top-level turns: REPL turns, host-bot lanes
          Kids,        \* write-capable sub-agents
          ProcOf,      \* [Turns -> Procs]
          Dirs,        \* working directories of lanes: a worktree or a part of one
          DirOf,       \* [Turns -> Dirs], canonical
          WorktreeOf,  \* [Dirs -> Worktrees]
          Spawner,     \* [Kids -> Turns]
          Sealers,     \* the turns that attribute their changes when they end
          Nobody

ASSUME LeaseConstants ==
    /\ ProcOf \in [Turns -> Procs]
    /\ DirOf \in [Turns -> Dirs]
    /\ WorktreeOf \in [Dirs -> Worktrees]
    /\ Spawner \in [Kids -> Turns]
    /\ Sealers \subseteq Turns
ASSUME KidsAreNotTurns == Kids \cap Turns = {}
ASSUME NobodyIsNoTask == Nobody \notin Turns \cup Kids

Tasks == Turns \cup Kids
Top(x)  == IF x \in Turns THEN x ELSE Spawner[x]
Proc(x) == ProcOf[Top(x)]
Root(x) == WorktreeOf[DirOf[Top(x)]]
\* What HELD is keyed by, and which tasks share an entry.
Base(x) == <<Proc(x), Root(x)>>
Beside(x, y) == Base(x) = Base(y)

VARIABLES
    pc,       \* where a task is with its lease, see States
    stage,    \* of a turn: in its agent loop, or in its ledger seal
    awaited,  \* the sub-agent a turn awaits, or Nobody
    held,     \* HELD: per process and worktree, the nesting count (0: no entry)
    store,    \* holders of the shared repository store lock
    ws,       \* holder of each worktree's exclusive workspace lock
    based,    \* the turn's base checkpoint is recorded in the ledger
    foreign,  \* ghost: another process wrote since the base checkpoint
    loose     \* ghost: where a process has writers that do not wait for each other

locks  == <<store, ws>>
ledger == <<based, foreign, loose>>
writerVars == <<pc, stage, awaited, held, locks, ledger>>

\* idle -> run -> store -> ws -> reg -> owner -> unlock, or run -> nested.
States == {"idle", "run", "store", "ws", "reg", "owner", "nested", "unlock"}
\* The seal asks for the lease once and measures with or without it.
Stages == {"loop", "ask", "measure"}

Covered(x) == pc[x] \in {"owner", "nested"}
Waiting(x) == pc[x] \in {"store", "ws"}
\* A turn is suspended while the sub-agent it awaits has not returned.
Suspended(x) == x \in Turns /\ awaited[x] # Nobody
InLoop(x) == x \in Turns => stage[x] = "loop"

WriterInit ==
    /\ pc = [x \in Tasks |-> "idle"]
    /\ stage = [t \in Turns |-> "loop"]
    /\ awaited = [t \in Turns |-> Nobody]
    /\ held = [p \in Procs |-> [w \in Worktrees |-> 0]]
    /\ store = {}
    /\ ws = [w \in Worktrees |-> Nobody]
    /\ based = [t \in Turns |-> FALSE]
    /\ foreign = [t \in Turns |-> FALSE]
    /\ loose = {}

\* A base is in order again when every task on it has come to rest.
AtRest(b) == \A x \in Tasks : Base(x) = b => pc'[x] = "idle"
Settle    == loose' = {b \in loose : ~AtRest(b)}

SetPc(x, s) == pc' = [pc EXCEPT ![x] = s]
Entry(x)    == held[Proc(x)][Root(x)]
SetEntry(x, n) == held' = [held EXCEPT ![Proc(x)][Root(x)] = n]

---------------------------------------------------------------------------
DirFreeNoGate(t) == pc[t] = "idle"

\* The REPL runs one turn at a time and the host bot's RootGate serialises the
\* lanes of one directory; a lane in another directory has another gate.
DirFree(t) == \A u \in Turns : ProcOf[t] = ProcOf[u] /\ DirOf[t] = DirOf[u] => pc[u] = "idle"

\* A turn beside a busy one of another directory: their gates differ.
Unguarded(t) == \E u \in Turns : Beside(t, u) /\ DirOf[t] # DirOf[u] /\ pc[u] # "idle"

StartTurn(t) == /\ pc[t] = "idle" /\ DirFree(t)
                /\ SetPc(t, "run")
                /\ stage' = [stage EXCEPT ![t] = "loop"]
                /\ loose' = IF Unguarded(t) THEN loose \cup {Base(t)} ELSE loose
                /\ UNCHANGED <<awaited, held, locks, based, foreign>>

\* A barrier call of the task tool: the turn awaits the sub-agent's loop.
StartKid(k) ==
    LET t == Spawner[k] IN
    /\ pc[k] = "idle" /\ ~Suspended(t) /\ InLoop(t)
    /\ pc[t] = "run" \/ Covered(t)
    /\ SetPc(k, "run")
    /\ awaited' = [awaited EXCEPT ![t] = k]
    /\ UNCHANGED <<stage, held, locks, ledger>>

\* Esc cancelled the token of this sub-agent: its loop starts no further tool
\* and its lock attempts bail out.
Cancelled(x) == x \in Kids /\ awaited[Spawner[x]] # x

\* May the task ask for the lease?  A seal asks once.
MayAsk(x) == /\ pc[x] = "run" /\ ~Suspended(x) /\ ~Cancelled(x)
             /\ x \in Turns => stage[x] # "measure"

AskLeaseNoReentry(x) ==
    /\ MayAsk(x)
    /\ stage' = IF InLoop(x) THEN stage ELSE [stage EXCEPT ![x] = "measure"]
    /\ SetPc(x, "store")
    /\ UNCHANGED <<awaited, held, locks, ledger>>

\* acquire_identity: an entry in HELD makes the new handle a nested one.
AskLease(x) ==
    /\ MayAsk(x)
    /\ stage' = IF InLoop(x) THEN stage ELSE [stage EXCEPT ![x] = "measure"]
    /\ IF Entry(x) > 0 THEN SetEntry(x, Entry(x) + 1) /\ SetPc(x, "nested")
                       ELSE SetPc(x, "store") /\ UNCHANGED held
    /\ UNCHANGED <<awaited, locks, ledger>>

TakeStore(x) == /\ pc[x] = "store" /\ ~Cancelled(x)
                /\ store' = store \cup {x}
                /\ SetPc(x, "ws")
                /\ UNCHANGED <<stage, awaited, held, ws, ledger>>

TakeWs(x) == /\ pc[x] = "ws" /\ ~Cancelled(x) /\ ws[Root(x)] = Nobody
             /\ ws' = [ws EXCEPT ![Root(x)] = x]
             /\ SetPc(x, "reg")
             /\ UNCHANGED <<stage, awaited, held, store, ledger>>

\* LockBusy or a cancelled token: the locks already in the set are dropped.
GiveUp(x) == /\ Waiting(x)
             /\ store' = store \ {x}
             /\ SetPc(x, "run")
             /\ UNCHANGED <<stage, awaited, held, ws, ledger>>

Enter(x) ==
    /\ pc[x] = "reg"
    /\ SetEntry(x, 1)
    /\ SetPc(x, "owner")
    /\ UNCHANGED <<stage, awaited, locks, ledger>>

\* A tool body writes; the pre-edit checkpoint of a sealing turn comes first.
Edit(x) ==
    /\ Covered(x) /\ ~Suspended(x) /\ InLoop(x)
    /\ based' = [based EXCEPT ![Top(x)] = Top(x) \in Sealers]
    /\ foreign' = [t \in Turns |->
          foreign[t] \/ (based[t] /\ Root(t) = Root(x) /\ ProcOf[t] # Proc(x))]
    /\ UNCHANGED <<pc, stage, awaited, held, locks, loose>>

DropHandleAsNested(x) ==
    IF Covered(x) THEN SetEntry(x, IF Entry(x) > 0 THEN Entry(x) - 1 ELSE 0)
                  ELSE UNCHANGED held

\* Drop for WorkspaceWriterLease: the owner removes the entry outright before
\* its LockSet goes, a nested handle only decrements.
DropHandle(x) ==
    CASE pc[x] = "owner"  -> SetEntry(x, 0)
      [] pc[x] = "nested" -> SetEntry(x, IF Entry(x) > 0 THEN Entry(x) - 1 ELSE 0)
      [] OTHER            -> UNCHANGED held

\* The task leaves its lease scope; an owner still has its lock files.  Once
\* they are gone a turn with a recorded base goes on to its seal.
Seals(x) == x \in Turns /\ based[x] /\ stage[x] = "loop"
Rest(x)  == IF Seals(x) THEN "run" ELSE "idle"
Return(x, to) ==
    /\ SetPc(x, to)
    /\ stage' = IF to = "run" THEN [stage EXCEPT ![x] = "ask"] ELSE stage
    /\ awaited' = [t \in Turns |-> IF awaited[t] = x /\ to = "idle" THEN Nobody ELSE awaited[t]]

\* The agent loop ends and its writer_lease goes out of scope.
EndLoop(x) ==
    /\ pc[x] = "run" \/ Covered(x)
    /\ ~Suspended(x) /\ InLoop(x)
    /\ DropHandle(x)
    /\ Return(x, IF pc[x] = "owner" THEN "unlock" ELSE Rest(x))
    /\ Settle
    /\ UNCHANGED <<locks, based, foreign>>

\* The LockSet of a dropped owner releases its files.
Unlock(x) ==
    /\ pc[x] = "unlock"
    /\ store' = store \ {x}
    /\ ws' = [ws EXCEPT ![Root(x)] = Nobody]
    /\ Return(x, Rest(x))
    /\ Settle
    /\ UNCHANGED <<held, based, foreign>>

\* seal_turn diffs the tree against the base, with the lease when it got it.
Seal(t) ==
    /\ stage[t] = "measure" /\ (pc[t] = "run" \/ Covered(t))
    /\ DropHandle(t)
    /\ SetPc(t, IF pc[t] = "owner" THEN "unlock" ELSE "idle")
    /\ based' = [based EXCEPT ![t] = FALSE]
    /\ foreign' = [foreign EXCEPT ![t] = FALSE]
    /\ Settle
    /\ UNCHANGED <<stage, awaited, locks>>

\* Esc drops the turn's future at its await; the sub-agent's blocking thread
\* cannot be aborted and runs until its own tool body returns.
Esc(t) ==
    /\ Suspended(t)
    /\ DropHandle(t)
    /\ SetPc(t, IF pc[t] = "owner" THEN "unlock" ELSE Rest(t))
    /\ stage' = IF pc[t] # "owner" /\ Seals(t) THEN [stage EXCEPT ![t] = "ask"] ELSE stage
    /\ awaited' = [awaited EXCEPT ![t] = Nobody]
    /\ loose' = loose \cup {Base(t)}
    /\ UNCHANGED <<locks, based, foreign>>

\* The kernel releases the lock files of a process that dies.
CrashOf(p) ==
    LET gone == {x \in Tasks : Proc(x) = p} IN
    /\ pc' = [x \in Tasks |-> IF x \in gone THEN "idle" ELSE pc[x]]
    /\ stage' = [t \in Turns |-> IF t \in gone THEN "loop" ELSE stage[t]]
    /\ awaited' = [t \in Turns |-> IF t \in gone THEN Nobody ELSE awaited[t]]
    /\ held' = [held EXCEPT ![p] = [w \in Worktrees |-> 0]]
    /\ store' = store \ gone
    /\ ws' = [w \in Worktrees |-> IF ws[w] \in gone THEN Nobody ELSE ws[w]]
    /\ based' = [t \in Turns |-> t \notin gone /\ based[t]]
    /\ foreign' = [t \in Turns |-> t \notin gone /\ foreign[t]]
    /\ Settle

WriterNext ==
    \/ \E t \in Turns : StartTurn(t) \/ Seal(t) \/ Esc(t)
    \/ \E k \in Kids : StartKid(k)
    \/ \E x \in Tasks : \/ AskLease(x) \/ TakeStore(x) \/ TakeWs(x) \/ GiveUp(x)
                        \/ Enter(x) \/ Edit(x) \/ EndLoop(x) \/ Unlock(x)
    \/ \E p \in Procs : CrashOf(p)

WriterSpec == WriterInit /\ [][WriterNext]_writerVars

---------------------------------------------------------------------------
WriterTypeOK ==
    /\ pc \in [Tasks -> States]
    /\ stage \in [Turns -> Stages]
    /\ awaited \in [Turns -> Kids \cup {Nobody}]
    /\ held \in [Procs -> [Worktrees -> Nat]]
    /\ store \subseteq Tasks
    /\ ws \in [Worktrees -> Tasks \cup {Nobody}]
    /\ based \in [Turns -> BOOLEAN]
    /\ foreign \in [Turns -> BOOLEAN]
    /\ loose \subseteq Procs \X Worktrees

\* Two tasks that hold a lease on one worktree are one writer: a turn and the
\* sub-agent it is suspended on.  It is so where no process is loose on the
\* worktree: Esc has detached no sub-agent there that still runs, and no two of
\* its lanes have their turns in different directories of it.
Exclusion == \A x, y \in Tasks :
    Covered(x) /\ Covered(y) /\ Root(x) = Root(y) /\ x # y /\ {Base(x), Base(y)} \cap loose = {}
        => \/ x \in Turns /\ awaited[x] = y
           \/ y \in Turns /\ awaited[y] = x

\* The part of it between sessions: two nested holders in one process "are one
\* writer as far as any other process can tell".
SessionExclusion == \A x, y \in Tasks :
    Covered(x) /\ Covered(y) /\ Root(x) = Root(y) => Proc(x) = Proc(y)

\* HELD "must mean exactly one thing: an OS lock for this worktree is held by this
\* process right now", detached sub-agents or not: no phantom entry, "that would let
\* a later nested acquire believe it is covered".
NoPhantomEntry == \A p \in Procs, w \in Worktrees :
    held[p][w] > 0 => \E x \in Tasks : ws[w] = x /\ Proc(x) = p /\ pc[x] = "owner"

\* No task queues on a workspace lock that its own process holds: a nested
\* acquisition blocked on its own parent could only end in LockBusy.
NoSelfWait == \A x \in Tasks :
    Waiting(x) /\ Base(x) \notin loose /\ ~Cancelled(x) /\ ws[Root(x)] # Nobody => Proc(ws[Root(x)]) # Proc(x)

\* The lock files held are the ones of tasks that are in an acquisition or a
\* lease: a timed-out or cancelled acquisition leaves nothing locked.
NoLeakedLock ==
    /\ \A x \in store : pc[x] \in {"ws", "reg", "owner", "unlock"}
    /\ \A w \in Worktrees : ws[w] # Nobody => pc[ws[w]] \in {"reg", "owner", "unlock"}

\* What the registry and the lock files say of each other is true, after nested
\* handles, time-outs, cancellations, detached sub-agents and the death of a process.
LocksMatch == NoPhantomEntry /\ NoLeakedLock

\* While a turn or its sub-agent keeps the lease, no other process writes to
\* the worktree: what changes meanwhile is the turn's own work (same proviso).
NoForeignWriteUnderLease ==
    [][\A t \in Turns, x \in Tasks :
          Edit(x) /\ foreign'[t] # foreign[t] /\ {Base(t), Base(x)} \cap loose = {}
             => \A y \in Tasks : Top(y) = t => ~Covered(y)]_writerVars

=============================================================================
