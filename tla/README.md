# A TLA+ model of aizen

aizen is a coding agent for the terminal: a REPL that streams a model's answer, runs the tools it
asks for, delegates to sub-agents, checkpoints the working tree and recovers after a crash; a host
bot runs the same agent loop for Telegram and Discord chats.  This directory specifies the part of it
where several actors, a crash, or Esc at the wrong moment decide the outcome: modules translated from
the Rust source, TLC configurations that check them on small instances, and TLAPS proofs of the
results that matter most.

Line numbers refer to files under `src/`.  `PROJECT.json` maps every definition to its lines.

Contents: [the system](#the-system) · [the modules](#the-modules) · [the runs](#the-runs) ·
[fairness](#fairness) · [what is proved](#what-is-proved) ·
[known deviations](#known-deviations) · [not modelled](#what-is-not-modelled) · [plan](#plan)

To check a run: `tlc -config <Cfg>.cfg <MC module>.tla`; to check proofs: `tlapm <M>Proofs.tla`.

## The system

### Who runs

* **REPL thread** (`main.rs`): reads submissions from a channel, runs one turn at a time (a future
  raced against a cancel channel), commits the conversation, seals the turn in the cooperation ledger.
* **Keyboard thread** (`ui/tui.rs`): steers the running turn or queues a submission, and turns Esc
  into a cancelled token plus a wake-up.
* **Tool bodies** on blocking threads; dropping the turn's future does not stop them.
* **Sub-agents** (`agent/task_tool.rs`), workflow children, host-bot lanes (`hostbot/lane.rs`).
* **Other processes**: a second window in the same worktree or in a sibling worktree, `aizen time`,
  the host-bot daemon, and whatever else edits files.

They meet in process-wide statics (the steer mailbox, the `HELD` registry, the active recovery lease,
the per-turn token) and in files (recovery leases, lock files, the checkpoint store, sessions).

### Inventory

| component | state it keeps | operations | what is hard | what makes it correct |
|---|---|---|---|---|
| crash-recovery lease, `core/recovery.rs` | per process: `lease.lock`, `manifest.json`, `history.<gen>.json`, `draft.<gen>.txt`, an in-memory manifest | begin, checkpoint_history, set_phase, set_checkpoint, mark_side_effects_possible, clear | a crash or a failed write between any two files; detached tool bodies | an atomic register of the last safe boundary; an effect is visible to whoever recovers |
| recovery directory, same file | all leases, residues and quarantines | scan_stale, accept, discard, consume_dir, quarantine, sweep_expired | a path is not an object: locks inside directories that get renamed and re-created | a crashed session is restored at most once, a live one never taken, none lost |
| workspace writer lease, `core/workspace_txn.rs`, `core/repo_lock.rs` | `HELD` registry, two lock files per worktree | acquire, nested acquire, release, time-out, cancel | check and registration are two critical sections; Esc drops an owner under its sub-agent | one writer per worktree; no self-deadlock; no leaked lock, no phantom entry |
| Time Machine, `features/timemachine.rs` | `ledger.json`, `journal.json`, refs, chat files, the working tree | save, restore, undo, redo, prune, clear, gc, repair, recover_pending | a crash between any two file operations; `read-tree` half done; other windows; edits meanwhile | every listed checkpoint restorable; no half-applied tree saved; nothing overwritten that nothing holds |
| steering and Esc, `core/steer.rs`, `ui/tui.rs`, `main.rs` | `ARMED`, `PENDING`, `MAILBOX`, submission channel, cancel channel, cancel slot | arm, disarm, push, drain, clear, the turn's skeleton | two threads, no common lock | a typed message is handled once, in order, or knowingly discarded |
| cancellation, `core/cancel.rs` | tokens with a flag, children, a notification | child, cancel, cancelled | registering while cancelling; missed wake-ups | downward only; everything live beneath the target; waiters wake |
| tool batches, `agent/mod.rs`, `llm/client.rs` | accumulator slots, placeholders, abort handles, read cache, writer lease, pre-edit checkpoint | early starts, pre-fill, short cut, windows, barriers, gate | stream, bodies, Esc, ceiling and drop all race | valid history, sequential view, truthful results, checkpoint before the first write |
| host-bot lanes, `hostbot/lane.rs`, `hostbot/daemon.rs` | lane map, queues, permits, directory gates, a busy count, seeds, session files | dispatch, worker turn, `/new`, `/cd`, `/rmbot`, panic, abort, restart | a closing lane against a new message; guards over panics; a file older than the history | order per conversation; one turn per directory; what was saved is remembered until capped or aged out, what was dropped is not; every message settled |
| host-bot stores and approvals | bots, sessions, pending approvals, heartbeats | save, drop, ask, answer | an answer before the registration; a drop under a save | an answer reaches its question |
| agent loop, goal mode, verify gate, `agent/mod.rs` 880-2466, `agent/goal.rs`, `agent/verify_gate.rs` | counters and latches of a run, the goal and its claim, todo list, question cell | call, retry, batch, gates, extension, recovery, synthesis | process-wide cells that outlive runs; sources that change under the verifier; failures after a nudge | Done only behind a passing verification of the last edit's project, or a gate without a verdict; claims about the present goal; history whole after a failure; every run ends |
| cooperation ledger, `features/coop.rs` | manifests, claims, overlaps, the git index | seal, claim, plan, stage, split, review, commit | measured under a lease of its own; seals in another order than turns; several coordinators | no edit forgotten; overlaps of recorded claims seen; a split holds the session's edits only; the commit is what was reviewed |
| file tools and durable bytes, `agent/builtin.rs`, `core/persist.rs`, `core/read_ledger.rs` | files, what a window last saw of each | read, edit, create, write, move | compare and rename are two steps; ideas that are turns old; half-done moves; bodies that outlive Esc | another window's work is not buried; one's own is recognised; a move loses nothing |
| sessions, `core/session_store.rs` | slugs, snapshots | allocate, autosave, exit flush | two windows, one slug; exit thread against autosave | a session's file is its own |
| sub-agent slots, workflows | a counter, a band of lock files | admit, release, fan-out | partial failure of two resources | cap respected; at most one writer |
| process pool, `agent/process.rs` | at most 16 children | start, poll, kill, kill_all | check and insert are two critical sections | cap respected; nobody outlives the program |
| LLM client, sign-in, MCP, language servers | connections, tokens, child servers | request, refresh, spawn | I/O, refresh across processes | - |
| memory, persona, skills, compaction | Markdown files, the history | learn, reinforce, archive, compact | read-modify-write between windows | tool calls stay paired |
| other tools, guard, sandbox, cron, update, UI, CLI, benchmarks | - | - | little state over time | - |

### How they interact

A turn **begins** a token (CancelTree), opens the mailbox (Steer), raises the phase of the recovery
lease (RecoveryLease) and enters the agent loop (AgentLoop).  The loop streams calls and runs them as
batches (ToolExec); the first write of a run takes the workspace lease (WorkspaceLease) and saves a
pre-edit checkpoint (TimeMachine); every tool body that can have an effect first raises the
side-effects flag (RecoveryLease), and the file tools compare what they overwrite with what the window
last saw and with the claims of its peers (FileTools).  A sub-agent derives a token and nests in the
lease.  After the loop the REPL closes the mailbox, re-queues what was not read, commits the
conversation at an Idle boundary and seals the turn under a lease of its own, which claims its paths
(Coop); another window may commit them.  `restore`, `undo` and `redo` hold the workspace lease; `save`
by hand does not.  Another process that finds a dead lease offers its conversation (RecoveryOffers).
The chat daemon runs the same loop in lanes, one per conversation (Lanes).

## The modules

Each component has one module; `MC*` modules instantiate it for TLC, `*Proofs` modules hold its theorems.
Where two components share a proofs module (`LeaseProofs`, `TurnProofs`, `WorktreeProofs`) the second
one's names carry a prefix (`WriterNext`, `SteerNext`, `FilesNext`), because both are extended.
Definitions that differ from the code in one respect (named for it, e.g. `OpenIfIdle`, `StashNothing`)
stand before the definition they vary; no run uses them as they stand, they document which slip each
property would expose.

### RecoveryLease, CommitRegister

One process's lease, one file operation per action.  `op` is the `checkpoint_history` between two file
operations (`WriteHist`, `WriteDraft`, `Publish`, then `ReapHist`/`ReapDraft`, or `UndoHist`/`UndoDraft`
on failure); the `ACTIVE` mutex is why there is at most one.  `turn` follows the REPL through
`TurnStart`, `PrepAbort`, `RunStart`, `RunStep`, `RunOver`, `TurnCommit`; `body` is a tool body with
effects, which Esc may leave `"detached"`.  `Crash` is possible between any two steps, `Clear` and
`ClearFile` are the clean exit.  `Faults` says which I/O errors happen: `"early"` (nothing published),
`"late"` (published, then an error), `"remove"` (a best-effort removal fails).  `Offer` reads off the
files what `scan_stale` would offer.  A conversation is a model value with a length, because an empty
one is never offered.

`CommitRegister` is the promise: a register that holds one conversation with its draft, changed by a
whole request or not at all, and a flag only an Idle commit lowers.  `ImplementsRegister` is the
refinement, with the manifest's publication as the commit.

### RecoveryOffers

Several processes over one recovery directory.  A directory is an object with an identity, a path leads
to whatever object carries it now, and asking for a lock through a missing path creates the directory
(`Ensure`); `begin` is `MakeDir`, `OpenLease`, `TakeLease`/`NoLease`.  `task` is what a process does in
somebody's directory (`TryLock`, `Inspect`, `Consume`, `Changed`, `RemoveConsumed`, `SweepUnlock`,
`SweepRemove`), `offer` the `RecoveryOffer` it has in hand.  A commit is one step, `age` stands for
`updated_unix`.

### WorkspaceLease

`pc` is where a task stands in `acquire_identity` (`AskLease`, `TakeStore`, `TakeWs`, `Enter`,
`GiveUp`) and with the handle it got: owner, nested, or neither.  `held` is the `HELD` registry with its
counts, `store` and `ws` the lock files, which the operating system gives back on `CrashOf`.  `Seal` is the
ledger's own acquisition after the loop.

What keeps two turns of one process apart is not the lease but a gate: the REPL has one turn at a time,
and the chat daemon one per directory (`DirFree`).  A lane's directory (`DirOf`) lies in a worktree
(`WorktreeOf`), and the registry is keyed by process and worktree (`Base`): turns in two directories of
one worktree pass two gates and share one entry (`Unguarded`).  That, and an `Esc` which drops a turn while
the sub-agent it awaited runs on, make a base `loose` until every task on it has come to rest.

### TimeMachine

One worktree's ledger, journal, refs, chat files and working tree.  Each file or git operation is an
action, and `Stop` ends any operation anywhere: a crash, Esc, a time-out and a `?` leave the same files.
Every operation starts with `recover_pending` (`Recovery`).  `BeginApply`/`EndApply` are
`read-tree --reset -u`: what it overwrites is gone when it begins, and it may end in a tree that is
neither (`Half`).  `Edit` is anybody who writes in the working tree at any time.

Abstractions: a commit is the tree it names; journal phases, which only the doctor's report reads, the
second pin on a preimage (`recovery/<id>`), sibling worktrees with the store lock, migration of older
ledgers and packing are left out.  Which save, restore or cleaning an operation turns out
to be is chosen when `recover_pending` is through, since nothing before depends on it; `undo` and `redo`
choose before they have the metadata lock, as the code does.  The run's rewind anchors, which retention
protects, may be any id.

### Steer

`rpc` is the REPL thread (`StartTurn` … `Release`), `kpc` the keyboard thread (`Offer`, `Push`,
`Enqueue`, `RequestCancel`, `Wake`, `ClearSteers`).  The mailbox lock covers single statements, so
`ARMED`, `PENDING` and the mailbox change in separate steps.  Messages are numbered in typing order;
`history` is what the model was given, turn by turn.

### CancelTree

`Derive`/`HandOut` are the two halves of `child()`, `Cancel` is the recursion of `cancel()` as a stack
of calls per thread (`Swap`, `Notify`, `Collect`), `Wait` is `cancelled()` (`Check`, `Create`,
`Recheck`, `Resume`): a `notify_waiters` between the first check and the creation of the future stores
no permit, which is what the second check is for.

### ToolExec

One run of the agent loop over one file of which only the version matters.  `Fragment` is the stream,
`StartsEarly` the eager starter, `PreFill` the placeholders, `ShortCut` the identical-re-read answer,
`TopStart`/`Spawn`/`Await` a window of safe calls, `Gate`/`Lease`/`Checkpoint`/`BodyLands` a barrier.  A
call is a read, a write, or a task, which dispatches a coder: a barrier that may change the file, but
`workspace_effect` of a task is `None` and it is not destructive.  So a task passes `Gate` without lease
and checkpoint, which its child run takes (the sub-agent of `WorkspaceLease`), and does not keep `Remember`
from recording the reads of its turn.
Bodies are processes of their own (`ReadBody`, `WriteBody`); `Esc` cancels the token, `Drop` drops the
future as well.  The fragments of one call arrive contiguously (client.rs:1366 takes that from the wire
specification).

### FileTools

Several windows and another program on a few files; the content of a file is the set of the edits in it,
so that "the work of another window" is a question about sets.  `seen` is the ledger of read_ledger.rs,
`idea` what the conversation was told, from which a whole-file `Write` is computed; `EditText` computes
from a fresh read, as `old_string` does.  A body (`job`) is `Guard`, `Compare`, then `Replace` (a rename)
or `Create` and `Fill` (in place, when the file is new), then `Note`; a move is `SetAside`, `Rename` or
`Copy` and `Remove`, then `Clean`, or after a `Fail` at any of them `Undo`.  `Esc` ends the turn and its
lease but not the body; `Crash` ends it between any two steps.  `Seal` claims the paths of a turn, in one
step (Coop has it in detail).  An edit whose text is not found changes nothing and has no action.

Three variables are no program state and guard nothing: who put an edit into a file (`author`; nobody, if
it was done without the lease), what a window's last write left (`left`), and what its tools recorded
without its being told (`hidden`).  Some fields of a body are of the same kind: what its window knew and
who claimed the path when it asked (`blind`, `claim`, `sealing`), and whether anybody else wrote to the
paths of a move (`disturbed`).

### Lanes

`Arrive` and `Deliver` are the two halves of dispatch: the registry lock is dropped between the choice
of the lane and `try_send`.  A worker is a conversation and a generation, because a lane that panicked
or was aborted and the one that replaces it can exist together.  `Ask`, `TakePermit`, `StartTurn`,
`EndTurn`, `Save`, `Reply` are a message's way; `New`, `ChangeDir`, `RemoveBot` and `StopRoute` are the
commands that meddle with lanes and files; `Panic`, `Die` and `Restart` end a worker, an aborted worker
and the daemon.  The guards dropped by a panic are one operator (`ReleaseGuards`).  A conversation's
history is the sequence of messages whose turns it holds, `session` its file.  `EndTurn` cuts the oldest
turns off (`cap_session`; how many depends on message counts, so any number), `Collect` removes old files
(`gc_sessions`) at a `Restart` or at the boot of the other platform's daemon (`OtherBoot`), which is a process
of its own over the same directory.

### AgentLoop

One run of `run_agent_loop_inner`, with its locals in a record: `Top` (Esc, deadline, cap, extension,
continuation), `Attempt`/`Retry`/`Overflow`/`Resume`/`Abandon` (the call), `Calls`, `Effect` and
`Landed` (a batch and the stall ledger after it), `Claim`, `Verdict`, `NoVerdict`, `Exhausted`, `Judge`
(the cascade at an answer without calls), `Recover` and `Synthesize`.  `Start`, `SetGoal`, `FinishTurn`,
`Esc`, `Drop`, `Steer` and `Expire` are the REPL, the lane or the parent around it.  Of the history only
the tail this run appends is kept, as marks: prompt, system nudge, guard re-prompt.  `Observed` is what
a batch leaves in the run: edits, repeats, the stall ledger.  The REPL has one turn at a time (`NoTurn`);
lanes and sub-agents run beside it.  The verify gate sees one project, that of the last edit of a named
file (`last`; `Home` before there is one).  `good` says for each project whether its gate would accept it,
which is relative to the baseline that the run began with; the commands of one project are one.  A
`Verdict` can fail on good sources (a time-out), and `NoVerdict` is always possible: no command, a refused
sandbox, a failed spawn, Esc.  The claim then passes the gate, which `blind` remembers.  `Meddle` is
whatever changes the sources without the loop's knowledge, remembered per run: in `moved` if its verify
command was running, in `unseen` since its last verdict.

### Coop

`FirstWrite` takes the lease and the pre-edit checkpoint, `Write` edits, `EndTurn` gives the lease back.
The seal is `Seal`, `SealLease` (or its time-out), `Measure` or `Unmeasured`, `Claim`; a turn of another
session may come between any two of them.  A coordinator is `Plan`, `CoordinatorLease`, `Add`, `Separate`
(which reconstructs the shared files from the checkpoints between turns), `Unstage`, `Check`, `Commit`.
The content of a file is the set of its edits, an edit is named by its session and its checkpoint.

A claim may be lost: seal_turn drops a time-out on the lock of shared.json and a failed save (`ClaimLost`),
and the ghost `missed` says for which paths of a session the last one was.  Two other writes are taken to
succeed: the publish of a manifest (`update`, features/coop.rs:421-432, takes its change back in memory
when it fails, and tells nobody) and the entry of a commit in shared.json (:1533, its error is dropped).
`Accounted` and `SplitOwn` hold for sessions whose manifest could be written.

## The runs

Passing runs (deadlock is checked except where a process may simply have exited or a run have ended):

| run | instance | distinct states | what it shows |
|---|---|---|---|
| `recovery_lease` | 3 conversations, one empty; 2 drafts; 3 generations; early faults | 328 thousand | the lease refines `CommitRegister` (`ImplementsRegister`), the last commit that returned Ok is recoverable wherever the process dies, the offer is that commit even half-way through a clean exit, an effect is flagged on disk |
| `recovery_offers` | 3 processes, 3 directory objects, 1 commit each | 1.4 million | restored once, not from a live owner (`TakenOnce`), never lost; an owner keeps its directory |
| `workspace_lease` | 2 processes, 1 worktree and a part of it, 4 turns (two lanes in one directory, a third in the other, a turn of the second process), 2 sub-agents, Esc at any time | 187 thousand | where a base is not loose (a body that Esc left behind, lanes in two directories of the worktree), the worktree has one writer and nobody waits for its own process; always, registry and lock files agree (`LocksMatch`) |
| `time_machine` | 2 processes, 2 trees, 3 ids, 4 ledger writes, keep 1 | 2.4 million | listed checkpoints can be restored (`Sound`), interrupted operations can be settled (`Recoverable`), a restore overwrites nothing unsaved and ends whole |
| `file_tools` | 2 windows, 1 other program, 2 files, 3 calls, 2 edits, 1 Esc or death; a move is the first or second call, of one window | 2.6 million | a whole-file write after a look takes from a running peer only what was recorded unseen, one without a look nothing a sealed turn claims (`Survives`), one's own work is recognised, a move loses neither file and a failed one puts the destination back |
| `steer` | 4 messages, 1 iteration, 1 Esc, mailbox of 2 | 366 thousand | nothing lost or doubled, order kept, accepted steers reach the model |
| `cancel_tree` | a turn, 2 derived tokens, 2 cancelling threads, 1 waiter | 429 thousand | downward only, everything live beneath, no missed wake-up |
| `tool_exec` | batches of up to 3 calls of 3 kinds, window 2, 2 responses, 1 outer edit | 1.9 million | reads see the writes before them and none after (`SerialView`), results say what happened, lease and checkpoint precede a write, a batch ends although reads hang, or waits at a prompt or for a barrier's body |
| `lanes` | 3 conversations of 2 bots, 2 directories, 2 permits, queue of 1, 3 messages, 2 faults or boots | 527 thousand | one turn per directory and an exact count, replies in order, saved turns kept unless capped or aged out, and dropped ones gone (`HistoryTrue`), every message settled |
| `agent_loop` | 1 run at a time of the REPL, a lane or a sub-agent; 2 projects; 2 prompts, 1 goal; cap 1, extended by 1; 1 continuation, 1 recovery, 2 verifications, 2 retries | 1.5 million | the latch tells the truth about the last edit's project, and Done is behind it or behind a gate without a verdict (`Verified`); claims about the present goal, no cut-off without a warning, history whole after a failed call, runs end unless a batch never lands |
| `coop` | 2 sessions, 2 coordinators, 1 file, 3 turns, claims lost at any time | 4.3 million | no edit forgotten, overlaps seen where the claims were recorded, a split holds the session's sealed edits and no others, the commit is what was reviewed |

One run must fail, with the sentence of the repository it contradicts (quoted in `PROJECT.json`):

| run | property | what happens |
|---|---|---|
| `time_machine_save` | `SaveKeepsWork` | a restore fails, puts its preimage back and leaves its journal; work done afterwards is overwritten by the next save's recovery and is in no checkpoint |

### Why the bounds are enough

* **Generations** (`RecoveryLease.MaxGen = 3`): two consecutive generations can share a directory, so
  three show a commit over a residue of an earlier one, and a reused number.
* **Directories and processes** (`RecoveryOffers`): an owner, and two others that race for what it
  leaves; one commit separates the directory without a manifest from one with it.
* **Lanes and sub-agents** (`WorkspaceLease`): two lanes of one directory take turns, a third passes another
  gate to the same registry entry, another process competes; each process has a sub-agent to nest.  A
  second worktree shares nothing but the store lock, which is never waited for; the proofs have any number.
* **Checkpoints** (`MaxId = 3`, `MaxGen = 4`): a restore needs a target and a preimage of its own, and
  its cursor update is the third ledger write; the fourth lets a retention, an undo or a rollback
  follow.  `Keep = 1` makes every save prune.  The generation bound stops behaviours, it does not
  change any.
* **Files**: burying takes a look (or none), a peer's edit and a write, which are three calls and two
  edits; a move needs two files.  One window moves, and not as its last call, because moves multiply the
  states; what they can do to the other window shows with one of them.
* **Messages** (`Steer`: 4, mailbox of 2): two steers fill the mailbox, a third is refused, the fourth
  starts or is queued behind the next turn.
* **Tokens**: two derived tokens stand in a chain or side by side; two threads cancel overlapping
  subtrees.
* **Batches**: with a window of two, three safe calls need two windows, and a barrier can stand first,
  between and last, a task after a read and before a write; two responses let the second find the first
  one's cache.
* **Lanes**: a queue of one is full with the second message; three messages put one in the turn, one in
  the queue and one with the router; the first fault leaves a lane to replace and the second finds its
  replacement, or a restart or a boot of the other daemon between them.
* **Loop**: each budget is small and not zero (`PermanentRetries` is 0, the count at which a permanent
  error ends the run at once), so that a run can use it up and be refused; two prompts show what a run
  leaves for the next; a goal run has no cap in the code, `MaxGoalSteps` stops it.  Three steps are an edit
  in either project and a claim, or an edit, a failed claim and another.  `Runs = {r1}`: two runs at a time
  are too many states, and the safety theorems have any number; they share the claim and the todo list,
  and the deviations say what follows.
* **Coop**: three turns let one session write, the other write over it and the first come back, with the
  seals in either order.

Symmetry is used for the processes and directories of `RecoveryOffers`, the processes and trees of
`TimeMachine`, the files of `FileTools` and the sessions and coordinators of `Coop`, with safety and
action properties only.

## Fairness

Five specifications have liveness properties.

* `Steer`: weak fairness of each thread as a whole (`Repl`, `Keyboard`).  Both are loops the operating
  system schedules; nobody is forced to type.  `LandedSettles` needs no more.
* `CancelTree`: weak fairness of a thread inside `cancel()` and of a waiter that can proceed, never of
  calling either.
* `ToolExec`: weak fairness of the executor (the runtime polls a ready future), and of nothing else: no
  body, read or write, need ever return, no prompt be answered, no stream go on.  `BatchSettles` says that
  the batch ends all the same, because of the ceiling, unless it waits at the approval prompt (agent/mod.rs:2826)
  or for the body of a barrier, which is not raced and has no limit of its own when it writes a file
  (2618-2623, 2953-2960).
* `Lanes`: weak fairness of the router's delivery and of all workers together: something that can run
  does.  That permits and gates are handed out first come, first served is not assumed.  A turn is taken
  to end, which the agent loop promises of turns whose batches land (`Ends`); no fairness makes messages
  arrive or anything panic.
* `AgentLoop`: weak fairness of each run's own steps but the landing of a batch (`Advance`), where the
  answer of the provider or its failure is one of them: calls, verify commands and back-offs have
  time-outs of their own.  Nothing forces a batch to land, Esc, a deadline, a steer or the user.  `Ends` is about runs
  outside goal mode, and about every run after Esc: they end, or stay in one batch for ever.

The others are safety only: a crash, a stopped operation or a process that never runs again are allowed
everywhere, so nothing needs to happen in them.

## What is proved

`tlapm` checks the theorems below for every value of the constants.  No axiom is used; assumptions are
the named `ASSUME`s of each module (types of the constants, model values distinct) and, where stated,
one hypothesis on a constant.

**`LeaseProofs`**, recovery lease, under `SoundIO == Faults \subseteq {"early"}`: a write that reports an
error has published nothing, and removals succeed.  Without it the properties are false (see the
deviations).

* `LeaseTypeOK`, `LeaseRecoverable`, `LeaseFlagged`, `LeaseNoStrays`, `LeaseFlagMonotone`: the
  invariants the run checks, that between two calls only the committed generation has sidecars, and
  that only an Idle commit lowers the flag on disk.
* `LeaseImplementsRegister`: every step maps to a step of `CommitRegister` or to a stutter.

`LastCommitRecoverable` alone is not inductive: that the manifest names a complete generation depends
on where the commit in progress stands.  `IInv` adds that memory and disk agree (`MemIsDisk`), what has
been written at each stage of `op` (`OpProgress`), that no other generation has files (`NoStrays`,
which the re-use of a generation number after a failure needs), and what the last commit saved
(`Committed`, `Flagged`).  `LeaseOfferIsLastCommit` needs `Remains` besides: a directory without its
process is as the last commit or discard left it.

**`LeaseProofs`**, workspace lease, with no hypothesis.  `WriterWellTyped` and `WriterLocksMatch` hold
whatever Esc leaves behind and wherever lanes work, from `LockInv`: the lock files say exactly which tasks
are between `TakeWs` and `Unlock`. `WriterExclusion`, `WriterNoSelfWait` and `WriterNoForeignWrite` speak of
processes and worktrees that are not `loose`; for each of them they need `TeamAt` (a busy turn has the
worktree in its process to itself except for the sub-agent it awaits) and `NestAt` (a nested handle lies
under an owner and the count says so), because mutual exclusion inside a process rests on who awaits whom
and on the gate, not on a lock.  Where a base is loose they are false, see the deviations; it becomes sound
again when its tasks are at rest, which is why the invariant is stated base by base.

**`TurnProofs`**, cancellation, with no hypothesis: `CancelTypeOK`, `CancelDownwardOnly`,
`CancelReachesAll`. The invariant is about the recursion's stack: a token that was live beneath a target
and is not cancelled yet is beneath a call still on the stack (`Coverage`), and the lists `cancel()`
walks connect every live token to its ancestors (`Shape`), which holds because a finished token is
dropped only after everything derived from it.

**`TurnProofs`**, steering, with no hypothesis: `SteersConserved`, `SteersInTurnOrder`, for any number of
messages, turns and mailbox slots.  A message passes from place to place in two steps of two threads, so
the invariant (`SteerInv`) says by program counter what each thread has in its hands (`HandsOK`) and
which turn the history ends in (`TurnOK`), and orders the places among themselves: what the running turn
was given is older than what is about to be given, and that is older than what waits in the mailbox
(`OrderOK`).  The order survives the two disarms because the keyboard types in increasing numbers
and a drained mailbox goes to the model before the next look.

**`WorktreeProofs`**, Time Machine, with no hypothesis: `StoreSound`, `RestoreRecoverable`,
`PreimagesKept`, `RestoreEndsWhole`, for any number of processes, trees, checkpoints and ledger writes
and any retention limit.  Between two operations only `Shelf` (what the ledger lists is pinned and listed
once) and the journal speak; during one, the invariant (`TimeInv`) says by the stage of the one process
past the metadata lock (`Locked`) what the journal says (`NoteOK`), what its checkpoint in the making has
so far (`SaveOK`), that target and preimage can be reached and which of them the tree is (`GoalOK`), what
the tree was when it looked (`PreOK`), and that what it reaps is unlisted (`DropOK`).  A half-applied
tree always has a restore in the journal (`Torn`), which is why a death between any two file operations
can be settled, by that process or another.

**`WorktreeProofs`**, file tools, with no hypothesis: `FilesKept`, `OwnWorkKept`, `MovesSafe`, for any
number of windows, files, bodies and calls, with a dropped turn, a death or another program's write at
any point.  `FilesInv` rests on one writer (`LeaseHeld`): of the bodies of running turns, at most one is
not a read.  What a window's turn put into a file and the seal has not claimed yet, the turn has in its
list, and what it sealed has a claim, its own or a later one (`ClaimOK`); what a window recorded of a
file is what it was told of it or is hidden (`SeenOK`, `LeftOK`).  For each body the invariant says what
it has in its hands by its step (`ShapeOK`, `LiveOK`), and what of the guard's finding is still true when
the write lands: that the file it found is what the window was told or recorded (`LookOK`), that no
running peer has added to the file since, which takes the lease (`PeerOK`), and who could have claimed it
when the window had not looked (`BlindOK`).  `AsideOK` and `MoveOK` are the stages of a move: where its
source and its old destination are after each.  TLC has checked `FilesInv` on the run's instance, and by
simulation on one with three windows.

**`RecoveryOffersProofs`**, with no hypothesis: `OffersTakenOnce`, `OffersNothingLost`,
`OffersOwnerKeepsDir`, for any number of processes, offers and directories.  A scanner works with paths it
read earlier, so most of the invariant says what such a path still means: a run has one directory of its
own (`UniqueInv`); a running process has the lock and the manifest of the directory it opened unless that
was set aside before (`ProcInv`); a task past the lock has it, and never on its own process's directory
(`PlaceInv`); an offer is not newer than what its dead process committed (`OfferInv`); who takes or sweeps
a running process's directory still waits for its lock (`TakeInv`); a consumed directory is being removed
or is a known residue (`ConsumedInv`); and the last commit of whoever committed stays in that process's
directory until somebody settles it (`KeptInv`).

**`ToolExecProofs`**, with no hypothesis: `ToolSerialView`, `ToolReportsTrue`, `ToolWritesGuarded`, for a
batch of any length and any window size.  Bodies run on after the loop has given them up, which is why
`SerialView` does not follow from the cursor alone.  It needs `WriteInv` (a write begins at its turn, and
only the awaited or a dropped one runs), `WritesInOrder` (writes land in the order of their calls),
`ReadInv` (a read that has begun has every earlier write behind it) and `SlotInv` (what each slot holds,
by position of the cursor); `CacheInv`, `GuardInv` and `LateInv` are about the read cache (whose entry of a
read with a task after it attests nothing), the lease and checkpoint, and what may still start after Esc.  Underneath lies the control alone (`Control`): windows
start at multiples of `MAX_PARALLEL` within a run of reads, hooks precede their barrier, and an early
body belongs to a call the response still has.

**`LanesProofs`**, with no hypothesis: `LanesOneWriter`, `LanesInOrder`, `LanesHistoryTrue`, for any
number of conversations, directories, permits and messages.  The invariant has layers, each proved on the
one below: who holds a permit and a gate and what the busy count says (`Guarded`); where a dispatched
message is, and that a lane's queue is in arrival order (`Routed`); what has been answered, and which
generations of a lane can still exist (`Replied`); and what each worker's history and the session file
hold (`Histories`: no two workers share a message, a seed is used by the first lane only, what was
dropped is in no history, file or seed, and what was saved and not dropped, capped or collected is in all
of them).

**`AgentLoopProofs`**, with no hypothesis: `AgentVerified`, `AgentClaimStands`, `AgentWarned`,
`AgentNothingStranded`, for every budget and any number of projects and of runs at the same time.
`Verified` needs what stands behind a claim when it is judged and when the run has ended, and that a
verdict attests the project of the last edit until something changes it (`VerifyInv`); `ClaimStands`
needs that a goal run has a goal and that one REPL turn is in flight (`GoalInv`); `NothingStranded` needs that the tail of the history is its base and the nudges and
re-prompts counted so far (`LocalInv`, part `Grown`), which is what the error path removes.

**`CoopProofs`**, with no hypothesis: `CoopAccounted`, `CoopOverlapKnown`, `CoopSplitOwn`,
`CoopReviewed`, for any number of sessions, coordinators, files and turns.  The invariant says that who
writes holds the lease and the last checkpoint (`TurnInv`), that a checkpoint is the tree without the
edits of later turns (`TreeInv`) and that a turn belongs to one session, which made the edits named for
it (`OwnInv`); together they are why the edits between a boundary and the next are those of one turn, and
a split right.  Each edit in the tree is listed, being sealed or torn (`Listed`); `ChangedInv` and
`ClaimInv` say how far a seal has come and what the recorded claims have entered, whatever others were
lost, `PlanInv` and `StageInv` that the index under a coordinator's
lease is the one it staged.

A property that a run checks and a theorem states is the same definition.  Type invariants are conjuncts
of these inductive invariants or theorems of their own; `TimeMachine`, `FileTools` and `Steer` check
theirs within another property.

**Only model-checked**

* All liveness (`Ends`, `Settles`, `BatchSettles`, `LandedSettles`, `WakesUp`): fairness and `ENABLED` are
  outside the prover's reach.

## Known deviations

Places where the code does not do what a comment, a document or another part of it says, each with the
line at which it starts.  `time_machine_save` demonstrates one; the others are behaviours of the models
that the properties leave out, or of code next to them.

Recovery lease and directory

* **A published manifest whose history is deleted** (core/persist.rs:318, core/recovery.rs:204): when
  the hardening after the rename fails, the error path deletes the sidecar the new manifest names.
  `RecoveryLease` with `"late"`.
* **A draft of a failed attempt** (core/recovery.rs:205): its removal is best effort, and the next
  attempt re-uses the number.  `RecoveryLease` with `"remove"`.
* **A starting process displaced** (core/recovery.rs:127 against 326): a scan between the creation of
  the directory and its lock sets it aside; the process then holds a lock that protects nothing.
* **A sweep on an old age** (core/recovery.rs:313-339 against 284-286): the age is read before the lock
  and not read again.
* **A residue offered again** (core/recovery.rs:481-483), and quarantined directories renamed again by
  every scan.

Workspace lease, turns and Esc

* **Two directories, one worktree** (hostbot/lane.rs:78, 300 against 18-24): the gate of a turn is that of its
  directory, the lease and `HELD` are those of the git worktree (core/workspace_txn.rs:67-104).  Lanes in
  `/repo` and `/repo/sub` run side by side; the second one's lease counts as nested under the first, and both
  write, without any Esc.  If both miss the registry entry, the second waits for a lock of its own process.
  In `WorkspaceLease` the base is `loose` from then; without that proviso TLC shows both.
* **A lease dropped under a writer** (main.rs:811 against core/workspace_txn.rs:155-157): Esc drops the
  turn's lease while a sub-agent's body still writes; another session can take the worktree.
* **The late drop of a detached handle** (core/workspace_txn.rs:267) removes the registry entry of the
  next turn, whose own sub-agent then waits for its parent's lock.
* **A lease that ends with the sub-agent** (agent/mod.rs:944 against features/coop.rs:18-20): if only the
  sub-agent of a turn writes, the lease is the sub-agent's and goes before the turn ends.
* **A backlog that goes on after Esc** (main.rs:863 against 859-861): if the loop notices the cancelled
  token before the select takes the wake-up, nobody flushes the queue and the next queued turn starts.
* **A stranded steer** (core/steer.rs:83 against 55-57): a push that passed the check before `disarm`
  and takes the lock after it lands in a mailbox the next `arm` clears.
* **A hidden steer** (core/steer.rs:99): the counter can read zero while the mailbox has a message; it
  is found by the next drain.
* **A late wake-up** (main.rs:817): Esc for one turn can stop the next.
* **`child()` during `cancel()`** (core/cancel.rs:65 against 62-63): a token registered between the swap
  and the collection is neither born cancelled nor collected.

Tool batches

* **"has not changed" after a write** (agent/mod.rs:2175 against 2646-2647): the identical-re-read answer
  is chosen for every read before the batch runs; a read placed after a write of the same batch is told
  that the file has not changed.
* **A dispatch is no write** (agent/mod.rs:2285 against 2278-2284): the answers of a turn are remembered unless
  it had a destructive call, which a task is not (agent/task_tool.rs:569-622).  A turn that reads a file and
  then has a coder edit it records the old text with the fingerprint of the new, and a later read is told
  that the file has not changed.  `CacheAttests` leaves such an entry out (`tasked`).
* **Interleaved fragments** (llm/client.rs:1377): a slot is offered to the eager starter only if it is
  whole when the stream leaves it.
* **An edit by another program** (agent/mod.rs:2315): the fingerprint of a cached read is taken after
  the turn, not from the bytes the read returned.
* **A finished read behind a slower one** (agent/mod.rs:2772): handles are awaited in order, so Esc
  reports it as cancelled.

File tools

* **Recorded, not shown** (agent/builtin.rs:2184, 2263 against core/read_ledger.rs:10-16): after an edit
  the ledger holds the whole fresh file, of which the agent was shown the part it changed.  A later
  whole-file write passes the guard and takes away what another window had put elsewhere in the file.
  Reads of part of a file, of a sub-agent, of a body that Esc left behind and early reads that are
  dropped (agent/mod.rs:2166, "harmless") record in the same way.
* **Claims that come late** (core/read_ledger.rs:92-95, features/coop.rs:926-927 "never a silent loss"):
  a window that never looked at a file may overwrite what a peer wrote there and has not sealed yet; and
  the claim of the window itself, sealed later than the peer's, hides the peer's.
* **A new file is not noted** (agent/builtin.rs:2159): the window's own later `file_write` is refused if
  it had once seen an older file of that name.
* **Claims only** (agent/builtin.rs:2576-2577 against 2571-2573): an overwriting move does not ask
  whether the destination has changed since this window looked at it.
* **"destination left unchanged"** (agent/builtin.rs:2607): not after a failed copy of a directory, nor
  when a copy onto a free name fails; and a death between the stash and the move leaves the old
  destination under a name nothing looks for (:2643).
* **Written in place** (core/persist.rs:221-235 against 3-5): a new file is created empty and then
  filled.

Host-bot lanes

* **Turns that leave the file** (hostbot/daemon.rs:298-319, 465, 629; hostbot/store.rs:341): `cap_session` and
  `gc_sessions` drop saved turns by design; `HistoryTrue` sets them apart.
* **A replacement without memory** (hostbot/daemon.rs:696, hostbot/lane.rs:259): the lane that replaces
  a panicked one starts with an empty history and saves it over the session.
* **`/rmbot` before its lanes stop** (hostbot/platforms/telegram.rs:961-978, hostbot/daemon.rs:1160): the
  session files go first, and a lane that is aborted later may save its own again.
* **Permit before gate** (hostbot/lane.rs:294-301 against 24): turns that queue for one directory hold
  the permits other directories wait for.
* **A body behind an aborted turn**: the gate of its directory is free while the blocking body still
  runs.

Agent loop

* **The last edit's project only** (agent/mod.rs:1754-1760, 2232-2246 against 1738-1740): the gate runs where
  the last named file lies, and its pass is for the run.  Break crate a, edit crate b, and b's pass lets
  the run be Done.  `Verified` speaks of the last edit's project.
* **No verdict** (agent/verify_gate.rs:187, 194-197, 240-255, 306): no command for that project, a refused
  sandbox, a failed spawn or an I/O error, and Esc (206, 278), let the run end Done, in goal mode with "goal
  complete - verified".  `Verified` allows it for the claim the gate had no verdict on, and for no other.
* **A batch that never lands** (agent/mod.rs:2644-2647, 2826, 2953-2960): the loop waits without limit at the
  approval prompt and for the body of a barrier; `Ends` sets such a run apart.
* **A goal finished on a broken tree** (agent/mod.rs:1988, repl/turn.rs:227): whether a run edited is a
  local of the run; after a failed verification the next run of the goal that edits nothing skips the
  gate.
* **A failed command that wrote** (agent/mod.rs:3007-3012) does not arm the gate again.
* **"only exits" on a claim** (agent/mod.rs:991-993): a goal run also ends by Esc, a deadline, a failed
  call, a question or a cut-off.
* **An error after a steer** (main.rs:908-910, 1114): the error arm of the REPL pops the last message,
  which may be the steer or continuation of the run instead of the prompt.
* **Shared cells** (agent/todo.rs:54, agent/clarify.rs:29, hostbot/daemon.rs:467): lanes share one todo
  list and one question, and the beginning of any run resets the anchors of the others.

Cooperation ledger

* **No boundary while a seal is open** (features/coop.rs:516-519 against 1001-1002): the base leaves the
  manifest before the turn is measured; a split meanwhile, or after a seal that failed, includes its
  edits.
* **The seal's window** (features/coop.rs:524 against main.rs:837-838): between the end of the turn's
  lease and the seal's own, another session's edits count as the turn's.
* **Shared paths are those of the plan** (features/coop.rs:1446 against 1438-1441): edits a peer claims
  after it, or has not claimed yet, are staged with the file.
* **A claim that is lost** (features/coop.rs:563 against 658-659 "Never refuses"): a time-out on the lock of
  shared.json, or a failed save of it (650-656), is dropped.  The path is listed, no overlap is known, the
  next plan (1316) does not count it as shared and stages the edits of both sessions as the work of one.
  `OverlapKnown` leaves out the sessions and paths whose last claim was lost.
* **A manifest that is not written** (features/coop.rs:427): rolled back in memory, silently.  A base that is
  not published leaves the turn unattributed, a merge leaves its paths unlisted, and a base that stays is
  measured from again by the next turn.  Not modelled.
* **Spent claims** (features/coop.rs:1535-1546): a commit clears the claims of its session although the
  session may have edited the file again during the review, and removes overlaps it shares in by path.
* **The whole index** (features/coop.rs:1526 against 1434): a commit takes whatever else is staged, and a
  refused one leaves it staged.
* **Without the lease** (features/coop.rs:1423 against 1408-1410): a coordinator that does not get it in
  time goes on.

Time Machine

* **`undo` and `redo` choose before they lock** (features/timemachine.rs:2742): after another window's
  save the target is not the parent of the current checkpoint.
* **An orphan ref after a failed chat** (features/timemachine.rs:2570): if the removal of the ref fails
  too, its error is ignored, the journal is cleared and later saves find the name taken until `gc`.
* **Another process's retention** (features/timemachine.rs:2312): the anchors of a run are protected in
  the process that made them only.

## What is not modelled

`PROJECT.json` gives the reason per component.  In short: transport, parsing and rendering (LLM client,
MCP, language servers, terminal interface, command line) have little protocol of their own; memory,
persona and skills are single files rewritten as a whole; other tools and the sandbox are what a tool
body does, which `ToolExec` keeps abstract; benchmarks are not part of the program.

Left out of modelled components: in `Coop`, `--force`, `--dry-run`, other worktrees, the ceilings on
files and overlaps, the sweep of old manifests, pruned checkpoints, deletions and renames, and git used
by hand between check and commit; in `AgentLoop`, the divergence detector's arithmetic (a call is
repeated or not), the text of nudges, budgets in tokens, and several runs at once; in `FileTools`,
directories, case-only renames, the size limit of the ledger and the matching of an edit's text; in
`Lanes`, platforms, approvals and `/addbot`; in `TimeMachine`, sibling worktrees and packing.

Hazards seen while reading those parts, not claimed by any module: an approval registered after its
question was sent (hostbot/platforms/telegram.rs:381); two windows that choose one session slug
(core/session_store.rs:727); a clean exit of one platform removes both heartbeats
(hostbot/health.rs:201); a verifier that keeps one baseline for a list of commands
(agent/verify_gate.rs:215); a write body awaited without a limit (agent/mod.rs:2946) and one that
outlives the Idle commit (:2953); the exit thread's save during an autosave (core/session_store.rs:761);
the executable renamed away before its successor is there (features/update.rs:303); cap and insertion in
two critical sections (agent/process.rs:242) and a child not yet registered at exit (:359); the slot
gate's counter and lock files (agent/task_tool.rs:1194); refresh single-flight per process only
(llm/oauth_codex.rs:554); read-modify-write of facts (memory/store.rs:804) and their names (:597); a
server inserted after `/lsp off` (agent/lsp/mod.rs:592); the crontab rewritten by two commands
(features/cron.rs:348).

## Plan

Done, in this order: recovery lease and its register, workspace lease, steering, cancellation, tool
batches, recovery directory, Time Machine, lanes, agent loop, cooperation ledger, file tools; and the
safety properties of every one of them proved.  Next, the
most important first:

1. **`Recovery`**: `RecoveryOffers` with `RecoveryLease` for one directory, for the crash between
   `accept` and the first commit of the restored conversation (features/slash_handlers.rs:1132).
2. **`Sessions`**: slugs, autosave and the exit flush; self-update.
3. **`SlotGate`** with workflows (agent/task_tool.rs:1194, agent/workflow.rs:299) and the process pool.
4. **`Approvals`**: the registry between a lane's question and its answer.
5. **Run anchors** (features/timemachine.rs:97-180) and **compaction** as a pure algorithm: tool calls
   and results stay paired.
