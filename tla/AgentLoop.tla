------------------------------ MODULE AgentLoop ------------------------------
(***************************************************************************)
(* One run of the agent loop (agent/mod.rs, run_agent_loop_inner), from a    *)
(* prompt to its stop reason: the step cap and its extensions, the call and  *)
(* its retries, the batches, the stall ledger, and the gates a run must pass *)
(* before it is Done; with goal mode (agent/goal.rs), the verify gate        *)
(* (agent/verify_gate.rs) and the REPL that keeps the goal between runs.     *)
(*                                                                         *)
(* A run is a turn of the REPL, of a lane of the chat daemon, or of a        *)
(* sub-agent; the runs of a process share the todo list, the question cell   *)
(* and the completion claim, which outlive them.  ToolExec models the inside *)
(* of a batch.                                                               *)
(***************************************************************************)
EXTENDS Integers, Sequences, SequencesExt, FiniteSets

CONSTANTS Runs,              \* runs that may be under way at the same time
          Kinds,             \* which of "repl", "lane" and "child" are started
          Gates,             \* those of "review", "poke" and "recheck" that are on
          Projects,          \* what verify_root tells apart: one verify command each
          Home,              \* the project of the run's own root
          MaxIters, AutoExtendTo, MaxContinuations, MaxRecoveries,
          MaxVerify, MaxPokes, Retries, GoalRetries, PermanentRetries,
          FlatTurns,         \* FLAT_TURNS_BEFORE_NUDGE
          MaxPrompts, MaxGoals,    \* bounds: what the user sends
          MaxGoalSteps,      \* bound: iterations of a run in goal mode, which has no cap
          MaxActs            \* bound: calls of one batch with an effect

ASSUME LoopConstants ==
    /\ Kinds \subseteq {"repl", "lane", "child"} /\ Home \in Projects
    /\ Gates \subseteq {"review", "poke", "recheck"}
    /\ {MaxIters, FlatTurns} \subseteq Nat \ {0}
    /\ {AutoExtendTo, MaxContinuations, MaxRecoveries, MaxVerify, MaxPokes, Retries,
        GoalRetries, PermanentRetries, MaxPrompts, MaxGoals, MaxGoalSteps,
        MaxActs} \subseteq Nat

VARIABLES
    run,                     \* the locals of each run, and how its last one stopped
    cancelled, late,         \* the run's token; its deadline
    goal, claim,             \* GOAL_TEXT and ARMED; PENDING of agent/goal.rs
    open,                    \* agent/todo.rs: the list has unfinished items
    asked,                   \* PENDING of agent/clarify.rs: there is a question
    mail,                    \* core/steer.rs: a steer waits
    good,                    \* each project's sources verify, relative to the baseline
    moved,                   \* runs: the sources changed while their verify command ran
    prompts, goals,          \* what the user has sent so far
    unseen,                  \* ghost, runs: changed since by what their loop does not count
    claimOf, refuted         \* ghost: the claim's goal; a verification failed since

shared == <<goal, claim, open, asked, mail>>
tree   == <<good, moved, unseen>>
sent   == <<prompts, goals>>
ghosts == <<claimOf, refuted>>
vars   == <<run, cancelled, late, shared, tree, sent, ghosts>>

Counted == {"edit", "shell"}         \* what turn_made_edits counts
Changes == Counted \cup {"slip"}
Acts   == Changes \cup {"plan", "finish", "claim", "ask"}
Stops  == {"Done", "Divergence", "MaxIters", "Cancelled", "Deadline",
           "VerificationFailed", "AwaitingInput", "Err", "Dropped"}

Fresh == [pc |-> "idle", stop |-> "Done", kind |-> "repl", goal |-> FALSE,
          left |-> MaxIters, extended |-> FALSE, conts |-> 0, recoveries |-> 0,
          flat |-> 0, nudged |-> FALSE, latch |-> FALSE,
          edits |-> FALSE, passed |-> FALSE, attempts |-> 0, failedNow |-> FALSE,
          last |-> Home, blind |-> FALSE,
          reviewed |-> FALSE, pokes |-> 0, spike |-> "none",
          attempt |-> 0, permanent |-> 0, shrunk |-> FALSE,
          pushed |-> FALSE, reprompts |-> 0,
          tail |-> <<>>, base |-> <<>>, did |-> {}, told |-> FALSE,
          again |-> FALSE, silent |-> FALSE]

Init ==
    /\ run = [r \in Runs |-> Fresh]
    /\ cancelled = [r \in Runs |-> FALSE] /\ late = [r \in Runs |-> FALSE]
    /\ goal = FALSE /\ claim = FALSE /\ open = FALSE /\ asked = FALSE /\ mail = FALSE
    /\ good = [p \in Projects |-> TRUE] /\ moved = {} /\ unseen = {}
    /\ prompts = 0 /\ goals = 0
    /\ claimOf = 0 /\ refuted = FALSE

Live(r)   == run[r].pc # "idle"
Verify(r) == run[r].kind # "lane"           \* enable_verify_gate
Listed(r) == run[r].kind # "child"          \* the todo list is this run's

\* The outcome of a run: what its caller sees, and its history.
Ended(me, stop, tail) ==
    [Fresh EXCEPT !.stop = stop, !.tail = tail, !.kind = me.kind,
                  !.edits = me.edits, !.passed = me.passed,
                  !.blind = me.blind]

Return(r, stop, tail) == run' = [run EXCEPT ![r] = Ended(run[r], stop, tail)]
Goto(r, pc) == run' = [run EXCEPT ![r].pc = pc]

\* The locals of one model call are gone when it is answered.
Answered(me) == [me EXCEPT !.attempt = 0, !.permanent = 0, !.shrunk = FALSE,
                           !.pushed = FALSE, !.reprompts = 0, !.base = <<>>]

---------------------------------------------------------------------------
(* The user and the REPL between runs.                                      *)

NoTurn == \A r \in Runs : ~Live(r) \/ run[r].kind # "repl"

\* A prompt, which the REPL reads when its turn is over, or the task of a lane or a
\* sub-agent: the config is read, the mailbox is emptied (Steer models what becomes
\* of its content) and the locals are fresh.
Start(r, kind) ==
    /\ ~Live(r) /\ (kind = "repl" => NoTurn)
    /\ prompts < MaxPrompts /\ prompts' = prompts + 1
    /\ LET goalMode == kind = "repl" /\ goal IN
       run' = [run EXCEPT ![r] = [Fresh EXCEPT
                  !.pc = "top", !.kind = kind, !.goal = goalMode, !.tail = <<"user">>,
                  !.left = IF goalMode THEN MaxGoalSteps ELSE MaxIters]]
    /\ cancelled' = [cancelled EXCEPT ![r] = FALSE]
    /\ late' = [late EXCEPT ![r] = FALSE]
    /\ mail' = (mail /\ kind # "repl") /\ unseen' = unseen \ {r}
    /\ UNCHANGED <<goal, claim, open, asked, good, moved, goals, ghosts>>

ArmedClaim == FALSE

\* /goal <text> sets the goal and drops a claim of an earlier one; /goal off too.
SetGoal(on) ==
    /\ "repl" \in Kinds /\ NoTurn /\ (on => goals < MaxGoals) /\ (on \/ goal)
    /\ goal' = on /\ claim' = ArmedClaim
    /\ goals' = IF on THEN goals + 1 ELSE goals
    /\ UNCHANGED <<run, cancelled, late, open, asked, mail, tree, prompts, ghosts>>

\* finish_turn: a goal ends with a run that is Done.
FinishTurn(r) ==
    IF run[r].kind = "repl" THEN goal' = FALSE /\ claim' = FALSE
                            ELSE UNCHANGED <<goal, claim>>

\* Esc cancels the token; the REPL's select! may also drop the run where it waits.
Esc(r) ==
    /\ Live(r) /\ run[r].kind # "lane" /\ ~cancelled[r]
    /\ cancelled' = [cancelled EXCEPT ![r] = TRUE]
    /\ UNCHANGED <<run, late, shared, tree, sent, ghosts>>

Awaits == {"top", "wait", "backoff", "gate", "batch", "synth"}

Drop(r) ==
    /\ run[r].kind = "repl" /\ cancelled[r] /\ run[r].pc \in Awaits
    /\ Return(r, "Dropped", <<>>)
    /\ UNCHANGED <<cancelled, late, shared, tree, sent, ghosts>>

\* A sub-agent has a deadline.
Expire(r) ==
    /\ Live(r) /\ run[r].kind = "child" /\ ~late[r]
    /\ late' = [late EXCEPT ![r] = TRUE]
    /\ UNCHANGED <<run, cancelled, shared, tree, sent, ghosts>>

Steer ==
    /\ ~NoTurn /\ ~mail /\ mail' = TRUE
    /\ UNCHANGED <<run, cancelled, late, goal, claim, open, asked, tree, sent, ghosts>>

\* The runs whose gate is, or would be, project p's; those it is running for.
At(p)        == {r \in Runs : run[r].last = p}
Verifying(p) == {r \in At(p) : run[r].pc = "gate"}

Change(p) == /\ \E b \in BOOLEAN : good' = [good EXCEPT ![p] = b]
             /\ moved' = moved \cup Verifying(p)

\* An editor or another window changes a project's sources, during or after a
\* verification (before one, they may verify or not anyway).
Meddle(p) ==
    /\ \E r \in At(p) : Live(r) /\ (run[r].pc = "gate" \/ run[r].passed)
    /\ Change(p) /\ unseen' = unseen \cup At(p)
    /\ UNCHANGED <<run, cancelled, late, shared, sent, claimOf, refuted>>

---------------------------------------------------------------------------
(* The top of an iteration.                                                 *)

Stalled(r) == run[r].flat >= FlatTurns
Healthy(r) == ~Stalled(r) /\ ~run[r].latch

Extends(r) == Healthy(r) /\ ~run[r].extended /\ AutoExtendTo > MaxIters
Continues(r) ==
    Healthy(r) /\ run[r].kind # "child" /\ run[r].conts < MaxContinuations

AtCap(r) == ~run[r].goal /\ run[r].left = 0

MoreStepsUncounted(r, me) ==
    IF ~AtCap(r) THEN me
    ELSE IF Extends(r)
    THEN [me EXCEPT !.extended = TRUE, !.left = AutoExtendTo - MaxIters,
                    !.tail = Append(@, "sys")]
    ELSE [me EXCEPT !.left = MaxIters, !.tail = Append(@, "user")]

\* The run out of steps: one extension, then continuations while it still moves.
MoreSteps(r, me) ==
    IF ~AtCap(r) THEN me
    ELSE IF Extends(r)
    THEN [me EXCEPT !.extended = TRUE, !.left = AutoExtendTo - MaxIters,
                    !.tail = Append(@, "sys")]
    ELSE [me EXCEPT !.conts = @ + 1, !.left = MaxIters, !.tail = Append(@, "user")]

\* Cancel, deadline and cap end the run; otherwise steers and, when the history is
\* full (once, and again after a compaction), the context nudge are appended and
\* the call begins.
Top(r, full) ==
    /\ run[r].pc = "top" /\ (run[r].goal /\ run[r].left = 0 => cancelled[r])
    /\ IF cancelled[r] THEN Return(r, "Cancelled", run[r].tail) /\ UNCHANGED mail
       ELSE IF late[r] THEN Return(r, "Deadline", run[r].tail) /\ UNCHANGED mail
       ELSE IF AtCap(r) /\ ~Extends(r) /\ ~Continues(r)
       THEN /\ run' = [run EXCEPT ![r] = [@ EXCEPT !.pc = "synth", !.stop = "MaxIters"]]
            /\ UNCHANGED mail
       ELSE LET drained == mail /\ run[r].kind = "repl"
                more == MoreSteps(r, run[r])
                seen == IF drained THEN Append(more.tail, "user") ELSE more.tail
            IN
            /\ mail' = (mail /\ ~drained)
            /\ run' = [run EXCEPT ![r] = [more EXCEPT
                  !.pc = "wait", !.base = seen, !.pushed = full,
                  !.tail = IF full THEN Append(seen, "guard") ELSE seen]]
    /\ UNCHANGED <<cancelled, late, goal, claim, open, asked, tree, sent, ghosts>>

---------------------------------------------------------------------------
(* The model call: attempts, back-off, and the way out.                     *)

Chop(s, n) == SubSeq(s, 1, Len(s) - n)

RollbackNudgeOnly(me) == Chop(me.tail, IF me.pushed THEN 1 ELSE 0)

\* What this call appended comes off: the re-prompt, then the context nudge.
Rollback(me) == Chop(me.tail, me.reprompts + (IF me.pushed THEN 1 ELSE 0))

\* The REPL drops a trailing user message of a run that failed.
AfterError(me, s) ==
    IF me.kind = "repl" /\ s # <<>> /\ Last(s) = "user" THEN Front(s) ELSE s

GiveUp(r, stop) ==
    LET me == run[r]
        rest == Rollback(me)
    IN Return(r, stop, IF stop = "Err" THEN AfterError(me, rest) ELSE rest)

\* The deadline is checked again before each further attempt.
Attempt(r, me) ==
    run' = [run EXCEPT ![r] = IF late[r] THEN Ended(me, "Deadline", Rollback(me))
                              ELSE [me EXCEPT !.pc = "wait"]]

Budget(r) == IF run[r].goal THEN GoalRetries ELSE Retries

\* race(): the token ends the wait.
Abandon(r) ==
    /\ run[r].pc \in {"wait", "backoff"} /\ cancelled[r]
    /\ GiveUp(r, "Cancelled")
    /\ UNCHANGED <<cancelled, late, shared, tree, sent, ghosts>>

\* In goal mode a claim excuses an empty answer after two retries.
Excused(r) == run[r].goal /\ claim /\ run[r].attempt >= 2

\* An error or an empty answer: retried with a back-off while the budget lasts.
Retry(r, what) ==
    /\ run[r].pc = "wait" /\ what \in {"empty", "transient", "permanent"}
    /\ what = "empty" => ~Excused(r)
    /\ LET tries == run[r].attempt
           bars  == run[r].permanent
           spent == IF what = "permanent"
                    THEN ~run[r].goal \/ bars >= PermanentRetries
                    ELSE tries >= Budget(r)
           again == ~run[r].goal /\ what = "empty" /\ tries >= 1 /\ run[r].reprompts = 0
       IN IF spent THEN GiveUp(r, "Err")
          ELSE run' = [run EXCEPT ![r] = [@ EXCEPT
                  !.pc = "backoff", !.again = again, !.attempt = tries + 1,
                  !.permanent = IF what = "permanent" THEN bars + 1 ELSE bars]]
    /\ UNCHANGED <<cancelled, late, shared, tree, sent, ghosts>>

\* After the back-off; from the second empty answer on with a re-prompt.
Resume(r) ==
    /\ run[r].pc = "backoff"
    /\ Attempt(r, IF run[r].again
                  THEN [run[r] EXCEPT !.again = FALSE, !.reprompts = 1,
                                      !.tail = Append(@, "user")]
                  ELSE run[r])
    /\ UNCHANGED <<cancelled, late, shared, tree, sent, ghosts>>

\* The request outgrew the window: shrunk once per call, if anything can be.
Overflow(r, shrinks) ==
    /\ run[r].pc = "wait"
    /\ IF run[r].shrunk \/ ~shrinks THEN GiveUp(r, "Err")
       ELSE Attempt(r, [run[r] EXCEPT !.shrunk = TRUE])
    /\ UNCHANGED <<cancelled, late, shared, tree, sent, ghosts>>

---------------------------------------------------------------------------
(* An answer without calls: the gates before Done.                          *)

GateDue(r) ==
    Verify(r) /\ run[r].edits /\ ~run[r].passed /\ run[r].attempts < MaxVerify

\* The model claims to be done (an excused answer is an empty one).
Claim(r, empty) ==
    /\ run[r].pc = "wait" /\ (empty => Excused(r))
    /\ LET gate == GateDue(r) IN
       /\ run' = [run EXCEPT ![r] = [Answered(@) EXCEPT
                     !.pc = IF gate THEN "gate" ELSE "judge", !.silent = empty,
                     !.blind = FALSE]]
       /\ unseen' = IF gate THEN unseen \ {r} ELSE unseen
       /\ moved' = moved \ {r}
    /\ UNCHANGED <<cancelled, late, shared, good, sent, ghosts>>

AfterFailureKept(r) == claim
AfterFailure(r) == IF run[r].goal THEN FALSE ELSE claim

VerdictUnstable(r, exit) == exit
\* A verdict on sources that changed under the command is no pass.
PassVerdict(r, exit) == exit /\ r \notin moved

\* run_verify_gate returns a verdict on the project of the last edit.  A command may
\* run out of time although the sources verify, and one that other writers overtake
\* may have seen them before or after.
Verdict(r, exit) ==
    /\ run[r].pc = "gate" /\ (exit => good[run[r].last] \/ r \in moved)
    /\ IF PassVerdict(r, exit)
       THEN /\ run' = [run EXCEPT ![r] = [@ EXCEPT !.pc = "judge", !.passed = TRUE]]
            /\ unseen' = unseen \ {r} /\ UNCHANGED <<claim, refuted>>
       ELSE /\ run' = [run EXCEPT ![r] = [@ EXCEPT !.pc = "judge", !.failedNow = TRUE,
                                                   !.attempts = run[r].attempts + 1]]
            /\ claim' = AfterFailure(r)
            /\ refuted' = (claim' /\ (refuted \/ run[r].goal))
            /\ UNCHANGED unseen
    /\ moved' = moved \ {r}
    /\ UNCHANGED <<cancelled, late, goal, open, asked, mail, good, sent, claimOf>>

\* It returns nothing: no command for this project, one the sandbox refuses or that
\* cannot be started or read, or the token is cancelled.  The gate is passed over.
NoVerdict(r) ==
    /\ run[r].pc = "gate"
    /\ run' = [run EXCEPT ![r] = [@ EXCEPT !.pc = "judge", !.blind = TRUE]]
    /\ moved' = moved \ {r}
    /\ UNCHANGED <<cancelled, late, shared, good, unseen, sent, ghosts>>

Exhausted(r) ==
    /\ Verify(r) /\ run[r].edits /\ ~run[r].passed /\ ~run[r].failedNow
    /\ run[r].attempts >= MaxVerify

\* The demands that ride one round trip: the repair, the self-review, the open
\* todo list, and the re-check of a suspicious jump in confidence.
ReviewDue(r) == "review" \in Gates /\ run[r].edits /\ ~run[r].reviewed /\ ~run[r].failedNow
PokeDue(r)   == "poke" \in Gates /\ Listed(r) /\ open /\ run[r].pokes < MaxPokes
SpikeDue(r)  == "recheck" \in Gates /\ Listed(r) /\ run[r].spike = "armed"

\* The premature answer and what the loop says to it; one step is used up.
Again(r, me) == [me EXCEPT !.pc = "top", !.tail = <<"user">>, !.failedNow = FALSE,
                           !.left = @ - 1]

\* blocking: the self-review has a finding that must be answered.
Judge(r, blocking) ==
    /\ run[r].pc = "judge"
    /\ LET demands == \/ run[r].failedNow
                      \/ ReviewDue(r) /\ blocking
                      \/ PokeDue(r) \/ SpikeDue(r)
           me == [run[r] EXCEPT !.reviewed = @ \/ ReviewDue(r),
                                !.pokes = IF PokeDue(r) THEN @ + 1 ELSE @,
                                !.spike = IF SpikeDue(r) THEN "spent" ELSE @]
           said == IF me.silent THEN me.tail ELSE <<>>
       IN
       IF Exhausted(r)
       THEN /\ Return(r, "VerificationFailed", said)
            /\ UNCHANGED <<goal, claim, mail>>
       ELSE IF demands \/ (run[r].goal /\ ~claim)
       THEN run' = [run EXCEPT ![r] = Again(r, me)] /\ UNCHANGED <<goal, claim, mail>>
       ELSE IF run[r].kind = "repl" /\ mail
       THEN /\ run' = [run EXCEPT ![r] = Again(r, me)]
            /\ mail' = FALSE /\ claim' = (claim /\ ~run[r].goal) /\ UNCHANGED goal
       ELSE /\ Return(r, "Done", said)
            /\ FinishTurn(r) /\ UNCHANGED mail
    /\ UNCHANGED <<cancelled, late, open, asked, tree, sent, ghosts>>

---------------------------------------------------------------------------
(* An answer with calls: divergence, the batch, and the evidence it gives.  *)

\* A repeated signature is executed once with a nudge; when it recurs (same) while
\* the latch is set the run is asked for a last answer.  Otherwise the calls and
\* their placeholders are appended and the batch runs.
Calls(r, repeated, same) ==
    /\ run[r].pc = "wait" /\ (same => repeated /\ run[r].latch)
    /\ run' = IF same
              THEN [run EXCEPT ![r] = [Answered(@) EXCEPT !.pc = "synth",
                                                          !.stop = "Divergence"]]
              ELSE [run EXCEPT ![r] = [Answered(@) EXCEPT
                      !.pc = "batch", !.tail = <<>>, !.latch = run[r].latch \/ repeated,
                      !.told = run[r].told \/ repeated]]
    /\ UNCHANGED <<cancelled, late, shared, tree, sent, ghosts>>

\* The tool bodies with an effect, in turn: an edit of a file it names; a shell command;
\* one that fails after it wrote, or a sub-agent's edit, which turn_made_edits does not
\* count; the todo list; the claim, which only a goal run has as a tool; the question,
\* which a sub-agent has not.  Only a named file moves the gate to its project.
Effect(r, a, p) ==
    /\ run[r].pc = "batch" /\ a \notin run[r].did /\ Cardinality(run[r].did) < MaxActs
    /\ a = "claim" => run[r].kind = "repl" /\ run[r].goal
    /\ a \in {"plan", "finish", "ask"} => Listed(r)
    /\ a \notin Changes => p = Home
    /\ run' = [run EXCEPT ![r] = [@ EXCEPT
                  !.did = run[r].did \cup {a},
                  !.last = IF a = "edit" THEN p ELSE run[r].last]]
    /\ IF a \in Changes
       THEN /\ Change(p)
            /\ unseen' = unseen \cup (IF a = "slip" THEN At(p) ELSE At(p) \ {r})
       ELSE UNCHANGED tree
    /\ open' = IF a = "plan" THEN TRUE ELSE IF a = "finish" THEN FALSE ELSE open
    /\ asked' = (asked \/ a = "ask")
    /\ IF a = "claim" THEN claim' = TRUE /\ claimOf' = goals /\ refuted' = FALSE
                      ELSE UNCHANGED <<claim, claimOf, refuted>>
    /\ UNCHANGED <<cancelled, late, goal, mail, sent>>

Edited(r)      == run[r].did \cap Counted # {}
StillPassed(r) == run[r].passed /\ ~Edited(r)

KeptLatchForever(r, news) == run[r].latch
\* What the run had been told about its repetitions counts until it learns something.
KeptLatch(r, news) == run[r].latch /\ ~news

\* StallLedger::recover: a clean slate, and the warning has to be earned again.
Recover(me) == [me EXCEPT !.flat = 0, !.nudged = FALSE, !.recoveries = @ + 1,
                          !.told = FALSE, !.tail = Append(@, "user")]

Recovers(r, me) == /\ me.recoveries < MaxRecoveries /\ ~me.latch
                   /\ Listed(r) => open

\* StallLedger::observe, with what the batch leaves (learned: a result or a failure not
\* seen before; progress: a todo was completed; spiked: with a jump in confidence):
\* edits re-arm the gate, and a turn that adds nothing is counted.
Observed(r, learned, progress, spiked) ==
    LET inform == Edited(r) \/ learned \/ progress
    IN [run[r] EXCEPT
          !.edits = @ \/ Edited(r), !.passed = StillPassed(r),
          !.flat = IF inform THEN 0 ELSE @ + 1, !.nudged = @ /\ ~inform,
          !.latch = KeptLatch(r, learned \/ progress),
          !.told = @ /\ (~inform \/ (run[r].latch /\ ~learned /\ ~progress)),
          !.spike = IF spiked /\ @ = "none" THEN "armed" ELSE @,
          !.pc = "top", !.did = {}, !.left = @ - 1]

\* The batch has landed: after too many turns that add nothing comes a warning, then
\* a recovery or the end.
Landed(r, learned, progress, spiked) ==
    /\ run[r].pc = "batch" /\ (spiked => progress /\ "recheck" \in Gates)
    /\ progress => "finish" \in run[r].did \/ "plan" \in run[r].did
    /\ LET me    == Observed(r, learned, progress, spiked)
           stops == me.flat > FlatTurns /\ me.nudged
           warns == me.flat >= FlatTurns /\ ~me.nudged
           asks  == "ask" \in run[r].did /\ asked
       IN
       IF stops
       THEN /\ run' = [run EXCEPT ![r] =
                 IF Recovers(r, me) THEN Recover(me)
                 ELSE [me EXCEPT !.pc = "synth", !.stop = "Divergence"]]
            /\ UNCHANGED asked
       ELSE LET told == [me EXCEPT !.nudged = @ \/ warns, !.told = @ \/ warns,
                              !.tail = IF warns THEN Append(@, "sys") ELSE @]
            IN /\ asked' = (asked /\ ~asks)
               /\ run' = [run EXCEPT ![r] =
                     IF asks THEN Ended(told, "AwaitingInput", told.tail) ELSE told]
    /\ UNCHANGED <<cancelled, late, goal, claim, open, mail, tree, sent, ghosts>>

\* synthesize_final: one call without tools, which may fail.
Synthesize(r, answered) ==
    /\ run[r].pc = "synth"
    /\ Return(r, run[r].stop, IF answered THEN <<>> ELSE run[r].tail)
    /\ UNCHANGED <<cancelled, late, shared, tree, sent, ghosts>>

---------------------------------------------------------------------------

Advance(r) ==
    \/ \E full \in BOOLEAN : Top(r, full)
    \/ Abandon(r) \/ Resume(r)
    \/ \E what \in {"empty", "transient", "permanent"} : Retry(r, what)
    \/ \E shrinks \in BOOLEAN : Overflow(r, shrinks)
    \/ \E empty \in BOOLEAN : Claim(r, empty)
    \/ \E repeated, same \in BOOLEAN : Calls(r, repeated, same)
    \/ NoVerdict(r) \/ \E exit \in BOOLEAN : Verdict(r, exit)
    \/ \E blocking \in BOOLEAN : Judge(r, blocking)
    \/ \E answered \in BOOLEAN : Synthesize(r, answered)

Loop(r) ==
    \/ Advance(r)
    \/ \E learned, progress, spiked \in BOOLEAN : Landed(r, learned, progress, spiked)

World ==
    \/ \E r \in Runs : \/ \E kind \in Kinds : Start(r, kind)
                       \/ Esc(r) \/ Drop(r) \/ Expire(r)
                       \/ \E a \in Acts, p \in Projects : Effect(r, a, p)
    \/ \E on \in BOOLEAN : SetGoal(on)
    \/ Steer
    \/ \E p \in Projects : Meddle(p)

Next == World \/ \E r \in Runs : Loop(r)

\* Calls, commands and back-offs have time-outs: the loop of a run keeps moving.  A
\* batch may wait for ever, at the approval prompt or for the body of a barrier, and
\* nothing is assumed of the user, of other writers, or of what the model answers.
Fairness == \A r \in Runs : WF_vars(Advance(r))

Spec == Init /\ [][Next]_vars /\ Fairness

---------------------------------------------------------------------------

Marks == {"user", "sys", "guard"}

\* Every variable keeps its type.
TypeOK ==
    /\ \A r \in Runs :
        /\ run[r].pc \in {"idle", "top", "wait", "backoff", "gate", "judge",
                          "batch", "synth"}
        /\ run[r].last \in Projects
        /\ run[r].stop \in Stops /\ run[r].kind \in Kinds \cup {"repl"}
        /\ run[r].left \in 0..(MaxIters + AutoExtendTo + MaxGoalSteps)
        /\ run[r].conts \in 0..MaxContinuations
        /\ run[r].recoveries \in 0..MaxRecoveries /\ run[r].pokes \in 0..MaxPokes
        /\ run[r].attempts \in 0..MaxVerify
        /\ run[r].tail \in Seq(Marks) /\ run[r].base \in Seq(Marks)
        /\ run[r].did \subseteq Acts
    /\ {goal, claim, open, asked, mail, refuted} \subseteq BOOLEAN
    /\ good \in [Projects -> BOOLEAN]
    /\ moved \subseteq Runs /\ unseen \subseteq Runs
    /\ claimOf \in 0..MaxGoals

\* mod.rs:1734-1740: while the latch of a passed verification is set, the project of
\* the last edit verifies, unless something the loop does not count changed it since:
\* an edit clears the latch, and a verdict on sources that moved is none.
Attested == TypeOK /\ \A r \in Runs :
    Live(r) /\ run[r].passed /\ ~Edited(r) /\ r \notin unseen => good[run[r].last]

\* mod.rs:1732-1865: a run that edited is Done only behind a passed verification, or
\* when the gate of this very claim had no verdict to give; claiming again, a spent
\* budget or another gate in between do not get it there.
DoneVerified == \A r \in Runs :
    run[r].stop = "Done" /\ ~Live(r) /\ Verify(r) /\ run[r].edits
        => run[r].passed \/ run[r].blind

\* The latch of a verification tells the truth, and Done rests on it.
Verified == Attested /\ DoneVerified

\* goal.rs:71-72, mod.rs:1800-1808: a pending claim is about the present goal, and
\* no verification of a goal run has failed since it was made.
ClaimStands == claim => goal /\ claimOf = goals /\ ~refuted

\* mod.rs:1326-1328, 1522-1531: a call that fails, is cancelled or runs out of time
\* leaves no nudge or re-prompt of its own in the history, and nothing else is lost.
NothingStranded == [][\A r \in Runs :
    run[r].pc \in {"wait", "backoff"} /\ ~Live(r)' /\ run'[r].stop # "Dropped"
        => run'[r].tail = IF run'[r].stop = "Err" THEN AfterError(run[r], run[r].base)
                          ELSE run[r].base]_vars

\* mod.rs:3900-3901, 3957-3961: a run is cut off as going nowhere only when it was
\* told so, in this episode, and has gone on as before.
Warned == \A r \in Runs :
    run[r].pc = "synth" /\ run[r].stop = "Divergence" => run[r].told

\* A run that is to end: an ordinary one, or one that Esc has cancelled.
Ending(r) == Live(r) /\ (~run[r].goal \/ cancelled[r])

\* mod.rs:891-895: an ordinary run ends, whatever the model and the provider do, and so
\* does every run after Esc (it is never for ever ending), unless it stays in a batch
\* that never lands.
Ends == \A r \in Runs : []<>~Ending(r) \/ <>[](run[r].pc = "batch")
=============================================================================
