------------------------------ MODULE ToolExec ------------------------------
(* One run of the agent loop, from the model's streamed tool calls to the   *)
(* results in the history: early starts while the response streams          *)
(* (llm/client.rs, eager_starter), the pre-filled placeholders, the         *)
(* identical-re-read short cut and the barrier partition of execute_calls   *)
(* (agent/mod.rs).  Bodies run on blocking threads of their own; Esc        *)
(* cancels the run's token and, in the REPL, also drops the run's future.   *)
(*                                                                          *)
(* Every call reads or writes one file, of which only the version matters.  *)
(* "read" is a file_read, "write" a destructive call that changes the       *)
(* workspace, "task" a call of the task tool with a writing profile: both    *)
(* are barriers of the partition, but a task declares no workspace effect,   *)
(* and its child run takes the lease and the checkpoint (WorkspaceLease).    *)
EXTENDS Integers, Sequences, FiniteSets

CONSTANTS
    MAX_PARALLEL,  \* const MAX_PARALLEL: early starts per response, bodies per window
    Plans,         \* the calls the model may ask for in one response
    MaxTurns,      \* bound: responses in the run
    MaxOuter,      \* bound: edits of the file by other programs
    Droppable      \* Esc also drops the run's future (REPL); otherwise only the token

ASSUME BoundsAssumption == /\ MAX_PARALLEL \in Nat \ {0}
                           /\ MaxTurns \in Nat
                           /\ MaxOuter \in Nat
Kinds == {"read", "write", "task"}
ASSUME PlansAssumption == /\ Plans \subseteq Seq(Kinds)
                          /\ Droppable \in BOOLEAN

VARIABLES
    pc,            \* where the run's future is
    turn,          \* responses asked for so far
    plan,          \* the calls of the response, by accumulator slot
    frag,          \* how much of each call has arrived: 0 nothing, 1 part, 2 whole
    active,        \* ToolCallAccumulator::active
    barrier_hit, started,   \* of eager_starter
    body,          \* the body of each slot's call
    order,         \* finish_indexed: the slot of each position of the batch
    asked,         \* tool calls of the last assistant message
    slots,         \* the tool results that follow it
    i, w, cancelled,        \* of execute_calls: call, handle awaited, cancel seen
    writer_lease, auto_checkpointed, snap,   \* the lease; the pre-edit checkpoint
    cache,         \* read_cache: what an earlier answer shows, what was fingerprinted;
                   \* history: a task of that batch came after the read
    file,          \* version of the file
    repo,          \* checkpoints are available here
    outer,         \* edits made by other programs
    esc,           \* the run's token is cancelled
    wrote,         \* history: the version each slot's call wrote, 0 for none
    late           \* history: bodies started after Esc

stream == <<turn, plan, frag, active, barrier_hit, started>>
batch  == <<order, asked, slots>>
cursor == <<i, w, cancelled>>
guard  == <<writer_lease, auto_checkpointed, snap>>
world  == <<file, repo, outer, esc>>
ghosts == <<wrote, late>>
vars   == <<pc, stream, body, batch, cursor, guard, cache, world, ghosts>>

NoEntry == [shown |-> -1, print |-> -1, tasked |-> FALSE]
NoSnap  == -1
Result(tag, from, ver) == [tag |-> tag, from |-> from, ver |-> ver]
Placeholder == Result("hole", 0, 0)
Cancelled   == Result("cancelled", 0, 0)
Abandoned   == Result("abandoned", 0, 0)
Refused     == Result("error", 0, 0)
NoBody      == [st |-> "none", out |-> Placeholder]
Running     == [st |-> "running", out |-> Placeholder]
Ended(out)  == [st |-> "done", out |-> out]

Init ==
    /\ pc = "ask" /\ turn = 0 /\ plan = <<>> /\ frag = <<>> /\ active = 0
    /\ barrier_hit = FALSE /\ started = 0
    /\ body = <<>> /\ order = <<>> /\ asked = 0 /\ slots = <<>>
    /\ i = 1 /\ w = 1 /\ cancelled = FALSE
    /\ writer_lease = FALSE /\ auto_checkpointed = FALSE /\ snap = NoSnap
    /\ cache = NoEntry
    /\ file = 0 /\ repo \in BOOLEAN /\ outer = 0 /\ esc = FALSE
    /\ wrote = <<>> /\ late = [read |-> 0, write |-> 0]

-----------------------------------------------------------------------------
(* The streamed response.                                                   *)

(* Loop top: the next request, with fresh accumulator and early-start hook. *)
Ask ==
    /\ pc = "ask" /\ ~esc /\ turn < MaxTurns
    /\ \E p \in Plans :
        /\ plan' = p
        /\ frag' = [s \in DOMAIN p |-> 0]
        /\ body' = [s \in DOMAIN p |-> NoBody]
        /\ wrote' = [s \in DOMAIN p |-> 0]
    /\ pc' = "stream" /\ turn' = turn + 1
    /\ active' = 0 /\ barrier_hit' = FALSE /\ started' = 0
    /\ order' = <<>> /\ asked' = 0 /\ slots' = <<>>
    /\ UNCHANGED <<cursor, guard, cache, world, late>>

(* Cancelled at the loop top or while the request races the token, a model  *)
(* that answers without calling a tool, or a stream that fails for good.    *)
Leave ==
    /\ \/ pc = "ask"
       \/ pc = "stream"
    /\ pc' = "end"
    /\ UNCHANGED <<stream, body, batch, cursor, guard, cache, world, ghosts>>

(* Fragments arrive call by call, each call's in one piece ("the spec        *)
(* guarantees one call streams contiguously"); arguments that never close    *)
(* leave a call unfinished.  The hook is offered the slot the stream moves   *)
(* away from, if it is whole.                                                *)
Offered(s)    == active \notin {0, s} /\ frag[active] = 2
MayStartAny(s) == plan[s] = "read"
MayStart(s)    == ~barrier_hit /\ plan[s] = "read"
StartsEarly(s) == MayStart(s) /\ started < MAX_PARALLEL

Fragment(s) ==
    /\ pc = "stream"
    /\ frag[s] < 2
    /\ s > 1 => frag[s - 1] > 0
    /\ s >= active
    /\ \E n \in frag[s] + 1 .. 2 : frag' = [frag EXCEPT ![s] = n]
    /\ active' = s
    /\ IF Offered(s)
       THEN /\ barrier_hit' = (barrier_hit \/ plan[active] # "read")
            /\ started' = IF MayStart(active) THEN started + 1 ELSE started
            /\ body' = IF StartsEarly(active)
                       THEN [body EXCEPT ![active] = Running] ELSE body
       ELSE UNCHANGED <<barrier_hit, started, body>>
    /\ UNCHANGED <<pc, turn, plan, batch, cursor, guard, cache, world, ghosts>>

(* The stream ends or breaks: the calls whose arguments are whole make the  *)
(* batch, in their order; a call cut short is dropped.                      *)
Whole == {s \in DOMAIN plan : frag[s] = 2}
CloseStream ==
    /\ pc = "stream" /\ Whole # {}
    /\ order' \in [1 .. Cardinality(Whole) -> Whole]
    /\ \A k, l \in DOMAIN order' : k < l => order'[k] < order'[l]
    /\ pc' = "turn"
    /\ UNCHANGED <<stream, body, asked, slots, cursor, guard, cache, world, ghosts>>

-----------------------------------------------------------------------------
(* The turn, up to its execution.                                           *)

Kind(k) == plan[order[k]]
HasEffect == \E k \in DOMAIN order : Kind(k) # "read"

(* A repeat the divergence guard has flagged before: the run stops and      *)
(* nothing of the turn is appended.                                         *)
Diverge ==
    /\ pc = "turn"
    /\ pc' = "end"
    /\ UNCHANGED <<stream, body, batch, cursor, guard, cache, world, ghosts>>

(* The assistant message and one placeholder per call, in one step.  A      *)
(* first change of the run may wait for the compiler baseline.               *)
PreFill ==
    /\ pc = "turn"
    /\ asked' = Len(order)
    /\ slots' = [k \in DOMAIN order |-> Placeholder]
    /\ pc' \in IF HasEffect THEN {"baseline", "cache"} ELSE {"cache"}
    /\ UNCHANGED <<stream, body, order, cursor, guard, cache, world, ghosts>>

Baseline ==
    /\ pc = "baseline"
    /\ pc' = "cache"
    /\ UNCHANGED <<stream, body, batch, cursor, guard, cache, world, ghosts>>

(* A read that would repeat an earlier answer is given a pointer to it,     *)
(* unless it was started early.                                             *)
Canned(s) == plan[s] = "read" /\ body[s] = NoBody /\ cache.print = file

ShortCut ==
    /\ pc = "cache"
    /\ body' = [s \in DOMAIN body |->
                    IF Canned(s) /\ s \in {order[k] : k \in DOMAIN order}
                    THEN Ended(Result("same", s, cache.shown)) ELSE body[s]]
    /\ i' = 1 /\ w' = 1 /\ cancelled' = FALSE
    /\ pc' = "top"
    /\ UNCHANGED <<stream, batch, guard, cache, world, ghosts>>

-----------------------------------------------------------------------------
(* execute_calls.                                                           *)

Land(k, r) == slots' = [slots EXCEPT ![k] = r]

(* j: one past the run of safe calls that starts at i.                      *)
RunEnd == CHOOSE j \in i + 1 .. Len(order) + 1 :
            /\ \A k \in i .. j - 1 : Kind(k) = "read"
            /\ j = Len(order) + 1 \/ Kind(j) # "read"
WindowStart == i + ((w - i) \div MAX_PARALLEL) * MAX_PARALLEL
WindowEnd(from) == IF from + MAX_PARALLEL < RunEnd THEN from + MAX_PARALLEL ELSE RunEnd

TopCancelled ==
    /\ pc = "top" /\ i <= Len(order)
    /\ cancelled \/ esc
    /\ cancelled' = TRUE
    /\ Land(i, Cancelled)
    /\ i' = i + 1 /\ w' = i + 1
    /\ UNCHANGED <<pc, stream, body, order, asked, guard, cache, world, ghosts>>

TopStart ==
    /\ pc = "top" /\ i <= Len(order)
    /\ ~cancelled /\ ~esc
    /\ w' = i
    /\ pc' = IF Kind(i) = "read" THEN "spawn" ELSE "gate"
    /\ UNCHANGED <<stream, body, batch, i, cancelled, guard, cache, world, ghosts>>

TopDone ==
    /\ pc = "top" /\ i > Len(order)
    /\ pc' = "closing"
    /\ UNCHANGED <<stream, body, batch, cursor, guard, cache, world, ghosts>>

(* A window of the run: handles already there are adopted, the rest start.  *)
ToSpawn == {order[k] : k \in w .. WindowEnd(w) - 1}
Spawn ==
    /\ pc = "spawn"
    /\ LET new == {s \in ToSpawn : body[s] = NoBody}
       IN  /\ body' = [s \in DOMAIN body |-> IF s \in new THEN Running ELSE body[s]]
           /\ late' = IF esc THEN [late EXCEPT !.read = @ + Cardinality(new)] ELSE late
    /\ pc' = "window"
    /\ UNCHANGED <<stream, batch, cursor, guard, cache, world, wrote>>

(* select! over the handle, the token and the ceiling: any that is ready.   *)
AwaitDone ==
    /\ pc = "window"
    /\ body[order[w]].st = "done"
    /\ Land(w, body[order[w]].out)

AwaitCancel  == pc = "window" /\ esc /\ Land(w, Cancelled)
NoCeiling    == FALSE
AwaitCeiling == pc = "window" /\ body[order[w]].st = "running" /\ Land(w, Abandoned)

(* After the last handle of a window: a cancel fills the rest of the run.   *)
Filled(from) == [k \in DOMAIN slots |->
                    IF k \in from .. RunEnd - 1 /\ slots[k] = Placeholder
                    THEN Cancelled ELSE slots[k]]

Await ==
    /\ AwaitDone \/ AwaitCancel \/ AwaitCeiling
    /\ w' = w + 1
    /\ pc' = IF w + 1 = WindowEnd(WindowStart) THEN "landed" ELSE "window"
    /\ UNCHANGED <<stream, body, order, asked, i, cancelled, guard, cache, world, ghosts>>

WindowOver ==
    /\ pc = "landed"
    /\ IF ~esc /\ w < RunEnd
       THEN pc' = "spawn" /\ UNCHANGED <<slots, i, w, cancelled>>
       ELSE /\ cancelled' = esc
            /\ slots' = Filled(i)
            /\ i' = RunEnd /\ w' = RunEnd
            /\ pc' = "top"
    /\ UNCHANGED <<stream, body, order, asked, guard, cache, world, ghosts>>

(* A barrier call that is not run lands its reason.                         *)
Refuse == Land(i, Refused) /\ i' = i + 1 /\ w' = i + 1 /\ pc' = "top"
Keep   == UNCHANGED <<slots, i, w>>

(* The body starts on a thread of its own.                                  *)
StartBarrier ==
    /\ body' = [body EXCEPT ![order[i]] = Running]
    /\ late' = IF esc THEN [late EXCEPT !.write = @ + 1] ELSE late
    /\ pc' = "body" /\ Keep

(* The safety floor and the approval prompt; a task needs nothing more.     *)
Gate ==
    /\ pc = "gate"
    /\ \/ Refuse /\ UNCHANGED <<body, late>>
       \/ Kind(i) = "write" /\ pc' = "lease" /\ Keep /\ UNCHANGED <<body, late>>
       \/ Kind(i) = "task" /\ StartBarrier
    /\ UNCHANGED <<stream, order, asked, cancelled, guard, cache, world, wrote>>

(* The writer lease, once per run; the wait times out or is cancelled.      *)
Lease ==
    /\ pc = "lease"
    /\ \/ writer_lease' = TRUE /\ pc' = "checkpoint" /\ Keep
       \/ ~writer_lease /\ Refuse /\ UNCHANGED writer_lease
    /\ UNCHANGED <<stream, body, order, asked, cancelled, auto_checkpointed, snap,
                   cache, world, ghosts>>

(* The pre-edit checkpoint, once per run where there is a repository; then  *)
(* the body starts.                                                         *)
CheckpointErrorIgnored ==
    /\ pc = "checkpoint"
    /\ \/ /\ repo /\ ~auto_checkpointed
          /\ auto_checkpointed' = TRUE /\ snap' = file
       \/ UNCHANGED <<auto_checkpointed, snap>>
    /\ StartBarrier
    /\ UNCHANGED <<stream, order, asked, cancelled, writer_lease, cache, world, wrote>>
Checkpoint ==
    /\ pc = "checkpoint"
    /\ \/ /\ repo /\ ~auto_checkpointed
          /\ auto_checkpointed' = TRUE /\ snap' = file
          /\ StartBarrier
       \/ /\ repo /\ ~auto_checkpointed
          /\ Refuse
          /\ UNCHANGED <<body, late, auto_checkpointed, snap>>
       \/ /\ ~repo \/ auto_checkpointed
          /\ StartBarrier
          /\ UNCHANGED <<auto_checkpointed, snap>>
    /\ UNCHANGED <<stream, order, asked, cancelled, writer_lease, cache, world, wrote>>

BodyRaced ==
    /\ pc = "body"
    /\ \/ body[order[i]].st = "done" /\ Land(i, body[order[i]].out)
       \/ esc /\ Land(i, Cancelled)
    /\ i' = i + 1 /\ w' = i + 1 /\ pc' = "top"
    /\ UNCHANGED <<stream, body, order, asked, cancelled, guard, cache, world, ghosts>>
BodyLands ==
    /\ pc = "body"
    /\ body[order[i]].st = "done"
    /\ Land(i, body[order[i]].out)
    /\ i' = i + 1 /\ w' = i + 1 /\ pc' = "top"
    /\ UNCHANGED <<stream, body, order, asked, cancelled, guard, cache, world, ghosts>>

(* The answers of a turn without a destructive call are remembered, with    *)
(* the file's fingerprint of now; a task is not destructive.                *)
HasWrite    == \E k \in DOMAIN order : Kind(k) = "write"
ReadAnswers == {k \in DOMAIN slots : slots[k].tag = "read"}
Remember ==
    IF ~HasWrite /\ ReadAnswers # {}
    THEN LET k == CHOOSE k \in ReadAnswers : \A l \in ReadAnswers : l <= k
         IN  cache' = [shown |-> slots[k].ver, print |-> file,
                       tasked |-> \E l \in DOMAIN order : l > k /\ Kind(l) = "task"]
    ELSE UNCHANGED cache

Closing ==
    /\ pc = "closing"
    /\ Remember
    /\ pc' = "ask"
    /\ UNCHANGED <<stream, body, batch, cursor, guard, world, ghosts>>

-----------------------------------------------------------------------------
(* The bodies' own threads.  They end whether or not anyone waits.          *)

ReadBody(s) ==
    /\ body[s] = Running /\ plan[s] = "read"
    /\ body' = [body EXCEPT ![s] = Ended(Result("read", s, file))]
    /\ UNCHANGED <<pc, stream, batch, cursor, guard, cache, world, ghosts>>

(* A body that fails or panics may have changed the file before; one that   *)
(* leaves the file alone is not told from one that fails.                   *)
WriteBody(s) ==
    /\ body[s] = Running /\ plan[s] # "read"
    /\ \/ /\ file' = file + 1
          /\ wrote' = [wrote EXCEPT ![s] = file + 1]
          /\ \E tag \in {"wrote", "failed"} :
                body' = [body EXCEPT ![s] = Ended(Result(tag, s, file + 1))]
       \/ /\ body' = [body EXCEPT ![s] = Ended(Result("failed", s, file))]
          /\ UNCHANGED <<file, wrote>>
    /\ UNCHANGED <<pc, stream, batch, cursor, guard, cache, repo, outer, esc, late>>

(* The user and other programs.                                             *)

Esc ==
    /\ ~esc /\ pc \notin {"end", "dropped"}
    /\ esc' = TRUE
    /\ UNCHANGED <<pc, stream, body, batch, cursor, guard, cache, file, repo, outer, ghosts>>

(* The REPL's select! drops the future, which can happen only at an await.  *)
Awaiting == {"stream", "baseline", "window", "body"}
Drop ==
    /\ Droppable /\ esc /\ pc \in Awaiting
    /\ pc' = "dropped"
    /\ UNCHANGED <<stream, body, batch, cursor, guard, cache, world, ghosts>>

Outer ==
    /\ outer < MaxOuter /\ pc \notin {"end", "dropped"}
    /\ file' = file + 1 /\ outer' = outer + 1
    /\ UNCHANGED <<pc, stream, body, batch, cursor, guard, cache, repo, esc, ghosts>>

-----------------------------------------------------------------------------
Barrier == Lease \/ Checkpoint \/ BodyLands
Execute == \/ TopCancelled \/ TopStart \/ TopDone
           \/ Spawn \/ Await \/ WindowOver
           \/ Barrier
Loop    == Ask \/ Leave \/ CloseStream \/ Diverge \/ PreFill \/ Baseline \/ ShortCut
           \/ Closing
Provider == \E s \in DOMAIN plan : Fragment(s)
Bodies  == \E s \in DOMAIN body : ReadBody(s) \/ WriteBody(s)

Next == Loop \/ Provider \/ Execute \/ Gate \/ Bodies \/ Esc \/ Drop \/ Outer

(* The runtime polls a ready future.  Nothing else is promised: a read body *)
(* or a write body may hang, a prompt may go unanswered, a stream may stall. *)
Fairness == WF_vars(Execute)

Spec == Init /\ [][Next]_vars /\ Fairness

-----------------------------------------------------------------------------
(* Properties.                                                              *)

Tags == {"hole", "cancelled", "abandoned", "error", "failed", "read", "same", "wrote"}
Results == [tag : Tags, from : Nat, ver : Int]

(* Every variable keeps its type.                                           *)
TypeOK ==
    /\ pc \in {"ask", "stream", "turn", "baseline", "cache", "top", "spawn", "window",
               "landed", "gate", "lease", "checkpoint", "body", "closing", "end", "dropped"}
    /\ turn \in 0 .. MaxTurns
    /\ plan \in Seq(Kinds)
    /\ frag \in [DOMAIN plan -> 0 .. 2]
    /\ active \in 0 .. Len(plan)
    /\ barrier_hit \in BOOLEAN /\ started \in 0 .. Len(plan)
    /\ body \in [DOMAIN plan -> [st : {"none", "running", "done"}, out : Results]]
    /\ order \in Seq(DOMAIN plan)
    /\ asked \in 0 .. Len(plan)
    /\ slots \in Seq(Results)
    /\ i \in Nat \ {0} /\ w \in Nat \ {0} /\ cancelled \in BOOLEAN
    /\ writer_lease \in BOOLEAN /\ auto_checkpointed \in BOOLEAN
    /\ snap \in Int /\ cache \in [shown : Int, print : Int, tasked : BOOLEAN]
    /\ file \in Nat /\ repo \in BOOLEAN /\ outer \in 0 .. MaxOuter /\ esc \in BOOLEAN
    /\ wrote \in [DOMAIN plan -> Nat]
    /\ late \in [read : Nat, write : Nat]

(* Wherever the future can be dropped, and once it is gone, the history     *)
(* answers every call of its last assistant message (agent/mod.rs, the      *)
(* pre-fill): a strict gateway accepts it.                                  *)
Paired ==
    pc \in Awaiting \cup {"dropped", "end", "ask"} => Len(slots) = asked

(* Sequential observability (execute_calls): a read's answer shows every    *)
(* write placed before it in the batch and none placed after it, and writes *)
(* take effect in the order of the calls.                                   *)
SerialView ==
    \A k, l \in DOMAIN slots :
        k < l =>
            /\ slots[l].tag = "read" => slots[l].ver >= wrote[order[k]]
            /\ slots[k].tag = "read" /\ wrote[order[l]] # 0
                  => slots[k].ver < wrote[order[l]]
            /\ wrote[order[k]] # 0 /\ wrote[order[l]] # 0
                  => wrote[order[k]] < wrote[order[l]]

(* What a result says is what happened, to the call it answers: a write     *)
(* whose result says it was cancelled or refused left the file alone and    *)
(* will not touch it later.                                                 *)
TellsTheEvent ==
    \A k \in DOMAIN slots :
        LET s == order[k] IN
        /\ slots[k].tag \in {"read", "same", "wrote", "failed"} => slots[k].from = s
        /\ slots[k].tag = "wrote" => wrote[s] = slots[k].ver
        /\ slots[k].tag \in {"cancelled", "error"} /\ plan[s] # "read"
              => wrote[s] = 0 /\ body[s] # Running

(* An entry of read_cache attests the content its earlier answer shows, as  *)
(* long as only the run's own calls change the file and no task was placed   *)
(* after the read: the fingerprint is taken after the turn.                  *)
CacheAttests == outer = 0 /\ ~cache.tasked => cache.shown = cache.print

(* Whichever of Esc, the ceiling and the finishing bodies wins, every call  *)
(* is answered, by what happened to it, and later answers can rely on it.   *)
ReportsTrue == TypeOK /\ Paired /\ TellsTheEvent /\ CacheAttests

(* With a repository, the run's first write is preceded by the checkpoint,  *)
(* which is older than every write of the run.                              *)
CheckpointFirst == \A s \in DOMAIN plan : plan[s] = "write" /\ wrote[s] # 0 =>
    /\ writer_lease /\ (repo => auto_checkpointed)
    /\ auto_checkpointed => snap < wrote[s]

(* Once the token is cancelled at most one write and one window of reads    *)
(* still start: the call whose check had been passed.                       *)
EscBounds == late.write <= 1 /\ late.read <= MAX_PARALLEL /\ late.write * late.read = 0

(* No write runs unprotected, and Esc lets at most the one that was past    *)
(* the cancel check run (execute_calls, between that check and the body).   *)
WritesGuarded == CheckpointFirst /\ EscBounds

(* Hung reads do not hang the batch: it ends, or waits for the user at a    *)
(* prompt or for the body of a barrier, which is never abandoned.           *)
BatchSettles ==
    pc = "top" ~> pc \in {"ask", "closing", "gate", "body", "end", "dropped"}
=============================================================================
