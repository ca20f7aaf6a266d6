------------------------------ MODULE CancelTree ------------------------------
(***************************************************************************)
(* Turn-scoped cancellation (core/cancel.rs).  A turn owns a token;         *)
(* delegated sub-agents and workflow children hold tokens derived with      *)
(* child().  Threads call cancel() on any token (Esc on the turn's, a       *)
(* /workflows stop on a child's) while others derive children, wait in      *)
(* cancelled(), and finish.  The lock of a token covers its list of         *)
(* children only; flags and notifications are separate steps.               *)
(***************************************************************************)
EXTENDS Integers, Sequences, SequencesExt, FiniteSets

CONSTANTS Roots,        \* tokens of top-level turns
          Kids,         \* tokens child() may create
          Cancellers,   \* threads that call cancel(), once each
          Waiters,      \* tokens somebody awaits
          NoToken

Tokens == Roots \cup Kids

ASSUME NoTokenIsNone == NoToken \notin Tokens
ASSUME RootsAreNotKids == Roots \cap Kids = {}
ASSUME KidsFinite == IsFiniteSet(Kids)
ASSUME WaitersAreTokens == Waiters \subseteq Tokens

VARIABLES
    status,     \* of a token: unborn, in child(), live, or dropped
    parent,     \* the token child() was called on
    flag,       \* Inner.cancelled
    children,   \* Inner.children; the order of the list is left open
    wait,       \* where the token's waiter is in cancelled()
    woken,      \* the waiter's notification has fired
    stack,      \* per canceller: the calls of cancel() still to do, innermost first
    target,     \* ghost: per canceller, the token it called cancel() on
    above,      \* ghost: the tokens a token was derived from, all the way up
    reach       \* ghost: per canceller, the tokens live beneath its target then

tree   == <<status, parent, above, children>>
waiter == <<wait, woken>>
cancel == <<stack, target, reach>>
vars   == <<tree, flag, waiter, cancel>>

States == {"unborn", "birth", "live", "gone"}
\* cancelled(): check the flag, create the notification, check again, await it.
Waits  == {"off", "check", "create", "recheck", "await", "done"}
Phases == {"swap", "notify", "collect"}
Calls  == [tok : Tokens, at : Phases]
Call(t) == [tok |-> t, at |-> "swap"]

Live(t) == status[t] = "live"
Beneath(t, a) == t = a \/ a \in above[t]

Init == /\ status = [t \in Tokens |-> IF t \in Roots THEN "live" ELSE "unborn"]
        /\ parent = [t \in Tokens |-> NoToken]
        /\ above = [t \in Tokens |-> {}]
        /\ flag = [t \in Tokens |-> FALSE]
        /\ children = [t \in Tokens |-> {}]
        /\ wait = [t \in Tokens |-> "off"]
        /\ woken = [t \in Tokens |-> FALSE]
        /\ stack = [c \in Cancellers |-> <<>>]
        /\ target = [c \in Cancellers |-> NoToken]
        /\ reach = [c \in Cancellers |-> {}]

---------------------------------------------------------------------------
\* child(), first step: the new token copies the flag of its parent.
Derive(p, t) ==
    /\ Live(p) /\ status[t] = "unborn"
    /\ status' = [status EXCEPT ![t] = "birth"]
    /\ parent' = [parent EXCEPT ![t] = p]
    /\ above' = [above EXCEPT ![t] = above[p] \cup {p}]
    /\ flag' = [flag EXCEPT ![t] = flag[p]]
    /\ UNCHANGED <<children, waiter, cancel>>

\* Finished children are reclaimed before the new one is pushed.
LiveOf(kids) == {k \in kids : status[k] # "gone"}
RegisterAlone(p, t) == children' = [children EXCEPT ![p] = {t}]
Register(p, t) == children' = [children EXCEPT ![p] = LiveOf(@) \cup {t}]

\* child(), second step, under the parent's lock; the token is handed out.
HandOut(t) ==
    /\ status[t] = "birth"
    /\ status' = [status EXCEPT ![t] = "live"]
    /\ Register(parent[t], t)
    /\ UNCHANGED <<parent, above, flag, waiter, cancel>>

\* The holder is done; a body runs under its caller's token, so a token
\* outlives the tokens derived from it.
Finish(t) ==
    /\ t \in Kids /\ Live(t)
    /\ \A k \in Kids : parent[k] = t => status[k] = "gone"
    /\ status' = [status EXCEPT ![t] = "gone"]
    /\ UNCHANGED <<parent, above, children, flag, waiter, cancel>>

---------------------------------------------------------------------------
(* cancel(): swap the flag, notify if it was clear, collect the children     *)
(* under the lock, then the same for each of them.                          *)
Ask(c, t) ==
    /\ target[c] = NoToken /\ Live(t)
    /\ stack' = [stack EXCEPT ![c] = <<Call(t)>>]
    /\ target' = [target EXCEPT ![c] = t]
    /\ reach' = [reach EXCEPT ![c] = {k \in Tokens : Live(k) /\ Beneath(k, t)}]
    /\ UNCHANGED <<tree, flag, waiter>>

Top(c) == Head(stack[c])
GoTo(c, phase) == stack' = [stack EXCEPT ![c] = <<[Top(c) EXCEPT !.at = phase]>> \o Tail(@)]

SwapSkipsRest(c) ==
    /\ stack[c] # <<>> /\ Top(c).at = "swap"
    /\ flag' = [flag EXCEPT ![Top(c).tok] = TRUE]
    /\ IF flag[Top(c).tok] THEN stack' = [stack EXCEPT ![c] = Tail(@)] ELSE GoTo(c, "notify")
    /\ UNCHANGED <<tree, waiter, target, reach>>
Swap(c) ==
    /\ stack[c] # <<>> /\ Top(c).at = "swap"
    /\ flag' = [flag EXCEPT ![Top(c).tok] = TRUE]
    /\ GoTo(c, IF flag[Top(c).tok] THEN "collect" ELSE "notify")
    /\ UNCHANGED <<tree, waiter, target, reach>>

\* A notification created before notify_waiters fires, awaited or not yet.
Notify(c) ==
    /\ stack[c] # <<>> /\ Top(c).at = "notify"
    /\ woken' = [woken EXCEPT ![Top(c).tok] =
                    @ \/ wait[Top(c).tok] \in {"recheck", "await"}]
    /\ GoTo(c, "collect")
    /\ UNCHANGED <<tree, flag, wait, target, reach>>

CollectUp(t) == LiveOf(children[t]) \cup ({parent[t]} \ {NoToken})
Collected(t) == LiveOf(children[t])

Collect(c) ==
    /\ stack[c] # <<>> /\ Top(c).at = "collect"
    /\ \E kids \in SetToSeqs(Collected(Top(c).tok)) :
          stack' = [stack EXCEPT ![c] = [i \in DOMAIN kids |-> Call(kids[i])] \o Tail(@)]
    /\ UNCHANGED <<tree, flag, waiter, target, reach>>

---------------------------------------------------------------------------
(* cancelled(): one waiter per token stands for any number of them.         *)
StepTo(t, w) == wait' = [wait EXCEPT ![t] = w]

StartWait(t) ==
    /\ t \in Waiters /\ Live(t) /\ wait[t] = "off"
    /\ StepTo(t, "check")
    /\ UNCHANGED <<tree, flag, woken, cancel>>

Check(t) ==
    /\ wait[t] = "check"
    /\ StepTo(t, IF flag[t] THEN "done" ELSE "create")
    /\ UNCHANGED <<tree, flag, woken, cancel>>

Create(t) ==
    /\ wait[t] = "create"
    /\ StepTo(t, "recheck")
    /\ woken' = [woken EXCEPT ![t] = FALSE]
    /\ UNCHANGED <<tree, flag, cancel>>

RecheckNot(t) ==
    /\ wait[t] = "recheck"
    /\ StepTo(t, "await")
    /\ UNCHANGED <<tree, flag, woken, cancel>>
Recheck(t) ==
    /\ wait[t] = "recheck"
    /\ StepTo(t, IF flag[t] THEN "done" ELSE "await")
    /\ UNCHANGED <<tree, flag, woken, cancel>>

Resume(t) ==
    /\ wait[t] = "await" /\ woken[t]
    /\ StepTo(t, "check")
    /\ UNCHANGED <<tree, flag, woken, cancel>>

Wait(t)   == Check(t) \/ Create(t) \/ Recheck(t) \/ Resume(t)
Cancel(c) == Swap(c) \/ Notify(c) \/ Collect(c)

Next == \/ \E p \in Tokens, t \in Kids : Derive(p, t)
        \/ \E t \in Kids : HandOut(t) \/ Finish(t)
        \/ \E c \in Cancellers, t \in Tokens : Ask(c, t)
        \/ \E c \in Cancellers : Cancel(c)
        \/ \E t \in Tokens : StartWait(t) \/ Wait(t)

\* Threads inside cancel() or cancelled() run on; nobody must call either.
Spec == /\ Init /\ [][Next]_vars
        /\ \A c \in Cancellers : WF_vars(Cancel(c))
        /\ \A t \in Tokens : WF_vars(Wait(t))

---------------------------------------------------------------------------
\* Every variable has its type.
TypeOK ==
    /\ status \in [Tokens -> States]
    /\ parent \in [Tokens -> Tokens \cup {NoToken}]
    /\ above \in [Tokens -> SUBSET Tokens]
    /\ flag \in [Tokens -> BOOLEAN]
    /\ children \in [Tokens -> SUBSET Kids]
    /\ wait \in [Tokens -> Waits] /\ woken \in [Tokens -> BOOLEAN]
    /\ stack \in [Cancellers -> Seq(Calls)]
    /\ target \in [Cancellers -> Tokens \cup {NoToken}]
    /\ reach \in [Cancellers -> SUBSET Tokens]

\* Cancellation flows down only: a token is cancelled because somebody called
\* cancel() on it or because its parent is cancelled.  Stopping one sub-agent
\* leaves its parent, its siblings and unrelated turns running.
DownwardOnly ==
    \A t \in Tokens : flag[t] =>
        (\E c \in Cancellers : target[c] = t) \/ (t \in Kids /\ flag[parent[t]])

\* When cancel() returns, every token that was live beneath its target when it
\* was called is cancelled or its holder is done, even if another thread is
\* still inside cancel() on part of the same tree.
ReachesAll ==
    \A c \in Cancellers : stack[c] = <<>> =>
        \A t \in reach[c] : flag[t] \/ status[t] = "gone"

\* No wake-up is missed: whoever waits on a token that is cancelled returns.
WakesUp == \A t \in Tokens : flag[t] /\ wait[t] # "off" ~> wait[t] = "done"
=============================================================================
