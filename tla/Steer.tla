-------------------------------- MODULE Steer --------------------------------
(***************************************************************************)
(* Mid-turn steering (core/steer.rs) and the Esc key, between the keyboard  *)
(* thread (ui/tui.rs) and the REPL thread that runs turns (main.rs, with    *)
(* the drains of agent/mod.rs).  A typed message goes to the mailbox of the *)
(* running turn or to the submission queue; the REPL gives it to the model, *)
(* as the message that starts a turn or as a steer folded into one.         *)
(*                                                                         *)
(* The mailbox lock covers single statements only: ARMED, PENDING and the   *)
(* mailbox change in separate steps, and the keyboard's check of ARMED is   *)
(* separate from its push.                                                  *)
(***************************************************************************)
EXTENDS Integers, Sequences, SequencesExt, FiniteSets

CONSTANTS MaxMsgs,      \* bound: messages typed
          MaxIters,     \* bound: iterations of one turn (the step cap)
          MaxEscs,      \* bound: Esc presses
          MAX_PENDING   \* how many steers the mailbox takes

ASSUME SteerConstants == {MaxMsgs, MaxIters, MaxEscs, MAX_PENDING} \subseteq Nat

VARIABLES
    armed, pending, mailbox,    \* ARMED, PENDING, MAILBOX
    queue,                      \* the submission channel
    token,                      \* the cancel slot of the running turn
    wake,                       \* wake-ups in the cancel channel (0 or some)
    rpc, hand, site, pass, iters, stopped,     \* the REPL thread
    kpc, typing, typed, escs,                  \* the keyboard thread
    history,    \* ghost: per turn, the messages the model was given
    dropped,    \* ghost: discarded by Esc, or by a preparation that failed
    erased,     \* ghost: discarded by arm()
    landed      \* ghost: accepted as steers while ARMED was set

box    == <<armed, pending, mailbox>>
repl   == <<rpc, hand, site, pass, iters, stopped>>
kbd    == <<kpc, typing, typed, escs>>
ghosts == <<history, dropped, erased, landed>>
steerVars == <<box, queue, token, wake, repl, kbd, ghosts>>

Msgs == 1..MaxMsgs
ReplStates == {"idle", "clear", "zero", "open", "prep", "seated", "top",
               "look", "take", "reset", "model", "ended",
               "close", "collect", "settle", "inject", "flush", "release"}
KbdStates == {"ready", "boxing", "queueing", "cancel", "wake", "wipe", "zero"}

SteerInit ==
    /\ armed = FALSE /\ pending = 0 /\ mailbox = <<>>
    /\ queue = <<>> /\ token = "none" /\ wake = FALSE
    /\ rpc = "idle" /\ hand = <<>> /\ site = "top" /\ pass = 1
    /\ iters = 0 /\ stopped = FALSE
    /\ kpc = "ready" /\ typing = <<>> /\ typed = 0 /\ escs = 0
    /\ history = <<>> /\ dropped = {} /\ erased = {} /\ landed = {}

---------------------------------------------------------------------------
(* The REPL thread: a submission starts a turn and opens the mailbox.      *)
StartTurn ==
    /\ rpc = "idle" /\ queue # <<>>
    /\ hand' = <<Head(queue)>> /\ queue' = Tail(queue)
    /\ token' = "live"
    /\ rpc' = "clear"
    /\ UNCHANGED <<box, wake, site, pass, iters, stopped, kbd, ghosts>>

\* arm(): three statements.
ArmClear ==
    /\ rpc = "clear" /\ rpc' = "zero"
    /\ mailbox' = <<>>
    /\ erased' = erased \cup ToSet(mailbox)
Arm ==
    /\ \/ ArmClear /\ UNCHANGED <<armed, pending>>
       \/ /\ rpc = "zero" /\ rpc' = "open"
          /\ pending' = 0
          /\ UNCHANGED <<armed, mailbox, erased>>
       \/ /\ rpc = "open" /\ rpc' = "prep"
          /\ armed' = TRUE
          /\ UNCHANGED <<pending, mailbox, erased>>
    /\ UNCHANGED <<queue, token, wake, hand, site, pass, iters, stopped, kbd,
                   history, dropped, landed>>

\* Preparation fails, or sees at its end that Esc cancelled the turn.
AbortPrep ==
    /\ rpc = "prep"
    /\ rpc' = "close" /\ pass' = 2
    /\ dropped' = dropped \cup ToSet(hand) /\ hand' = <<>>
    /\ wake' \in {wake, IF token = "cancelled" THEN FALSE ELSE wake}
    /\ UNCHANGED <<box, queue, token, site, iters, stopped, kbd,
                   history, erased, landed>>

\* The user message is seated and the cancel token checked for the last time.
Seat ==
    /\ rpc = "prep" /\ token = "live"
    /\ rpc' = "seated"
    /\ history' = Append(history, hand) /\ hand' = <<>>
    /\ UNCHANGED <<box, queue, token, wake, site, pass, iters, stopped, kbd,
                   dropped, erased, landed>>

\* Stale wake-ups are drained, then the turn races the cancel channel.
Launch ==
    /\ rpc = "seated" /\ rpc' = "top"
    /\ wake' = FALSE
    /\ UNCHANGED <<box, queue, token, hand, site, pass, iters, stopped, kbd, ghosts>>

---------------------------------------------------------------------------
(* The agent loop.                                                          *)
EndsAt(s) == /\ rpc' = "ended" /\ stopped' = s

LoopTop ==
    /\ rpc = "top"
    /\ IF token = "cancelled" \/ iters >= MaxIters
       THEN EndsAt(FALSE) /\ UNCHANGED site
       ELSE rpc' = "look" /\ site' = "top" /\ UNCHANGED stopped
    /\ UNCHANGED <<box, queue, token, wake, hand, pass, iters, kbd, ghosts>>

\* drain(): a lock-free look, the take under the lock, the reset outside it.
Drained ==
    IF site = "top" THEN rpc' = "model" /\ UNCHANGED <<iters, stopped>>
    ELSE IF hand = <<>> THEN EndsAt(FALSE) /\ UNCHANGED iters
    ELSE rpc' = "top" /\ iters' = iters + 1 /\ UNCHANGED stopped

Look ==
    /\ rpc = "look"
    /\ IF pending = 0 THEN Drained
                      ELSE rpc' = "take" /\ UNCHANGED <<iters, stopped>>
    /\ UNCHANGED <<box, queue, token, wake, hand, site, pass, kbd, ghosts>>

TakeNewestFirst ==
    /\ rpc = "take" /\ rpc' = "reset"
    /\ hand' = Reverse(mailbox) /\ mailbox' = <<>>
    /\ UNCHANGED <<armed, pending, queue, token, wake, site, pass, iters, stopped,
                   kbd, ghosts>>
Take ==
    /\ rpc = "take" /\ rpc' = "reset"
    /\ hand' = mailbox /\ mailbox' = <<>>
    /\ UNCHANGED <<armed, pending, queue, token, wake, site, pass, iters, stopped,
                   kbd, ghosts>>

Inject ==
    /\ rpc = "reset"
    /\ pending' = 0
    /\ history' = [history EXCEPT ![Len(history)] = @ \o hand]
    /\ hand' = <<>>
    /\ Drained
    /\ UNCHANGED <<armed, mailbox, queue, token, wake, site, pass, kbd,
                   dropped, erased, landed>>

\* The model's answer: tool calls, a final answer, a turn cut short by Esc that
\* drops its future, or a call that fails or loses its race against the token.
Model ==
    /\ rpc = "model"
    /\ \/ rpc' = "top" /\ iters' = iters + 1 /\ UNCHANGED <<site, stopped, wake>>
       \/ rpc' = "look" /\ site' = "final" /\ UNCHANGED <<iters, stopped, wake>>
       \/ wake /\ wake' = FALSE /\ EndsAt(TRUE) /\ UNCHANGED <<iters, site>>
       \/ EndsAt(FALSE) /\ UNCHANGED <<iters, site, wake>>
    /\ UNCHANGED <<box, queue, token, hand, pass, kbd, ghosts>>

---------------------------------------------------------------------------
(* The end of a turn: disarm() explicitly (pass 1), flush the queue after    *)
(* Esc, disarm() again when the mailbox guard drops (pass 2).               *)
EndTurn ==
    /\ rpc = "ended" /\ rpc' = "close"
    /\ token' = "none" /\ pass' = 1
    /\ UNCHANGED <<box, queue, wake, hand, site, iters, stopped, kbd, ghosts>>

GatherCopy == /\ hand' = mailbox /\ UNCHANGED mailbox
Gather     == /\ hand' = mailbox /\ mailbox' = <<>>

\* disarm: new steers are refused before the old ones are taken.
Disarm ==
    /\ \/ /\ rpc = "close" /\ rpc' = "collect" /\ armed' = FALSE
          /\ UNCHANGED <<pending, mailbox, hand>>
       \/ rpc = "collect" /\ rpc' = "settle" /\ Gather /\ UNCHANGED <<armed, pending>>
       \/ /\ rpc = "settle" /\ rpc' = "inject" /\ pending' = 0
          /\ UNCHANGED <<armed, mailbox, hand>>
    /\ UNCHANGED <<queue, token, wake, site, pass, iters, stopped, kbd, ghosts>>

\* Leftovers go back to the queue one by one; the mutant forgets all but one.
RequeueFirst ==
    /\ rpc = "inject"
    /\ rpc' = IF pass = 2 THEN "release" ELSE IF stopped THEN "flush" ELSE "close"
    /\ queue' = (IF hand = <<>> THEN queue ELSE Append(queue, Head(hand))) /\ hand' = <<>>
    /\ pass' = 2
    /\ UNCHANGED <<box, token, wake, site, iters, stopped, kbd, ghosts>>
Requeue ==
    /\ rpc = "inject"
    /\ IF hand # <<>>
       THEN queue' = Append(queue, Head(hand)) /\ hand' = Tail(hand) /\ UNCHANGED <<rpc, pass>>
       ELSE /\ rpc' = IF pass = 2 THEN "release" ELSE IF stopped THEN "flush" ELSE "close"
            /\ pass' = 2
            /\ UNCHANGED <<queue, hand>>
    /\ UNCHANGED <<box, token, wake, site, iters, stopped, kbd, ghosts>>

Flush ==
    /\ rpc = "flush"
    /\ IF queue # <<>>
       THEN dropped' = dropped \cup {Head(queue)} /\ queue' = Tail(queue) /\ UNCHANGED rpc
       ELSE rpc' = "close" /\ UNCHANGED <<queue, dropped>>
    /\ UNCHANGED <<box, token, wake, hand, site, pass, iters, stopped, kbd,
                   history, erased, landed>>

Release ==
    /\ rpc = "release" /\ rpc' = "idle"
    /\ token' = "none" /\ pass' = 1 /\ iters' = 0 /\ stopped' = FALSE /\ site' = "top"
    /\ UNCHANGED <<box, queue, wake, hand, kbd, ghosts>>

Repl == \/ StartTurn \/ Arm \/ AbortPrep \/ Seat \/ Launch
        \/ LoopTop \/ Look \/ Take \/ Inject \/ Model
        \/ EndTurn \/ Disarm \/ Requeue \/ Flush \/ Release

---------------------------------------------------------------------------
(* The keyboard thread: a message is sent with Enter or offered as a steer. *)
Type(goal) == /\ kpc = "ready" /\ typed < MaxMsgs
              /\ typed' = typed + 1 /\ typing' = <<typed + 1>>
              /\ kpc' = goal
              /\ UNCHANGED <<box, queue, token, wake, repl, escs, ghosts>>
Send  == Type("queueing")
Offer == Type(IF armed THEN "boxing" ELSE "queueing")

Full == Len(mailbox) >= MAX_PENDING

\* push() after its check of ARMED: PENDING is set under the mailbox lock.
Push ==
    /\ kpc = "boxing"
    /\ IF Full
       THEN kpc' = "queueing" /\ UNCHANGED <<pending, mailbox, typing, landed>>
       ELSE /\ mailbox' = mailbox \o typing
            /\ pending' = Len(mailbox')
            /\ landed' = IF armed THEN landed \cup ToSet(typing) ELSE landed
            /\ kpc' = "ready" /\ typing' = <<>>
    /\ UNCHANGED <<armed, queue, token, wake, repl, typed, escs,
                   history, dropped, erased>>

Enqueue ==
    /\ kpc = "queueing" /\ kpc' = "ready"
    /\ queue' = queue \o typing /\ typing' = <<>>
    /\ UNCHANGED <<box, token, wake, repl, typed, escs, ghosts>>

\* Esc with a turn in flight: cancel its token, wake the REPL, clear the mailbox.
PressEsc ==
    /\ kpc = "ready" /\ escs < MaxEscs /\ token # "none"
    /\ escs' = escs + 1 /\ kpc' = "cancel"
    /\ UNCHANGED <<box, queue, token, wake, repl, typing, typed, ghosts>>

RequestCancel ==
    /\ kpc = "cancel" /\ kpc' = "wake"
    /\ token' = IF token = "none" THEN "none" ELSE "cancelled"
    /\ UNCHANGED <<box, queue, wake, repl, typing, typed, escs,
                   history, dropped, erased, landed>>

Wake ==
    /\ kpc = "wake" /\ kpc' = "wipe"
    /\ wake' = TRUE
    /\ UNCHANGED <<box, queue, token, repl, typing, typed, escs, ghosts>>

ClearSteers ==
    /\ \/ /\ kpc = "wipe" /\ kpc' = "zero"
          /\ dropped' = dropped \cup ToSet(mailbox) /\ mailbox' = <<>>
          /\ UNCHANGED pending
       \/ /\ kpc = "zero" /\ kpc' = "ready"
          /\ pending' = 0
          /\ UNCHANGED <<mailbox, dropped>>
    /\ UNCHANGED <<armed, queue, token, wake, repl, typing, typed, escs,
                   history, erased, landed>>

Keyboard == Push \/ Enqueue \/ RequestCancel \/ Wake \/ ClearSteers
Key      == Send \/ Offer \/ PressEsc

\* The REPL waits for input when every message was typed and handled.
Rest == /\ rpc = "idle" /\ queue = <<>> /\ kpc = "ready" /\ typed = MaxMsgs
        /\ UNCHANGED steerVars

SteerNext == Repl \/ Keyboard \/ Key \/ Rest

\* Both threads run on; nobody is forced to type.
SteerSpec == SteerInit /\ [][SteerNext]_steerVars /\ WF_steerVars(Repl) /\ WF_steerVars(Keyboard)

---------------------------------------------------------------------------
Given == UNION {ToSet(history[t]) : t \in DOMAIN history}
Once(s) == \A i, j \in DOMAIN s : s[i] = s[j] => i = j

\* Every variable has its type, and the mailbox stays within MAX_PENDING.
SteerTypeOK ==
    /\ armed \in BOOLEAN /\ pending \in 0..MAX_PENDING
    /\ mailbox \in Seq(Msgs) /\ Len(mailbox) <= MAX_PENDING
    /\ queue \in Seq(Msgs) /\ hand \in Seq(Msgs) /\ typing \in Seq(Msgs)
    /\ token \in {"none", "live", "cancelled"} /\ wake \in BOOLEAN
    /\ rpc \in ReplStates /\ kpc \in KbdStates
    /\ site \in {"top", "final"} /\ pass \in {1, 2} /\ stopped \in BOOLEAN
    /\ iters \in 0..MaxIters /\ typed \in 0..MaxMsgs /\ escs \in 0..MaxEscs
    /\ history \in Seq(Seq(Msgs))
    /\ UNION {dropped, erased, landed} \subseteq Msgs

\* Every typed message is in exactly one place, once: given to the model in one
\* turn, in a thread's hands, in the mailbox, in the queue, or discarded.  A
\* steer that is drained, re-queued by both disarms or flushed is never handled
\* twice.
Places == <<Given, ToSet(hand), ToSet(mailbox), ToSet(queue), ToSet(typing), dropped, erased>>
OnePlace ==
    /\ UNION {Places[k] : k \in DOMAIN Places} = 1..typed
    /\ \A k, l \in DOMAIN Places : k # l => Places[k] \cap Places[l] = {}
    /\ Once(hand) /\ Once(mailbox) /\ Once(queue) /\ Once(typing)
    /\ \A t \in DOMAIN history : Once(history[t])
    /\ \A t, u \in DOMAIN history : t # u => ToSet(history[t]) \cap ToSet(history[u]) = {}

\* Nothing typed is lost or doubled, and a full mailbox sends the steer to the
\* queue instead of growing past MAX_PENDING (push, drain, disarm, clear).
Conserved == SteerTypeOK /\ OnePlace

\* Within a turn the model reads messages in the order they were typed.
InTurnOrder ==
    \A t \in DOMAIN history : \A i, j \in DOMAIN history[t] :
        i < j => history[t][i] < history[t][j]

\* A steer accepted while the mailbox was open is given to the model, in this
\* turn or a later one, unless Esc or a failed preparation discards it.
LandedSettles == \A m \in Msgs : m \in landed ~> m \in Given \cup dropped
=============================================================================
