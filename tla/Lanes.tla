-------------------------------- MODULE Lanes --------------------------------
(***************************************************************************)
(* The chat daemon (hostbot/daemon.rs, hostbot/lane.rs, the session files   *)
(* of hostbot/store.rs): a router hands each message to the lane of its     *)
(* conversation, a lane answers its messages one at a time, and a turn runs *)
(* under a concurrency permit and the gate of its working directory.        *)
(*                                                                         *)
(* A lane's task is a worker <<conversation, generation>>: a lane that      *)
(* panicked is replaced by the next message, and an aborted task runs on    *)
(* until it next yields, so that an old and a new worker can coexist.       *)
(* A history is the sequence of messages whose turns it holds, the last of   *)
(* them at least in part.                                                    *)
(***************************************************************************)
EXTENDS Integers, Sequences, SequencesExt, FiniteSets

CONSTANTS Convs,        \* conversations: a bot and a chat
          Routes,       \* bots
          RouteOf,      \* the bot of each conversation
          Roots,        \* working directories
          Home,         \* the directory the process was started in
          Primary,      \* the bot that cannot be removed
          Permits,      \* max_concurrent()
          Depth,        \* LANE_QUEUE_DEPTH
          Says,         \* bound: what each conversation sends
          MaxMsgs,      \* bound: messages
          MaxGen,       \* bound: lanes started per conversation and boot
          MaxCrashes,   \* bound: panics, and boots of this daemon or the other
          Nobody, NoFile

ASSUME LanesConstants ==
    /\ RouteOf \in [Convs -> Routes] /\ Home \in Roots /\ Primary \in Routes
    /\ Says \in [Convs -> SUBSET ({"ask", "new"} \cup Roots \cup Routes)]
    /\ {Permits, Depth} \subseteq Nat \ {0} /\ {MaxMsgs, MaxGen, MaxCrashes} \subseteq Nat
    /\ Nobody \notin Convs \X Nat /\ NoFile \notin Seq(Nat)

VARIABLES
    seeds,                    \* run_daemon: histories read at boot
    hand,                     \* the message the router holds, and its worker
    lane,                     \* LaneRegistry: the registered generation, 0 for none
    inbox, pc, msg, root, hist, doomed,     \* the workers
    permits, gate, busy,      \* LaneShared: semaphore, RootGate, LaneStats
    session,                  \* the session file of each conversation
    cwd,                      \* lanes.json: the directory of each bot
    hosted,                   \* the bots that are polled
    asked, crashes,           \* the messages so far; the faults so far
    answered,                 \* ghost: the replies delivered, in order
    lost,                     \* ghost: messages that were given up
    saved,                    \* ghost: messages that reached the session file
    forgotten,                \* ghost: messages dropped by /new
    capped,                   \* ghost: messages dropped by cap_session and gc_sessions
    panicked                  \* ghost: conversations whose lane panicked

router == <<seeds, hand>>
worker == <<inbox, pc, msg, root, hist, doomed>>
shared == <<permits, gate, busy>>
files  == <<session, cwd, hosted>>
ghosts == <<answered, lost, saved, forgotten, capped, panicked>>
vars   == <<router, lane, worker, shared, files, asked, crashes, ghosts>>

Workers == Convs \X (1..MaxGen)
Msgs    == 1..MaxMsgs
Kinds   == {"ask", "new"} \cup Roots \cup Routes    \* /cd to one, /rmbot of one
States  == {"none", "recv", "permit", "gate", "turn", "save", "reply", "stop", "dead"}
Route(w) == RouteOf[w[1]]
Alive(w) == pc[w] \notin {"none", "dead"}

Idle(v) == [w \in Workers |-> v]
NoLanes == [c \in Convs |-> 0]
OpenGates == [r \in Roots |-> Nobody]

Init ==
    /\ hand = <<>> /\ lane = NoLanes
    /\ inbox = Idle(<<>>) /\ pc = Idle("none") /\ msg = Idle(0) /\ root = Idle(Home)
    /\ hist = Idle(<<>>) /\ doomed = {}
    /\ permits = {} /\ gate = OpenGates /\ busy = 0
    /\ seeds = [c \in Convs |-> <<>>]
    /\ session = [c \in Convs |-> NoFile] /\ cwd = [b \in Routes |-> Home]
    /\ hosted = Routes
    /\ asked = <<>> /\ crashes = 0
    /\ answered = <<>> /\ lost = {} /\ saved = {} /\ forgotten = {} /\ capped = {}
    /\ panicked = {}

---------------------------------------------------------------------------
(* The router.                                                              *)

OpenIfIdle(c) == lane[c] # 0 /\ pc[<<c, lane[c]>>] = "recv"
Open(c) == lane[c] # 0 /\ pc[<<c, lane[c]>>] # "dead"

Unseeded(c) == <<>>
Seed(c) == seeds[c]

\* dispatch: an open lane is used, otherwise one is started with the seed, which
\* is gone after the first message of a conversation.  The channel may still hold
\* messages of a bot that was removed.
Arrive(c, what) ==
    LET fresh == <<c, Cardinality({g \in 1..MaxGen : pc[<<c, g>>] # "none"}) + 1>>
        w == IF Open(c) THEN <<c, lane[c]>> ELSE fresh
    IN
    /\ hand = <<>> /\ Len(asked) < MaxMsgs /\ w \in Workers
    /\ asked' = Append(asked, [conv |-> c, what |-> what])
    /\ hand' = <<Len(asked'), w>>
    /\ seeds' = [seeds EXCEPT ![c] = <<>>]
    /\ lane' = [lane EXCEPT ![c] = w[2]]
    /\ IF Open(c) THEN UNCHANGED <<pc, hist>>
                  ELSE /\ pc' = [pc EXCEPT ![w] = "recv"]
                       /\ hist' = [hist EXCEPT ![w] = Seed(c)]
    /\ UNCHANGED <<inbox, msg, root, doomed, shared, files, crashes, ghosts>>

Room(w) == Len(inbox[w]) < Depth

\* try_send, after the registry lock was dropped: a full or closed queue
\* loses the message.
Deliver ==
    /\ hand # <<>>
    /\ LET w == hand[2] IN
       IF pc[w] # "dead" /\ Room(w)
       THEN inbox' = [inbox EXCEPT ![w] = Append(@, hand[1])] /\ UNCHANGED lost
       ELSE lost' = lost \cup {hand[1]} /\ UNCHANGED inbox
    /\ hand' = <<>>
    /\ UNCHANGED <<seeds, lane, pc, msg, root, hist, doomed, shared, files, asked,
                   crashes, answered, saved, forgotten, capped, panicked>>

---------------------------------------------------------------------------
(* A lane.                                                                  *)

Take(w, next) ==
    /\ pc[w] = "recv" /\ inbox[w] # <<>>
    /\ inbox' = [inbox EXCEPT ![w] = Tail(@)]
    /\ msg' = [msg EXCEPT ![w] = Head(inbox[w])]
    /\ pc' = [pc EXCEPT ![w] = next]
Asked(w) == asked[Head(inbox[w])].what

\* A plain message: the directory is read anew for each one.
Ask(w) ==
    /\ Take(w, "permit") /\ Asked(w) = "ask"
    /\ root' = [root EXCEPT ![w] = cwd[Route(w)]]
    /\ UNCHANGED <<router, lane, hist, doomed, shared, files, asked, crashes, ghosts>>

\* /new, and a change of model: the context and its file go.
ForgetsFile(c) == session' = [session EXCEPT ![c] = NoFile]
New(w) ==
    /\ Take(w, "reply") /\ Asked(w) = "new"
    /\ hist' = [hist EXCEPT ![w] = <<>>]
    /\ ForgetsFile(w[1])
    /\ forgotten' = forgotten \cup ToSet(hist[w])
    /\ UNCHANGED <<router, lane, root, doomed, shared, cwd, hosted, asked, crashes,
                   answered, lost, saved, capped, panicked>>

ChangeDir(w) ==
    /\ Take(w, "reply") /\ Asked(w) \in Roots
    /\ cwd' = [cwd EXCEPT ![Route(w)] = Asked(w)]
    /\ UNCHANGED <<router, lane, root, hist, doomed, shared, session, hosted,
                   asked, crashes, ghosts>>

\* /rmbot: do_remove_bot unhosts the bot and drops its sessions ...
RemoveBot(w) ==
    LET b == Asked(w)
        known == b \in hosted \ {Primary}
    IN
    /\ Take(w, IF known THEN "stop" ELSE "reply") /\ b \in Routes
    /\ hosted' = IF known THEN hosted \ {b} ELSE hosted
    /\ session' = [c \in Convs |-> IF known /\ RouteOf[c] = b THEN NoFile ELSE session[c]]
    /\ UNCHANGED <<router, lane, root, hist, doomed, shared, cwd, asked, crashes, ghosts>>

\* ... then stop_route aborts its lanes, and drop_lane forgets its settings.
StopRoute(w) ==
    LET b == asked[msg[w]].what
        gone == {c \in Convs : RouteOf[c] = b /\ lane[c] # 0}
    IN
    /\ pc[w] = "stop"
    /\ doomed' = doomed \cup {<<c, lane[c]>> : c \in gone}
    /\ lane' = [c \in Convs |-> IF c \in gone THEN 0 ELSE lane[c]]
    /\ cwd' = [cwd EXCEPT ![b] = Home]
    /\ pc' = [pc EXCEPT ![w] = "reply"]
    /\ UNCHANGED <<router, inbox, msg, root, hist, shared, session, hosted,
                   asked, crashes, ghosts>>

\* with_turn_guards: a permit, then the gate of the directory, then the count.
TakePermit(w) ==
    /\ pc[w] = "permit" /\ Cardinality(permits) < Permits
    /\ permits' = permits \cup {w}
    /\ pc' = [pc EXCEPT ![w] = "gate"]
    /\ UNCHANGED <<router, lane, inbox, msg, root, hist, doomed, gate, busy, files,
                   asked, crashes, ghosts>>

GatePerConv(w) == \A x \in Workers : pc[x] = "turn" => x[1] # w[1]
GateFree(w) == gate[root[w]] = Nobody

StartTurn(w) ==
    /\ pc[w] = "gate" /\ GateFree(w)
    /\ gate' = [gate EXCEPT ![root[w]] = w]
    /\ busy' = busy + 1
    /\ pc' = [pc EXCEPT ![w] = "turn"]
    /\ UNCHANGED <<router, lane, inbox, msg, root, hist, doomed, permits, files,
                   asked, crashes, ghosts>>

\* Permit, gate and count go back together, whatever ended the turn.
CountDown(w) == busy' = IF pc[w] = "turn" /\ busy > 0 THEN busy - 1 ELSE busy
ReleaseGate(w) ==
    /\ gate' = [r \in Roots |-> IF gate[r] = w THEN Nobody ELSE gate[r]]
    /\ root' = [root EXCEPT ![w] = Home]
    /\ UNCHANGED permits
ReleaseGuards(w) ==
    /\ permits' = permits \ {w}
    /\ gate' = [r \in Roots |-> IF gate[r] = w THEN Nobody ELSE gate[r]]
    /\ root' = [root EXCEPT ![w] = Home]

\* run_serve_turn returned: the message is in the history.  After an answer, and not
\* after an error, cap_session drops as many of the oldest turns as are needed to get
\* below its limit of messages, but never the newest.
EndTurn(w) ==
    /\ pc[w] = "turn"
    /\ \E n \in 0..Len(hist[w]) :
          /\ hist' = [hist EXCEPT ![w] = Append(SubSeq(@, n + 1, Len(@)), msg[w])]
          /\ capped' = capped \cup ToSet(SubSeq(hist[w], 1, n))
    /\ ReleaseGuards(w) /\ CountDown(w)
    /\ pc' = [pc EXCEPT ![w] = "save"]
    /\ UNCHANGED <<router, lane, inbox, msg, doomed, files, asked, crashes,
                   answered, lost, saved, forgotten, panicked>>

\* save_session, outside the guards; its error is ignored.
Save(w) ==
    /\ pc[w] = "save"
    /\ \/ /\ session' = [session EXCEPT ![w[1]] = hist[w]]
          /\ saved' = saved \cup ToSet(hist[w])
       \/ UNCHANGED <<session, saved>>
    /\ pc' = [pc EXCEPT ![w] = "reply"]
    /\ UNCHANGED <<router, lane, inbox, msg, root, hist, doomed, shared, cwd, hosted,
                   asked, crashes, answered, lost, forgotten, capped, panicked>>

\* send_reply needs the bot's client; the lane goes on either way.
Reply(w) ==
    /\ pc[w] = "reply"
    /\ IF Route(w) \in hosted
       THEN answered' = Append(answered, msg[w]) /\ UNCHANGED lost
       ELSE lost' = lost \cup {msg[w]} /\ UNCHANGED answered
    /\ pc' = [pc EXCEPT ![w] = "recv"] /\ msg' = [msg EXCEPT ![w] = 0]
    /\ UNCHANGED <<router, lane, inbox, root, hist, doomed, shared, files,
                   asked, crashes, saved, forgotten, capped, panicked>>

---------------------------------------------------------------------------
(* Faults.                                                                  *)

Unfinished(w) == ToSet(inbox[w]) \cup
                 (IF pc[w] \in {"none", "recv", "dead"} THEN {} ELSE {msg[w]})
Vanish(w) ==
    /\ pc' = [pc EXCEPT ![w] = "dead"]
    /\ inbox' = [inbox EXCEPT ![w] = <<>>]
    /\ msg' = [msg EXCEPT ![w] = 0] /\ hist' = [hist EXCEPT ![w] = <<>>]
    /\ lost' = lost \cup Unfinished(w)
    /\ ReleaseGuards(w) /\ CountDown(w)

\* A turn panics: its guards are dropped, its queue closes.
Panic(w) ==
    /\ pc[w] = "turn" /\ crashes < MaxCrashes
    /\ crashes' = crashes + 1 /\ panicked' = panicked \cup {w[1]}
    /\ Vanish(w)
    /\ UNCHANGED <<router, lane, doomed, files, asked,
                   answered, saved, forgotten, capped>>

\* An aborted task ends where it yields, which is not between a turn and its save.
Die(w) ==
    /\ w \in doomed /\ pc[w] \in {"recv", "permit", "gate", "turn", "reply"}
    /\ Vanish(w)
    /\ UNCHANGED <<router, lane, doomed, files, asked, crashes,
                   answered, saved, forgotten, capped, panicked>>

\* gc_sessions, at the boot of this daemon or of the other platform's, which has its
\* files in the same directory: those not written for 30 days go.
Filed == {c \in Convs : session[c] # NoFile}
Collect(old) ==
    /\ session' = [c \in Convs |-> IF c \in old THEN NoFile ELSE session[c]]
    /\ capped' = capped \cup UNION {ToSet(session[c]) : c \in old}

OtherBoot(c) ==
    /\ crashes < MaxCrashes /\ crashes' = crashes + 1
    /\ Collect({c})
    /\ UNCHANGED <<router, lane, worker, shared, cwd, hosted, asked,
                   answered, lost, saved, forgotten, panicked>>

\* The daemon is stopped (stop_all) or killed, and started again: what it
\* knows is in the files.
Restart(old) ==
    /\ crashes < MaxCrashes /\ crashes' = crashes + 1
    /\ hand' = <<>> /\ lane' = NoLanes
    /\ inbox' = Idle(<<>>) /\ pc' = Idle("none") /\ msg' = Idle(0) /\ root' = Idle(Home)
    /\ hist' = Idle(<<>>) /\ doomed' = {}
    /\ permits' = {} /\ gate' = OpenGates /\ busy' = 0
    /\ Collect(old)
    /\ seeds' = [c \in Convs |-> IF session'[c] = NoFile THEN <<>> ELSE session'[c]]
    /\ lost' = (1..Len(asked)) \ ToSet(answered)
    /\ UNCHANGED <<cwd, hosted, asked, answered, saved, forgotten, panicked>>

Works(w) == \/ Ask(w) \/ New(w) \/ ChangeDir(w) \/ RemoveBot(w) \/ StopRoute(w)
            \/ TakePermit(w) \/ StartTurn(w) \/ EndTurn(w) \/ Save(w) \/ Reply(w)
            \/ Die(w)

Next == \/ \E c \in Convs : \E k \in Says[c] : Arrive(c, k)
        \/ Deliver
        \/ \E w \in Workers : Works(w) \/ Panic(w)
        \/ \E c \in Filed : OtherBoot(c)
        \/ \E old \in SUBSET Filed : Restart(old)

\* The runtime polls ready tasks and turns end.  That some task runs is enough:
\* a message is finite work, and a guard is only waited for while another has it.
Spec == Init /\ [][Next]_vars /\ WF_vars(Deliver \/ \E w \in Workers : Works(w))

---------------------------------------------------------------------------
TypeOK ==
    /\ seeds \in [Convs -> Seq(Msgs)] /\ hand \in {<<>>} \cup Msgs \X Workers
    /\ lane \in [Convs -> 0..MaxGen]
    /\ inbox \in [Workers -> Seq(Msgs)] /\ (\A w \in Workers : Len(inbox[w]) <= Depth)
    /\ pc \in [Workers -> States] /\ msg \in [Workers -> Msgs \cup {0}]
    /\ root \in [Workers -> Roots] /\ hist \in [Workers -> Seq(Msgs)]
    /\ doomed \subseteq Workers /\ permits \subseteq Workers
    /\ gate \in [Roots -> Workers \cup {Nobody}] /\ busy \in 0..Permits
    /\ \A c \in Convs : session[c] # NoFile => session[c] \in Seq(Msgs)
    /\ cwd \in [Routes -> Roots] /\ hosted \subseteq Routes
    /\ asked \in Seq([conv : Convs, what : Kinds]) /\ crashes \in 0..MaxCrashes
    /\ answered \in Seq(Msgs) /\ UNION {lost, saved, forgotten, capped} \subseteq Msgs
    /\ panicked \subseteq Convs

\* lane.rs:18-25: turns that share a directory run one at a time, whichever bots
\* and lanes they belong to, and each holds one of the permits.
Gated == \A v, w \in Workers :
    pc[v] = "turn" /\ pc[w] = "turn" => /\ (root[v] = root[w] => v = w)
                                       /\ {v, w} \subseteq permits

\* The count a probe reads is the number of running turns, also after panics and
\* aborts; too high it would pin the daemon at busy (lane.rs:107-108).
BusyExact == busy = Cardinality({w \in Workers : pc[w] = "turn"})

\* Guards and count follow the running turns through /cd, panics, aborts and
\* restarts: one writer per directory, none that has ended (with_turn_guards).
OneWriterPerRoot == TypeOK /\ Gated /\ BusyExact

\* lane.rs:15-16: the replies of a conversation come in the order of its messages,
\* each once, over panics, removals and restarts.
InOrder == \A i, j \in DOMAIN answered :
    i < j /\ asked[answered[i]].conv = asked[answered[j]].conv
        => answered[i] < answered[j]

\* What /new dropped does not come back, from a seed, a stale file or another lane.
NewForgets ==
    /\ \A w \in Workers : Alive(w) => ToSet(hist[w]) \cap forgotten = {}
    /\ \A c \in Convs : session[c] # NoFile => ToSet(session[c]) \cap forgotten = {}

\* daemon.rs:586: a turn that was answered and saved stays in the file of its
\* conversation, for the next boot, unless the user drops it, a later turn pushes it
\* out, or the file is old.  (A lane that panicked is replaced by one without its
\* history: see the README.)
Remembered == \A m \in saved \ (forgotten \cup capped) :
    LET c == asked[m].conv IN
    c \notin panicked /\ RouteOf[c] \in hosted
        => session[c] # NoFile /\ m \in ToSet(session[c])

\* The history of a conversation is what was said in it since /new and not capped, no
\* more, no less.
HistoryTrue == NewForgets /\ Remembered

\* Every message is answered, or given up by a full queue, a panic, an abort, the
\* removal of its bot or the end of the daemon: no turn waits for ever.
Settles == \A m \in Msgs : m <= Len(asked) ~> m \in ToSet(answered) \cup lost
=============================================================================
