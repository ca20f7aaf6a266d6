----------------------------- MODULE LanesProofs -----------------------------
(* Proofs about the lanes of the chat daemon, for any number of bots,        *)
(* conversations, directories and messages: one turn per directory, replies  *)
(* in the order of the messages, and histories that hold what was said.      *)
EXTENDS Lanes, FiniteSetTheorems, SequenceTheorems, TLAPS

-----------------------------------------------------------------------------
(* The inductive invariant, part by part.                                    *)

Messages == 1..Len(asked)
ConvOf(m) == asked[m].conv
AtWork(w) == pc[w] \notin {"none", "recv", "dead"}

RouterType ==
    /\ seeds \in [Convs -> Seq(Msgs)] /\ hand \in {<<>>} \cup Msgs \X Workers
    /\ lane \in [Convs -> 0..MaxGen]
WorkerType ==
    /\ inbox \in [Workers -> Seq(Msgs)] /\ (\A w \in Workers : Len(inbox[w]) <= Depth)
    /\ pc \in [Workers -> States] /\ msg \in [Workers -> Msgs \cup {0}]
    /\ root \in [Workers -> Roots] /\ hist \in [Workers -> Seq(Msgs)]
    /\ doomed \subseteq Workers
SharedType ==
    /\ permits \subseteq Workers /\ gate \in [Roots -> Workers \cup {Nobody}]
    /\ busy \in Nat
FilesType ==
    /\ session = [c \in Convs |-> session[c]]
    /\ \A c \in Convs : session[c] # NoFile => session[c] \in Seq(Msgs)
    /\ cwd \in [Routes -> Roots] /\ hosted \subseteq Routes
HistoryType ==
    /\ asked \in Seq([conv : Convs, what : Kinds]) /\ Len(asked) <= MaxMsgs
    /\ crashes \in 0..MaxCrashes /\ answered \in Seq(Msgs)
    /\ lost \subseteq Msgs /\ saved \subseteq Msgs /\ forgotten \subseteq Msgs
    /\ capped \subseteq Msgs /\ panicked \subseteq Convs
(* A worker that is neither waiting nor gone has a message in hand.          *)
Holding == \A w \in Workers : AtWork(w) => msg[w] # 0
Types == RouterType /\ WorkerType /\ SharedType /\ FilesType /\ HistoryType /\ Holding

(* The generations of a conversation are started in order.                   *)
Started(c, n) == \A g \in 1..MaxGen : pc[<<c, g>>] # "none" <=> g <= n
Generations == \A c \in Convs : \E n \in 0..MaxGen : Started(c, n)

(* Permit and gate follow the worker: a permit from the gate on, the gate of *)
(* its directory for the turn.                                               *)
PermitInv == /\ IsFiniteSet(permits) /\ Cardinality(permits) <= Permits
             /\ \A w \in Workers : w \in permits <=> pc[w] \in {"gate", "turn"}
GateInv == /\ \A w \in Workers : pc[w] = "turn" => gate[root[w]] = w
           /\ \A r \in Roots : gate[r] # Nobody => pc[gate[r]] = "turn" /\ root[gate[r]] = r
Guarded == Types /\ Generations /\ PermitInv /\ GateInv /\ BusyExact

(* A doomed worker's bot is gone for good, and a bot that is polled has one  *)
(* worker per conversation: the one that is registered.                      *)
Removed == /\ \A w \in doomed : Route(w) \notin hosted
           /\ \A w \in Workers : pc[w] = "stop" => asked[msg[w]].what \notin hosted
Registered == \A w \in Workers :
    Alive(w) /\ Route(w) \in hosted => lane[w[1]] = w[2]
Handed == /\ \A c \in Convs : lane[c] # 0 => pc[<<c, lane[c]>>] # "none"
          /\ hand # <<>> => pc[hand[2]] # "none"
(* Only a panic or the removal of its bot ends a worker.                     *)
Gone == \A w \in Workers : pc[w] = "dead" =>
            w[1] \in panicked \/ Route(w) \notin hosted
Lived == Removed /\ Registered /\ Gone

(* Every message is of the conversation of the worker that has it, a queue is *)
(* in the order of the messages, behind the one in hand and before the one    *)
(* the router has.                                                            *)
HandOK == hand # <<>> => hand[1] = Len(asked) /\ hand[1] # 0 /\ ConvOf(hand[1]) = hand[2][1]
MsgOK(w) == msg[w] # 0 =>
    /\ AtWork(w) /\ msg[w] \in Messages /\ ConvOf(msg[w]) = w[1]
    /\ hand # <<>> => msg[w] < hand[1]
QueueOK(w) ==
    /\ ~Alive(w) => inbox[w] = <<>>
    /\ \A i \in 1..Len(inbox[w]) :
          /\ inbox[w][i] \in Messages /\ ConvOf(inbox[w][i]) = w[1]
          /\ msg[w] < inbox[w][i]
          /\ hand # <<>> => inbox[w][i] < hand[1]
    /\ \A i, j \in 1..Len(inbox[w]) : i < j => inbox[w][i] < inbox[w][j]
Queued == HandOK /\ \A w \in Workers : MsgOK(w) /\ QueueOK(w)

(* What was answered comes before what is still to be answered.              *)
Before(m) == \A i \in 1..Len(answered) :
    ConvOf(answered[i]) = ConvOf(m) => answered[i] < m
Answers ==
    /\ \A i \in 1..Len(answered) : answered[i] \in Messages
    /\ hand # <<>> => Before(hand[1])
    /\ \A w \in Workers : Route(w) \in hosted =>
          /\ msg[w] # 0 => Before(msg[w])
          /\ \A i \in 1..Len(inbox[w]) : Before(inbox[w][i])

(* What a worker, a file and a seed remember, and what a worker has not yet   *)
(* heard.                                                                     *)
Hist(w) == ToSet(hist[w])
Seeds(c) == ToSet(seeds[c])
File(c) == IF session[c] = NoFile THEN {} ELSE ToSet(session[c])
Pending(w) == ToSet(inbox[w]) \cup
              (IF pc[w] \in {"permit", "gate", "turn"} THEN {msg[w]} ELSE {})

(* A message whose turn has not ended is in no history and was not dropped;  *)
(* no two workers have a message in common, to come or heard.                *)
Unheard(m) == m \notin forgotten /\ \A w \in Workers : m \notin Hist(w)
Fresh == /\ hand # <<>> => Unheard(hand[1])
         /\ \A w \in Workers : \A m \in Pending(w) : Unheard(m)
Apart == \A v, w \in Workers : v # w =>
            Pending(v) \cap Pending(w) = {} /\ Hist(v) \cap Hist(w) = {}
(* Each history is of its conversation, and only a worker that lives has one. *)
Owned(s, c) == \A m \in s : m \in Messages /\ ConvOf(m) = c
Own == /\ \A w \in Workers : Owned(Hist(w), w[1]) /\ (~Alive(w) => Hist(w) = {})
       /\ \A c \in Convs : Owned(File(c), c) /\ Owned(Seeds(c), c)
       /\ forgotten \subseteq Messages /\ saved \subseteq Messages
(* The seed is of the time before the first lane of the conversation.        *)
Unborn(c) == \A w \in Workers : w[1] = c => pc[w] = "none"
Seeded == \A c \in Convs : Unborn(c) \/ Seeds(c) = {}
(* What was dropped is nowhere ...                                           *)
Forgot == /\ \A w \in Workers : Hist(w) \cap forgotten = {}
          /\ \A c \in Convs : File(c) \cap forgotten = {} /\ Seeds(c) \cap forgotten = {}
(* ... and what was saved and not dropped is in the file, in the history of  *)
(* the worker, and in the seed of the worker to come.                        *)
Keeps(c) == \A m \in saved \ (forgotten \cup capped) : ConvOf(m) = c =>
    /\ m \in File(c)
    /\ \A w \in Workers : Alive(w) /\ w[1] = c => m \in Hist(w)
    /\ Unborn(c) => m \in Seeds(c)
Kept == \A c \in Convs : c \notin panicked /\ RouteOf[c] \in hosted => Keeps(c)
Histories == Fresh /\ Apart /\ Own /\ Seeded /\ Forgot /\ Kept

-----------------------------------------------------------------------------
(* Workers and sequences.                                                    *)

(* A worker is a conversation and a generation.                              *)
LEMMA WorkerPairs ==
    /\ \A w \in Workers : w[1] \in Convs /\ w[2] \in 1..MaxGen /\ w = <<w[1], w[2]>>
    /\ \A c \in Convs, g \in 1..MaxGen : <<c, g>> \in Workers
BY DEF Workers

(* What Append, Head and Tail do to the elements of a sequence.              *)
LEMMA Elements ==
    ASSUME NEW S, NEW s \in Seq(S)
    PROVE  /\ ToSet(s) \subseteq S
           /\ \A e \in S : Append(s, e) \in Seq(S) /\ ToSet(Append(s, e)) = ToSet(s) \cup {e}
           /\ \A i \in 1..Len(s) : s[i] \in S /\ s[i] \in ToSet(s)
           /\ s # <<>> => /\ Head(s) \in ToSet(s) /\ Tail(s) \in Seq(S)
                          /\ Len(s) # 0 /\ Len(Tail(s)) = Len(s) - 1 /\ Head(s) = s[1]
                          /\ \A i \in 1..Len(Tail(s)) : Tail(s)[i] = s[i + 1]
                          /\ ToSet(Tail(s)) \subseteq ToSet(s)
PROOF
<1>1. DOMAIN s = 1..Len(s) /\ \A i \in 1..Len(s) : s[i] \in S
    OBVIOUS
<1>2. ToSet(s) \subseteq S /\ \A i \in 1..Len(s) : s[i] \in S /\ s[i] \in ToSet(s)
    BY <1>1 DEF ToSet
<1>3. ASSUME NEW e \in S PROVE Append(s, e) \in Seq(S) /\ ToSet(Append(s, e)) = ToSet(s) \cup {e}
    <2>1. /\ Append(s, e) \in Seq(S) /\ Len(Append(s, e)) = Len(s) + 1
          /\ \A i \in 1..Len(s) : Append(s, e)[i] = s[i]
          /\ Append(s, e)[Len(s) + 1] = e
        BY AppendProperties
    <2>2. DOMAIN Append(s, e) = 1..(Len(s) + 1) /\ Len(s) \in Nat
        BY <2>1
    <2>3. ToSet(Append(s, e)) \subseteq ToSet(s) \cup {e}
        BY <1>1, <2>1, <2>2 DEF ToSet
    <2>4. ToSet(s) \cup {e} \subseteq ToSet(Append(s, e))
        BY <1>1, <2>1, <2>2 DEF ToSet
    <2> QED BY <2>1, <2>3, <2>4
<1>4. ASSUME s # <<>>
      PROVE  /\ Head(s) \in ToSet(s) /\ Tail(s) \in Seq(S)
             /\ Len(s) # 0 /\ Len(Tail(s)) = Len(s) - 1 /\ Head(s) = s[1]
             /\ \A i \in 1..Len(Tail(s)) : Tail(s)[i] = s[i + 1]
             /\ ToSet(Tail(s)) \subseteq ToSet(s)
    <2>1. Len(s) \in Nat /\ Len(s) # 0
        BY <1>4, EmptySeq
    <2>2. /\ Tail(s) \in Seq(S) /\ Len(Tail(s)) = Len(s) - 1 /\ Head(s) = s[1]
          /\ \A i \in 1..Len(Tail(s)) : Tail(s)[i] = s[i + 1]
        BY <1>4, <2>1, HeadTailProperties
    <2>3. Head(s) \in ToSet(s)
        BY <1>2, <2>1, <2>2
    <2>4. DOMAIN Tail(s) = 1..(Len(s) - 1)
        BY <2>2
    <2>5. ToSet(Tail(s)) \subseteq ToSet(s)
        BY <1>1, <2>1, <2>2, <2>4 DEF ToSet
    <2> QED BY <2>1, <2>2, <2>3, <2>5
<1> QED BY <1>2, <1>3, <1>4

LEMMA NoElements == ToSet(<<>>) = {}
BY DEF ToSet

(* A sequence cut after its first n elements.                                *)
LEMMA Cuts ==
    ASSUME NEW S, NEW s \in Seq(S), NEW n \in 0..Len(s)
    PROVE  /\ SubSeq(s, 1, n) \in Seq(S) /\ SubSeq(s, n + 1, Len(s)) \in Seq(S)
           /\ ToSet(SubSeq(s, 1, n)) \subseteq S
           /\ ToSet(s) = ToSet(SubSeq(s, 1, n)) \cup ToSet(SubSeq(s, n + 1, Len(s)))
PROOF
<1>1. PICK l, f, r : l = Len(s) /\ f = SubSeq(s, 1, n) /\ r = SubSeq(s, n + 1, l)
    OBVIOUS
<1>2. l \in Nat /\ n \in Nat /\ n <= l /\ DOMAIN s = 1..l /\ \A i \in 1..l : s[i] \in S
    BY <1>1, LenProperties
<1>3. f \in Seq(S) /\ DOMAIN f = 1..n /\ \A i \in 1..n : f[i] = s[i]
    <2>1. /\ SubSeq(s, 1, n) \in Seq(S)
          /\ Len(SubSeq(s, 1, n)) = IF 1 <= n THEN n - 1 + 1 ELSE 0
          /\ \A i \in 1..(n - 1 + 1) : SubSeq(s, 1, n)[i] = s[1 + i - 1]
        BY <1>2, SubSeqProperties
    <2>2. Len(f) = n
        BY <1>1, <1>2, <2>1
    <2> QED BY <1>1, <1>2, <2>1, <2>2
<1>4. r \in Seq(S) /\ DOMAIN r = 1..(l - n) /\ \A i \in 1..(l - n) : r[i] = s[n + i]
    <2>1. /\ SubSeq(s, n + 1, l) \in Seq(S)
          /\ Len(SubSeq(s, n + 1, l)) = IF n + 1 <= l THEN l - (n + 1) + 1 ELSE 0
          /\ \A i \in 1..(l - (n + 1) + 1) : SubSeq(s, n + 1, l)[i] = s[n + 1 + i - 1]
        BY <1>2, SubSeqProperties
    <2>2. Len(r) = l - n
        BY <1>1, <1>2, <2>1
    <2> QED BY <1>1, <1>2, <2>1, <2>2
<1>5. ToSet(f) \subseteq ToSet(s) /\ ToSet(r) \subseteq ToSet(s)
    <2>1. \A i \in 1..n : i \in 1..l
        BY <1>2
    <2>2. \A i \in 1..(l - n) : n + i \in 1..l
        BY <1>2
    <2>3. ToSet(f) \subseteq ToSet(s)
        BY <1>2, <1>3, <2>1 DEF ToSet
    <2>4. ToSet(r) \subseteq ToSet(s)
        BY <1>2, <1>4, <2>2 DEF ToSet
    <2> QED BY <2>3, <2>4
<1>6. ASSUME NEW i \in 1..l PROVE s[i] \in ToSet(f) \cup ToSet(r)
    <2>1. CASE i <= n BY <1>2, <1>3, <2>1 DEF ToSet
    <2>2. CASE i > n
        <3>1. i - n \in 1..(l - n) /\ n + (i - n) = i BY <1>2, <2>2
        <3> QED BY <1>4, <3>1 DEF ToSet
    <2> QED BY <1>2, <2>1, <2>2
<1>7. ToSet(s) = ToSet(f) \cup ToSet(r)
    BY <1>2, <1>5, <1>6 DEF ToSet
<1> QED BY <1>1, <1>3, <1>4, <1>7, Elements

-----------------------------------------------------------------------------
(* Types.                                                                    *)

LEMMA InitTypes == Init => Types
<1> SUFFICES ASSUME Init PROVE Types
    OBVIOUS
<1> USE LanesConstants DEF Init
<1>1. RouterType BY DEF RouterType, NoLanes
<1>2. WorkerType BY DEF WorkerType, Idle, States
<1>3. SharedType BY DEF SharedType, OpenGates
<1>4. FilesType BY DEF FilesType
<1>5. HistoryType BY DEF HistoryType
<1>6. Holding BY DEF Holding, AtWork, Idle
<1> QED BY <1>1, <1>2, <1>3, <1>4, <1>5, <1>6 DEF Types

(* A step of a worker leaves every other worker as it was.                   *)
LEMMA Elsewhere ==
    ASSUME WorkerType, NEW w \in Workers, Works(w) \/ Panic(w)
    PROVE  \A v \in Workers \ {w} :
               /\ inbox'[v] = inbox[v] /\ pc'[v] = pc[v] /\ msg'[v] = msg[v]
               /\ root'[v] = root[v] /\ hist'[v] = hist[v]
<1> USE DEF WorkerType
<1>1. CASE Ask(w) BY <1>1 DEF Ask, Take
<1>2. CASE New(w) BY <1>2 DEF New, Take
<1>3. CASE ChangeDir(w) BY <1>3 DEF ChangeDir, Take
<1>4. CASE RemoveBot(w) BY <1>4 DEF RemoveBot, Take
<1>5. CASE StopRoute(w) BY <1>5 DEF StopRoute
<1>6. CASE TakePermit(w) BY <1>6 DEF TakePermit
<1>7. CASE StartTurn(w) BY <1>7 DEF StartTurn
<1>8. CASE EndTurn(w) BY <1>8 DEF EndTurn, ReleaseGuards
<1>9. CASE Save(w) BY <1>9 DEF Save
<1>10. CASE Reply(w) BY <1>10 DEF Reply
<1>11. CASE Die(w) BY <1>11 DEF Die, Vanish, ReleaseGuards
<1>12. CASE Panic(w) BY <1>12 DEF Panic, Vanish, ReleaseGuards
<1> QED BY <1>1, <1>2, <1>3, <1>4, <1>5, <1>6, <1>7, <1>8, <1>9, <1>10, <1>11, <1>12 DEF Works

(* What a worker takes from its queue.                                       *)
LEMMA Taken ==
    ASSUME WorkerType, NEW w \in Workers, NEW next, Take(w, next)
    PROVE  /\ Head(inbox[w]) \in Msgs /\ Head(inbox[w]) \in ToSet(inbox[w])
           /\ Tail(inbox[w]) \in Seq(Msgs) /\ Len(Tail(inbox[w])) \in Nat
           /\ Len(Tail(inbox[w])) = Len(inbox[w]) - 1 /\ Len(inbox[w]) \in Nat
<1>1. inbox[w] \in Seq(Msgs) /\ inbox[w] # <<>>
    BY DEF WorkerType, Take
<1> QED BY <1>1, Elements, LenProperties

(* A message in hand is a message.                                           *)
LEMMA Held ==
    ASSUME Types, NEW w \in Workers, AtWork(w)
    PROVE  msg[w] \in Msgs
BY DEF Types, Holding, WorkerType, Msgs

LEMMA TakeTypes ==
    ASSUME Types, NEW w \in Workers, NEW p \in {"permit", "reply", "stop"}, Take(w, p)
    PROVE  /\ inbox' \in [Workers -> Seq(Msgs)] /\ (\A v \in Workers : Len(inbox'[v]) <= Depth)
           /\ pc' \in [Workers -> States] /\ msg' \in [Workers -> Msgs \cup {0}]
           /\ Holding'
<1>1. PICK m, q : m = Head(inbox[w]) /\ q = Tail(inbox[w])
    OBVIOUS
<1>2. m \in Msgs /\ m # 0 /\ q \in Seq(Msgs) /\ Len(q) <= Depth
    BY <1>1, Taken, LanesConstants, SMTT(30) DEF Msgs, Types, WorkerType
<1>3. inbox' = [inbox EXCEPT ![w] = q] /\ msg' = [msg EXCEPT ![w] = m]
      /\ pc' = [pc EXCEPT ![w] = p]
    BY <1>1 DEF Take
<1> QED BY <1>2, <1>3 DEF Types, WorkerType, Holding, AtWork, States

(* What cap_session leaves of a history, and what the turn adds to it.        *)
LEMMA Ending ==
    ASSUME Types, NEW w \in Workers, EndTurn(w)
    PROVE  \E h \in Seq(Msgs), gone \in SUBSET Msgs :
              /\ hist' = [hist EXCEPT ![w] = h] /\ capped' = capped \cup gone
              /\ ToSet(h) \subseteq ToSet(hist[w]) \cup {msg[w]} /\ msg[w] \in ToSet(h)
              /\ ToSet(hist[w]) \subseteq ToSet(h) \cup gone
<1>1. PICK s, m : s = hist[w] /\ m = msg[w]
    OBVIOUS
<1>2. s \in Seq(Msgs) /\ m \in Msgs
    BY <1>1, Held DEF Types, WorkerType, EndTurn, AtWork
<1>3. PICK n \in 0..Len(s) :
         /\ hist' = [hist EXCEPT ![w] = Append(SubSeq(s, n + 1, Len(s)), m)]
         /\ capped' = capped \cup ToSet(SubSeq(s, 1, n))
    BY <1>1 DEF EndTurn
<1>4. PICK r, f : r = SubSeq(s, n + 1, Len(s)) /\ f = SubSeq(s, 1, n)
    OBVIOUS
<1>5. /\ r \in Seq(Msgs) /\ ToSet(f) \subseteq Msgs /\ ToSet(s) = ToSet(f) \cup ToSet(r)
    BY <1>2, <1>4, Cuts
<1>6. Append(r, m) \in Seq(Msgs) /\ ToSet(Append(r, m)) = ToSet(r) \cup {m}
    BY <1>2, <1>5, Elements
<1>7. PICK h : h = Append(r, m)
    OBVIOUS
<1>8. h \in Seq(Msgs) /\ ToSet(f) \in SUBSET Msgs /\ ToSet(h) = ToSet(r) \cup {m}
    BY <1>5, <1>6, <1>7
<1>9. hist' = [hist EXCEPT ![w] = h] /\ capped' = capped \cup ToSet(f)
    BY <1>3, <1>4, <1>7
<1> QED BY <1>1, <1>5, <1>8, <1>9

(* What gc_sessions leaves of the files.                                     *)
LEMMA Collecting ==
    ASSUME Types, NEW old \in SUBSET Filed, Collect(old)
    PROVE  /\ session' = [c \in Convs |-> session'[c]]
           /\ \A c \in Convs : session'[c] # NoFile => session'[c] \in Seq(Msgs)
           /\ \A c \in Convs : File(c)' = IF c \in old THEN {} ELSE File(c)
           /\ capped' = capped \cup UNION {File(c) : c \in old}
           /\ capped' \subseteq Msgs
<1>1. session' = [c \in Convs |-> IF c \in old THEN NoFile ELSE session[c]]
    BY DEF Collect
<1>2. \A c \in old : File(c) = ToSet(session[c])
    BY DEF Filed, File
<1>3. capped' = capped \cup UNION {File(c) : c \in old}
    BY <1>2 DEF Collect
<1>4. ASSUME NEW c \in old PROVE File(c) \subseteq Msgs
    <2>1. session[c] \in Seq(Msgs)
        BY DEF Filed, Types, FilesType
    <2> QED BY <1>2, <2>1, Elements
<1>5. capped' \subseteq Msgs
    BY <1>3, <1>4 DEF Types, HistoryType
<1>6. \A c \in Convs : File(c)' = IF c \in old THEN {} ELSE File(c)
    BY <1>1 DEF File
<1> QED BY <1>1, <1>3, <1>5, <1>6 DEF Types, FilesType

LEMMA WorkerTypes ==
    ASSUME Types, NEW w \in Workers, Works(w) \/ Panic(w)
    PROVE  WorkerType' /\ Holding'
<1>0. Home \in Roots /\ Route(w) \in Routes /\ \A c \in Convs : lane[c] # 0 => <<c, lane[c]>> \in Workers
    BY LanesConstants, WorkerPairs DEF Route, Types, RouterType
<1> USE DEF Types, WorkerType, Holding, AtWork, States
<1>1. CASE Ask(w)
    <2>1. Take(w, "permit") BY <1>1 DEF Ask
    <2>2. cwd[Route(w)] \in Roots BY <1>0 DEF FilesType
    <2> QED BY <1>1, <2>1, <2>2, TakeTypes DEF Ask
<1>2. CASE New(w)
    <2>1. Take(w, "reply") BY <1>2 DEF New
    <2>2. <<>> \in Seq(Msgs) BY EmptySeq
    <2> QED BY <1>2, <2>1, <2>2, TakeTypes DEF New
<1>3. CASE ChangeDir(w)
    <2>1. Take(w, "reply") BY <1>3 DEF ChangeDir
    <2> QED BY <1>3, <2>1, TakeTypes DEF ChangeDir
<1>4. CASE RemoveBot(w)
    <2>1. PICK p \in {"stop", "reply"} : Take(w, p) BY <1>4 DEF RemoveBot
    <2> QED BY <1>4, <2>1, TakeTypes DEF RemoveBot
<1>5. CASE StopRoute(w)
    <2>1. doomed' \subseteq Workers BY <1>0, <1>5 DEF StopRoute
    <2> QED BY <1>5, <2>1 DEF StopRoute
<1>6. CASE TakePermit(w) BY <1>6 DEF TakePermit
<1>7. CASE StartTurn(w) BY <1>7 DEF StartTurn
<1>8. CASE EndTurn(w)
    <2>1. PICK h : h \in Seq(Msgs) /\ hist' = [hist EXCEPT ![w] = h]
        BY <1>8, Ending DEF Types
    <2> QED BY <1>0, <1>8, <2>1 DEF EndTurn, ReleaseGuards
<1>9. CASE Save(w) BY <1>9 DEF Save
<1>10. CASE Reply(w) BY <1>10 DEF Reply
<1>11. CASE Die(w) \/ Panic(w)
    <2>1. <<>> \in Seq(Msgs) /\ Len(<<>>) <= Depth BY EmptySeq, LanesConstants
    <2>2. inbox' \in [Workers -> Seq(Msgs)] /\ \A v \in Workers : Len(inbox'[v]) <= Depth
        BY <1>11, <2>1, ZenonT(60) DEF Die, Panic, Vanish
    <2>3. pc' \in [Workers -> States] /\ msg' \in [Workers -> Msgs \cup {0}] /\ Holding'
        BY <1>11 DEF Die, Panic, Vanish
    <2>4. root' \in [Workers -> Roots]
        BY <1>0, <1>11 DEF Die, Panic, Vanish, ReleaseGuards
    <2>5. hist' \in [Workers -> Seq(Msgs)]
        BY <1>11, <2>1 DEF Die, Panic, Vanish
    <2> QED BY <1>11, <2>2, <2>3, <2>4, <2>5 DEF Die, Panic
<1> QED BY <1>1, <1>2, <1>3, <1>4, <1>5, <1>6, <1>7, <1>8, <1>9, <1>10, <1>11 DEF Works

LEMMA OtherTypes ==
    ASSUME Types, NEW w \in Workers, Works(w) \/ Panic(w)
    PROVE  RouterType' /\ SharedType' /\ FilesType' /\ HistoryType'
<1> USE DEF Types
<1>0. /\ Home \in Roots /\ Route(w) \in Routes /\ 0 \in 0..MaxGen /\ w[1] \in Convs
      /\ hist[w] \in Seq(Msgs) /\ inbox[w] \in Seq(Msgs)
      /\ ToSet(hist[w]) \subseteq Msgs /\ ToSet(inbox[w]) \subseteq Msgs
    BY LanesConstants, WorkerPairs, Elements DEF Route, WorkerType
<1>1. CASE Ask(w) BY <1>1 DEF Ask, Take, RouterType, SharedType, FilesType, HistoryType, router, shared, files, ghosts
<1>2. CASE New(w)
    <2>1. FilesType' BY <1>0, <1>2 DEF New, ForgetsFile, FilesType
    <2>2. HistoryType' BY <1>0, <1>2 DEF New, HistoryType
    <2> QED BY <1>2, <2>1, <2>2 DEF New, RouterType, SharedType, router, shared
<1>3. CASE ChangeDir(w)
    <2>1. FilesType' BY <1>0, <1>3 DEF ChangeDir, FilesType
    <2> QED BY <1>3, <2>1 DEF ChangeDir, RouterType, SharedType, HistoryType, router, shared, ghosts
<1>4. CASE RemoveBot(w)
    <2>1. FilesType' BY <1>4 DEF RemoveBot, FilesType
    <2> QED BY <1>4, <2>1 DEF RemoveBot, RouterType, SharedType, HistoryType, router, shared, ghosts
<1>5. CASE StopRoute(w)
    <2>1. FilesType' BY <1>0, <1>5 DEF StopRoute, FilesType
    <2>2. RouterType' BY <1>0, <1>5 DEF StopRoute, RouterType, router
    <2> QED BY <1>5, <2>1, <2>2 DEF StopRoute, SharedType, HistoryType, shared, ghosts
<1>6. CASE TakePermit(w)
    <2>1. SharedType' BY <1>6 DEF TakePermit, SharedType
    <2> QED BY <1>6, <2>1 DEF TakePermit, RouterType, FilesType, HistoryType, router, files, ghosts
<1>7. CASE StartTurn(w)
    <2>1. gate' \in [Roots -> Workers \cup {Nobody}] BY <1>7 DEF StartTurn, SharedType
    <2>2. busy' \in Nat BY <1>7 DEF StartTurn, SharedType
    <2> QED BY <1>7, <2>1, <2>2 DEF StartTurn, SharedType, RouterType, FilesType, HistoryType, router, files, ghosts
<1>8. CASE EndTurn(w)
    <2>1. SharedType' BY <1>8 DEF EndTurn, ReleaseGuards, CountDown, SharedType
    <2>2. capped' \subseteq Msgs BY <1>8, Ending DEF HistoryType
    <2>3. HistoryType' BY <1>8, <2>2 DEF EndTurn, HistoryType
    <2> QED BY <1>8, <2>1, <2>3 DEF EndTurn, RouterType, FilesType, router, files
<1>9. CASE Save(w)
    <2>1. FilesType' BY <1>0, <1>9 DEF Save, FilesType
    <2>2. HistoryType' BY <1>0, <1>9 DEF Save, HistoryType
    <2> QED BY <1>9, <2>1, <2>2 DEF Save, RouterType, SharedType, router, shared
<1>10. CASE Reply(w)
    <2>1. msg[w] \in Msgs BY <1>10, Held DEF Reply, AtWork
    <2>2. Append(answered, msg[w]) \in Seq(Msgs) BY <2>1, Elements DEF HistoryType
    <2>3. HistoryType' BY <1>10, <2>1, <2>2 DEF Reply, HistoryType
    <2> QED BY <1>10, <2>3 DEF Reply, RouterType, SharedType, FilesType, router, shared, files
<1>11. CASE Die(w) \/ Panic(w)
    <2>1. SharedType' BY <1>11 DEF Die, Panic, Vanish, ReleaseGuards, CountDown, SharedType
    <2>2. Unfinished(w) \subseteq Msgs BY <1>0, Held DEF Unfinished, AtWork
    <2>3. HistoryType' BY <1>0, <1>11, <2>2, LanesConstants DEF Die, Panic, Vanish, HistoryType
    <2> QED BY <1>11, <2>1, <2>3 DEF Die, Panic, RouterType, FilesType, router, files
<1> QED BY <1>1, <1>2, <1>3, <1>4, <1>5, <1>6, <1>7, <1>8, <1>9, <1>10, <1>11 DEF Works

LEMMA ArriveTypes ==
    ASSUME Types, NEW c \in Convs, NEW k \in Says[c], Arrive(c, k)
    PROVE  Types'
<1> USE DEF Types
<1>1. PICK w : w = (IF Open(c) THEN <<c, lane[c]>>
                    ELSE <<c, Cardinality({g \in 1..MaxGen : pc[<<c, g>>] # "none"}) + 1>>)
    OBVIOUS
<1>2. /\ hand = <<>> /\ Len(asked) < MaxMsgs /\ w \in Workers
      /\ asked' = Append(asked, [conv |-> c, what |-> k])
      /\ hand' = <<Len(asked'), w>>
      /\ seeds' = [seeds EXCEPT ![c] = <<>>]
      /\ lane' = [lane EXCEPT ![c] = w[2]]
      /\ IF Open(c) THEN UNCHANGED <<pc, hist>>
                    ELSE pc' = [pc EXCEPT ![w] = "recv"] /\ hist' = [hist EXCEPT ![w] = Seed(c)]
      /\ UNCHANGED <<inbox, msg, root, doomed, shared, files, crashes, ghosts>>
    BY <1>1 DEF Arrive
<1>3. [conv |-> c, what |-> k] \in [conv : Convs, what : Kinds]
    BY LanesConstants DEF Kinds
<1>4. /\ asked' \in Seq([conv : Convs, what : Kinds]) /\ Len(asked') = Len(asked) + 1
      /\ Len(asked) \in Nat
    BY <1>2, <1>3, AppendProperties, LenProperties DEF HistoryType
<1>5. HistoryType'
    BY <1>2, <1>4, LanesConstants DEF HistoryType, ghosts
<1>6. Len(asked') \in Msgs
    BY <1>2, <1>4, LanesConstants DEF Msgs
<1>7. RouterType'
    BY <1>2, <1>6, EmptySeq, WorkerPairs DEF RouterType
<1>8. WorkerType' /\ Holding'
    <2>1. Seed(c) \in Seq(Msgs)
        BY DEF RouterType, Seed
    <2> QED BY <1>2, <2>1 DEF WorkerType, Holding, AtWork, States
<1> QED BY <1>2, <1>5, <1>7, <1>8 DEF SharedType, FilesType, shared, files

LEMMA DeliverTypes ==
    ASSUME Types, Deliver
    PROVE  Types'
<1> USE DEF Types
<1>1. PICK m, w : m = hand[1] /\ w = hand[2]
    OBVIOUS
<1>2. m \in Msgs /\ w \in Workers /\ Len(inbox[w]) \in Nat
    BY <1>1, LenProperties DEF RouterType, WorkerType, Deliver
<1>3. /\ \/ Room(w) /\ inbox' = [inbox EXCEPT ![w] = Append(inbox[w], m)] /\ UNCHANGED lost
         \/ lost' = lost \cup {m} /\ UNCHANGED inbox
      /\ hand' = <<>>
      /\ UNCHANGED <<seeds, lane, pc, msg, root, hist, doomed, shared, files, asked,
                     crashes, answered, saved, forgotten, capped, panicked>>
    BY <1>1 DEF Deliver
<1>4. Append(inbox[w], m) \in Seq(Msgs) /\ Len(Append(inbox[w], m)) = Len(inbox[w]) + 1
    BY <1>2, AppendProperties DEF WorkerType
<1>5. WorkerType' /\ Holding'
    <2>1. Depth \in Nat BY LanesConstants
    <2>2. inbox' \in [Workers -> Seq(Msgs)]
        BY <1>2, <1>3, <1>4 DEF WorkerType
    <2>3. ASSUME NEW v \in Workers PROVE Len(inbox'[v]) <= Depth
        <3>1. CASE inbox'[v] = inbox[v] BY <3>1 DEF WorkerType
        <3>2. CASE Room(w) /\ inbox'[v] = Append(inbox[w], m)
            BY <1>2, <1>4, <2>1, <3>2 DEF Room
        <3> QED BY <1>2, <1>3, <3>1, <3>2 DEF WorkerType
    <2> QED BY <1>3, <2>2, <2>3 DEF WorkerType, Holding, AtWork
<1>6. HistoryType'
    BY <1>2, <1>3 DEF HistoryType
<1> QED BY <1>3, <1>5, <1>6 DEF RouterType, SharedType, FilesType, shared, files

LEMMA BootTypes ==
    ASSUME Types, NEW c \in Filed, OtherBoot(c)
    PROVE  Types'
<1>1. {c} \in SUBSET Filed /\ Collect({c})
    BY DEF OtherBoot
<1>2. /\ session' = [d \in Convs |-> session'[d]] /\ capped' \subseteq Msgs
      /\ \A d \in Convs : session'[d] # NoFile => session'[d] \in Seq(Msgs)
    BY <1>1, Collecting
<1>3. FilesType'
    BY <1>2 DEF OtherBoot, Types, FilesType
<1>4. HistoryType'
    BY <1>2, LanesConstants DEF OtherBoot, Types, HistoryType
<1> QED BY <1>3, <1>4 DEF OtherBoot, Types, RouterType, WorkerType, SharedType, Holding, AtWork,
           router, worker, shared

LEMMA RestartTypes ==
    ASSUME Types, NEW old \in SUBSET Filed, Restart(old)
    PROVE  Types'
<1>0. (\A S : <<>> \in Seq(S) /\ Len(<<>>) = 0) /\ Collect(old)
    BY EmptySeq DEF Restart
<1>1. /\ session' = [c \in Convs |-> session'[c]] /\ capped' \subseteq Msgs
      /\ \A c \in Convs : session'[c] # NoFile => session'[c] \in Seq(Msgs)
    BY <1>0, Collecting
<1> USE LanesConstants DEF Types, Restart
<1>2. RouterType' BY <1>0, <1>1 DEF RouterType, NoLanes
<1>3. WorkerType' BY <1>0 DEF WorkerType, Idle, States
<1>4. SharedType' BY DEF SharedType, OpenGates
<1>5. FilesType' BY <1>1 DEF FilesType
<1>6. HistoryType'
    <2>1. Len(asked) \in Nat BY LenProperties DEF HistoryType
    <2>2. lost' \subseteq Msgs BY <2>1 DEF HistoryType, Msgs
    <2> QED BY <1>1, <2>2 DEF HistoryType
<1>7. Holding' BY DEF Holding, AtWork, Idle
<1> QED BY <1>2, <1>3, <1>4, <1>5, <1>6, <1>7

LEMMA StepTypes == Types /\ [Next]_vars => Types'
<1> SUFFICES ASSUME Types, [Next]_vars PROVE Types'
    OBVIOUS
<1>1. CASE \E c \in Convs : \E k \in Says[c] : Arrive(c, k) BY <1>1, ArriveTypes
<1>2. CASE Deliver BY <1>2, DeliverTypes
<1>3. CASE \E w \in Workers : Works(w) \/ Panic(w)
    BY <1>3, WorkerTypes, OtherTypes DEF Types
<1>4. CASE \E old \in SUBSET Filed : Restart(old) BY <1>4, RestartTypes
<1>6. CASE \E c \in Filed : OtherBoot(c) BY <1>6, BootTypes
<1>5. CASE UNCHANGED vars
    BY <1>5 DEF vars, router, worker, shared, files, ghosts, Types, RouterType, WorkerType,
       SharedType, FilesType, HistoryType, Holding, AtWork
<1> QED BY <1>1, <1>2, <1>3, <1>4, <1>5, <1>6 DEF Next

-----------------------------------------------------------------------------
(* One turn per directory.                                                   *)

Moves(w) == /\ pc[w] \notin {"none", "dead"} /\ pc'[w] # "none"
            /\ \A v \in Workers \ {w} : pc'[v] = pc[v] /\ root'[v] = root[v]
Enters(w) == /\ pc[w] = "permit" /\ pc'[w] = "gate" /\ UNCHANGED <<gate, busy>>
             /\ permits' = permits \cup {w} /\ Cardinality(permits) < Permits
Starts(w) == /\ pc[w] = "gate" /\ pc'[w] = "turn" /\ root'[w] = root[w]
             /\ gate[root[w]] = Nobody /\ gate' = [gate EXCEPT ![root[w]] = w]
             /\ busy' = busy + 1 /\ UNCHANGED permits
Leaves(w) == /\ pc'[w] \notin {"gate", "turn"} /\ permits' = permits \ {w}
             /\ gate' = [r \in Roots |-> IF gate[r] = w THEN Nobody ELSE gate[r]]
             /\ CountDown(w)
Stays(w) == /\ {pc[w], pc'[w]} \cap {"gate", "turn"} = {}
            /\ UNCHANGED <<permits, gate, busy>>

(* A worker gets its permit, then its gate, gives both back, or has none.    *)
LEMMA Guarding ==
    ASSUME Types, NEW w \in Workers, Works(w) \/ Panic(w)
    PROVE  Moves(w) /\ (Enters(w) \/ Starts(w) \/ Leaves(w) \/ Stays(w))
<1>0. pc'[w] # "none" => Moves(w) \/ pc[w] \in {"none", "dead"}
    BY Elsewhere DEF Types, Moves
<1> USE DEF Types, WorkerType
<1>1. CASE Ask(w)
    <2>1. pc[w] = "recv" /\ pc'[w] = "permit" BY <1>1 DEF Ask, Take
    <2> QED BY <1>0, <1>1, <2>1 DEF Ask, Stays, shared
<1>2. CASE New(w)
    <2>1. pc[w] = "recv" /\ pc'[w] = "reply" BY <1>2 DEF New, Take
    <2> QED BY <1>0, <1>2, <2>1 DEF New, Stays, shared
<1>3. CASE ChangeDir(w)
    <2>1. pc[w] = "recv" /\ pc'[w] = "reply" BY <1>3 DEF ChangeDir, Take
    <2> QED BY <1>0, <1>3, <2>1 DEF ChangeDir, Stays, shared
<1>4. CASE RemoveBot(w)
    <2>1. pc[w] = "recv" /\ pc'[w] \in {"reply", "stop"} BY <1>4 DEF RemoveBot, Take
    <2> QED BY <1>0, <1>4, <2>1 DEF RemoveBot, Stays, shared
<1>5. CASE StopRoute(w)
    <2>1. pc[w] = "stop" /\ pc'[w] = "reply" BY <1>5 DEF StopRoute
    <2> QED BY <1>0, <1>5, <2>1 DEF StopRoute, Stays, shared
<1>6. CASE TakePermit(w)
    <2>1. pc[w] = "permit" /\ pc'[w] = "gate" BY <1>6 DEF TakePermit
    <2> QED BY <1>0, <1>6, <2>1 DEF TakePermit, Enters
<1>7. CASE StartTurn(w)
    <2>1. pc[w] = "gate" /\ pc'[w] = "turn" /\ root'[w] = root[w] BY <1>7 DEF StartTurn
    <2> QED BY <1>0, <1>7, <2>1 DEF StartTurn, Starts, GateFree
<1>8. CASE EndTurn(w)
    <2>1. pc[w] = "turn" /\ pc'[w] = "save" BY <1>8 DEF EndTurn
    <2> QED BY <1>0, <1>8, <2>1 DEF EndTurn, Leaves, ReleaseGuards
<1>9. CASE Save(w)
    <2>1. pc[w] = "save" /\ pc'[w] = "reply" BY <1>9 DEF Save
    <2> QED BY <1>0, <1>9, <2>1 DEF Save, Stays, shared
<1>10. CASE Reply(w)
    <2>1. pc[w] = "reply" /\ pc'[w] = "recv" BY <1>10 DEF Reply
    <2> QED BY <1>0, <1>10, <2>1 DEF Reply, Stays, shared
<1>11. CASE Die(w) \/ Panic(w)
    <2>1. pc[w] \notin {"none", "dead"} /\ pc'[w] = "dead" /\ Vanish(w)
        BY <1>11 DEF Die, Panic, Vanish
    <2> QED BY <1>0, <2>1 DEF Vanish, Leaves, ReleaseGuards
<1> QED BY <1>1, <1>2, <1>3, <1>4, <1>5, <1>6, <1>7, <1>8, <1>9, <1>10, <1>11 DEF Works

(* The turns that run are few, as each has a permit.                         *)
Running == {w \in Workers : pc[w] = "turn"}
LEMMA FewTurns ==
    ASSUME PermitInv
    PROVE  /\ Running \subseteq permits /\ IsFiniteSet(Running)
           /\ Cardinality(Running) \in Nat /\ Cardinality(Running) <= Cardinality(permits)
<1>1. Running \subseteq permits
    BY DEF PermitInv, Running
<1> QED BY <1>1, FS_Subset, FS_CardinalityType DEF PermitInv

LEMMA PermitStep ==
    ASSUME Guarded, NEW w \in Workers, Works(w) \/ Panic(w)
    PROVE  PermitInv'
<1> USE DEF Guarded, PermitInv, Moves
<1>0. Moves(w) /\ (Enters(w) \/ Starts(w) \/ Leaves(w) \/ Stays(w))
    BY Guarding
<1>1. CASE Enters(w)
    <2>1. w \notin permits /\ permits' = permits \cup {w}
        BY <1>1 DEF Enters
    <2>2. IsFiniteSet(permits') /\ Cardinality(permits') = Cardinality(permits) + 1
        BY <2>1, FS_AddElement
    <2>3. Cardinality(permits') <= Permits
        BY <1>1, <2>2, FS_CardinalityType, LanesConstants DEF Enters
    <2> QED BY <1>0, <1>1, <2>2, <2>3 DEF Enters
<1>2. CASE Starts(w) BY <1>0, <1>2 DEF Starts
<1>3. CASE Leaves(w)
    <2>1. permits' = permits \ {w} /\ pc'[w] \notin {"gate", "turn"}
        BY <1>3 DEF Leaves
    <2>2. IsFiniteSet(permits') /\ Cardinality(permits') <= Cardinality(permits)
        BY <2>1, FS_Subset
    <2>3. Cardinality(permits') <= Permits
        BY <2>2, FS_CardinalityType, LanesConstants
    <2> QED BY <1>0, <2>1, <2>2, <2>3
<1>4. CASE Stays(w) BY <1>0, <1>4 DEF Stays
<1> QED BY <1>0, <1>1, <1>2, <1>3, <1>4

LEMMA GateStep ==
    ASSUME Guarded, NEW w \in Workers, Works(w) \/ Panic(w)
    PROVE  GateInv'
<1> USE DEF Guarded, GateInv, Moves, Types, SharedType, WorkerType
<1>0. /\ Moves(w) /\ (Enters(w) \/ Starts(w) \/ Leaves(w) \/ Stays(w))
      /\ Nobody \notin Workers
    BY Guarding, LanesConstants, SMTT(30) DEF Workers
<1>1. CASE Enters(w) BY <1>0, <1>1 DEF Enters
<1>2. CASE Starts(w)
    <2>1. ASSUME NEW v \in Workers, pc'[v] = "turn" PROVE gate'[root'[v]] = v
        <3>1. CASE v = w BY <1>2, <3>1 DEF Starts
        <3>2. CASE v # w
            <4>1. gate[root[v]] = v /\ root'[v] = root[v] /\ v # Nobody
                BY <1>0, <2>1, <3>2
            <4> QED BY <1>2, <4>1 DEF Starts
        <3> QED BY <3>1, <3>2
    <2>2. \A r \in Roots : gate'[r] # Nobody => pc'[gate'[r]] = "turn" /\ root'[gate'[r]] = r
        BY <1>0, <1>2 DEF Starts
    <2> QED BY <2>1, <2>2
<1>3. CASE Leaves(w)
    <2>1. \A v \in Workers : pc'[v] = "turn" => gate'[root'[v]] = v
        BY <1>0, <1>3, ZenonT(60) DEF Leaves
    <2>2. \A r \in Roots : gate'[r] # Nobody => pc'[gate'[r]] = "turn" /\ root'[gate'[r]] = r
        BY <1>0, <1>3 DEF Leaves
    <2> QED BY <2>1, <2>2
<1>4. CASE Stays(w) BY <1>0, <1>4, ZenonT(60) DEF Stays
<1> QED BY <1>0, <1>1, <1>2, <1>3, <1>4

LEMMA BusyStep ==
    ASSUME Guarded, NEW w \in Workers, Works(w) \/ Panic(w)
    PROVE  BusyExact'
<1> USE DEF Guarded, Moves
<1>0. /\ Moves(w) /\ (Enters(w) \/ Starts(w) \/ Leaves(w) \/ Stays(w))
      /\ IsFiniteSet(Running) /\ Cardinality(Running) \in Nat /\ busy = Cardinality(Running)
    BY Guarding, FewTurns DEF BusyExact, Running
<1>1. CASE Enters(w) \/ Stays(w)
    <2>1. Running' = Running /\ busy' = busy BY <1>0, <1>1 DEF Enters, Stays, Running
    <2> QED BY <1>0, <2>1 DEF BusyExact, Running
<1>2. CASE Starts(w)
    <2>1. Running' = Running \cup {w} /\ w \notin Running /\ busy' = busy + 1
        BY <1>0, <1>2 DEF Starts, Running
    <2>2. Cardinality(Running') = Cardinality(Running) + 1
        BY <1>0, <2>1, FS_AddElement
    <2> QED BY <1>0, <2>1, <2>2 DEF BusyExact, Running
<1>3. CASE Leaves(w) /\ pc[w] = "turn"
    <2>1. Running' = Running \ {w} /\ w \in Running /\ busy' = IF busy > 0 THEN busy - 1 ELSE busy
        BY <1>0, <1>3 DEF Leaves, CountDown, Running
    <2>2. Cardinality(Running') = Cardinality(Running) - 1
        BY <1>0, <2>1, FS_RemoveElement
    <2>3. Cardinality(Running) # 0
        BY <1>0, <2>1, FS_EmptySet
    <2>4. busy' = Cardinality(Running')
        BY <1>0, <2>1, <2>2, <2>3
    <2> QED BY <2>4 DEF BusyExact, Running
<1>4. CASE Leaves(w) /\ pc[w] # "turn"
    <2>1. Running' = Running /\ busy' = busy
        BY <1>0, <1>4 DEF Leaves, CountDown, Running
    <2> QED BY <1>0, <2>1 DEF BusyExact, Running
<1> QED BY <1>0, <1>1, <1>2, <1>3, <1>4

(* A lane is started with the next generation of its conversation.           *)
LEMMA NextGeneration ==
    ASSUME Types, Generations, NEW c \in Convs, NEW k \in Says[c], Arrive(c, k)
    PROVE  /\ Generations'
           /\ \E g \in 1..MaxGen :
                 /\ hand' = <<Len(asked'), <<c, g>>>> /\ lane' = [lane EXCEPT ![c] = g]
                 /\ \/ Open(c) /\ g = lane[c] /\ UNCHANGED <<pc, hist>>
                    \/ /\ ~Open(c) /\ pc[<<c, g>>] = "none"
                       /\ pc' = [pc EXCEPT ![<<c, g>>] = "recv"]
                       /\ hist' = [hist EXCEPT ![<<c, g>>] = Seed(c)]
<1>1. CASE Open(c)
    <2>1. lane[c] \in 1..MaxGen
        BY <1>1 DEF Open, Types, RouterType
    <2>2. hand' = <<Len(asked'), <<c, lane[c]>>>> /\ lane' = [lane EXCEPT ![c] = lane[c]]
          /\ UNCHANGED <<pc, hist>>
        BY <1>1 DEF Arrive
    <2>3. Generations'
        BY <2>2 DEF Generations, Started
    <2> QED BY <1>1, <2>1, <2>2, <2>3
<1>2. CASE ~Open(c)
    <2>1. PICK n \in 0..MaxGen : Started(c, n)
        BY DEF Generations
    <2>2. {h \in 1..MaxGen : pc[<<c, h>>] # "none"} = 1..n
        BY <2>1, LanesConstants DEF Started
    <2>3. Cardinality(1..n) = n
        BY <2>1, FS_Interval
    <2>4. PICK g : g = n + 1
        OBVIOUS
    <2>5. /\ <<c, g>> \in Workers
          /\ hand' = <<Len(asked'), <<c, g>>>> /\ lane' = [lane EXCEPT ![c] = g]
          /\ pc' = [pc EXCEPT ![<<c, g>>] = "recv"]
          /\ hist' = [hist EXCEPT ![<<c, g>>] = Seed(c)]
        BY <1>2, <2>2, <2>3, <2>4 DEF Arrive
    <2>6. g \in 1..MaxGen
        BY <2>5 DEF Workers
    <2>7. pc[<<c, g>>] = "none"
        BY <2>1, <2>4, <2>6 DEF Started
    <2>8. ASSUME NEW d \in Convs PROVE \E m \in 0..MaxGen : Started(d, m)'
        <3>1. CASE d = c
            <4>1. g \in 0..MaxGen /\ Started(c, g)'
                BY <2>1, <2>4, <2>5, <2>6, WorkerPairs DEF Started, Types, WorkerType
            <4> QED BY <3>1, <4>1
        <3>2. CASE d # c
            BY <2>5, <3>2 DEF Generations, Started, Types, WorkerType, Workers
        <3> QED BY <3>1, <3>2
    <2> QED BY <1>2, <2>5, <2>6, <2>7, <2>8 DEF Generations
<1> QED BY <1>1, <1>2

LEMMA GenerationStep ==
    ASSUME Guarded, NEW w \in Workers, Works(w) \/ Panic(w)
    PROVE  Generations'
<1>1. \A v \in Workers : pc'[v] # "none" <=> pc[v] # "none"
    BY Guarding DEF Guarded, Moves
<1> QED BY <1>1, WorkerPairs DEF Guarded, Generations, Started

LEMMA InitGuarded == Init => Guarded
<1> SUFFICES ASSUME Init PROVE Guarded
    OBVIOUS
<1>1. Types BY InitTypes
<1>2. Generations BY WorkerPairs, LanesConstants DEF Init, Generations, Started, Idle
<1>3. PermitInv BY FS_EmptySet, LanesConstants DEF Init, PermitInv, Idle
<1>4. GateInv BY DEF Init, GateInv, OpenGates, Idle
<1>5. BusyExact
    <2>1. {w \in Workers : pc[w] = "turn"} = {} BY DEF Init, Idle
    <2> QED BY <2>1, FS_EmptySet DEF Init, BusyExact
<1> QED BY <1>1, <1>2, <1>3, <1>4, <1>5 DEF Guarded

LEMMA StepGuarded == Guarded /\ [Next]_vars => Guarded'
<1> SUFFICES ASSUME Guarded, [Next]_vars PROVE Guarded'
    OBVIOUS
<1> USE DEF Guarded
<1>0. Types' BY StepTypes
<1>1. CASE \E c \in Convs : \E k \in Says[c] : Arrive(c, k)
    <2>1. PICK c \in Convs : \E k \in Says[c] : Arrive(c, k)
        BY <1>1
    <2>2. PICK g \in 1..MaxGen :
             \/ UNCHANGED pc
             \/ pc[<<c, g>>] = "none" /\ pc' = [pc EXCEPT ![<<c, g>>] = "recv"]
        BY <2>1, NextGeneration
    <2>3. Generations' /\ UNCHANGED <<permits, gate, busy, root>>
        BY <2>1, NextGeneration DEF Arrive, shared
    <2>4. \A w \in Workers : pc'[w] = pc[w] \/ (pc[w] = "none" /\ pc'[w] = "recv")
        BY <2>2, WorkerPairs DEF Types, WorkerType
    <2>5. PermitInv' BY <2>3, <2>4 DEF PermitInv
    <2>6. GateInv' BY <2>3, <2>4 DEF GateInv, Types, SharedType
    <2>7. BusyExact'
        <3>1. Running' = Running BY <2>4 DEF Running
        <3> QED BY <2>3, <3>1 DEF BusyExact, Running
    <2> QED BY <1>0, <2>3, <2>5, <2>6, <2>7
<1>2. CASE Deliver
    BY <1>0, <1>2 DEF Deliver, shared, Generations, Started, PermitInv, GateInv, BusyExact
<1>3. CASE \E w \in Workers : Works(w) \/ Panic(w)
    BY <1>0, <1>3, PermitStep, GateStep, BusyStep, GenerationStep
<1>6. CASE \E c \in Filed : OtherBoot(c)
    BY <1>0, <1>6 DEF OtherBoot, worker, shared, Generations, Started, PermitInv, GateInv, BusyExact
<1>4. CASE \E old \in SUBSET Filed : Restart(old)
    <2>1. Generations' BY <1>4, WorkerPairs, LanesConstants DEF Restart, Generations, Started, Idle
    <2>2. PermitInv' BY <1>4, FS_EmptySet, LanesConstants DEF Restart, PermitInv, Idle
    <2>3. GateInv' BY <1>4 DEF Restart, GateInv, OpenGates, Idle
    <2>4. BusyExact'
        <3>1. Running' = {} BY <1>4 DEF Restart, Running, Idle
        <3> QED BY <1>4, <3>1, FS_EmptySet DEF Restart, BusyExact, Running
    <2> QED BY <1>0, <2>1, <2>2, <2>3, <2>4
<1>5. CASE UNCHANGED vars
    BY <1>0, <1>5 DEF vars, worker, shared, Generations, Started, PermitInv, GateInv, BusyExact
<1> QED BY <1>1, <1>2, <1>3, <1>4, <1>5, <1>6 DEF Next

LEMMA GuardedOneWriter == Guarded => OneWriterPerRoot
<1> SUFFICES ASSUME Guarded PROVE OneWriterPerRoot
    OBVIOUS
<1> USE DEF Guarded
<1>1. busy \in 0..Permits
    <2>1. /\ busy = Cardinality(Running) /\ Cardinality(Running) \in Nat
          /\ Cardinality(Running) <= Cardinality(permits)
        BY FewTurns DEF BusyExact, Running
    <2>2. Cardinality(permits) \in Nat /\ Cardinality(permits) <= Permits /\ Permits \in Nat
        BY FS_CardinalityType, LanesConstants DEF PermitInv
    <2> QED BY <2>1, <2>2
<1>2. TypeOK
    BY <1>1 DEF TypeOK, Types, RouterType, WorkerType, SharedType, FilesType, HistoryType
<1>3. Gated
    BY DEF Gated, PermitInv, GateInv
<1> QED BY <1>2, <1>3 DEF OneWriterPerRoot

(* lane.rs:18-25: for any number of bots, conversations, directories and     *)
(* permits, and over panics, aborts and restarts, two turns never run in one *)
(* directory, each holds a permit, and the count is that of the turns.       *)
THEOREM LanesOneWriter == Spec => []OneWriterPerRoot
<1>1. Init => Guarded
    BY InitGuarded
<1>2. Guarded /\ [Next]_vars => Guarded'
    BY StepGuarded
<1>3. Guarded => OneWriterPerRoot
    BY GuardedOneWriter
<1> QED BY <1>1, <1>2, <1>3, PTL DEF Spec

-----------------------------------------------------------------------------
(* Where the messages are.                                                   *)

Takes(w) == /\ \E p \in {"permit", "reply", "stop"} : Take(w, p)
            /\ UNCHANGED answered
Keeping(w) == /\ AtWork(w) /\ AtWork(w)' /\ inbox'[w] = inbox[w] /\ msg'[w] = msg[w]
              /\ UNCHANGED answered
Replies(w) == /\ pc[w] = "reply" /\ pc'[w] = "recv" /\ inbox'[w] = inbox[w] /\ msg'[w] = 0
              /\ answered' = IF Route(w) \in hosted THEN Append(answered, msg[w]) ELSE answered
Ends(w) == /\ pc'[w] = "dead" /\ inbox'[w] = <<>> /\ msg'[w] = 0
           /\ UNCHANGED answered

(* A worker takes the first message of its queue, keeps it through the turn, *)
(* lets it go with the reply, and loses everything when it ends.             *)
LEMMA Handling ==
    ASSUME Types, NEW w \in Workers, Works(w) \/ Panic(w)
    PROVE  /\ UNCHANGED <<hand, asked, seeds>>
           /\ Takes(w) \/ Keeping(w) \/ Replies(w) \/ Ends(w)
<1> USE DEF Types, WorkerType
<1>1. CASE Ask(w) BY <1>1 DEF Ask, Takes, router, ghosts
<1>2. CASE New(w) BY <1>2 DEF New, Takes, router
<1>3. CASE ChangeDir(w) BY <1>3 DEF ChangeDir, Takes, router, ghosts
<1>4. CASE RemoveBot(w) BY <1>4 DEF RemoveBot, Takes, router, ghosts
<1>5. CASE StopRoute(w) BY <1>5 DEF StopRoute, Keeping, AtWork, router, ghosts
<1>6. CASE TakePermit(w) BY <1>6 DEF TakePermit, Keeping, AtWork, router, ghosts
<1>7. CASE StartTurn(w) BY <1>7 DEF StartTurn, Keeping, AtWork, router, ghosts
<1>8. CASE EndTurn(w) BY <1>8 DEF EndTurn, Keeping, AtWork, router, ghosts
<1>9. CASE Save(w) BY <1>9 DEF Save, Keeping, AtWork, router
<1>10. CASE Reply(w) BY <1>10 DEF Reply, Replies, router
<1>11. CASE Die(w) \/ Panic(w) BY <1>11 DEF Die, Panic, Vanish, Ends, router
<1> QED BY <1>1, <1>2, <1>3, <1>4, <1>5, <1>6, <1>7, <1>8, <1>9, <1>10, <1>11 DEF Works

Routed == Guarded /\ Handed /\ Queued

LEMMA HandedStep ==
    ASSUME Routed, NEW w \in Workers, Works(w) \/ Panic(w)
    PROVE  Handed'
<1> USE DEF Routed, Guarded
<1>1. \A v \in Workers : pc'[v] # "none" <=> pc[v] # "none"
    BY Guarding DEF Moves
<1>2. \A c \in Convs : lane'[c] \in {0, lane[c]}
    BY DEF Works, Ask, New, ChangeDir, RemoveBot, StopRoute, TakePermit, StartTurn,
       EndTurn, Save, Reply, Die, Panic
<1>3. \A c \in Convs : lane[c] # 0 => <<c, lane[c]>> \in Workers
    BY WorkerPairs DEF Types, RouterType
<1>4. hand # <<>> => hand[2] \in Workers
    BY DEF Types, RouterType
<1> QED BY <1>1, <1>2, <1>3, <1>4, Handling DEF Handed

LEMMA QueuedTake ==
    ASSUME Routed, NEW w \in Workers, Takes(w), UNCHANGED <<hand, asked>>
    PROVE  MsgOK(w)' /\ QueueOK(w)'
<1> USE DEF Routed, Guarded, Types, WorkerType
<1>1. PICK s, q, m : s = inbox[w] /\ q = Tail(inbox[w]) /\ m = Head(inbox[w])
    OBVIOUS
<1>2. s \in Seq(Msgs) /\ s # <<>>
    BY <1>1 DEF Takes, Take
<1>3. /\ Len(s) \in Nat /\ Len(s) # 0 /\ m = s[1] /\ Len(q) = Len(s) - 1 /\ q \in Seq(Msgs)
      /\ \A i \in 1..Len(q) : q[i] = s[i + 1]
    BY <1>1, <1>2, Elements, LenProperties
<1>4. /\ inbox'[w] = q /\ msg'[w] = m /\ pc'[w] \notin {"none", "recv", "dead"}
    BY <1>1 DEF Takes, Take
<1>5. QueueOK(w)
    BY DEF Queued
<1>6. MsgOK(w)'
    <2>1. m \in Messages /\ ConvOf(m) = w[1] /\ (hand # <<>> => m < hand[1])
        BY <1>1, <1>3, <1>5 DEF QueueOK
    <2> QED BY <1>4, <2>1 DEF MsgOK, AtWork, Messages, ConvOf
<1>7. ASSUME NEW i \in 1..Len(q)
      PROVE  /\ q[i] \in Messages /\ ConvOf(q[i]) = w[1]
             /\ m < q[i]
             /\ hand # <<>> => q[i] < hand[1]
             /\ \A j \in 1..Len(q) : i < j => q[i] < q[j]
    BY <1>1, <1>3, <1>5 DEF QueueOK
<1> QED BY <1>4, <1>6, <1>7 DEF QueueOK, Alive, Messages, ConvOf

LEMMA QueuedStep ==
    ASSUME Routed, NEW w \in Workers, Works(w) \/ Panic(w)
    PROVE  Queued'
<1> USE DEF Routed, Guarded, Types, WorkerType
<1>1. /\ UNCHANGED <<hand, asked>>
      /\ Takes(w) \/ Keeping(w) \/ Replies(w) \/ Ends(w)
    BY Handling
<1>2. HandOK'
    BY <1>1 DEF Queued, HandOK, ConvOf
<1>3. ASSUME NEW v \in Workers \ {w} PROVE MsgOK(v)' /\ QueueOK(v)'
    BY <1>1, Elsewhere, SMTT(30) DEF Queued, MsgOK, QueueOK, AtWork, Alive, Messages, ConvOf
<1>4. MsgOK(w)' /\ QueueOK(w)'
    <2>1. MsgOK(w) /\ QueueOK(w) /\ msg[w] \in Nat
        BY DEF Queued, Msgs
    <2>2. CASE Takes(w)
        BY <1>1, <2>2, QueuedTake
    <2>3. CASE Keeping(w)
        BY <1>1, <2>1, <2>3 DEF Keeping, MsgOK, QueueOK, AtWork, Alive, Messages, ConvOf
    <2>4. CASE Replies(w)
        BY <1>1, <2>1, <2>4 DEF Replies, MsgOK, QueueOK, Alive, Messages, ConvOf
    <2>5. CASE Ends(w)
        BY <2>5, EmptySeq DEF Ends, MsgOK, QueueOK
    <2> QED BY <1>1, <2>2, <2>3, <2>4, <2>5
<1> QED BY <1>2, <1>3, <1>4 DEF Queued

(* What a new message does to the record of the messages.                    *)
LEMMA Asking ==
    ASSUME Types, NEW c \in Convs, NEW k \in Says[c], Arrive(c, k)
    PROVE  /\ Len(asked) \in Nat /\ Len(asked') = Len(asked) + 1
           /\ asked'[Len(asked')].conv = c
           /\ \A m \in Messages : m \in Messages' /\ asked'[m] = asked[m]
<1>1. [conv |-> c, what |-> k] \in [conv : Convs, what : Kinds]
    BY LanesConstants DEF Kinds
<1>2. asked' = Append(asked, [conv |-> c, what |-> k])
    BY DEF Arrive
<1>3. /\ Len(asked) \in Nat /\ Len(asked') = Len(asked) + 1
      /\ asked'[Len(asked) + 1] = [conv |-> c, what |-> k]
      /\ \A i \in 1..Len(asked) : asked'[i] = asked[i]
    BY <1>1, <1>2, AppendProperties, LenProperties DEF Types, HistoryType
<1> QED BY <1>3 DEF Messages

LEMMA RoutedArrive ==
    ASSUME Routed, NEW c \in Convs, NEW k \in Says[c], Arrive(c, k)
    PROVE  Handed' /\ Queued'
<1> USE DEF Routed, Guarded, Types, WorkerType
<1>1. PICK g \in 1..MaxGen :
         /\ hand' = <<Len(asked'), <<c, g>>>> /\ lane' = [lane EXCEPT ![c] = g]
         /\ \/ Open(c) /\ g = lane[c] /\ UNCHANGED pc
            \/ ~Open(c) /\ pc[<<c, g>>] = "none" /\ pc' = [pc EXCEPT ![<<c, g>>] = "recv"]
    BY NextGeneration
<1>2. /\ Len(asked) \in Nat /\ Len(asked') = Len(asked) + 1 /\ asked'[Len(asked')].conv = c
      /\ \A m \in Messages : m \in Messages' /\ asked'[m] = asked[m]
    BY Asking
<1>3. hand = <<>> /\ UNCHANGED <<inbox, msg>>
    BY DEF Arrive
<1>4. <<c, g>> \in Workers /\ \A d \in Convs : lane[d] # 0 => <<d, lane[d]>> \in Workers
    BY WorkerPairs DEF RouterType
<1>5. \A w \in Workers : pc'[w] = pc[w] \/ (pc[w] = "none" /\ pc'[w] = "recv")
    BY <1>1, <1>4
<1>6. Handed'
    <2>1. pc'[<<c, g>>] # "none"
        BY <1>1, <1>4 DEF Handed
    <2>2. ASSUME NEW d \in Convs, lane'[d] # 0 PROVE pc'[<<d, lane'[d]>>] # "none"
        <3>1. CASE d = c BY <1>1, <2>1, <3>1 DEF RouterType
        <3>2. CASE d # c BY <1>1, <1>4, <1>5, <2>2, <3>2 DEF RouterType, Handed
        <3> QED BY <3>1, <3>2
    <2> QED BY <1>1, <2>1, <2>2 DEF Handed
<1>7. HandOK'
    BY <1>1, <1>2 DEF HandOK, ConvOf
<1>8. ASSUME NEW w \in Workers PROVE MsgOK(w)' /\ QueueOK(w)'
    <2>1. MsgOK(w) /\ QueueOK(w) /\ hand'[1] = Len(asked) + 1
        BY <1>1, <1>2 DEF Queued
    <2>2. MsgOK(w)'
        BY <1>2, <1>3, <1>5, <2>1 DEF MsgOK, AtWork, Messages, ConvOf
    <2>3. ASSUME NEW i \in 1..Len(inbox[w])
          PROVE  inbox[w][i] \in Messages' /\ asked'[inbox[w][i]].conv = w[1] /\ inbox[w][i] < hand'[1]
        BY <1>2, <2>1, SMTT(30) DEF QueueOK, Messages, ConvOf
    <2>4. QueueOK(w)'
        BY <1>3, <1>5, <2>1, <2>3 DEF QueueOK, Alive, Messages, ConvOf
    <2> QED BY <2>2, <2>4
<1> QED BY <1>6, <1>7, <1>8 DEF Queued

LEMMA RoutedDeliver ==
    ASSUME Routed, Deliver
    PROVE  Handed' /\ Queued'
<1> USE DEF Routed, Guarded, Types, WorkerType
<1>1. PICK m, w : m = hand[1] /\ w = hand[2]
    OBVIOUS
<1>2. /\ hand # <<>> /\ hand' = <<>> /\ UNCHANGED <<lane, pc, msg, asked>>
      /\ \/ pc[w] # "dead" /\ inbox' = [inbox EXCEPT ![w] = Append(inbox[w], m)]
         \/ UNCHANGED inbox
    BY <1>1 DEF Deliver
<1>3. m \in Msgs /\ w \in Workers /\ pc[w] # "none" /\ m = Len(asked) /\ ConvOf(m) = w[1]
    BY <1>1, <1>2 DEF RouterType, Handed, Queued, HandOK
<1>4. Handed' /\ HandOK'
    BY <1>2 DEF Handed, HandOK
<1>5. ASSUME NEW v \in Workers PROVE MsgOK(v)' /\ QueueOK(v)'
    <2>1. MsgOK(v) /\ QueueOK(v)
        BY DEF Queued
    <2>2. MsgOK(v)'
        BY <1>2, <2>1 DEF MsgOK, AtWork, Messages, ConvOf
    <2>3. CASE UNCHANGED inbox \/ v # w
        <3>1. inbox'[v] = inbox[v] /\ pc'[v] = pc[v] /\ msg'[v] = msg[v] /\ asked' = asked
            BY <1>2, <2>3
        <3>2. (~Alive(v) => inbox[v] = <<>>)'
            BY <2>1, <3>1 DEF QueueOK, Alive
        <3>3. \A i \in 1..Len(inbox'[v]) :
                 inbox'[v][i] \in Messages' /\ asked'[inbox'[v][i]].conv = v[1] /\ msg'[v] < inbox'[v][i]
            BY <2>1, <3>1 DEF QueueOK, Messages, ConvOf
        <3>4. \A i, j \in 1..Len(inbox'[v]) : i < j => inbox'[v][i] < inbox'[v][j]
            BY <2>1, <3>1 DEF QueueOK
        <3> QED BY <1>2, <2>2, <3>2, <3>3, <3>4 DEF QueueOK, ConvOf
    <2>4. CASE v = w /\ inbox'[w] = Append(inbox[w], m) /\ pc[w] # "dead"
        <3>1. PICK s, q : s = inbox[w] /\ q = inbox'[w]
            OBVIOUS
        <3>2. s \in Seq(Msgs) /\ Len(s) \in Nat
            BY <1>3, <3>1, LenProperties
        <3>3. Len(q) = Len(s) + 1 /\ q[Len(s) + 1] = m /\ \A i \in 1..Len(s) : q[i] = s[i]
            BY <1>3, <2>4, <3>1, <3>2, AppendProperties
        <3>4. m \in Messages /\ msg[w] < m
            BY <1>1, <1>2, <1>3, <2>1, <2>4 DEF MsgOK, Messages, Msgs
        <3>5. ASSUME NEW i \in 1..Len(q)
              PROVE q[i] \in Messages /\ ConvOf(q[i]) = w[1] /\ msg[w] < q[i]
            <4>1. CASE i = Len(s) + 1 BY <1>3, <3>3, <3>4, <4>1
            <4>2. CASE i # Len(s) + 1
                <5>1. i \in 1..Len(s) BY <3>2, <3>3, <4>2
                <5> QED BY <2>1, <2>4, <3>1, <3>3, <5>1 DEF QueueOK
            <4> QED BY <4>1, <4>2
        <3>6. ASSUME NEW i \in 1..Len(q), NEW j \in 1..Len(q), i < j
              PROVE q[i] < q[j]
            <4>1. i \in 1..Len(s) /\ s[i] < m
                BY <1>1, <1>2, <2>1, <2>4, <3>1, <3>2, <3>3, <3>6 DEF QueueOK
            <4>2. j \in 1..Len(s) \/ j = Len(s) + 1
                BY <3>2, <3>3
            <4> QED BY <2>1, <2>4, <3>1, <3>3, <3>6, <4>1, <4>2 DEF QueueOK
        <3>7. Alive(w)'
            BY <1>2, <1>3, <2>4 DEF Alive
        <3>8. \A i \in 1..Len(inbox'[v]) :
                 inbox'[v][i] \in Messages' /\ asked'[inbox'[v][i]].conv = v[1] /\ msg'[v] < inbox'[v][i]
            BY <1>2, <2>4, <3>1, <3>5 DEF Messages, ConvOf
        <3>9. \A i, j \in 1..Len(inbox'[v]) : i < j => inbox'[v][i] < inbox'[v][j]
            BY <2>4, <3>1, <3>6
        <3> QED BY <1>2, <2>2, <2>4, <3>7, <3>8, <3>9 DEF QueueOK, Alive, ConvOf
    <2> QED BY <1>2, <1>3, <2>2, <2>3, <2>4
<1> QED BY <1>4, <1>5 DEF Queued

LEMMA RoutedRestart ==
    ASSUME NEW old \in SUBSET Filed, Restart(old)
    PROVE  Handed' /\ Queued'
BY EmptySeq DEF Restart, Handed, Queued, HandOK, MsgOK, QueueOK, NoLanes, Idle

LEMMA InitRouted == Init => Routed
<1> SUFFICES ASSUME Init PROVE Routed
    OBVIOUS
<1>1. Handed /\ Queued
    BY EmptySeq DEF Init, Handed, Queued, HandOK, MsgOK, QueueOK, NoLanes, Idle
<1> QED BY <1>1, InitGuarded DEF Routed

LEMMA StepRouted == Routed /\ [Next]_vars => Routed'
<1> SUFFICES ASSUME Routed, [Next]_vars PROVE Routed'
    OBVIOUS
<1>0. Guarded'
    BY StepGuarded DEF Routed
<1>1. CASE \E c \in Convs : \E k \in Says[c] : Arrive(c, k) BY <1>0, <1>1, RoutedArrive DEF Routed
<1>2. CASE Deliver BY <1>0, <1>2, RoutedDeliver DEF Routed
<1>3. CASE \E w \in Workers : Works(w) \/ Panic(w) BY <1>0, <1>3, HandedStep, QueuedStep DEF Routed
<1>4. CASE \E old \in SUBSET Filed : Restart(old) BY <1>0, <1>4, RoutedRestart DEF Routed
<1>6. CASE \E c \in Filed : OtherBoot(c)
    BY <1>0, <1>6 DEF OtherBoot, router, worker, Routed, Handed, Queued, HandOK, MsgOK, QueueOK,
       AtWork, Alive, Messages, ConvOf
<1>5. CASE UNCHANGED vars
    BY <1>0, <1>5 DEF vars, router, worker, Routed, Handed, Queued, HandOK, MsgOK, QueueOK,
       AtWork, Alive, Messages, ConvOf
<1> QED BY <1>1, <1>2, <1>3, <1>4, <1>5, <1>6 DEF Next

-----------------------------------------------------------------------------
(* The order of the replies.                                                 *)

Replied == Routed /\ Lived /\ Answers /\ InOrder

(* Bots are only ever removed, panics only ever recorded; a worker ends in a *)
(* panic or because it is doomed.                                            *)
LEMMA Ruling ==
    ASSUME Types, NEW w \in Workers, Works(w) \/ Panic(w)
    PROVE  /\ hosted' \subseteq hosted /\ panicked \subseteq panicked'
           /\ StopRoute(w) \/ UNCHANGED <<lane, doomed>>
           /\ pc'[w] = "stop" => /\ Take(w, "stop") /\ Asked(w) \notin hosted'
           /\ pc'[w] = "dead" => w[1] \in panicked' \/ w \in doomed
<1> USE DEF Types, WorkerType
<1>1. CASE Ask(w) BY <1>1 DEF Ask, Take, files, ghosts
<1>2. CASE New(w) BY <1>2 DEF New, Take
<1>3. CASE ChangeDir(w) BY <1>3 DEF ChangeDir, Take, ghosts
<1>4. CASE RemoveBot(w) BY <1>4 DEF RemoveBot, Take, ghosts
<1>5. CASE StopRoute(w) BY <1>5 DEF StopRoute, ghosts
<1>6. CASE TakePermit(w) BY <1>6 DEF TakePermit, files, ghosts
<1>7. CASE StartTurn(w) BY <1>7 DEF StartTurn, files, ghosts
<1>8. CASE EndTurn(w) BY <1>8 DEF EndTurn, files, ghosts
<1>9. CASE Save(w) BY <1>9 DEF Save
<1>10. CASE Reply(w) BY <1>10 DEF Reply, files
<1>11. CASE Die(w) BY <1>11 DEF Die, Vanish, files
<1>12. CASE Panic(w) BY <1>12 DEF Panic, Vanish, files
<1> QED BY <1>1, <1>2, <1>3, <1>4, <1>5, <1>6, <1>7, <1>8, <1>9, <1>10, <1>11, <1>12 DEF Works

LEMMA LivedStep ==
    ASSUME Replied, NEW w \in Workers, Works(w) \/ Panic(w)
    PROVE  Lived'
<1> USE DEF Replied, Routed, Guarded, Types, WorkerType, Lived
<1>1. /\ hosted' \subseteq hosted /\ panicked \subseteq panicked' /\ asked' = asked
      /\ \A v \in Workers \ {w} : pc'[v] = pc[v] /\ msg'[v] = msg[v]
      /\ pc[w] \notin {"none", "dead"}
    BY Ruling, Handling, Elsewhere, Guarding DEF Moves
<1>2. /\ doomed' \subseteq Workers
      /\ \A v \in doomed' : Route(v) \notin hosted
      /\ \A c \in Convs : RouteOf[c] \in hosted => lane'[c] = lane[c]
    <2>1. CASE UNCHANGED <<lane, doomed>>
        BY <2>1 DEF Removed
    <2>2. CASE StopRoute(w)
        <3>1. PICK b : b = asked[msg[w]].what
            OBVIOUS
        <3>2. b \notin hosted
            BY <2>2, <3>1 DEF StopRoute, Removed
        <3>3. /\ doomed' = doomed \cup {<<c, lane[c]>> : c \in {c \in Convs : RouteOf[c] = b /\ lane[c] # 0}}
              /\ lane' = [c \in Convs |-> IF c \in {d \in Convs : RouteOf[d] = b /\ lane[d] # 0}
                                          THEN 0 ELSE lane[c]]
            BY <2>2, <3>1 DEF StopRoute
        <3>4. doomed' \subseteq Workers
            BY WorkerTypes
        <3>5. ASSUME NEW v \in doomed' PROVE Route(v) \notin hosted
            BY <3>2, <3>3 DEF Removed, Route
        <3> QED BY <3>2, <3>3, <3>4, <3>5
    <2> QED BY <2>1, <2>2, Ruling
<1>3. Removed'
    <2>1. ASSUME NEW v \in Workers, pc'[v] = "stop" PROVE asked'[msg'[v]].what \notin hosted'
        <3>1. CASE v = w
            <4>1. Take(w, "stop") /\ Asked(w) \notin hosted'
                BY <2>1, <3>1, Ruling
            <4> QED BY <1>1, <3>1, <4>1 DEF Take, Asked
        <3>2. CASE v # w BY <1>1, <2>1, <3>2 DEF Removed
        <3> QED BY <3>1, <3>2
    <2> QED BY <1>1, <1>2, <2>1 DEF Removed, Route
<1>4. Registered'
    BY <1>1, <1>2, WorkerPairs DEF Registered, Alive, Route
<1>5. Gone'
    BY <1>1, Ruling DEF Gone, Removed, Route
<1> QED BY <1>3, <1>4, <1>5

LEMMA AnswersStep ==
    ASSUME Replied, NEW w \in Workers, Works(w) \/ Panic(w)
    PROVE  Answers' /\ InOrder'
<1> USE DEF Replied, Routed, Guarded, Types, WorkerType
<1>1. /\ UNCHANGED <<hand, asked>> /\ hosted' \subseteq hosted
      /\ \A v \in Workers \ {w} : inbox'[v] = inbox[v] /\ msg'[v] = msg[v]
      /\ Takes(w) \/ Keeping(w) \/ Replies(w) \/ Ends(w)
    BY Handling, Ruling, Elsewhere
<1>2. CASE answered' = answered
    <2>1. \A m : Before(m)' <=> Before(m)
        BY <1>1, <1>2 DEF Before, ConvOf
    <2>2. ASSUME NEW v \in Workers, Route(v) \in hosted'
          PROVE  /\ msg'[v] # 0 => Before(msg'[v])
                 /\ \A i \in 1..Len(inbox'[v]) : Before(inbox'[v][i])
        <3>1. /\ msg[v] # 0 => Before(msg[v])
              /\ \A i \in 1..Len(inbox[v]) : Before(inbox[v][i])
            BY <1>1, <2>2 DEF Answers
        <3>2. CASE v = w /\ Takes(w)
            <4>1. PICK s, q, m : s = inbox[w] /\ q = Tail(inbox[w]) /\ m = Head(inbox[w])
                OBVIOUS
            <4>2. s \in Seq(Msgs) /\ s # <<>>
                BY <3>2, <4>1 DEF Takes, Take
            <4>3. /\ Len(s) \in Nat /\ Len(s) # 0 /\ m = s[1] /\ Len(q) = Len(s) - 1
                  /\ \A i \in 1..Len(q) : q[i] = s[i + 1]
                BY <4>1, <4>2, Elements, LenProperties
            <4>4. inbox'[w] = q /\ msg'[w] = m
                BY <3>2, <4>1 DEF Takes, Take
            <4>5. Before(m) /\ \A i \in 1..Len(q) : Before(q[i])
                BY <3>1, <3>2, <4>1, <4>3
            <4> QED BY <3>2, <4>4, <4>5
        <3>3. CASE v # w BY <1>1, <3>1, <3>3
        <3>4. CASE v = w /\ ~Takes(w)
            BY <1>1, <3>1, <3>4, EmptySeq DEF Keeping, Replies, Ends
        <3> QED BY <3>2, <3>3, <3>4
    <2>3. Answers'
        BY <1>1, <1>2, <2>1, <2>2 DEF Answers, Before, Messages, ConvOf, Route
    <2> QED BY <1>1, <1>2, <2>3 DEF InOrder
<1>3. CASE Replies(w) /\ Route(w) \in hosted
    <2>1. PICK m : m = msg[w]
        OBVIOUS
    <2>2. AtWork(w) /\ m # 0 /\ m \in Msgs
        <3>1. AtWork(w) BY <1>3 DEF Replies, AtWork
        <3> QED BY <2>1, <3>1, Held DEF Msgs
    <2>3. /\ m \in Messages /\ ConvOf(m) = w[1] /\ (hand # <<>> => m < hand[1])
          /\ Before(m)
        BY <1>3, <2>1, <2>2 DEF Queued, MsgOK, Answers
    <2>4. /\ answered \in Seq(Msgs) /\ Len(answered) \in Nat
          /\ answered' = Append(answered, m) /\ inbox'[w] = inbox[w] /\ msg'[w] = 0
        BY <1>3, <2>1, LenProperties DEF Replies, HistoryType
    <2>5. /\ Len(answered') = Len(answered) + 1 /\ answered'[Len(answered) + 1] = m
          /\ \A i \in 1..Len(answered) : answered'[i] = answered[i]
          /\ DOMAIN answered' = 1..(Len(answered) + 1) /\ DOMAIN answered = 1..Len(answered)
        BY <2>2, <2>4, AppendProperties
    <2>6. ASSUME NEW k, Before(k), ConvOf(k) = ConvOf(m) => m < k
          PROVE  Before(k)'
        BY <1>1, <2>4, <2>5, <2>6 DEF Before, ConvOf
    <2>7. ASSUME NEW v \in Workers, Route(v) \in hosted, v # w, Alive(v)
          PROVE  v[1] # w[1]
        BY <1>3, <2>2, <2>7, WorkerPairs DEF Lived, Registered, Alive, AtWork
    <2>8. ASSUME NEW v \in Workers, Route(v) \in hosted'
          PROVE  /\ msg'[v] # 0 => Before(msg[v])'
                 /\ \A i \in 1..Len(inbox'[v]) : Before(inbox[v][i])'
        <3>1. /\ msg[v] # 0 => Before(msg[v])
              /\ \A i \in 1..Len(inbox[v]) : Before(inbox[v][i])
              /\ MsgOK(v) /\ QueueOK(v)
            BY <1>1, <2>8 DEF Answers, Queued
        <3>2. CASE v = w
            <4>1. PICK s : s = inbox[w]
                OBVIOUS
            <4>2. \A i \in 1..Len(s) : m < s[i] /\ Before(s[i])
                BY <2>1, <3>1, <3>2, <4>1 DEF QueueOK
            <4>3. \A i \in 1..Len(s) : Before(s[i])'
                BY <2>6, <4>2
            <4>4. inbox'[v] = s /\ msg'[v] = 0
                BY <2>4, <3>2, <4>1
            <4>5. ASSUME NEW i \in 1..Len(inbox'[v]) PROVE Before(inbox[v][i])'
                <5>1. i \in 1..Len(s) /\ inbox'[v][i] = s[i] BY <4>4
                <5> QED BY <4>3, <5>1 DEF Before, ConvOf
            <4> QED BY <4>4, <4>5
        <3>3. CASE v # w /\ ~Alive(v)
            BY <1>1, <3>1, <3>3, EmptySeq DEF MsgOK, QueueOK, Alive, AtWork
        <3>4. CASE v # w /\ Alive(v)
            <4>1. v[1] # w[1] BY <1>1, <2>7, <2>8, <3>4
            <4>2. msg[v] # 0 => ConvOf(msg[v]) # ConvOf(m)
                BY <2>3, <3>1, <4>1 DEF MsgOK
            <4>3. \A i \in 1..Len(inbox[v]) : ConvOf(inbox[v][i]) # ConvOf(m)
                BY <2>3, <3>1, <4>1 DEF QueueOK
            <4> QED BY <1>1, <2>6, <3>1, <3>4, <4>2, <4>3, ZenonT(60) DEF Before, ConvOf
        <3> QED BY <3>2, <3>3, <3>4
    <2>9. Answers'
        <3>1. hand' # <<>> => Before(hand[1])'
            BY <1>1, <2>3, <2>6 DEF Answers, Before, ConvOf
        <3>2. \A i \in 1..Len(answered') : answered'[i] \in Messages'
            <4>1. Messages' = Messages /\ \A i \in 1..Len(answered) : answered[i] \in Messages
                BY <1>1 DEF Answers, Messages
            <4>2. ASSUME NEW i \in 1..Len(answered') PROVE i \in 1..Len(answered) \/ i = Len(answered) + 1
                BY <2>4, <2>5
            <4> QED BY <2>3, <2>5, <4>1, <4>2
        <3> QED BY <2>8, <3>1, <3>2 DEF Answers, Route
    <2>10. InOrder'
        BY <1>1, <2>3, <2>4, <2>5 DEF InOrder, Before, ConvOf
    <2> QED BY <2>9, <2>10
<1> QED BY <1>1, <1>2, <1>3 DEF Takes, Keeping, Replies, Ends

LEMMA RepliedArrive ==
    ASSUME Replied, NEW c \in Convs, NEW k \in Says[c], Arrive(c, k)
    PROVE  Lived' /\ Answers' /\ InOrder'
<1> USE DEF Replied, Routed, Guarded, Types, WorkerType
<1>1. PICK g \in 1..MaxGen :
         /\ hand' = <<Len(asked'), <<c, g>>>> /\ lane' = [lane EXCEPT ![c] = g]
         /\ \/ Open(c) /\ g = lane[c] /\ UNCHANGED pc
            \/ ~Open(c) /\ pc[<<c, g>>] = "none" /\ pc' = [pc EXCEPT ![<<c, g>>] = "recv"]
    BY NextGeneration
<1>2. /\ Len(asked) \in Nat /\ Len(asked') = Len(asked) + 1 /\ asked'[Len(asked')].conv = c
      /\ \A m \in Messages : m \in Messages' /\ asked'[m] = asked[m]
    BY Asking
<1>3. UNCHANGED <<inbox, msg, doomed, hosted, answered, panicked>>
    BY DEF Arrive, files, ghosts
<1>4. <<c, g>> \in Workers
    BY WorkerPairs
<1>5. \A w \in Workers : pc'[w] = pc[w] \/ (w = <<c, g>> /\ pc[w] = "none" /\ pc'[w] = "recv")
    BY <1>1, <1>4
<1>6. Lived'
    <2>1. Removed'
        <3>1. ASSUME NEW w \in Workers, pc'[w] = "stop" PROVE asked'[msg'[w]].what \notin hosted'
            <4>1. AtWork(w) /\ asked[msg[w]].what \notin hosted
                BY <1>5, <3>1 DEF AtWork, Lived, Removed
            <4>2. msg[w] \in Messages
                BY <4>1 DEF Holding, Queued, MsgOK
            <4> QED BY <1>2, <1>3, <4>1, <4>2
        <3> QED BY <1>3, <3>1 DEF Lived, Removed, Route
    <2>2. Registered'
        <3>1. ASSUME NEW w \in Workers, Alive(w)', Route(w) \in hosted' PROVE lane'[w[1]] = w[2]
            <4>1. CASE w = <<c, g>> BY <1>1, <4>1 DEF RouterType
            <4>2. CASE w # <<c, g>>
                <5>1. Alive(w) /\ lane[w[1]] = w[2] /\ w[1] \in Convs /\ w[2] # 0 /\ w = <<w[1], w[2]>>
                    BY <1>3, <1>5, <3>1, <4>2, WorkerPairs DEF Alive, Lived, Registered
                <5>2. w[1] = c => Open(c)
                    BY <5>1 DEF Open, Alive
                <5> QED BY <1>1, <4>2, <5>1, <5>2 DEF RouterType
            <4> QED BY <4>1, <4>2
        <3> QED BY <3>1 DEF Registered, Route
    <2>3. Gone'
        BY <1>3, <1>5 DEF Lived, Gone, Route
    <2> QED BY <2>1, <2>2, <2>3 DEF Lived
<1>7. \A i \in 1..Len(answered) : answered[i] \in Messages
    BY DEF Answers
<1>8. ASSUME NEW m \in Messages, Before(m) PROVE Before(m)'
    BY <1>2, <1>3, <1>7, <1>8 DEF Before, ConvOf
<1>9. Answers'
    <2>1. \A i \in 1..Len(answered') : answered'[i] \in Messages'
        BY <1>2, <1>3, <1>7
    <2>2. Before(hand[1])'
        BY <1>1, <1>2, <1>3, <1>7 DEF Before, Messages
    <2>3. ASSUME NEW w \in Workers, Route(w) \in hosted'
          PROVE  /\ msg'[w] # 0 => Before(msg[w])'
                 /\ \A i \in 1..Len(inbox'[w]) : Before(inbox[w][i])'
        <3>1. /\ msg[w] # 0 => msg[w] \in Messages /\ Before(msg[w])
              /\ \A i \in 1..Len(inbox[w]) : inbox[w][i] \in Messages /\ Before(inbox[w][i])
            BY <1>3, <2>3 DEF Answers, Queued, MsgOK, QueueOK
        <3>2. PICK s, n : s = inbox[w] /\ n = msg[w]
            OBVIOUS
        <3>3. (n # 0 => Before(n)') /\ \A i \in 1..Len(s) : Before(s[i])'
            BY <1>8, <3>1, <3>2
        <3>4. inbox'[w] = s /\ msg'[w] = n
            BY <1>3, <3>2
        <3> QED BY <3>3, <3>4 DEF Before, ConvOf
    <2> QED BY <2>1, <2>2, <2>3 DEF Answers, Route
<1>10. InOrder'
    <2>1. DOMAIN answered = 1..Len(answered) BY DEF HistoryType
    <2>2. \A i \in DOMAIN answered : asked'[answered[i]] = asked[answered[i]]
        BY <1>2, <1>7, <2>1
    <2>3. ASSUME NEW i \in DOMAIN answered, NEW j \in DOMAIN answered, i < j,
                 asked'[answered[i]].conv = asked'[answered[j]].conv
          PROVE  answered[i] < answered[j]
        BY <2>2, <2>3 DEF InOrder
    <2>4. answered' = answered BY <1>3
    <2> QED BY <2>3, <2>4, Zenon DEF InOrder
<1> QED BY <1>6, <1>9, <1>10

LEMMA RepliedDeliver ==
    ASSUME Replied, Deliver
    PROVE  Lived' /\ Answers' /\ InOrder'
<1> USE DEF Replied, Routed, Guarded, Types, WorkerType
<1>1. PICK m, w : m = hand[1] /\ w = hand[2]
    OBVIOUS
<1>2. /\ hand # <<>> /\ hand' = <<>>
      /\ UNCHANGED <<lane, pc, msg, doomed, hosted, asked, answered, panicked>>
      /\ \/ inbox' = [inbox EXCEPT ![w] = Append(inbox[w], m)]
         \/ UNCHANGED inbox
    BY <1>1 DEF Deliver, files
<1>3. m \in Msgs /\ w \in Workers /\ Before(m)
    BY <1>1, <1>2 DEF RouterType, Answers
<1>4. Lived'
    BY <1>2 DEF Lived, Removed, Registered, Gone, Alive, Route
<1>5. \A k : Before(k)' <=> Before(k)
    BY <1>2 DEF Before, ConvOf
<1>6. ASSUME NEW v \in Workers, Route(v) \in hosted, NEW i \in 1..Len(inbox'[v])
      PROVE  Before(inbox'[v][i])
    <2>1. CASE inbox'[v] = inbox[v] BY <1>6, <2>1 DEF Answers
    <2>2. CASE v = w /\ inbox'[v] = Append(inbox[v], m)
        <3>1. PICK s, q : s = inbox[v] /\ q = inbox'[v]
            OBVIOUS
        <3>2. /\ Len(s) \in Nat /\ Len(q) = Len(s) + 1 /\ q[Len(s) + 1] = m
              /\ \A j \in 1..Len(s) : q[j] = s[j]
            BY <1>3, <2>2, <3>1, AppendProperties, LenProperties
        <3>3. \A j \in 1..Len(s) : Before(s[j])
            BY <1>6, <3>1 DEF Answers
        <3>4. i \in 1..Len(s) \/ i = Len(s) + 1
            BY <3>1, <3>2
        <3> QED BY <1>3, <3>1, <3>2, <3>3, <3>4
    <2> QED BY <1>2, <1>3, <2>1, <2>2
<1>7. Answers'
    BY <1>2, <1>5, <1>6 DEF Answers, Route, Before, Messages, ConvOf
<1>8. InOrder'
    BY <1>2 DEF InOrder
<1> QED BY <1>4, <1>7, <1>8

LEMMA RepliedRestart ==
    ASSUME Replied, NEW old \in SUBSET Filed, Restart(old)
    PROVE  Lived' /\ Answers' /\ InOrder'
<1>1. /\ hand' = <<>> /\ doomed' = {} /\ UNCHANGED <<asked, answered>>
      /\ \A w \in Workers : pc'[w] = "none" /\ msg'[w] = 0 /\ inbox'[w] = <<>> /\ Len(<<>>) = 0
    BY EmptySeq DEF Restart, Idle
<1>2. Lived'
    BY <1>1 DEF Lived, Removed, Registered, Gone, Alive
<1> QED BY <1>1, <1>2 DEF Replied, Answers, InOrder, Messages

LEMMA InitReplied == Init => Replied
<1> SUFFICES ASSUME Init PROVE Replied
    OBVIOUS
<1>1. /\ hand = <<>> /\ doomed = {} /\ answered = <<>> /\ Len(<<>>) = 0 /\ DOMAIN <<>> = 1..0
      /\ \A w \in Workers : pc[w] = "none" /\ msg[w] = 0 /\ inbox[w] = <<>>
    BY EmptySeq DEF Init, Idle
<1>2. Lived
    BY <1>1 DEF Lived, Removed, Registered, Gone, Alive
<1>3. Answers /\ InOrder
    BY <1>1 DEF Answers, InOrder
<1> QED BY <1>2, <1>3, InitRouted DEF Replied

LEMMA StepReplied == Replied /\ [Next]_vars => Replied'
<1> SUFFICES ASSUME Replied, [Next]_vars PROVE Replied'
    OBVIOUS
<1>0. Routed'
    BY StepRouted DEF Replied
<1>1. CASE \E c \in Convs : \E k \in Says[c] : Arrive(c, k) BY <1>0, <1>1, RepliedArrive DEF Replied
<1>2. CASE Deliver BY <1>0, <1>2, RepliedDeliver DEF Replied
<1>3. CASE \E w \in Workers : Works(w) \/ Panic(w)
    BY <1>0, <1>3, LivedStep, AnswersStep DEF Replied
<1>4. CASE \E old \in SUBSET Filed : Restart(old) BY <1>0, <1>4, RepliedRestart DEF Replied
<1>6. CASE \E c \in Filed : OtherBoot(c)
    <2>1. Lived'
        BY <1>6 DEF OtherBoot, worker, Replied, Lived, Removed, Registered, Gone, Alive, Route
    <2>2. Answers' /\ InOrder'
        BY <1>6 DEF OtherBoot, router, worker, Replied, Answers, InOrder, Before, Messages,
           ConvOf, Route
    <2> QED BY <1>0, <2>1, <2>2 DEF Replied
<1>5. CASE UNCHANGED vars
    <2>1. Lived'
        BY <1>5 DEF vars, worker, files, ghosts, Replied, Lived, Removed, Registered, Gone, Alive, Route
    <2>2. Answers' /\ InOrder'
        BY <1>5 DEF vars, router, worker, files, ghosts, Replied, Answers, InOrder, Before,
           Messages, ConvOf, Route
    <2> QED BY <1>0, <2>1, <2>2 DEF Replied
<1> QED BY <1>1, <1>2, <1>3, <1>4, <1>5, <1>6 DEF Next

(* lane.rs:15-16: whatever lanes panic, are aborted and are started anew, a  *)
(* conversation is answered in the order of its messages, each at most once. *)
THEOREM LanesInOrder == Spec => []InOrder
<1>1. Init => Replied
    BY InitReplied
<1>2. Replied /\ [Next]_vars => Replied'
    BY StepReplied
<1>3. Replied => InOrder
    BY DEF Replied
<1> QED BY <1>1, <1>2, <1>3, PTL DEF Spec

-----------------------------------------------------------------------------
(* What is remembered.                                                       *)

LanesInv == Replied /\ Histories

FilesSame == \A c \in Convs : RouteOf[c] \in hosted' => File(c)' = File(c)
Shrinks(w) == /\ Pending(w)' \subseteq Pending(w) /\ Hist(w)' \subseteq Hist(w)
              /\ pc'[w] # "dead" => Hist(w)' = Hist(w)
              /\ \A c \in Convs : File(c)' \subseteq File(c)
              /\ FilesSame /\ UNCHANGED <<forgotten, saved, capped>>
Forgets(w) == /\ Pending(w)' \subseteq Pending(w) /\ Hist(w)' = {}
              /\ \A c \in Convs : File(c)' = IF c = w[1] THEN {} ELSE File(c)
              /\ forgotten' = forgotten \cup Hist(w) /\ UNCHANGED <<saved, capped>>
Hears(w) == /\ msg[w] \in Pending(w) /\ msg[w] \in Hist(w)'
            /\ Hist(w)' \subseteq Hist(w) \cup {msg[w]}
            /\ Hist(w) \subseteq Hist(w)' \cup capped' /\ capped \subseteq capped'
            /\ Pending(w)' \subseteq Pending(w) \ {msg[w]}
            /\ (\A c \in Convs : File(c)' = File(c)) /\ UNCHANGED <<forgotten, saved>>
Saves(w) == /\ Pending(w)' \subseteq Pending(w) /\ Hist(w)' = Hist(w)
            /\ \A c \in Convs : File(c)' = IF c = w[1] THEN Hist(w) ELSE File(c)
            /\ saved' = saved \cup Hist(w) /\ UNCHANGED <<forgotten, capped>>

(* What a worker is still to hear is of its conversation, and it lives.      *)
LEMMA PendingOK ==
    ASSUME Replied, NEW w \in Workers, NEW m \in Pending(w)
    PROVE  /\ m \in Messages /\ ConvOf(m) = w[1] /\ Alive(w)
           /\ hand # <<>> => m < hand[1]
<1> USE DEF Replied, Routed, Guarded, Types, WorkerType
<1>1. MsgOK(w) /\ QueueOK(w)
    BY DEF Queued
<1>2. CASE m \in ToSet(inbox[w])
    <2>1. DOMAIN inbox[w] = 1..Len(inbox[w])
        OBVIOUS
    <2>2. PICK i \in 1..Len(inbox[w]) : m = inbox[w][i]
        BY <1>2, <2>1 DEF ToSet
    <2>3. Alive(w)
        BY <1>1, <2>2, EmptySeq DEF QueueOK
    <2> QED BY <1>1, <2>2, <2>3 DEF QueueOK
<1>3. CASE pc[w] \in {"permit", "gate", "turn"} /\ m = msg[w]
    <2>1. AtWork(w) /\ Alive(w) BY <1>3 DEF AtWork, Alive
    <2>2. msg[w] # 0 BY <2>1 DEF Holding
    <2> QED BY <1>1, <1>3, <2>1, <2>2 DEF MsgOK
<1> QED BY <1>2, <1>3 DEF Pending

(* A taken message leaves nothing new to be heard.                           *)
LEMMA TakenPending ==
    ASSUME Replied, NEW w \in Workers, NEW p, Take(w, p)
    PROVE  Pending(w)' \subseteq Pending(w)
<1> USE DEF Replied, Routed, Guarded, Types, WorkerType
<1>1. inbox[w] \in Seq(Msgs) /\ inbox[w] # <<>>
    BY DEF Take
<1>2. ToSet(Tail(inbox[w])) \subseteq ToSet(inbox[w]) /\ Head(inbox[w]) \in ToSet(inbox[w])
    BY <1>1, Elements
<1>3. inbox'[w] = Tail(inbox[w]) /\ msg'[w] = Head(inbox[w])
    BY DEF Take
<1> QED BY <1>2, <1>3 DEF Pending

(* A worker that ended remembers nothing.                                    *)
LEMMA Dying ==
    ASSUME Types, NEW w \in Workers, Works(w) \/ Panic(w), pc'[w] = "dead"
    PROVE  Hist(w)' = {}
<1> USE DEF Types, WorkerType
<1>1. Die(w) \/ Panic(w)
    BY DEF Works, Ask, New, ChangeDir, RemoveBot, StopRoute, TakePermit, StartTurn, EndTurn,
       Save, Reply, Take
<1> QED BY <1>1, NoElements DEF Die, Panic, Vanish, Hist

LEMMA Remembering ==
    ASSUME Replied, NEW w \in Workers, Works(w) \/ Panic(w)
    PROVE  Shrinks(w) \/ Forgets(w) \/ Hears(w) \/ Saves(w)
<1> USE DEF Replied, Routed, Guarded, Types, WorkerType
<1>0. /\ w[1] \in Convs /\ hist[w] \in Seq(Msgs) /\ session = [c \in Convs |-> session[c]]
      /\ hist[w] # NoFile
    BY WorkerPairs, LanesConstants DEF FilesType, Msgs
<1>1. CASE Ask(w)
    <2>1. Pending(w)' \subseteq Pending(w) BY <1>1, TakenPending DEF Ask
    <2> QED BY <1>1, <2>1 DEF Ask, Shrinks, FilesSame, Hist, File, files, ghosts
<1>2. CASE New(w)
    <2>1. Pending(w)' \subseteq Pending(w) BY <1>2, TakenPending DEF New
    <2>2. Hist(w)' = {} BY <1>2, NoElements DEF New, Hist
    <2>3. \A c \in Convs : File(c)' = IF c = w[1] THEN {} ELSE File(c)
        BY <1>0, <1>2 DEF New, ForgetsFile, File
    <2> QED BY <1>2, <2>1, <2>2, <2>3 DEF New, Forgets, Hist
<1>3. CASE ChangeDir(w)
    <2>1. Pending(w)' \subseteq Pending(w) BY <1>3, TakenPending DEF ChangeDir
    <2> QED BY <1>3, <2>1 DEF ChangeDir, Shrinks, FilesSame, Hist, File, ghosts
<1>4. CASE RemoveBot(w)
    <2>1. Pending(w)' \subseteq Pending(w) BY <1>4, TakenPending DEF RemoveBot
    <2>2. \A c \in Convs : File(c)' = {} \/ File(c)' = File(c)
        BY <1>4 DEF RemoveBot, File
    <2>3. FilesSame
        BY <1>4 DEF RemoveBot, FilesSame, File
    <2> QED BY <1>4, <2>1, <2>2, <2>3 DEF RemoveBot, Shrinks, Hist, ghosts
<1>5. CASE StopRoute(w)
    BY <1>5 DEF StopRoute, Shrinks, FilesSame, Pending, Hist, File, ghosts
<1>6. CASE TakePermit(w)
    BY <1>6 DEF TakePermit, Shrinks, FilesSame, Pending, Hist, File, files, ghosts
<1>7. CASE StartTurn(w)
    BY <1>7 DEF StartTurn, Shrinks, FilesSame, Pending, Hist, File, files, ghosts
<1>8. CASE EndTurn(w)
    <2>1. msg[w] \in Msgs
        BY <1>8, Held DEF EndTurn, AtWork
    <2>2. /\ Hist(w)' \subseteq Hist(w) \cup {msg[w]} /\ msg[w] \in Hist(w)'
          /\ Hist(w) \subseteq Hist(w)' \cup capped' /\ capped \subseteq capped'
        <3>1. PICK h \in Seq(Msgs), gone \in SUBSET Msgs :
                 /\ hist' = [hist EXCEPT ![w] = h] /\ capped' = capped \cup gone
                 /\ ToSet(h) \subseteq ToSet(hist[w]) \cup {msg[w]} /\ msg[w] \in ToSet(h)
                 /\ ToSet(hist[w]) \subseteq ToSet(h) \cup gone
            BY <1>8, Ending
        <3>2. hist'[w] = h BY <3>1
        <3> QED BY <3>1, <3>2 DEF Hist
    <2>3. msg[w] \notin ToSet(inbox[w])
        <3>1. QueueOK(w) /\ DOMAIN inbox[w] = 1..Len(inbox[w]) BY DEF Queued
        <3>2. \A i \in 1..Len(inbox[w]) : msg[w] < inbox[w][i] BY <3>1 DEF QueueOK
        <3> QED BY <2>1, <3>1, <3>2 DEF ToSet, Msgs
    <2>4. msg[w] \in Pending(w) /\ Pending(w)' \subseteq Pending(w) \ {msg[w]}
        BY <1>8, <2>3 DEF EndTurn, Pending
    <2> QED BY <1>8, <2>2, <2>4 DEF EndTurn, Hears, File, files, ghosts
<1>9. CASE Save(w)
    <2>1. Pending(w)' \subseteq Pending(w) /\ Hist(w)' = Hist(w)
        BY <1>9 DEF Save, Pending, Hist
    <2>2. CASE UNCHANGED <<session, saved>>
        BY <1>9, <2>1, <2>2 DEF Save, Shrinks, FilesSame, File
    <2>3. CASE session' = [session EXCEPT ![w[1]] = hist[w]] /\ saved' = saved \cup ToSet(hist[w])
        <3>1. \A c \in Convs : File(c)' = IF c = w[1] THEN Hist(w) ELSE File(c)
            BY <1>0, <2>3 DEF File, Hist
        <3> QED BY <1>9, <2>1, <2>3, <3>1 DEF Save, Saves, Hist
    <2> QED BY <1>9, <2>2, <2>3 DEF Save
<1>10. CASE Reply(w)
    BY <1>10 DEF Reply, Shrinks, FilesSame, Pending, Hist, File, files
<1>11. CASE Die(w) \/ Panic(w)
    <2>1. pc'[w] = "dead" /\ hist'[w] = <<>> /\ inbox'[w] = <<>>
        BY <1>11 DEF Die, Panic, Vanish
    <2>2. Hist(w)' = {} /\ Pending(w)' = {}
        BY <2>1, NoElements DEF Hist, Pending
    <2> QED BY <1>11, <2>1, <2>2 DEF Die, Panic, Shrinks, FilesSame, File, files
<1> QED BY <1>1, <1>2, <1>3, <1>4, <1>5, <1>6, <1>7, <1>8, <1>9, <1>10, <1>11 DEF Works

(* What a worker's step leaves alone.                                        *)
LEMMA Others ==
    ASSUME Replied, NEW w \in Workers, Works(w) \/ Panic(w)
    PROVE  /\ UNCHANGED <<hand, asked, seeds>> /\ Alive(w)
           /\ \A v \in Workers \ {w} : /\ Hist(v)' = Hist(v) /\ Pending(v)' = Pending(v)
                                       /\ pc'[v] = pc[v]
           /\ \A c \in Convs : Seeds(c)' = Seeds(c)
           /\ \A c \in Convs : Unborn(c)' <=> Unborn(c)
           /\ hosted' \subseteq hosted /\ panicked \subseteq panicked'
<1> USE DEF Replied, Routed, Guarded, Types
<1>1. /\ UNCHANGED <<hand, asked, seeds>> /\ hosted' \subseteq hosted /\ panicked \subseteq panicked'
      /\ pc[w] \notin {"none", "dead"} /\ pc'[w] # "none"
      /\ \A v \in Workers \ {w} : /\ inbox'[v] = inbox[v] /\ pc'[v] = pc[v] /\ msg'[v] = msg[v]
                                  /\ hist'[v] = hist[v]
    BY Handling, Ruling, Guarding, Elsewhere DEF Moves
<1>2. \A v \in Workers \ {w} : Hist(v)' = Hist(v) /\ Pending(v)' = Pending(v)
    BY <1>1 DEF Hist, Pending
<1>3. \A c \in Convs : Seeds(c)' = Seeds(c)
    BY <1>1 DEF Seeds
<1>4. \A c \in Convs : Unborn(c)' <=> Unborn(c)
    BY <1>1 DEF Unborn
<1> QED BY <1>1, <1>2, <1>3, <1>4 DEF Alive

LEMMA FreshStep ==
    ASSUME LanesInv, NEW w \in Workers, Works(w) \/ Panic(w)
    PROVE  Fresh' /\ Apart'
<1> USE DEF LanesInv, Histories
<1>1. /\ hand' = hand /\ \A v \in Workers \ {w} : Hist(v)' = Hist(v) /\ Pending(v)' = Pending(v)
      /\ Shrinks(w) \/ Forgets(w) \/ Hears(w) \/ Saves(w)
    BY Others, Remembering
<1>2. /\ Pending(w)' \subseteq Pending(w)
      /\ Hist(w)' \subseteq Hist(w) \/ Hears(w)
      /\ forgotten' \subseteq forgotten \cup Hist(w)
    BY <1>1 DEF Shrinks, Forgets, Hears, Saves
<1>3. ASSUME NEW m, Unheard(m), ~Hears(w) \/ m # msg[w] PROVE Unheard(m)'
    <2>1. m \notin forgotten'
        BY <1>2, <1>3 DEF Unheard
    <2>2. ASSUME NEW v \in Workers PROVE m \notin Hist(v)'
        BY <1>1, <1>2, <1>3 DEF Unheard, Hears
    <2> QED BY <2>1, <2>2 DEF Unheard
<1>4. Fresh'
    <2>1. ASSUME hand # <<>> PROVE Unheard(hand[1])'
        <3>1. Unheard(hand[1]) BY <2>1 DEF Fresh
        <3>2. Hears(w) => hand[1] # msg[w]
            <4>1. Hears(w) => msg[w] < hand[1] /\ msg[w] \in Nat
                BY <2>1, PendingOK DEF Hears, Messages
            <4> QED BY <4>1
        <3> QED BY <1>1, <1>3, <3>1, <3>2 DEF Unheard, Hist
    <2>2. ASSUME NEW v \in Workers, NEW m \in Pending(v)' PROVE Unheard(m)'
        <3>1. m \in Pending(v) /\ Unheard(m)
            BY <1>1, <1>2, <2>2 DEF Fresh
        <3>2. Hears(w) => m # msg[w]
            BY <1>1, <2>2, <3>1 DEF Hears, Apart
        <3> QED BY <1>3, <3>1, <3>2
    <2> QED BY <1>1, <2>1, <2>2 DEF Fresh
<1>5. ASSUME NEW v \in Workers, NEW u \in Workers, v # u
      PROVE  Pending(v)' \cap Pending(u)' = {} /\ Hist(v)' \cap Hist(u)' = {}
    <2>1. Pending(v) \cap Pending(u) = {} /\ Hist(v) \cap Hist(u) = {}
        BY <1>5 DEF Apart
    <2>2. Pending(v)' \cap Pending(u)' = {}
        BY <1>1, <1>2, <2>1
    <2>3. Hears(w) => \A x \in Workers : msg[w] \notin Hist(x)
        BY DEF Hears, Fresh, Unheard
    <2>4. Hist(v)' \cap Hist(u)' = {}
        BY <1>1, <1>2, <1>5, <2>1, <2>3 DEF Hears
    <2> QED BY <2>2, <2>4
<1> QED BY <1>4, <1>5 DEF Apart

LEMMA OwnStep ==
    ASSUME LanesInv, NEW w \in Workers, Works(w) \/ Panic(w)
    PROVE  Own' /\ Seeded'
<1> USE DEF LanesInv, Histories
<1>1. /\ UNCHANGED asked /\ w[1] \in Convs /\ Alive(w)
      /\ \A v \in Workers \ {w} : Hist(v)' = Hist(v) /\ pc'[v] = pc[v]
      /\ \A c \in Convs : Seeds(c)' = Seeds(c) /\ (Unborn(c)' <=> Unborn(c))
      /\ Shrinks(w) \/ Forgets(w) \/ Hears(w) \/ Saves(w)
    BY Others, Remembering, WorkerPairs
<1>2. \A s, c : Owned(s, c)' <=> Owned(s, c)
    BY <1>1 DEF Owned, Messages, ConvOf
<1>3. Owned(Hist(w), w[1]) /\ (Hears(w) => Owned({msg[w]}, w[1]))
    BY PendingOK DEF Own, Owned, Hears
<1>4. Owned(Hist(w)', w[1])
    BY <1>1, <1>3 DEF Shrinks, Forgets, Hears, Saves, Owned
<1>5. ~Alive(w)' => Hist(w)' = {}
    <2>1. pc'[w] # "none"
        BY Guarding DEF Replied, Routed, Guarded, Moves
    <2>2. ASSUME pc'[w] = "dead" PROVE Hist(w)' = {}
        BY <2>2, Dying DEF Replied, Routed, Guarded
    <2> QED BY <2>1, <2>2 DEF Alive
<1>6. ASSUME NEW v \in Workers PROVE (Owned(Hist(v), v[1]) /\ (~Alive(v) => Hist(v) = {}))'
    <2>1. CASE v = w BY <1>2, <1>4, <1>5, <2>1
    <2>2. CASE v # w BY <1>1, <1>2, <2>2 DEF Own, Alive, Owned, Messages, ConvOf
    <2> QED BY <2>1, <2>2
<1>7. ASSUME NEW c \in Convs PROVE Owned(File(c)', c) /\ Owned(Seeds(c)', c)
    BY <1>1, <1>3 DEF Own, Shrinks, Forgets, Hears, Saves, Owned
<1>8. forgotten' \subseteq Messages' /\ saved' \subseteq Messages'
    BY <1>1, <1>3 DEF Own, Owned, Shrinks, Forgets, Hears, Saves, Messages
<1>9. Own'
    BY <1>1, <1>6, <1>7, <1>8 DEF Own, Owned, Messages, ConvOf
<1>10. Seeded'
    BY <1>1 DEF Seeded
<1> QED BY <1>9, <1>10

LEMMA ForgotStep ==
    ASSUME LanesInv, NEW w \in Workers, Works(w) \/ Panic(w)
    PROVE  Forgot'
<1> USE DEF LanesInv, Histories
<1>1. /\ w[1] \in Convs /\ Alive(w)
      /\ \A v \in Workers \ {w} : Hist(v)' = Hist(v)
      /\ \A c \in Convs : Seeds(c)' = Seeds(c)
      /\ Shrinks(w) \/ Forgets(w) \/ Hears(w) \/ Saves(w)
    BY Others, Remembering, WorkerPairs
<1>2. CASE Shrinks(w) \/ Saves(w)
    BY <1>1, <1>2 DEF Forgot, Shrinks, Saves
<1>3. CASE Hears(w)
    <2>1. msg[w] \notin forgotten BY <1>3 DEF Hears, Fresh, Unheard
    <2> QED BY <1>1, <1>3, <2>1 DEF Forgot, Hears
<1>4. CASE Forgets(w)
    <2>1. \A v \in Workers \ {w} : Hist(v) \cap Hist(w) = {}
        BY DEF Apart
    <2>2. \A c \in Convs \ {w[1]} : File(c) \cap Hist(w) = {} /\ Seeds(c) \cap Hist(w) = {}
        BY DEF Own, Owned
    <2>3. Seeds(w[1]) = {}
        BY <1>1 DEF Seeded, Unborn, Alive
    <2>4. \A v \in Workers : Hist(v)' \cap forgotten' = {}
        BY <1>1, <1>4, <2>1 DEF Forgot, Forgets
    <2>5. \A c \in Convs : File(c)' \cap forgotten' = {} /\ Seeds(c)' \cap forgotten' = {}
        BY <1>1, <1>4, <2>2, <2>3 DEF Forgot, Forgets
    <2> QED BY <2>4, <2>5 DEF Forgot
<1> QED BY <1>1, <1>2, <1>3, <1>4

LEMMA KeptStep ==
    ASSUME LanesInv, NEW w \in Workers, Works(w) \/ Panic(w), Replied'
    PROVE  Kept'
<1> USE DEF LanesInv, Histories
<1>1. /\ UNCHANGED asked /\ w[1] \in Convs /\ Alive(w) /\ hosted' \subseteq hosted
      /\ panicked \subseteq panicked'
      /\ \A v \in Workers \ {w} : Hist(v)' = Hist(v) /\ pc'[v] = pc[v]
      /\ \A c \in Convs : Seeds(c)' = Seeds(c) /\ (Unborn(c)' <=> Unborn(c))
      /\ Shrinks(w) \/ Forgets(w) \/ Hears(w) \/ Saves(w)
    BY Others, Remembering, WorkerPairs
<1>2. SUFFICES ASSUME NEW c \in Convs, c \notin panicked', RouteOf[c] \in hosted',
                      NEW m \in saved' \ (forgotten' \cup capped'), asked[m].conv = c
               PROVE  /\ m \in File(c)'
                      /\ \A v \in Workers : Alive(v)' /\ v[1] = c => m \in Hist(v)'
                      /\ Unborn(c)' => m \in Seeds(c)'
    BY <1>1 DEF Kept, Keeps, ConvOf
<1>3. Keeps(c)
    BY <1>1, <1>2 DEF Kept
<1>4. \A v \in Workers \ {w} : Alive(v)' <=> Alive(v)
    BY <1>1 DEF Alive
<1>5. CASE w[1] # c
    <2>1. m \in saved \ (forgotten \cup capped) /\ File(c)' = File(c)
        BY <1>1, <1>2, <1>5 DEF Shrinks, Forgets, Hears, Saves, FilesSame, Own, Owned, ConvOf
    <2> QED BY <1>1, <1>2, <1>3, <1>4, <1>5, <2>1 DEF Keeps, ConvOf
<1>6. CASE w[1] = c
    <2>1. ~Unborn(c)
        BY <1>1, <1>6 DEF Unborn, Alive
    <2>2. \A v \in Workers : Alive(v) /\ v[1] = c => v = w
        BY <1>1, <1>2, <1>6, WorkerPairs DEF Replied, Lived, Registered, Route
    <2>3. pc'[w] # "dead"
        BY <1>2, <1>6 DEF Replied, Lived, Gone, Route
    <2>4. m \in saved \ (forgotten \cup capped) => m \in File(c) /\ m \in Hist(w)
        BY <1>1, <1>2, <1>3, <1>6 DEF Keeps, ConvOf
    <2>5. m \in File(c)' /\ m \in Hist(w)'
        BY <1>1, <1>2, <1>6, <2>3, <2>4 DEF Shrinks, Forgets, Hears, Saves, FilesSame
    <2> QED BY <1>1, <1>4, <2>1, <2>2, <2>5
<1> QED BY <1>5, <1>6

LEMMA HistoriesArrive ==
    ASSUME LanesInv, NEW c \in Convs, NEW k \in Says[c], Arrive(c, k)
    PROVE  Histories'
<1> USE DEF LanesInv, Replied, Routed, Guarded, Types, WorkerType
<1>1. PICK g \in 1..MaxGen :
         /\ hand' = <<Len(asked'), <<c, g>>>>
         /\ \/ Open(c) /\ UNCHANGED <<pc, hist>>
            \/ /\ ~Open(c) /\ pc[<<c, g>>] = "none" /\ pc' = [pc EXCEPT ![<<c, g>>] = "recv"]
               /\ hist' = [hist EXCEPT ![<<c, g>>] = Seed(c)]
    BY NextGeneration
<1>2. /\ Len(asked) \in Nat /\ Len(asked') = Len(asked) + 1
      /\ \A m \in Messages : m \in Messages' /\ asked'[m] = asked[m]
    BY Asking
<1>3. PICK w \in Workers : w = <<c, g>> /\ w[1] = c
    BY WorkerPairs
<1>4. /\ UNCHANGED <<inbox, msg, session, hosted, forgotten, saved, capped, panicked>>
      /\ seeds' = [seeds EXCEPT ![c] = <<>>]
    BY DEF Arrive, files, ghosts
<1>5. /\ \A d \in Convs : File(d)' = File(d)
      /\ \A d \in Convs : Seeds(d)' = IF d = c THEN {} ELSE Seeds(d)
    BY <1>4, NoElements DEF File, Seeds, RouterType
<1>6. /\ \A v \in Workers \ {w} : pc'[v] = pc[v] /\ Hist(v)' = Hist(v)
      /\ \A v \in Workers : Pending(v)' = Pending(v)
      /\ \/ Open(c) /\ pc'[w] = pc[w] /\ Hist(w)' = Hist(w)
         \/ ~Open(c) /\ pc[w] = "none" /\ pc'[w] = "recv" /\ Hist(w)' = Seeds(c)
    <2>1. \A v \in Workers \ {w} : pc'[v] = pc[v] /\ hist'[v] = hist[v]
        BY <1>1, <1>3
    <2>2. \/ Open(c) /\ pc'[w] = pc[w] /\ hist'[w] = hist[w]
          \/ ~Open(c) /\ pc[w] = "none" /\ pc'[w] = "recv" /\ hist'[w] = seeds[c]
        BY <1>1, <1>3 DEF Seed
    <2> QED BY <1>4, <2>1, <2>2 DEF Hist, Pending, Seeds
<1>7. \A s, d : Owned(s, d) => Owned(s, d)'
    BY <1>2 DEF Owned, ConvOf
<1>8. /\ \A v \in Workers : Hist(v)' \subseteq Messages
      /\ \A v \in Workers : Hist(v)' = Hist(v) \/ (v = w /\ Hist(v)' = Seeds(c))
      /\ \A m \in Seeds(c) : m \in Messages /\ ConvOf(m) = c
      /\ \A v \in Workers : Alive(v)' <=> (Alive(v) \/ (v = w /\ pc'[w] = "recv"))
    <2>1. (\A v \in Workers : Hist(v) \subseteq Messages) /\ \A m \in Seeds(c) : m \in Messages /\ ConvOf(m) = c
        BY DEF Histories, Own, Owned
    <2>2. ASSUME NEW v \in Workers PROVE Hist(v)' = Hist(v) \/ (v = w /\ Hist(v)' = Seeds(c))
        <3>1. CASE v = w BY <1>6, <3>1
        <3>2. CASE v # w BY <1>6, <3>2
        <3> QED BY <3>1, <3>2
    <2>3. ASSUME NEW v \in Workers PROVE Alive(v)' <=> (Alive(v) \/ (v = w /\ pc'[w] = "recv"))
        BY <1>6 DEF Alive
    <2> QED BY <2>1, <2>2, <2>3
(* With a seed to read, no other worker of the conversation has a history.   *)
<1>9. Seeds(c) # {} => \A v \in Workers : v[1] = c => pc[v] = "none" /\ Hist(v) = {} /\ Pending(v) = {}
    <2>1. ASSUME NEW v \in Workers, pc[v] = "none" PROVE Hist(v) = {} /\ Pending(v) = {}
        BY <2>1, PendingOK DEF Histories, Own, Alive
    <2> QED BY <2>1 DEF Histories, Seeded, Unborn
<1>10. Fresh'
    <2>1. Unheard(hand[1])'
        BY <1>1, <1>2, <1>4, <1>8 DEF Unheard, Histories, Own, Messages
    <2>2. ASSUME NEW v \in Workers, NEW m \in Pending(v)' PROVE Unheard(m)'
        <3>1. m \in Pending(v) /\ Unheard(m) /\ m \in Messages /\ ConvOf(m) = v[1]
            BY <1>6, <2>2, PendingOK DEF Histories, Fresh
        <3>2. m \notin Seeds(c)
            BY <1>9, <3>1 DEF Histories, Own, Owned
        <3> QED BY <1>4, <1>6, <3>1, <3>2, ZenonT(60) DEF Unheard
    <2> QED BY <2>1, <2>2 DEF Fresh
<1>11. Apart'
    <2>1. \A v \in Workers \ {w} : Seeds(c) \cap Hist(v) = {}
        <3>1. ASSUME NEW v \in Workers, v[1] # c PROVE Seeds(c) \cap Hist(v) = {}
            BY <3>1 DEF Histories, Own, Owned
        <3> QED BY <1>9, <3>1
    <2>2. ASSUME NEW v \in Workers, NEW u \in Workers, v # u
          PROVE  Pending(v)' \cap Pending(u)' = {} /\ Hist(v)' \cap Hist(u)' = {}
        <3>1. Pending(v) \cap Pending(u) = {} /\ Hist(v) \cap Hist(u) = {}
            BY <2>2 DEF Histories, Apart
        <3>2. Pending(v)' \cap Pending(u)' = {}
            BY <1>6, <3>1
        <3>3. Hist(v)' \cap Hist(u)' = {}
            <4>1. CASE v = w
                <5>1. Hist(v)' = Hist(v) \/ Hist(v)' = Seeds(c) BY <1>8
                <5>2. Hist(u)' = Hist(u) /\ Seeds(c) \cap Hist(u) = {} BY <1>6, <2>1, <2>2, <4>1
                <5> QED BY <3>1, <5>1, <5>2
            <4>2. CASE u = w
                <5>1. Hist(u)' = Hist(u) \/ Hist(u)' = Seeds(c) BY <1>8
                <5>2. Hist(v)' = Hist(v) /\ Seeds(c) \cap Hist(v) = {} BY <1>6, <2>1, <2>2, <4>2
                <5> QED BY <3>1, <5>1, <5>2
            <4>3. CASE v # w /\ u # w BY <1>6, <3>1, <4>3
            <4> QED BY <4>1, <4>2, <4>3
        <3> QED BY <3>2, <3>3
    <2> QED BY <2>2 DEF Apart
<1>12. Own'
    <2>1. ASSUME NEW v \in Workers PROVE (Owned(Hist(v), v[1]) /\ (~Alive(v) => Hist(v) = {}))'
        <3>1. Owned(Hist(v), v[1]) /\ Owned(Seeds(c), c) /\ (~Alive(v) => Hist(v) = {})
            BY DEF Histories, Own
        <3>2. \A m \in Hist(v)' : m \in Messages' /\ asked'[m].conv = v[1]
            BY <1>2, <1>3, <1>8, <3>1 DEF Owned, ConvOf
        <3>3. ~Alive(v)' => Hist(v)' = {}
            BY <1>6, <1>8, <3>1
        <3> QED BY <3>2, <3>3 DEF Owned, ConvOf
    <2>2. ASSUME NEW d \in Convs PROVE (Owned(File(d), d) /\ Owned(Seeds(d), d))'
        <3>1. \A m \in File(d) \cup Seeds(d) : m \in Messages' /\ asked'[m].conv = d
            BY <1>2 DEF Histories, Own, Owned, ConvOf
        <3>2. File(d)' = File(d) /\ Seeds(d)' \subseteq Seeds(d)
            BY <1>5
        <3> QED BY <3>1, <3>2 DEF Owned, ConvOf
    <2>3. forgotten' \subseteq Messages' /\ saved' \subseteq Messages'
        BY <1>2, <1>4 DEF Histories, Own
    <2> QED BY <2>1, <2>2, <2>3 DEF Own
<1>13. Seeded'
    BY <1>5, <1>6, <1>3 DEF Histories, Seeded, Unborn
<1>14. Forgot'
    BY <1>4, <1>5, <1>6 DEF Histories, Forgot
<1>15. Kept'
    <2>1. SUFFICES ASSUME NEW d \in Convs, d \notin panicked, RouteOf[d] \in hosted,
                          NEW m \in saved \ (forgotten \cup capped), asked'[m].conv = d
                   PROVE  /\ m \in File(d)'
                          /\ \A v \in Workers : Alive(v)' /\ v[1] = d => m \in Hist(v)'
                          /\ Unborn(d)' => m \in Seeds(d)'
        BY <1>4 DEF Kept, Keeps, ConvOf
    <2>2. /\ m \in File(d)
          /\ \A v \in Workers : Alive(v) /\ v[1] = d => m \in Hist(v)
          /\ Unborn(d) => m \in Seeds(d)
        BY <1>2, <2>1 DEF Histories, Own, Kept, Keeps, ConvOf
    <2>3. CASE d # c
        BY <1>3, <1>5, <1>6, <2>2, <2>3 DEF Unborn, Alive
    <2>4. CASE d = c /\ Open(c)
        <3>1. ~Unborn(c)
            BY <2>4, WorkerPairs DEF Open, Unborn, Handed, RouterType
        <3> QED BY <1>5, <1>6, <2>2, <2>4, <3>1, ZenonT(60) DEF Unborn, Alive
    <2>5. CASE d = c /\ ~Open(c)
        <3>1. lane[c] = 0 \/ pc[<<c, lane[c]>>] = "dead"
            BY <2>5 DEF Open
        <3>2. ASSUME NEW v \in Workers, v[1] = c PROVE pc[v] = "none"
            <4>1. pc[v] # "dead"
                BY <2>1, <2>5, <3>2 DEF Lived, Gone, Route
            <4>2. v = <<c, v[2]>> /\ v[2] # 0
                BY <3>2, WorkerPairs
            <4>3. Alive(v) => lane[c] = v[2]
                BY <2>1, <2>5, <3>2 DEF Lived, Registered, Route
            <4> QED BY <3>1, <4>1, <4>2, <4>3 DEF Alive
        <3>3. m \in Seeds(c)
            BY <2>2, <2>5, <3>2 DEF Unborn
        <3>4. pc'[w] # "none" /\ Hist(w)' = Seeds(c)
            BY <1>6, <2>5
        <3> QED BY <1>3, <1>5, <1>6, <2>2, <2>5, <3>2, <3>3, <3>4 DEF Unborn, Alive
    <2> QED BY <2>3, <2>4, <2>5
<1> QED BY <1>10, <1>11, <1>12, <1>13, <1>14, <1>15 DEF Histories

LEMMA HistoriesDeliver ==
    ASSUME LanesInv, Deliver
    PROVE  Histories'
<1> USE DEF LanesInv, Replied, Routed, Guarded, Types, WorkerType, Histories
<1>1. PICK m, w : m = hand[1] /\ w = hand[2]
    OBVIOUS
<1>2. /\ hand # <<>> /\ hand' = <<>>
      /\ UNCHANGED <<seeds, pc, msg, hist, session, hosted, asked, saved, forgotten, capped,
                     panicked>>
      /\ \/ inbox' = [inbox EXCEPT ![w] = Append(inbox[w], m)]
         \/ UNCHANGED inbox
    BY <1>1 DEF Deliver, files
<1>3. m \in Msgs /\ w \in Workers /\ Unheard(m)
    BY <1>1, <1>2 DEF RouterType, Fresh
<1>4. /\ \A v \in Workers \ {w} : Pending(v)' = Pending(v)
      /\ Pending(w)' \subseteq Pending(w) \cup {m}
    <2>1. ToSet(Append(inbox[w], m)) = ToSet(inbox[w]) \cup {m}
        BY <1>3, Elements
    <2> QED BY <1>2, <1>3, <2>1 DEF Pending
<1>5. /\ \A v \in Workers : Hist(v)' = Hist(v)
      /\ \A c \in Convs : File(c)' = File(c) /\ Seeds(c)' = Seeds(c)
    BY <1>2 DEF Hist, File, Seeds
<1>6. \A v \in Workers : m \notin Pending(v)
    <2>1. \A v \in Workers : \A n \in Pending(v) : n < m /\ n \in Nat
        BY <1>1, <1>2, PendingOK DEF Messages
    <2> QED BY <1>3, <2>1 DEF Msgs
<1>7. Fresh'
    <2>1. \A n : Unheard(n)' <=> Unheard(n)
        BY <1>2, <1>5 DEF Unheard
    <2>2. ASSUME NEW v \in Workers, NEW n \in Pending(v)' PROVE Unheard(n)
        <3>1. n \in Pending(v) \/ n = m
            BY <1>4, <2>2
        <3> QED BY <1>3, <3>1 DEF Fresh
    <2> QED BY <1>2, <2>1, <2>2 DEF Fresh
<1>8. Apart'
    <2>1. ASSUME NEW v \in Workers, NEW u \in Workers, v # u
          PROVE  Pending(v)' \cap Pending(u)' = {} /\ Hist(v)' \cap Hist(u)' = {}
        <3>1. Pending(v) \cap Pending(u) = {} /\ Hist(v) \cap Hist(u) = {}
            BY <2>1 DEF Apart
        <3>2. ASSUME NEW x \in Workers, NEW n \in Pending(x)'
              PROVE  n \in Pending(x) \/ (x = w /\ n = m)
            <4>1. CASE x = w BY <1>4, <3>2, <4>1
            <4>2. CASE x # w BY <1>4, <3>2, <4>2
            <4> QED BY <4>1, <4>2
        <3>3. Pending(v)' \cap Pending(u)' = {}
            <4>1. ASSUME NEW n \in Pending(v)', n \in Pending(u)' PROVE FALSE
                <5>1. n \in Pending(v) \/ (v = w /\ n = m) BY <3>2
                <5>2. n \in Pending(u) \/ (u = w /\ n = m) BY <3>2, <4>1
                <5> QED BY <1>6, <2>1, <3>1, <5>1, <5>2
            <4> QED BY <4>1
        <3> QED BY <1>5, <3>1, <3>3
    <2> QED BY <2>1 DEF Apart
<1>9. Own'
    BY <1>2, <1>5 DEF Own, Owned, Alive, Messages, ConvOf
<1>10. Seeded' /\ Forgot'
    BY <1>2, <1>5 DEF Seeded, Unborn, Forgot
<1>11. Kept'
    <2>1. \A c \in Convs : Keeps(c) => Keeps(c)'
        BY <1>2, <1>5 DEF Keeps, Unborn, Alive, ConvOf
    <2> QED BY <1>2, <2>1 DEF Kept
<1> QED BY <1>7, <1>8, <1>9, <1>10, <1>11

(* Files that go are taken for capped.                                       *)
LEMMA HistoriesBoot ==
    ASSUME LanesInv, NEW c \in Filed, OtherBoot(c)
    PROVE  Histories'
<1> USE DEF LanesInv, Replied, Routed, Guarded, Histories
<1>1. /\ UNCHANGED <<hand, seeds, pc, msg, inbox, hist, hosted, asked, saved, forgotten, panicked>>
      /\ {c} \in SUBSET Filed /\ Collect({c})
    BY DEF OtherBoot, router, worker
<1>2. /\ \A d \in Convs : File(d)' = IF d = c THEN {} ELSE File(d)
      /\ capped' = capped \cup File(c)
    <2>1. /\ \A d \in Convs : File(d)' = IF d \in {c} THEN {} ELSE File(d)
          /\ capped' = capped \cup UNION {File(d) : d \in {c}}
        BY <1>1, Collecting
    <2> QED BY <2>1
<1>3. /\ \A w \in Workers : Hist(w)' = Hist(w) /\ Pending(w)' = Pending(w)
      /\ \A d \in Convs : Seeds(d)' = Seeds(d)
    BY <1>1 DEF Hist, Pending, Seeds
<1>4. Fresh' /\ Apart' /\ Seeded'
    BY <1>1, <1>3 DEF Fresh, Unheard, Apart, Seeded, Unborn
<1>5. Own'
    BY <1>1, <1>2, <1>3 DEF Own, Owned, Alive, Messages, ConvOf
<1>6. Forgot' /\ Kept'
    BY <1>1, <1>2, <1>3 DEF Forgot, Kept, Keeps, Alive, Unborn, ConvOf
<1> QED BY <1>4, <1>5, <1>6

LEMMA HistoriesRestart ==
    ASSUME LanesInv, NEW old \in SUBSET Filed, Restart(old)
    PROVE  Histories'
<1> USE DEF LanesInv, Replied, Routed, Guarded, Histories
<1>1. /\ hand' = <<>> /\ UNCHANGED <<hosted, asked, saved, forgotten, panicked>>
      /\ \A w \in Workers : pc'[w] = "none" /\ hist'[w] = <<>> /\ inbox'[w] = <<>>
      /\ seeds' = [c \in Convs |-> IF session'[c] = NoFile THEN <<>> ELSE session'[c]]
      /\ Collect(old)
    BY DEF Restart, Idle
<1>2. \A w \in Workers : Hist(w)' = {} /\ Pending(w)' = {}
    BY <1>1, NoElements DEF Hist, Pending
<1>3. /\ \A c \in Convs : File(c)' = IF c \in old THEN {} ELSE File(c)
      /\ capped' = capped \cup UNION {File(c) : c \in old}
    BY <1>1, Collecting
<1>4. \A c \in Convs : Seeds(c)' = File(c)'
    BY <1>1, NoElements DEF Seeds, File
<1>5. Fresh' /\ Apart' /\ Seeded'
    BY <1>1, <1>2 DEF Fresh, Apart, Seeded, Unborn
<1>6. Own'
    BY <1>1, <1>2, <1>3, <1>4 DEF Own, Owned, Messages, ConvOf
<1>7. Forgot'
    BY <1>1, <1>2, <1>3, <1>4 DEF Forgot
<1>8. Kept'
    <2>1. ASSUME NEW c \in Convs, NEW m \in saved \ (forgotten \cup capped'), m \in File(c)
          PROVE  m \in File(c)'
        BY <1>3, <2>1
    <2>2. \A m : m \notin capped' => m \notin capped
        BY <1>3
    <2> QED BY <1>1, <1>2, <1>4, <2>1, <2>2 DEF Kept, Keeps, Alive, ConvOf
<1> QED BY <1>5, <1>6, <1>7, <1>8

LEMMA InitLanes == Init => LanesInv
<1> SUFFICES ASSUME Init PROVE LanesInv
    OBVIOUS
<1>1. /\ \A w \in Workers : Hist(w) = {} /\ Pending(w) = {} /\ pc[w] = "none"
      /\ \A c \in Convs : Seeds(c) = {} /\ File(c) = {}
    BY NoElements DEF Init, Idle, Hist, Pending, Seeds, File
<1>2. Histories
    BY <1>1 DEF Init, Histories, Fresh, Apart, Own, Owned, Seeded, Forgot, Kept, Keeps
<1> QED BY <1>2, InitReplied DEF LanesInv

LEMMA StepLanes == LanesInv /\ [Next]_vars => LanesInv'
<1> SUFFICES ASSUME LanesInv, [Next]_vars PROVE LanesInv'
    OBVIOUS
<1>0. Replied'
    BY StepReplied DEF LanesInv
<1>1. CASE \E c \in Convs : \E k \in Says[c] : Arrive(c, k)
    BY <1>0, <1>1, HistoriesArrive DEF LanesInv
<1>2. CASE Deliver BY <1>0, <1>2, HistoriesDeliver DEF LanesInv
<1>3. CASE \E w \in Workers : Works(w) \/ Panic(w)
    BY <1>0, <1>3, FreshStep, OwnStep, ForgotStep, KeptStep DEF LanesInv, Histories
<1>4. CASE \E old \in SUBSET Filed : Restart(old) BY <1>0, <1>4, HistoriesRestart DEF LanesInv
<1>6. CASE \E c \in Filed : OtherBoot(c) BY <1>0, <1>6, HistoriesBoot DEF LanesInv
<1>5. CASE UNCHANGED vars
    <2>1. /\ \A w : Hist(w)' = Hist(w) /\ Pending(w)' = Pending(w)
          /\ \A c : Seeds(c)' = Seeds(c) /\ File(c)' = File(c)
          /\ UNCHANGED <<hand, pc, asked, hosted, panicked, forgotten, saved, capped>>
        BY <1>5 DEF vars, router, worker, files, ghosts, Hist, Pending, Seeds, File
    <2>2. Histories'
        BY <2>1 DEF LanesInv, Histories, Fresh, Unheard, Apart, Own, Owned, Seeded, Unborn,
           Forgot, Kept, Keeps, Alive, Messages, ConvOf
    <2> QED BY <1>0, <2>2 DEF LanesInv
<1> QED BY <1>1, <1>2, <1>3, <1>4, <1>5, <1>6 DEF Next

LEMMA LanesHistory == LanesInv => HistoryTrue
<1> SUFFICES ASSUME LanesInv PROVE HistoryTrue
    OBVIOUS
<1> USE DEF LanesInv, Histories
<1>1. NewForgets
    BY DEF NewForgets, Forgot, Hist, File
<1>2. Remembered
    <2>1. ASSUME NEW m \in saved \ (forgotten \cup capped), ConvOf(m) \notin panicked,
                 RouteOf[ConvOf(m)] \in hosted
          PROVE  m \in File(ConvOf(m))
        <3>1. ConvOf(m) \in Convs
            <4>1. m \in 1..Len(asked) BY DEF Own, Messages
            <4>2. asked \in Seq([conv : Convs, what : Kinds])
                BY DEF Replied, Routed, Guarded, Types, HistoryType
            <4>3. asked[m] \in [conv : Convs, what : Kinds]
                BY <4>1, <4>2, ElementOfSeq
            <4> QED BY <4>3 DEF ConvOf
        <3> QED BY <2>1, <3>1 DEF Kept, Keeps
    <2> QED BY <2>1 DEF Remembered, File, ConvOf
<1> QED BY <1>1, <1>2 DEF HistoryTrue

(* daemon.rs:586: what /new dropped comes back from no seed, no stale file   *)
(* and no other lane, and what was answered and saved stays in the file of   *)
(* its conversation for the next boot, unless cap_session or gc_sessions     *)
(* dropped it, a lane of it panicked or its bot was removed.                 *)
THEOREM LanesHistoryTrue == Spec => []HistoryTrue
<1>1. Init => LanesInv
    BY InitLanes
<1>2. LanesInv /\ [Next]_vars => LanesInv'
    BY StepLanes
<1>3. LanesInv => HistoryTrue
    BY LanesHistory
<1> QED BY <1>1, <1>2, <1>3, PTL DEF Spec
=============================================================================
