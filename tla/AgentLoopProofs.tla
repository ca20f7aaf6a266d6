---------------------------- MODULE AgentLoopProofs ----------------------------
(* Proofs about the agent loop, for any number of runs at the same time and  *)
(* any budgets: what a run attests to when it is Done, what a claim of its   *)
(* goal is about, what a failed call leaves, and that a cut-off was warned   *)
(* of.                                                                       *)
EXTENDS AgentLoop, SequenceTheorems, TLAPS

-----------------------------------------------------------------------------
(* The inductive invariant: the locals of a run, and what ties them to the   *)
(* tree, the token, the goal and the claim.                                  *)

Upto(n) == 0..n
Texts   == Seq(Marks)
Deeds   == SUBSET Acts
RunRec ==
    [pc : {"idle", "top", "wait", "backoff", "gate", "judge", "batch", "synth"},
     stop : Stops, kind : Kinds \cup {"repl"}, goal : BOOLEAN,
     left : Upto(MaxIters + AutoExtendTo + MaxGoalSteps), extended : BOOLEAN,
     conts : Upto(MaxContinuations), recoveries : Upto(MaxRecoveries),
     flat : Nat, nudged : BOOLEAN, latch : BOOLEAN,
     edits : BOOLEAN, passed : BOOLEAN, attempts : Upto(MaxVerify), failedNow : BOOLEAN,
     last : Projects, blind : BOOLEAN,
     reviewed : BOOLEAN, pokes : Upto(MaxPokes), spike : {"none", "armed", "spent"},
     attempt : Nat, permanent : Nat, shrunk : BOOLEAN,
     pushed : BOOLEAN, reprompts : Upto(1), tail : Texts, base : Texts, did : Deeds,
     told : BOOLEAN, again : BOOLEAN, silent : BOOLEAN]

(* What a call put behind the history it was made on is what it counted.     *)
Calling(me) == me.pc \in {"wait", "backoff"}
Grown(me) ==
    /\ Len(me.tail) = Len(me.base) + me.reprompts + (IF me.pushed THEN 1 ELSE 0)
    /\ \A i \in 1..Len(me.base) : me.tail[i] = me.base[i]

(* A verification runs only while there is none that passed and budget left; *)
(* steps are left wherever one can be used up; and a run that repeats itself *)
(* or was nudged has been told.                                              *)
LocalOK(me) ==
    /\ me.goal => me.kind = "repl"
    /\ me.pc = "gate" => ~me.passed /\ me.attempts < MaxVerify
    /\ me.pc \in {"wait", "backoff", "gate", "judge", "batch"} => me.left >= 1
    /\ Calling(me) => Grown(me)
    /\ ~Calling(me) => me.reprompts = 0
    /\ me.again => me.pc = "backoff" /\ me.reprompts = 0
    /\ me.latch \/ me.nudged => me.told
    /\ me.pc = "synth" => me.stop = "MaxIters" \/ (me.stop = "Divergence" /\ me.told)
LocalInv == run \in [Runs -> RunRec] /\ \A r \in Runs : LocalOK(run[r])

(* A claim is judged with a verification behind it, unless it just failed,   *)
(* its budget is spent, or the gate had no verdict for it.                   *)
Unverified(me) == me.kind # "lane" /\ me.edits /\ ~me.passed
JudgeOK(r) ==
    run[r].pc = "judge" /\ Unverified(run[r])
        => run[r].failedNow \/ run[r].attempts >= MaxVerify \/ run[r].blind
DoneOK(r) ==
    run[r].pc = "idle" /\ run[r].stop = "Done" /\ Unverified(run[r]) => run[r].blind
AttestOK(r) ==
    Live(r) /\ run[r].passed /\ ~Edited(r) /\ r \notin unseen => good[run[r].last]
VerifyInv == \A r \in Runs : JudgeOK(r) /\ DoneOK(r) /\ AttestOK(r)

(* The REPL has one turn at a time, and the goal outlives the turns for it.  *)
Turn(r) == Live(r) /\ run[r].kind = "repl"
GoalInv ==
    /\ \A r, s \in Runs : Turn(r) /\ Turn(s) => r = s
    /\ \A r \in Runs : Live(r) /\ run[r].goal => goal
    /\ ClaimStands

RestOK ==
    /\ cancelled \in [Runs -> BOOLEAN] /\ late \in [Runs -> BOOLEAN]
    /\ {goal, claim, open, asked, mail, refuted} \subseteq BOOLEAN
    /\ good \in [Projects -> BOOLEAN]
    /\ moved \subseteq Runs /\ unseen \subseteq Runs
    /\ goals \in 0..MaxGoals /\ claimOf \in 0..MaxGoals

IInv == RestOK /\ LocalInv /\ VerifyInv /\ GoalInv

-----------------------------------------------------------------------------
(* The budgets.                                                              *)
LEMMA Budgets ==
    /\ Home \in Projects /\ MaxIters \in Nat \ {0} /\ FlatTurns \in Nat \ {0}
    /\ AutoExtendTo \in Nat /\ MaxContinuations \in Nat /\ MaxRecoveries \in Nat
    /\ MaxVerify \in Nat /\ MaxPokes \in Nat /\ MaxGoalSteps \in Nat
    /\ Retries \in Nat /\ GoalRetries \in Nat /\ PermanentRetries \in Nat
    /\ MaxPrompts \in Nat /\ MaxGoals \in Nat /\ MaxActs \in Nat
BY LoopConstants

LEMMA FreshFacts ==
    /\ Fresh \in RunRec /\ Fresh.pc = "idle" /\ Fresh.stop = "Done" /\ ~Fresh.edits
    /\ ~Fresh.passed /\ LocalOK(Fresh)
<1>1. Fresh \in RunRec BY Budgets DEF Fresh, RunRec, Stops, Marks, Acts, Upto, Texts, Deeds
<1> QED BY <1>1 DEF Fresh, LocalOK, Calling

LEMMA EndedFacts ==
    ASSUME NEW me \in RunRec, NEW stop \in Stops, NEW tail \in Texts
    PROVE  LET end == Ended(me, stop, tail) IN
           /\ end \in RunRec /\ LocalOK(end)
           /\ end.pc = "idle" /\ end.stop = stop /\ end.tail = tail /\ end.kind = me.kind
           /\ end.edits = me.edits /\ end.passed = me.passed /\ end.blind = me.blind
<1> DEFINE end == Ended(me, stop, tail)
<1>1. end \in RunRec BY FreshFacts, ZenonT(60) DEF Ended, RunRec
<1>2. /\ end.pc = "idle" /\ end.stop = stop /\ end.tail = tail /\ end.kind = me.kind
      /\ end.edits = me.edits /\ end.passed = me.passed /\ end.blind = me.blind
      /\ ~end.latch /\ ~end.nudged /\ ~end.again /\ ~end.goal /\ end.reprompts = 0
  BY DEF Ended, Fresh
<1>3. LocalOK(end)
  <2> HIDE DEF end
  <2> QED BY <1>1, <1>2 DEF LocalOK, Calling
<1> QED BY <1>1, <1>2, <1>3

LEMMA RollbackBase ==
    ASSUME NEW me \in RunRec, LocalOK(me), Calling(me)
    PROVE  Rollback(me) = me.base /\ Rollback(me) \in Texts
<1> DEFINE n == me.reprompts + (IF me.pushed THEN 1 ELSE 0)
<1>1. /\ n \in Nat /\ me.tail \in Seq(Marks) /\ me.base \in Seq(Marks)
      /\ me.reprompts \in 0..1
  BY DEF RunRec, Texts, Upto
<1>2. Len(me.tail) - n = Len(me.base) /\ \A i \in 1..Len(me.base) : me.tail[i] = me.base[i]
  BY <1>1 DEF LocalOK, Grown
<1>3. Rollback(me) = SubSeq(me.tail, 1, Len(me.base)) BY <1>2 DEF Rollback, Chop
<1>4. \A i \in 1..Len(me.base) : me.tail[i] \in Marks BY <1>1, <1>2
<1>5. /\ SubSeq(me.tail, 1, Len(me.base)) \in Seq(Marks)
      /\ Len(SubSeq(me.tail, 1, Len(me.base))) = Len(me.base)
      /\ \A i \in 1..Len(me.base) : SubSeq(me.tail, 1, Len(me.base))[i] = me.tail[i]
  BY <1>1, <1>2, <1>4, SubSeqProperties
<1> QED BY <1>1, <1>2, <1>3, <1>5, SeqEqual DEF Texts

LEMMA AppendText ==
    ASSUME NEW s \in Texts, NEW m \in Marks
    PROVE  \E t \in Texts : /\ t = Append(s, m) /\ Len(t) = Len(s) + 1
                             /\ \A i \in 1..Len(s) : t[i] = s[i]
<1>1. /\ Append(s, m) \in Seq(Marks) /\ Len(Append(s, m)) = Len(s) + 1
      /\ \A i \in 1..Len(s) : Append(s, m)[i] = s[i]
  BY AppendProperties DEF Texts
<1> QED BY <1>1 DEF Texts

LEMMA AfterErrorType ==
    ASSUME NEW me \in RunRec, NEW s \in Texts PROVE AfterError(me, s) \in Texts
<1>1. SubSeq(s, 1, Len(s) - 1) \in Seq(Marks)
  <2>1. Len(s) - 1 \in Int /\ \A i \in 1..(Len(s) - 1) : s[i] \in Marks
    BY DEF Texts
  <2> QED BY <2>1, SubSeqProperties
<1> QED BY <1>1 DEF AfterError, Front, Texts

-----------------------------------------------------------------------------
(* A step that changes the locals of one run, and leaves the others theirs.  *)
LEMMA RunStep ==
    ASSUME IInv, RestOK', NEW r \in Runs, NEW me \in RunRec, run' = [run EXCEPT ![r] = me],
           LocalOK(me), \A s \in Runs \ {r} : cancelled'[s] = cancelled[s],
           unseen \ {r} \subseteq unseen',
           \A s \in Runs \ {r} : good'[run[s].last] = good[run[s].last] \/ s \in unseen',
           JudgeOK(r)', DoneOK(r)', AttestOK(r)',
           me.pc # "idle" /\ me.kind = "repl" => Turn(r) \/ NoTurn,
           me.pc # "idle" /\ me.goal => goal',
           goal' = goal \/ Turn(r), ClaimStands'
    PROVE  IInv'
<1>1. /\ run' \in [Runs -> RunRec] /\ run'[r] = me
      /\ \A s \in Runs \ {r} : run'[s] = run[s]
  BY DEF IInv, LocalInv
<1>2. LocalInv' BY <1>1 DEF IInv, LocalInv
<1>3. VerifyInv'
  <2> SUFFICES ASSUME NEW s \in Runs, s # r PROVE JudgeOK(s)' /\ DoneOK(s)' /\ AttestOK(s)'
    BY DEF VerifyInv
  <2>1. JudgeOK(s) /\ DoneOK(s) /\ AttestOK(s) BY DEF IInv, VerifyInv
  <2> QED BY <1>1, <2>1 DEF JudgeOK, DoneOK, AttestOK, Live, Edited
<1>4. GoalInv'
  <2>1. \A s \in Runs \ {r} : Turn(s)' <=> Turn(s) BY <1>1 DEF Turn, Live
  <2>2. Turn(r)' => Turn(r) \/ NoTurn BY <1>1 DEF Turn, Live
  <2>3. \A s \in Runs : NoTurn => ~Turn(s) BY DEF NoTurn, Turn, Live
  <2>4. \A q, s \in Runs : Turn(q)' /\ Turn(s)' => q = s BY <2>1, <2>2, <2>3 DEF IInv, GoalInv
  <2>5. ASSUME NEW s \in Runs, Live(s)', run'[s].goal PROVE goal'
    <3>1. CASE s = r BY <1>1, <2>5, <3>1 DEF Live
    <3>2. CASE s # r
      <4>1. Live(s) /\ run[s].goal /\ LocalOK(run[s]) BY <1>1, <2>5, <3>2 DEF Live, IInv, LocalInv
      <4>2. goal /\ Turn(s) BY <4>1 DEF IInv, GoalInv, LocalOK, Turn
      <4> QED BY <3>2, <4>2 DEF IInv, GoalInv
    <3> QED BY <3>1, <3>2
  <2> QED BY <2>4, <2>5 DEF GoalInv
<1> QED BY <1>2, <1>3, <1>4 DEF IInv

\* The step of a live run that is about none of the cells the runs share.
LEMMA InsideStep ==
    ASSUME IInv, RestOK', NEW r \in Runs, NEW me \in RunRec, run' = [run EXCEPT ![r] = me],
           LocalOK(me), Live(r), me.kind = run[r].kind, me.goal => run[r].goal,
           UNCHANGED <<cancelled, goal, claim, goals, claimOf, refuted, good>>, unseen' = unseen,
           me.pc # "idle" /\ me.passed
                => /\ run[r].passed /\ me.last = run[r].last
                   /\ run[r].did \cap Counted # {} => me.did \cap Counted # {},
           me.pc = "judge" /\ Unverified(me)
                => me.failedNow \/ me.attempts >= MaxVerify \/ me.blind,
           me.pc = "idle" /\ me.stop = "Done" /\ Unverified(me) => me.blind
    PROVE  IInv'
<1>1. run'[r] = me BY DEF IInv, LocalInv
<1>2. JudgeOK(r)' /\ DoneOK(r)' BY <1>1 DEF JudgeOK, DoneOK
<1>3. AttestOK(r)' BY <1>1 DEF AttestOK, Edited, Live, IInv, VerifyInv
<1>4. me.pc # "idle" /\ me.goal => goal' BY DEF IInv, GoalInv
<1>5. me.kind = "repl" => Turn(r) BY DEF Turn
<1>6. ClaimStands' BY DEF IInv, GoalInv, ClaimStands
<1> QED BY <1>2, <1>3, <1>4, <1>5, <1>6, RunStep

LEMMA RunFacts ==
    ASSUME IInv, NEW r \in Runs
    PROVE  run[r] \in RunRec /\ LocalOK(run[r]) /\ JudgeOK(r) /\ DoneOK(r) /\ AttestOK(r)
BY DEF IInv, LocalInv, VerifyInv

LEMMA ReturnStep ==
    ASSUME IInv, NEW r \in Runs, NEW stop \in Stops \ {"Done"}, NEW tail \in Texts,
           Live(r), Return(r, stop, tail), RestOK',
           UNCHANGED <<cancelled, goal, claim, goals, claimOf, refuted, good, unseen>>
    PROVE  IInv'
<1>1. PICK me : me = Ended(run[r], stop, tail) OBVIOUS
<1>2. me \in RunRec /\ LocalOK(me) /\ me.pc = "idle" /\ me.stop = stop /\ me.kind = run[r].kind
  BY <1>1, RunFacts, EndedFacts
<1>3. ~me.goal BY <1>1 DEF Ended, Fresh
<1>4. run' = [run EXCEPT ![r] = me] BY <1>1 DEF Return
<1> QED BY <1>2, <1>3, <1>4, InsideStep

LEMMA SubSteps ==
    ASSUME IInv, UNCHANGED <<cancelled, late, shared, tree, sent, ghosts>>
    PROVE  RestOK' /\ UNCHANGED <<cancelled, goal, claim, goals, claimOf, refuted, good>>
           /\ unseen' = unseen
BY DEF IInv, RestOK, shared, tree, sent, ghosts

LEMMA GiveUpStep ==
    ASSUME IInv, NEW r \in Runs, NEW stop \in Stops \ {"Done"}, Calling(run[r]), GiveUp(r, stop),
           UNCHANGED <<cancelled, late, shared, tree, sent, ghosts>>
    PROVE  IInv'
<1>1. Rollback(run[r]) \in Texts BY RunFacts, RollbackBase
<1>2. AfterError(run[r], Rollback(run[r])) \in Texts BY <1>1, RunFacts, AfterErrorType
<1>3. PICK tail \in Texts : Return(r, stop, tail) BY <1>1, <1>2 DEF GiveUp
<1>4. Live(r) BY DEF Calling, Live
<1> QED BY <1>3, <1>4, SubSteps, ReturnStep

LEMMA AttemptStep ==
    ASSUME IInv, NEW r \in Runs, NEW me \in RunRec, LocalOK([me EXCEPT !.pc = "wait"]), ~me.again,
           Calling(run[r]), me.kind = run[r].kind, me.goal = run[r].goal,
           me.passed = run[r].passed, me.did = run[r].did, me.last = run[r].last,
           Rollback(me) \in Texts,
           Attempt(r, me), UNCHANGED <<cancelled, late, shared, tree, sent, ghosts>>
    PROVE  IInv'
<1>0. Live(r) BY DEF Calling, Live
<1>1. CASE late[r]
  <2>1. PICK end : end = Ended(me, "Deadline", Rollback(me)) OBVIOUS
  <2>2. /\ end \in RunRec /\ LocalOK(end) /\ end.pc = "idle" /\ end.stop = "Deadline"
        /\ end.kind = run[r].kind
    <3>1. "Deadline" \in Stops BY DEF Stops
    <3> QED BY <2>1, <3>1, EndedFacts
  <2>3. ~end.goal BY <2>1 DEF Ended, Fresh
  <2>4. run' = [run EXCEPT ![r] = end] BY <1>1, <2>1 DEF Attempt
  <2> QED BY <1>0, <2>2, <2>3, <2>4, SubSteps, InsideStep
<1>2. CASE ~late[r]
  <2>1. PICK m : m = [me EXCEPT !.pc = "wait"] OBVIOUS
  <2>2. m \in RunRec /\ m.pc = "wait" /\ m.kind = run[r].kind /\ m.goal = run[r].goal
        /\ m.passed = run[r].passed /\ m.did = run[r].did /\ m.last = run[r].last
    BY <2>1 DEF RunRec
  <2>3. run' = [run EXCEPT ![r] = m] /\ LocalOK(m) BY <1>2, <2>1 DEF Attempt
  <2> QED BY <1>0, <2>2, <2>3, SubSteps, InsideStep
<1> QED BY <1>1, <1>2

-----------------------------------------------------------------------------
(* The model call.                                                           *)
LEMMA AbandonStep == ASSUME IInv, NEW r \in Runs, Abandon(r) PROVE IInv'
<1>1. "Cancelled" \in Stops \ {"Done"} BY DEF Stops
<1> QED BY <1>1, GiveUpStep DEF Abandon, Calling

LEMMA RetryStep == ASSUME IInv, NEW r \in Runs, NEW what, Retry(r, what) PROVE IInv'
<1>1. /\ run[r].pc = "wait" /\ run[r] \in RunRec /\ LocalOK(run[r])
      /\ UNCHANGED <<cancelled, late, shared, tree, sent, ghosts>>
  BY RunFacts DEF Retry
<1>2. CASE GiveUp(r, "Err")
  <2>1. "Err" \in Stops \ {"Done"} BY DEF Stops
  <2> QED BY <1>1, <1>2, <2>1, GiveUpStep DEF Calling
<1>3. CASE ~GiveUp(r, "Err")
  <2>0. PICK n \in Nat, p \in Nat :
          n = run[r].attempt + 1
          /\ p = IF what = "permanent" THEN run[r].permanent + 1 ELSE run[r].permanent
    BY <1>1 DEF RunRec
  <2>1. PICK again \in BOOLEAN :
          /\ again => run[r].reprompts = 0
          /\ run' = [run EXCEPT ![r] = [@ EXCEPT
                  !.pc = "backoff", !.again = again, !.attempt = n, !.permanent = p]]
    BY <1>3, <2>0 DEF Retry
  <2>2. PICK me : me = [run[r] EXCEPT
                  !.pc = "backoff", !.again = again, !.attempt = n, !.permanent = p]
    OBVIOUS
  <2>3. me \in RunRec BY <1>1, <2>2, ZenonT(60) DEF RunRec
  <2>4. LocalOK(me) BY <1>1, <2>1, <2>2 DEF RunRec, LocalOK, Calling, Grown
  <2>5. me.pc = "backoff" /\ me.kind = run[r].kind /\ me.goal = run[r].goal
        /\ me.passed = run[r].passed /\ me.did = run[r].did /\ me.last = run[r].last
    BY <1>1, <2>2 DEF RunRec
  <2>6. run' = [run EXCEPT ![r] = me] /\ Live(r) BY <1>1, <2>1, <2>2 DEF Live
  <2> QED BY <1>1, <2>3, <2>4, <2>5, <2>6, SubSteps, InsideStep
<1> QED BY <1>2, <1>3

\* A re-prompt is counted by the call it belongs to.
LEMMA ResumedFacts ==
    ASSUME IInv, NEW r \in Runs, run[r].pc = "backoff", run[r].again
    PROVE  \E me \in RunRec :
             /\ me = [run[r] EXCEPT !.again = FALSE, !.reprompts = 1, !.tail = Append(@, "user")]
             /\ LocalOK(me) /\ me.pc = "backoff" /\ ~me.again /\ me.base = run[r].base
             /\ me.kind = run[r].kind /\ me.goal = run[r].goal
             /\ me.passed = run[r].passed /\ me.did = run[r].did /\ me.last = run[r].last
<1>1. run[r] \in RunRec /\ LocalOK(run[r]) BY RunFacts
<1>2. run[r].tail \in Texts BY <1>1 DEF RunRec
<1>3. PICK t \in Texts : /\ t = Append(run[r].tail, "user") /\ Len(t) = Len(run[r].tail) + 1
                         /\ \A i \in 1..Len(run[r].tail) : t[i] = run[r].tail[i]
  BY <1>2, AppendText DEF Marks
<1>4. PICK me : me = [run[r] EXCEPT !.again = FALSE, !.reprompts = 1, !.tail = t]
  OBVIOUS
<1>5. me = [run[r] EXCEPT !.again = FALSE, !.reprompts = 1, !.tail = Append(@, "user")]
  BY <1>1, <1>3, <1>4 DEF RunRec
<1>6. me \in RunRec
  <2>1. 1 \in Upto(1) BY DEF Upto
  <2> QED BY <1>1, <1>4, <2>1, ZenonT(60) DEF RunRec
<1>7. /\ ~me.again /\ me.reprompts = 1 /\ me.tail = t
      /\ me.base = run[r].base /\ me.pushed = run[r].pushed /\ me.pc = "backoff"
      /\ me.kind = run[r].kind /\ me.goal = run[r].goal /\ me.passed = run[r].passed
      /\ me.did = run[r].did /\ me.last = run[r].last
      /\ me.left = run[r].left /\ me.latch = run[r].latch
      /\ me.nudged = run[r].nudged /\ me.told = run[r].told
  BY <1>1, <1>4 DEF RunRec
<1>8. Grown(me)
  <2>1. Grown(run[r]) /\ run[r].reprompts = 0 BY <1>1 DEF LocalOK, Calling
  <2>2. /\ run[r].base \in Texts /\ run[r].pushed \in BOOLEAN
        /\ Len(run[r].base) \in Nat /\ Len(run[r].tail) \in Nat
    BY <1>1 DEF RunRec, Texts
  <2>3. Len(run[r].tail) = Len(run[r].base) + (IF run[r].pushed THEN 1 ELSE 0)
    BY <2>1, <2>2 DEF Grown
  <2>4. Len(run[r].base) <= Len(run[r].tail)
    <3>1. CASE run[r].pushed BY <2>2, <2>3, <3>1
    <3>2. CASE ~run[r].pushed BY <2>2, <2>3, <3>2
    <3> QED BY <3>1, <3>2
  <2>5. Len(t) = Len(run[r].base) + 1 + (IF run[r].pushed THEN 1 ELSE 0)
    <3>1. CASE run[r].pushed BY <1>3, <2>2, <2>3, <3>1
    <3>2. CASE ~run[r].pushed BY <1>3, <2>2, <2>3, <3>2
    <3> QED BY <3>1, <3>2
  <2>6. \A i \in 1..Len(run[r].base) : run[r].tail[i] = run[r].base[i]
    BY <2>1 DEF Grown
  <2>7. \A i \in 1..Len(run[r].base) : i \in 1..Len(run[r].tail) BY <2>2, <2>4
  <2>8. \A i \in 1..Len(run[r].base) : t[i] = run[r].base[i]
    BY <1>3, <2>6, <2>7, Zenon
  <2> QED BY <1>7, <2>5, <2>8 DEF Grown
<1>9. LocalOK(me) BY <1>1, <1>7, <1>8 DEF LocalOK, Calling
<1> QED BY <1>5, <1>6, <1>7, <1>9

LEMMA ResumeStep == ASSUME IInv, NEW r \in Runs, Resume(r) PROVE IInv'
<1>1. /\ run[r].pc = "backoff" /\ run[r] \in RunRec /\ LocalOK(run[r])
      /\ UNCHANGED <<cancelled, late, shared, tree, sent, ghosts>>
  BY RunFacts DEF Resume
<1>2. CASE run[r].again
  <2>1. PICK me \in RunRec :
          /\ me = [run[r] EXCEPT !.again = FALSE, !.reprompts = 1, !.tail = Append(@, "user")]
          /\ LocalOK(me) /\ me.pc = "backoff" /\ ~me.again /\ me.base = run[r].base
          /\ me.kind = run[r].kind /\ me.goal = run[r].goal
          /\ me.passed = run[r].passed /\ me.did = run[r].did /\ me.last = run[r].last
    BY <1>1, <1>2, ResumedFacts
  <2>2. Attempt(r, me) BY <1>2, <2>1 DEF Resume
  <2>3. LocalOK([me EXCEPT !.pc = "wait"])
    <3>1. PICK m : m = [me EXCEPT !.pc = "wait"] OBVIOUS
    <3>2. LocalOK(me) /\ me.pc = "backoff" /\ ~me.again BY <2>1
    <3>3. LocalOK(m) BY <3>1, <3>2 DEF RunRec, LocalOK, Calling, Grown
    <3> QED BY <3>1, <3>3
  <2>4. Rollback(me) \in Texts BY <2>1, RollbackBase DEF Calling
  <2> QED BY <1>1, <2>1, <2>2, <2>3, <2>4, AttemptStep DEF Calling
<1>3. CASE ~run[r].again
  <2>1. Attempt(r, run[r]) BY <1>3 DEF Resume
  <2>2. LocalOK([run[r] EXCEPT !.pc = "wait"])
    <3>1. PICK m : m = [run[r] EXCEPT !.pc = "wait"] OBVIOUS
    <3>2. LocalOK(m) BY <1>1, <1>3, <3>1 DEF RunRec, LocalOK, Calling, Grown
    <3> QED BY <3>1, <3>2
  <2>3. Rollback(run[r]) \in Texts BY <1>1, RollbackBase DEF Calling
  <2> QED BY <1>1, <1>3, <2>1, <2>2, <2>3, AttemptStep DEF Calling
<1> QED BY <1>2, <1>3

LEMMA OverflowStep == ASSUME IInv, NEW r \in Runs, NEW shrinks, Overflow(r, shrinks) PROVE IInv'
<1>1. /\ run[r].pc = "wait" /\ run[r] \in RunRec /\ LocalOK(run[r]) /\ ~run[r].again
      /\ UNCHANGED <<cancelled, late, shared, tree, sent, ghosts>>
  BY RunFacts DEF Overflow, LocalOK
<1>2. CASE GiveUp(r, "Err")
  <2>1. "Err" \in Stops \ {"Done"} BY DEF Stops
  <2> QED BY <1>1, <1>2, <2>1, GiveUpStep DEF Calling
<1>3. CASE ~GiveUp(r, "Err")
  <2>1. PICK me : me = [run[r] EXCEPT !.shrunk = TRUE] OBVIOUS
  <2>2. Attempt(r, me) BY <1>3, <2>1 DEF Overflow
  <2>3. me \in RunRec BY <1>1, <2>1, ZenonT(60) DEF RunRec
  <2>4. /\ ~me.again /\ me.pc = "wait" /\ me.kind = run[r].kind /\ me.goal = run[r].goal
        /\ me.passed = run[r].passed /\ me.did = run[r].did /\ me.last = run[r].last
    BY <1>1, <2>1 DEF RunRec
  <2>5. LocalOK(me) BY <1>1, <2>1 DEF RunRec, LocalOK, Calling, Grown
  <2>6. [me EXCEPT !.pc = "wait"] = me BY <2>3, <2>4 DEF RunRec
  <2>7. Rollback(me) \in Texts BY <2>3, <2>4, <2>5, RollbackBase DEF Calling
  <2> QED BY <1>1, <2>2, <2>3, <2>4, <2>5, <2>6, <2>7, AttemptStep DEF Calling
<1> QED BY <1>2, <1>3

-----------------------------------------------------------------------------
(* The top of an iteration.                                                  *)
Settled(me, old) ==
    /\ me.kind = old.kind /\ me.goal = old.goal /\ me.passed = old.passed /\ me.did = old.did
    /\ me.last = old.last
    /\ me.edits = old.edits /\ me.latch = old.latch /\ me.nudged = old.nudged
    /\ me.told = old.told /\ me.again = old.again /\ me.reprompts = old.reprompts

LEMMA MoreStepsFacts ==
    ASSUME IInv, NEW r \in Runs, AtCap(r) => Extends(r) \/ Continues(r),
           run[r].goal => run[r].left # 0
    PROVE  LET more == MoreSteps(r, run[r]) IN
           more \in RunRec /\ more.left >= 1 /\ Settled(more, run[r])
<1>1. run[r] \in RunRec BY RunFacts
<1>2. run[r].left \in Nat /\ run[r].conts \in Nat BY <1>1, Budgets DEF RunRec, Upto
<1>3. PICK u \in Texts, v \in Texts : u = Append(run[r].tail, "sys") /\ v = Append(run[r].tail, "user")
  BY <1>1, AppendText, ZenonT(60) DEF RunRec, Marks
<1>4. CASE ~AtCap(r) BY <1>1, <1>2, <1>4 DEF MoreSteps, AtCap, Settled
<1>5. CASE AtCap(r) /\ Extends(r)
  <2>1. PICK n : n = AutoExtendTo - MaxIters OBVIOUS
  <2>2. n >= 1 /\ n \in Upto(MaxIters + AutoExtendTo + MaxGoalSteps)
    BY <1>5, <2>1, Budgets DEF Extends, Upto
  <2>3. PICK me : me = [run[r] EXCEPT !.extended = TRUE, !.left = n, !.tail = u] OBVIOUS
  <2>4. MoreSteps(r, run[r]) = me BY <1>1, <1>3, <1>5, <2>1, <2>3 DEF MoreSteps, RunRec
  <2>5. me \in RunRec BY <1>1, <2>2, <2>3, ZenonT(60) DEF RunRec
  <2>6. me.left = n /\ Settled(me, run[r]) BY <1>1, <2>3 DEF RunRec, Settled
  <2> QED BY <2>2, <2>4, <2>5, <2>6
<1>6. CASE AtCap(r) /\ ~Extends(r)
  <2>1. PICK n : n = run[r].conts + 1 OBVIOUS
  <2>2. n \in Upto(MaxContinuations) BY <1>2, <1>6, <2>1, Budgets DEF Continues, Upto
  <2>3. MaxIters \in Upto(MaxIters + AutoExtendTo + MaxGoalSteps) BY Budgets DEF Upto
  <2>4. PICK me : me = [run[r] EXCEPT !.conts = n, !.left = MaxIters, !.tail = v] OBVIOUS
  <2>5. MoreSteps(r, run[r]) = me BY <1>1, <1>3, <1>6, <2>1, <2>4 DEF MoreSteps, RunRec
  <2>6. me \in RunRec BY <1>1, <2>2, <2>3, <2>4, ZenonT(60) DEF RunRec
  <2>7. me.left = MaxIters /\ Settled(me, run[r]) BY <1>1, <2>4 DEF RunRec, Settled
  <2> QED BY <2>5, <2>6, <2>7, Budgets
<1> QED BY <1>4, <1>5, <1>6

LEMMA TopStep == ASSUME IInv, NEW r \in Runs, NEW full \in BOOLEAN, Top(r, full) PROVE IInv'
<1>1. /\ run[r].pc = "top" /\ (run[r].goal /\ run[r].left = 0 => cancelled[r])
      /\ run[r] \in RunRec /\ LocalOK(run[r]) /\ Live(r)
      /\ UNCHANGED <<cancelled, late, goal, claim, open, asked, tree, sent, ghosts>>
  BY RunFacts DEF Top, Live
<1>2. RestOK'
  <2>1. mail' \in BOOLEAN BY DEF Top, IInv, RestOK
  <2> QED BY <1>1, <2>1 DEF IInv, RestOK, tree, sent, ghosts
<1>3. /\ UNCHANGED <<cancelled, goal, claim, goals, claimOf, refuted, good>> /\ unseen' = unseen
  BY <1>1 DEF tree, sent, ghosts
<1>4. run[r].tail \in Texts BY <1>1 DEF RunRec
<1>5. CASE cancelled[r]
  <2>1. "Cancelled" \in Stops \ {"Done"} BY DEF Stops
  <2>2. Return(r, "Cancelled", run[r].tail) BY <1>5 DEF Top
  <2> QED BY <1>1, <1>2, <1>3, <1>4, <2>1, <2>2, ReturnStep
<1>6. CASE ~cancelled[r] /\ late[r]
  <2>1. "Deadline" \in Stops \ {"Done"} BY DEF Stops
  <2>2. Return(r, "Deadline", run[r].tail) BY <1>6 DEF Top
  <2> QED BY <1>1, <1>2, <1>3, <1>4, <2>1, <2>2, ReturnStep
<1>7. CASE ~cancelled[r] /\ ~late[r] /\ AtCap(r) /\ ~Extends(r) /\ ~Continues(r)
  <2>1. PICK me : me = [run[r] EXCEPT !.pc = "synth", !.stop = "MaxIters"] OBVIOUS
  <2>2. run' = [run EXCEPT ![r] = me] BY <1>7, <2>1 DEF Top
  <2>3. me \in RunRec BY <1>1, <2>1, ZenonT(60) DEF RunRec, Stops
  <2>4. me.pc = "synth" /\ me.stop = "MaxIters" /\ Settled(me, run[r])
    BY <1>1, <2>1 DEF RunRec, Settled
  <2>5. LocalOK(me) BY <1>1, <2>4 DEF LocalOK, Calling, Settled
  <2> QED BY <1>1, <1>2, <1>3, <2>2, <2>3, <2>4, <2>5, InsideStep DEF Settled
<1>8. CASE ~cancelled[r] /\ ~late[r] /\ ~(AtCap(r) /\ ~Extends(r) /\ ~Continues(r))
  <2>1. PICK more \in RunRec : more = MoreSteps(r, run[r]) /\ more.left >= 1 /\ Settled(more, run[r])
    BY <1>1, <1>8, MoreStepsFacts
  <2>2. PICK drained \in BOOLEAN : drained = (mail /\ run[r].kind = "repl") OBVIOUS
  <2>3. PICK seen \in Texts : seen = IF drained THEN Append(more.tail, "user") ELSE more.tail
    BY <2>1, AppendText DEF RunRec, Marks
  <2>4. PICK t \in Texts : /\ t = IF full THEN Append(seen, "guard") ELSE seen
                           /\ Len(t) = Len(seen) + (IF full THEN 1 ELSE 0)
                           /\ \A i \in 1..Len(seen) : t[i] = seen[i]
    <3>1. Len(seen) \in Nat BY DEF Texts
    <3>2. CASE full BY <3>2, AppendText DEF Marks
    <3>3. CASE ~full BY <3>1, <3>3
    <3> QED BY <3>2, <3>3
  <2>5. PICK me : me = [more EXCEPT !.pc = "wait", !.base = seen, !.pushed = full, !.tail = t]
    OBVIOUS
  <2>6. run' = [run EXCEPT ![r] = me] BY <1>8, <2>1, <2>2, <2>3, <2>4, <2>5 DEF Top
  <2>7. me \in RunRec BY <2>1, <2>5, ZenonT(60) DEF RunRec
  <2>8. /\ me.pc = "wait" /\ me.base = seen /\ me.pushed = full /\ me.tail = t
        /\ me.left = more.left /\ Settled(me, run[r])
    BY <2>1, <2>5 DEF RunRec, Settled
  <2>9. LocalOK(me)
    <3>1. me.reprompts = 0 /\ ~me.again /\ Len(seen) \in Nat
      BY <1>1, <2>8 DEF LocalOK, Calling, Settled, Texts
    <3>2. Grown(me)
      <4>1. CASE full BY <2>4, <2>8, <3>1, <4>1 DEF Grown
      <4>2. CASE ~full BY <2>4, <2>8, <3>1, <4>2 DEF Grown
      <4> QED BY <4>1, <4>2
    <3> QED BY <1>1, <2>1, <2>8, <3>1, <3>2 DEF LocalOK, Calling, Settled
  <2> QED BY <1>1, <1>2, <1>3, <2>6, <2>7, <2>8, <2>9, InsideStep DEF Settled
<1> QED BY <1>5, <1>6, <1>7, <1>8

-----------------------------------------------------------------------------
(* An answer without calls.                                                  *)
Kept(me, old) ==
    /\ me.kind = old.kind /\ me.goal = old.goal /\ me.passed = old.passed /\ me.did = old.did
    /\ me.last = old.last
    /\ me.edits = old.edits /\ me.latch = old.latch /\ me.nudged = old.nudged
    /\ me.told = old.told /\ me.left = old.left /\ me.attempts = old.attempts
    /\ me.failedNow = old.failedNow

LEMMA AnsweredFacts ==
    ASSUME NEW me \in RunRec, LocalOK(me), me.pc = "wait"
    PROVE  \E a \in RunRec : /\ a = Answered(me) /\ Kept(a, me) /\ a.pc = "wait"
                              /\ a.stop = me.stop /\ a.reprompts = 0 /\ ~a.again
<1>1. PICK a : a = Answered(me) OBVIOUS
<1>2. /\ Kept(a, me) /\ a.pc = "wait" /\ a.stop = me.stop /\ a.reprompts = 0
      /\ a.again = me.again
  BY <1>1 DEF Answered, Kept, RunRec
<1>3. a \in RunRec
  <2>1. <<>> \in Texts /\ 0 \in Upto(1) BY DEF Texts, Upto
  <2> QED BY <1>1, <2>1, ZenonT(60) DEF Answered, RunRec
<1> QED BY <1>1, <1>2, <1>3 DEF LocalOK

LEMMA ClaimStep == ASSUME IInv, NEW r \in Runs, NEW empty \in BOOLEAN, Claim(r, empty) PROVE IInv'
<1>1. /\ run[r].pc = "wait" /\ run[r] \in RunRec /\ LocalOK(run[r]) /\ AttestOK(r) /\ Live(r)
      /\ UNCHANGED <<cancelled, late, shared, good, sent, ghosts>>
  BY RunFacts DEF Claim, Live
<1>2. PICK gate \in BOOLEAN : gate = GateDue(r) BY DEF GateDue, Verify
<1>3. PICK a \in RunRec : /\ a = Answered(run[r]) /\ Kept(a, run[r]) /\ a.pc = "wait"
                          /\ a.stop = run[r].stop /\ a.reprompts = 0 /\ ~a.again
  BY <1>1, AnsweredFacts
<1>4. PICK me : me = [a EXCEPT !.pc = IF gate THEN "gate" ELSE "judge", !.silent = empty,
                              !.blind = FALSE]
  OBVIOUS
<1>5. run' = [run EXCEPT ![r] = me] BY <1>1, <1>2, <1>3, <1>4 DEF Claim
<1>6. me \in RunRec BY <1>4, ZenonT(60) DEF RunRec
<1>7. /\ me.pc = (IF gate THEN "gate" ELSE "judge") /\ Kept(me, run[r])
      /\ me.reprompts = 0 /\ ~me.again
  BY <1>3, <1>4 DEF RunRec, Kept
<1>8. run[r].attempts \in Nat /\ MaxVerify \in Nat BY <1>1, Budgets DEF RunRec, Upto
<1>9. LocalOK(me) BY <1>1, <1>2, <1>7, <1>8 DEF LocalOK, Calling, Kept, GateDue
<1>10. RestOK'
  <2>1. unseen' \subseteq Runs /\ moved' \subseteq Runs BY <1>1 DEF Claim, IInv, RestOK
  <2> QED BY <1>1, <2>1 DEF IInv, RestOK, shared, sent, ghosts
<1>11. run'[r] = me BY <1>5 DEF IInv, LocalInv
<1>12. JudgeOK(r)'
  <2>1. SUFFICES ASSUME me.pc = "judge", Unverified(me) PROVE me.attempts >= MaxVerify
    BY <1>11 DEF JudgeOK
  <2>2. ~gate BY <1>7, <2>1
  <2>3. /\ Verify(r) /\ run[r].edits /\ ~run[r].passed
        /\ me.attempts = run[r].attempts
    BY <1>7, <2>1 DEF Unverified, Verify, Kept
  <2>4. ~(run[r].attempts < MaxVerify) BY <1>2, <2>2, <2>3 DEF GateDue
  <2> QED BY <1>8, <2>3, <2>4
<1>13. DoneOK(r)' BY <1>7, <1>11 DEF DoneOK
<1>14. AttestOK(r)'
  <2>1. me.passed => unseen' = unseen BY <1>2, <1>7 DEF Claim, GateDue, Kept
  <2> QED BY <1>1, <1>7, <1>11, <2>1 DEF AttestOK, Edited, Live, Kept
<1>15. /\ goal' = goal /\ claim' = claim /\ goals' = goals /\ good' = good
       /\ cancelled' = cancelled /\ claimOf' = claimOf /\ refuted' = refuted
  BY <1>1 DEF shared, sent, ghosts
<1>16. ClaimStands' /\ (me.goal => goal)
  BY <1>1, <1>7, <1>15 DEF IInv, GoalInv, ClaimStands, Kept
<1>17. unseen \ {r} \subseteq unseen' BY DEF Claim
<1>18. me.kind = "repl" => Turn(r) BY <1>1, <1>7 DEF Turn, Kept
<1> QED BY <1>5, <1>6, <1>9, <1>10, <1>12, <1>13, <1>14, <1>15, <1>16, <1>17, <1>18, RunStep

LEMMA VerdictStep == ASSUME IInv, NEW r \in Runs, NEW exit \in BOOLEAN, Verdict(r, exit) PROVE IInv'
<1>1. /\ run[r].pc = "gate" /\ run[r] \in RunRec /\ LocalOK(run[r]) /\ Live(r)
      /\ UNCHANGED <<cancelled, late, goal, open, asked, mail, good, sent, claimOf>>
  BY RunFacts DEF Verdict, Live
<1>2. ~run[r].passed /\ run[r].attempts < MaxVerify BY <1>1 DEF LocalOK
<1>3. unseen' \subseteq Runs /\ moved' \subseteq Runs /\ unseen \ {r} \subseteq unseen'
  BY DEF Verdict, IInv, RestOK
<1>4. claim' \in BOOLEAN /\ refuted' \in BOOLEAN /\ ClaimStands'
  <2>1. /\ goal \in BOOLEAN /\ claim \in BOOLEAN /\ refuted \in BOOLEAN /\ ClaimStands
        /\ run[r].goal \in BOOLEAN
    BY <1>1 DEF IInv, RestOK, GoalInv, RunRec
  <2>2. goals' = goals BY <1>1 DEF sent
  <2>3. CASE PassVerdict(r, exit) BY <1>1, <2>1, <2>2, <2>3 DEF Verdict, ClaimStands
  <2>4. CASE ~PassVerdict(r, exit)
    <3>1. claim' = (claim /\ ~run[r].goal) BY <2>1, <2>4 DEF Verdict, AfterFailure
    <3>2. refuted' = (claim' /\ (refuted \/ run[r].goal)) BY <2>4 DEF Verdict
    <3> QED BY <1>1, <2>1, <2>2, <3>1, <3>2 DEF ClaimStands
  <2> QED BY <2>3, <2>4
<1>5. RestOK' BY <1>1, <1>3, <1>4 DEF IInv, RestOK, sent
<1>6. PICK me \in RunRec : /\ run' = [run EXCEPT ![r] = me] /\ LocalOK(me) /\ me.pc = "judge"
                           /\ me.kind = run[r].kind /\ me.goal = run[r].goal
                           /\ me.passed => good[me.last]
                           /\ me.passed \/ me.failedNow
  <2>1. CASE PassVerdict(r, exit)
    <3>1. PICK me : me = [run[r] EXCEPT !.pc = "judge", !.passed = TRUE] OBVIOUS
    <3>2. run' = [run EXCEPT ![r] = me] BY <2>1, <3>1 DEF Verdict
    <3>3. me \in RunRec BY <1>1, <3>1, ZenonT(60) DEF RunRec
    <3>4. LocalOK(me) BY <1>1, <3>1 DEF RunRec, LocalOK, Calling
    <3>5. me.pc = "judge" /\ me.kind = run[r].kind /\ me.goal = run[r].goal /\ me.passed
          /\ me.last = run[r].last
      BY <1>1, <3>1 DEF RunRec
    <3>6. good[run[r].last] BY <2>1 DEF Verdict, PassVerdict
    <3> QED BY <3>2, <3>3, <3>4, <3>5, <3>6
  <2>2. CASE ~PassVerdict(r, exit)
    <3>0. PICK n : n = run[r].attempts + 1 OBVIOUS
    <3>1. n \in Upto(MaxVerify) BY <1>1, <1>2, <3>0, Budgets DEF RunRec, Upto
    <3>2. PICK me : me = [run[r] EXCEPT !.pc = "judge", !.attempts = n, !.failedNow = TRUE]
      OBVIOUS
    <3>3. run' = [run EXCEPT ![r] = me] BY <1>1, <2>2, <3>0, <3>2 DEF Verdict
    <3>4. me \in RunRec BY <1>1, <3>1, <3>2, ZenonT(60) DEF RunRec
    <3>5. LocalOK(me) BY <1>1, <3>2 DEF RunRec, LocalOK, Calling
    <3>6. me.pc = "judge" /\ me.kind = run[r].kind /\ me.goal = run[r].goal /\ ~me.passed
          /\ me.failedNow
      BY <1>1, <1>2, <3>2 DEF RunRec
    <3> QED BY <3>3, <3>4, <3>5, <3>6
  <2> QED BY <2>1, <2>2
<1>7. run'[r] = me BY <1>6 DEF IInv, LocalInv
<1>8. JudgeOK(r)' /\ DoneOK(r)' /\ AttestOK(r)'
  BY <1>1, <1>6, <1>7 DEF JudgeOK, DoneOK, AttestOK, Unverified
<1>9. me.goal => goal' BY <1>1, <1>6 DEF IInv, GoalInv
<1>10. me.kind = "repl" => Turn(r) BY <1>1, <1>6 DEF Turn
<1> QED BY <1>1, <1>3, <1>4, <1>5, <1>6, <1>8, <1>9, <1>10, RunStep

LEMMA NoVerdictStep == ASSUME IInv, NEW r \in Runs, NoVerdict(r) PROVE IInv'
<1>1. /\ run[r].pc = "gate" /\ run[r] \in RunRec /\ LocalOK(run[r]) /\ Live(r)
      /\ UNCHANGED <<cancelled, late, shared, good, unseen, sent, ghosts>> /\ moved' \subseteq Runs
  BY RunFacts DEF NoVerdict, Live, IInv, RestOK
<1>2. PICK me : me = [run[r] EXCEPT !.pc = "judge", !.blind = TRUE] OBVIOUS
<1>3. run' = [run EXCEPT ![r] = me] BY <1>2 DEF NoVerdict
<1>4. me \in RunRec BY <1>1, <1>2 DEF RunRec
<1>5. me.pc = "judge" /\ me.blind /\ me.kind = run[r].kind /\ me.goal = run[r].goal
      /\ me.passed = run[r].passed /\ me.did = run[r].did /\ me.last = run[r].last
  BY <1>1, <1>2 DEF RunRec
<1>6. LocalOK(me) BY <1>1, <1>2 DEF RunRec, LocalOK, Calling
<1>7. RestOK' BY <1>1 DEF IInv, RestOK, shared, sent, ghosts
<1>8. /\ UNCHANGED <<cancelled, goal, claim, goals, claimOf, refuted, good>> /\ unseen' = unseen
  BY <1>1 DEF shared, sent, ghosts
<1> QED BY <1>1, <1>3, <1>4, <1>5, <1>6, <1>7, <1>8, InsideStep

\* One more round trip; its step was there.
LEMMA AgainFacts ==
    ASSUME NEW r, NEW me \in RunRec, LocalOK(me), me.pc = "judge"
    PROVE  \E a \in RunRec : /\ a = Again(r, me) /\ LocalOK(a) /\ a.pc = "top"
                              /\ a.kind = me.kind /\ a.goal = me.goal
                              /\ a.passed = me.passed /\ a.did = me.did /\ a.last = me.last
<1>1. PICK n : n = me.left - 1 OBVIOUS
<1>2. n \in Upto(MaxIters + AutoExtendTo + MaxGoalSteps)
  BY <1>1, Budgets DEF RunRec, Upto, LocalOK
<1>3. PICK a : a = [me EXCEPT !.pc = "top", !.tail = <<"user">>, !.failedNow = FALSE, !.left = n]
  OBVIOUS
<1>4. a = Again(r, me) BY <1>1, <1>3 DEF Again, RunRec
<1>5. a \in RunRec
  <2>1. <<"user">> \in Texts BY DEF Texts, Marks
  <2> QED BY <1>2, <1>3, <2>1, ZenonT(60) DEF RunRec
<1>6. LocalOK(a) BY <1>3 DEF RunRec, LocalOK, Calling
<1>7. /\ a.pc = "top" /\ a.kind = me.kind /\ a.goal = me.goal /\ a.passed = me.passed
      /\ a.did = me.did /\ a.last = me.last
  BY <1>3 DEF RunRec
<1> QED BY <1>4, <1>5, <1>6, <1>7

LEMMA JudgeStep == ASSUME IInv, NEW r \in Runs, NEW blocking \in BOOLEAN, Judge(r, blocking) PROVE IInv'
<1>1. /\ run[r].pc = "judge" /\ run[r] \in RunRec /\ LocalOK(run[r]) /\ Live(r)
      /\ JudgeOK(r) /\ AttestOK(r)
      /\ UNCHANGED <<cancelled, late, open, asked, tree, sent, ghosts>>
  BY RunFacts DEF Judge, Live
<1>2. PICK rev \in BOOLEAN, pokes \in Upto(MaxPokes), spike \in {"none", "armed", "spent"} :
        /\ rev = (run[r].reviewed \/ ReviewDue(r))
        /\ pokes = IF PokeDue(r) THEN run[r].pokes + 1 ELSE run[r].pokes
        /\ spike = IF SpikeDue(r) THEN "spent" ELSE run[r].spike
  <2>1. PICK pokes : pokes = IF PokeDue(r) THEN run[r].pokes + 1 ELSE run[r].pokes OBVIOUS
  <2>2. pokes \in Upto(MaxPokes)
    <3>1. CASE PokeDue(r) BY <1>1, <2>1, <3>1, Budgets DEF PokeDue, RunRec, Upto
    <3>2. CASE ~PokeDue(r) BY <1>1, <2>1, <3>2 DEF RunRec
    <3> QED BY <3>1, <3>2
  <2>3. (IF SpikeDue(r) THEN "spent" ELSE run[r].spike) \in {"none", "armed", "spent"}
    BY <1>1 DEF RunRec
  <2>4. (run[r].reviewed \/ ReviewDue(r)) \in BOOLEAN OBVIOUS
  <2> QED BY <2>1, <2>2, <2>3, <2>4
<1>3. PICK me : me = [run[r] EXCEPT !.reviewed = rev, !.pokes = pokes, !.spike = spike] OBVIOUS
<1>4. /\ me \in RunRec /\ me.pc = "judge" /\ me.kind = run[r].kind /\ me.goal = run[r].goal
      /\ me.passed = run[r].passed /\ me.did = run[r].did /\ me.last = run[r].last
      /\ me.silent = run[r].silent /\ me.tail = run[r].tail
  <2>1. me \in RunRec BY <1>1, <1>3, ZenonT(60) DEF RunRec
  <2> QED BY <1>1, <1>3, <2>1 DEF RunRec
<1>5. LocalOK(me) BY <1>1, <1>3 DEF RunRec, LocalOK, Calling
<1>6. PICK a \in RunRec : /\ a = Again(r, me) /\ LocalOK(a) /\ a.pc = "top"
                          /\ a.kind = me.kind /\ a.goal = me.goal
                          /\ a.passed = me.passed /\ a.did = me.did /\ a.last = me.last
  BY <1>4, <1>5, AgainFacts
<1>7. PICK said \in Texts : said = IF me.silent THEN me.tail ELSE <<>>
  <2>1. <<>> \in Texts BY DEF Texts
  <2> QED BY <1>4, <2>1 DEF RunRec
<1>8. PICK demands \in BOOLEAN :
        demands = \/ run[r].failedNow
                  \/ ReviewDue(r) /\ blocking
                  \/ PokeDue(r) \/ SpikeDue(r)
  OBVIOUS
<1>9. me = [run[r] EXCEPT !.reviewed = @ \/ ReviewDue(r),
                          !.pokes = IF PokeDue(r) THEN @ + 1 ELSE @,
                          !.spike = IF SpikeDue(r) THEN "spent" ELSE @]
  BY <1>2, <1>3
<1>10. IF Exhausted(r)
       THEN /\ Return(r, "VerificationFailed", said)
            /\ UNCHANGED <<goal, claim, mail>>
       ELSE IF demands \/ (run[r].goal /\ ~claim)
       THEN run' = [run EXCEPT ![r] = a] /\ UNCHANGED <<goal, claim, mail>>
       ELSE IF run[r].kind = "repl" /\ mail
       THEN /\ run' = [run EXCEPT ![r] = a]
            /\ mail' = FALSE /\ claim' = (claim /\ ~run[r].goal) /\ UNCHANGED goal
       ELSE /\ Return(r, "Done", said)
            /\ FinishTurn(r) /\ UNCHANGED mail
  BY <1>6, <1>7, <1>8, <1>9 DEF Judge
<1>11. RestOK'
  <2>1. mail' \in BOOLEAN /\ goal' \in BOOLEAN /\ claim' \in BOOLEAN
    <3>1. mail \in BOOLEAN /\ goal \in BOOLEAN /\ claim \in BOOLEAN BY DEF IInv, RestOK
    <3> QED BY <1>10, <3>1 DEF FinishTurn
  <2> QED BY <1>1, <2>1 DEF IInv, RestOK, tree, sent, ghosts
<1>12. /\ cancelled' = cancelled /\ goals' = goals /\ claimOf' = claimOf /\ refuted' = refuted
       /\ good' = good /\ unseen' = unseen
  BY <1>1 DEF tree, sent, ghosts
<1>13. CASE Exhausted(r)
  <2>1. "VerificationFailed" \in Stops \ {"Done"} BY DEF Stops
  <2> QED BY <1>1, <1>10, <1>11, <1>12, <1>13, <2>1, ReturnStep
<1>14. CASE ~Exhausted(r) /\ (demands \/ (run[r].goal /\ ~claim))
  <2>1. run' = [run EXCEPT ![r] = a] /\ goal' = goal /\ claim' = claim BY <1>10, <1>14
  <2> QED BY <1>1, <1>4, <1>6, <1>11, <1>12, <2>1, InsideStep
<1>15. CASE ~Exhausted(r) /\ ~(demands \/ (run[r].goal /\ ~claim)) /\ run[r].kind = "repl" /\ mail
  <2>1. run' = [run EXCEPT ![r] = a] /\ goal' = goal /\ claim' = (claim /\ ~run[r].goal)
    BY <1>10, <1>15
  <2>2. run'[r] = a BY <2>1 DEF IInv, LocalInv
  <2>3. JudgeOK(r)' /\ DoneOK(r)' BY <1>6, <2>2 DEF JudgeOK, DoneOK
  <2>4. AttestOK(r)' BY <1>1, <1>4, <1>6, <1>12, <2>2 DEF AttestOK, Edited, Live
  <2>5. ClaimStands' BY <1>12, <2>1 DEF IInv, GoalInv, ClaimStands
  <2>6. (a.goal => goal') /\ Turn(r) BY <1>1, <1>4, <1>6, <1>15, <2>1 DEF IInv, GoalInv, Turn
  <2> QED BY <1>6, <1>11, <1>12, <2>1, <2>3, <2>4, <2>5, <2>6, RunStep
<1>16. CASE ~Exhausted(r) /\ ~(demands \/ (run[r].goal /\ ~claim)) /\ ~(run[r].kind = "repl" /\ mail)
  <2>1. Return(r, "Done", said) /\ FinishTurn(r) BY <1>10, <1>16
  <2>2. PICK end : end = Ended(run[r], "Done", said) OBVIOUS
  <2>3. /\ end \in RunRec /\ LocalOK(end) /\ end.pc = "idle" /\ end.kind = run[r].kind
        /\ end.edits = run[r].edits /\ end.passed = run[r].passed
        /\ end.blind = run[r].blind
    <3>1. "Done" \in Stops BY DEF Stops
    <3> QED BY <1>1, <2>2, <3>1, EndedFacts
  <2>4. run' = [run EXCEPT ![r] = end] BY <2>1, <2>2 DEF Return
  <2>5. run'[r] = end BY <2>4 DEF IInv, LocalInv
  <2>6. ~run[r].failedNow BY <1>8, <1>16
  <2>7. Unverified(run[r]) => run[r].blind
    <3>1. SUFFICES ASSUME Unverified(run[r]) PROVE run[r].blind OBVIOUS
    <3>2. ~(run[r].attempts >= MaxVerify) BY <1>16, <2>6, <3>1 DEF Exhausted, Verify, Unverified
    <3> QED BY <1>1, <2>6, <3>1, <3>2 DEF JudgeOK
  <2>8. JudgeOK(r)' /\ DoneOK(r)' /\ AttestOK(r)'
    BY <1>12, <2>3, <2>5, <2>7 DEF JudgeOK, DoneOK, AttestOK, Unverified, Live
  <2>9. ClaimStands' /\ (goal' = goal \/ Turn(r))
    BY <1>1, <1>12, <2>1 DEF FinishTurn, IInv, GoalInv, ClaimStands, Turn
  <2> QED BY <1>11, <1>12, <2>3, <2>4, <2>8, <2>9, RunStep
<1> QED BY <1>13, <1>14, <1>15, <1>16

-----------------------------------------------------------------------------
(* An answer with calls.                                                     *)
LEMMA CallsStep ==
    ASSUME IInv, NEW r \in Runs, NEW repeated \in BOOLEAN, NEW same \in BOOLEAN,
           Calls(r, repeated, same)
    PROVE  IInv'
<1>1. /\ run[r].pc = "wait" /\ run[r] \in RunRec /\ LocalOK(run[r]) /\ Live(r)
      /\ (same => repeated /\ run[r].latch)
      /\ UNCHANGED <<cancelled, late, shared, tree, sent, ghosts>>
  BY RunFacts DEF Calls, Live
<1>2. PICK a \in RunRec : /\ a = Answered(run[r]) /\ Kept(a, run[r]) /\ a.pc = "wait"
                          /\ a.stop = run[r].stop /\ a.reprompts = 0 /\ ~a.again
  BY <1>1, AnsweredFacts
<1>3. CASE same
  <2>1. PICK me : me = [a EXCEPT !.pc = "synth", !.stop = "Divergence"] OBVIOUS
  <2>2. run' = [run EXCEPT ![r] = me] BY <1>2, <1>3, <2>1 DEF Calls
  <2>3. "Divergence" \in Stops BY DEF Stops
  <2>4. me \in RunRec BY <2>1, <2>3, ZenonT(60) DEF RunRec
  <2>5. me.pc = "synth" /\ me.stop = "Divergence" /\ Kept(me, run[r])
        /\ me.reprompts = 0 /\ ~me.again
    BY <1>2, <2>1 DEF RunRec, Kept
  <2>6. LocalOK(me) BY <1>1, <1>3, <2>5 DEF LocalOK, Calling, Kept
  <2> QED BY <1>1, <2>2, <2>4, <2>5, <2>6, SubSteps, InsideStep DEF Kept
<1>4. CASE ~same
  <2>0. PICK latch \in BOOLEAN, told \in BOOLEAN :
          latch = (run[r].latch \/ repeated) /\ told = (run[r].told \/ repeated)
    OBVIOUS
  <2>1. PICK me : me = [a EXCEPT !.pc = "batch", !.tail = <<>>, !.latch = latch, !.told = told]
    OBVIOUS
  <2>2. run' = [run EXCEPT ![r] = me] BY <1>2, <1>4, <2>0, <2>1 DEF Calls
  <2>3. me \in RunRec
    <3>1. <<>> \in Texts BY DEF Texts
    <3> QED BY <2>1, <3>1, ZenonT(60) DEF RunRec
  <2>4. /\ me.pc = "batch" /\ me.latch = latch /\ me.told = told /\ me.nudged = run[r].nudged
        /\ me.reprompts = 0 /\ ~me.again /\ me.kind = run[r].kind /\ me.goal = run[r].goal
        /\ me.passed = run[r].passed /\ me.did = run[r].did /\ me.last = run[r].last
        /\ me.left = run[r].left
    BY <1>2, <2>1 DEF RunRec, Kept
  <2>5. LocalOK(me) BY <1>1, <2>0, <2>4 DEF LocalOK, Calling
  <2> QED BY <1>1, <2>2, <2>3, <2>4, <2>5, SubSteps, InsideStep
<1> QED BY <1>3, <1>4

\* Sources that change do so for the runs of their project, who are told of it all.
LEMMA ChangeFacts ==
    ASSUME IInv, NEW p \in Projects, Change(p)
    PROVE  /\ good' \in [Projects -> BOOLEAN] /\ moved' \subseteq Runs
           /\ \A s \in Runs : good'[run[s].last] = good[run[s].last] \/ s \in At(p)
<1>1. PICK b \in BOOLEAN : good' = [good EXCEPT ![p] = b] BY DEF Change
<1>2. \A s \in Runs : run[s].last \in Projects BY RunFacts DEF RunRec
<1> QED BY <1>1, <1>2 DEF Change, At, Verifying, IInv, RestOK

LEMMA EffectStep ==
    ASSUME IInv, NEW r \in Runs, NEW a \in Acts, NEW p \in Projects, Effect(r, a, p)
    PROVE  IInv'
<1>1. /\ run[r].pc = "batch" /\ run[r] \in RunRec /\ LocalOK(run[r]) /\ Live(r) /\ AttestOK(r)
      /\ UNCHANGED <<cancelled, late, goal, mail, sent>>
  BY RunFacts DEF Effect, Live
<1>2. PICK did \in Deeds : did = run[r].did \cup {a} BY <1>1 DEF RunRec, Deeds
<1>3. PICK last \in Projects : last = IF a = "edit" THEN p ELSE run[r].last
  BY <1>1 DEF RunRec
<1>4. PICK me : me = [run[r] EXCEPT !.did = did, !.last = last] OBVIOUS
<1>5. run' = [run EXCEPT ![r] = me]
  <2>1. run' = [run EXCEPT ![r] = [@ EXCEPT
                  !.did = run[r].did \cup {a},
                  !.last = IF a = "edit" THEN p ELSE run[r].last]]
    BY DEF Effect
  <2> QED BY <1>2, <1>3, <1>4, <2>1
<1>6. me \in RunRec BY <1>1, <1>4, ZenonT(60) DEF RunRec
<1>7. /\ me.pc = "batch" /\ me.kind = run[r].kind /\ me.goal = run[r].goal
      /\ me.passed = run[r].passed /\ me.did = did /\ me.last = last
  BY <1>1, <1>4 DEF RunRec
<1>8. LocalOK(me) BY <1>1, <1>4 DEF RunRec, LocalOK, Calling
<1>9. /\ good' \in [Projects -> BOOLEAN] /\ moved' \subseteq Runs /\ unseen' \subseteq Runs
      /\ unseen \ {r} \subseteq unseen'
      /\ \A s \in Runs \ {r} : good'[run[s].last] = good[run[s].last] \/ s \in unseen'
  <2>1. CASE a \in Changes
    <3>1. Change(p) /\ unseen' = unseen \cup (IF a = "slip" THEN At(p) ELSE At(p) \ {r})
      BY <2>1 DEF Effect
    <3>2. At(p) \subseteq Runs /\ unseen \subseteq Runs BY DEF At, IInv, RestOK
    <3> QED BY <3>1, <3>2, ChangeFacts
  <2>2. CASE a \notin Changes BY <2>2 DEF Effect, IInv, RestOK, tree
  <2> QED BY <2>1, <2>2
<1>10. claim' \in BOOLEAN /\ refuted' \in BOOLEAN /\ claimOf' \in 0..MaxGoals /\ ClaimStands'
  <2>1. goals' = goals /\ goal' = goal BY <1>1 DEF sent
  <2>2. CASE a = "claim"
    <3>1. goal BY <1>1, <2>2 DEF Effect, IInv, GoalInv
    <3> QED BY <2>1, <2>2, <3>1 DEF Effect, IInv, RestOK, ClaimStands
  <2>3. CASE a # "claim" BY <2>1, <2>3 DEF Effect, IInv, RestOK, GoalInv, ClaimStands
  <2> QED BY <2>2, <2>3
<1>11. RestOK'
  <2>1. open' \in BOOLEAN /\ asked' \in BOOLEAN BY DEF Effect, IInv, RestOK
  <2> QED BY <1>1, <1>9, <1>10, <2>1 DEF IInv, RestOK, sent
<1>12. run'[r] = me BY <1>5 DEF IInv, LocalInv
<1>13. JudgeOK(r)' /\ DoneOK(r)' BY <1>7, <1>12 DEF JudgeOK, DoneOK
<1>14. AttestOK(r)'
  <2>1. CASE a \in Counted BY <1>2, <1>7, <1>12, <2>1 DEF AttestOK, Edited
  <2>2. CASE a \notin Counted
    <3>1. last = run[r].last /\ (Edited(r) => did \cap Counted # {})
      BY <1>2, <1>3, <2>2 DEF Edited, Counted
    <3>2. r \in unseen => r \in unseen'
      BY <2>2 DEF Effect, tree, Changes
    <3>3. good'[run[r].last] = good[run[r].last] \/ r \in unseen'
      <4>1. CASE a = "slip"
        <5>1. Change(p) /\ unseen' = unseen \cup At(p) BY <4>1 DEF Effect, Changes
        <5> QED BY <5>1, ChangeFacts
      <4>2. CASE a # "slip" BY <2>2, <4>2 DEF Effect, Changes, tree
      <4> QED BY <4>1, <4>2
    <3> QED BY <1>1, <1>7, <1>12, <3>1, <3>2, <3>3 DEF AttestOK, Edited
  <2> QED BY <2>1, <2>2
<1>15. (me.goal => goal') /\ (me.kind = "repl" => Turn(r))
  BY <1>1, <1>7 DEF IInv, GoalInv, Turn
<1>16. cancelled' = cancelled /\ goal' = goal BY <1>1
<1> QED BY <1>5, <1>6, <1>8, <1>9, <1>10, <1>11, <1>13, <1>14, <1>15, <1>16, RunStep

\* What a landed batch makes of the locals, before the stall ledger acts on it.
LEMMA ObservedFacts ==
    ASSUME IInv, NEW r \in Runs, run[r].pc = "batch",
           NEW learned \in BOOLEAN, NEW progress \in BOOLEAN, NEW spiked \in BOOLEAN
    PROVE  \E me \in RunRec :
             /\ me = Observed(r, learned, progress, spiked)
             /\ LocalOK(me) /\ me.pc = "top"
             /\ me.kind = run[r].kind /\ me.goal = run[r].goal
             /\ me.last = run[r].last
             /\ me.passed => run[r].passed /\ run[r].did \cap Counted = {}
             /\ me.nudged => me.told
<1>1. run[r] \in RunRec /\ LocalOK(run[r]) BY RunFacts
<1>2. PICK edits \in BOOLEAN : edits = (run[r].edits \/ Edited(r)) OBVIOUS
<1>3. PICK passed \in BOOLEAN : passed = StillPassed(r) BY DEF StillPassed
<1>4. PICK inform \in BOOLEAN : inform = (Edited(r) \/ learned \/ progress) OBVIOUS
<1>5. PICK flat \in Nat : flat = (IF Edited(r) \/ learned \/ progress
                                  THEN 0 ELSE run[r].flat + 1)
  <2>1. PICK flat : flat = (IF Edited(r) \/ learned \/ progress
                            THEN 0 ELSE run[r].flat + 1)
    OBVIOUS
  <2>2. run[r].flat \in Nat BY <1>1 DEF RunRec
  <2>3. CASE inform BY <1>4, <2>1, <2>3
  <2>4. CASE ~inform BY <1>4, <2>1, <2>2, <2>4
  <2> QED BY <2>1, <2>3, <2>4
<1>6. PICK nudged \in BOOLEAN :
        nudged = (run[r].nudged /\ ~(Edited(r) \/ learned \/ progress))
  OBVIOUS
<1>7. PICK latch \in BOOLEAN : latch = KeptLatch(r, learned \/ progress) BY DEF KeptLatch
<1>8. PICK told \in BOOLEAN :
        told = (run[r].told /\ (~(Edited(r) \/ learned \/ progress)
                                \/ (run[r].latch /\ ~learned /\ ~progress)))
  OBVIOUS
<1>9. PICK spike \in {"none", "armed", "spent"} :
        spike = (IF spiked /\ run[r].spike = "none" THEN "armed" ELSE run[r].spike)
  BY <1>1 DEF RunRec
<1>10. PICK left \in Upto(MaxIters + AutoExtendTo + MaxGoalSteps) : left = run[r].left - 1
  <2>1. run[r].left \in Upto(MaxIters + AutoExtendTo + MaxGoalSteps) /\ run[r].left >= 1
    BY <1>1 DEF RunRec, LocalOK
  <2> QED BY <2>1, Budgets DEF Upto
<1>11. PICK m : m = [run[r] EXCEPT !.edits = edits, !.passed = passed, !.flat = flat,
                                  !.nudged = nudged, !.latch = latch, !.told = told,
                                  !.spike = spike, !.pc = "top", !.did = {}, !.left = left]
  OBVIOUS
<1>12. m = Observed(r, learned, progress, spiked)
  BY <1>2, <1>3, <1>5, <1>6, <1>7, <1>8, <1>9, <1>10, <1>11 DEF Observed
<1>13. m \in RunRec
  <2>1. {} \in Deeds BY DEF Deeds
  <2>2. PICK a : a = [run[r] EXCEPT !.edits = edits, !.passed = passed] OBVIOUS
  <2>3. a \in RunRec BY <1>1, <2>2, ZenonT(60) DEF RunRec
  <2>4. PICK b : b = [a EXCEPT !.flat = flat] OBVIOUS
  <2>5. b \in RunRec BY <2>3, <2>4 DEF RunRec
  <2>6. PICK c : c = [b EXCEPT !.nudged = nudged, !.latch = latch] OBVIOUS
  <2>7. c \in RunRec BY <2>5, <2>6, ZenonT(60) DEF RunRec
  <2>8. PICK d : d = [c EXCEPT !.told = told, !.spike = spike, !.pc = "top"] OBVIOUS
  <2>9. d \in RunRec BY <2>7, <2>8, ZenonT(60) DEF RunRec
  <2>10. PICK e : e = [d EXCEPT !.did = {}, !.left = left] OBVIOUS
  <2>11. e \in RunRec BY <2>1, <2>9, <2>10, ZenonT(60) DEF RunRec
  <2>12. e = m BY <1>1, <1>11, <2>2, <2>4, <2>6, <2>8, <2>10 DEF RunRec
  <2> QED BY <2>11, <2>12
<1>14. /\ m.pc = "top" /\ m.kind = run[r].kind /\ m.goal = run[r].goal /\ m.passed = passed
       /\ m.last = run[r].last
       /\ m.nudged = nudged /\ m.latch = latch /\ m.told = told
       /\ m.reprompts = run[r].reprompts /\ m.again = run[r].again
  BY <1>1, <1>11 DEF RunRec
<1>15. nudged \/ latch => told BY <1>1, <1>6, <1>7, <1>8 DEF LocalOK, KeptLatch
<1>16. LocalOK(m) BY <1>1, <1>14, <1>15 DEF LocalOK, Calling
<1>17. passed => run[r].passed /\ run[r].did \cap Counted = {} BY <1>3 DEF StillPassed, Edited
<1> QED BY <1>1, <1>12, <1>13, <1>14, <1>15, <1>16, <1>17 DEF LocalOK, Calling

LEMMA LandedStep ==
    ASSUME IInv, NEW r \in Runs, NEW learned \in BOOLEAN, NEW progress \in BOOLEAN,
           NEW spiked \in BOOLEAN, Landed(r, learned, progress, spiked)
    PROVE  IInv'
<1>1. /\ run[r].pc = "batch" /\ Live(r)
      /\ UNCHANGED <<cancelled, late, goal, claim, open, mail, tree, sent, ghosts>>
  BY DEF Landed, Live
<1>2. PICK me \in RunRec :
        /\ me = Observed(r, learned, progress, spiked)
        /\ LocalOK(me) /\ me.pc = "top"
        /\ me.kind = run[r].kind /\ me.goal = run[r].goal
        /\ me.last = run[r].last
        /\ me.passed => run[r].passed /\ run[r].did \cap Counted = {}
        /\ me.nudged => me.told
  BY <1>1, ObservedFacts
<1>3. RestOK'
  <2>1. asked' \in BOOLEAN BY DEF Landed, IInv, RestOK
  <2> QED BY <1>1, <2>1 DEF IInv, RestOK, tree, sent, ghosts
<1>4. /\ UNCHANGED <<cancelled, goal, claim, goals, claimOf, refuted, good>> /\ unseen' = unseen
  BY <1>1 DEF tree, sent, ghosts
<1>5. CASE me.flat > FlatTurns /\ me.nudged
  <2>1. run' = [run EXCEPT ![r] = IF Recovers(r, me) THEN Recover(me)
                                  ELSE [me EXCEPT !.pc = "synth", !.stop = "Divergence"]]
    BY <1>2, <1>5 DEF Landed
  <2>2. CASE Recovers(r, me)
    <3>1. PICK n \in Upto(MaxRecoveries) : n = me.recoveries + 1
      BY <2>2, Budgets DEF Recovers, RunRec, Upto
    <3>2. PICK t \in Texts : t = Append(me.tail, "user") BY AppendText DEF RunRec, Marks
    <3>3. PICK m : m = [me EXCEPT !.flat = 0, !.nudged = FALSE, !.recoveries = n,
                                  !.told = FALSE, !.tail = t]
      OBVIOUS
    <3>4. m = Recover(me) BY <3>1, <3>2, <3>3 DEF Recover
    <3>5. m \in RunRec BY <3>3, ZenonT(60) DEF RunRec
    <3>6. ~me.latch BY <2>2 DEF Recovers
    <3>7. LocalOK(m) BY <1>2, <3>3, <3>6 DEF RunRec, LocalOK, Calling
    <3>8. m.pc = "top" /\ m.kind = me.kind /\ m.goal = me.goal /\ m.passed = me.passed
          /\ m.last = me.last
      BY <1>2, <3>3 DEF RunRec
    <3>9. run' = [run EXCEPT ![r] = m] BY <2>1, <2>2, <3>4
    <3> QED BY <1>1, <1>2, <1>3, <1>4, <3>5, <3>7, <3>8, <3>9, InsideStep
  <2>3. CASE ~Recovers(r, me)
    <3>1. PICK m : m = [me EXCEPT !.pc = "synth", !.stop = "Divergence"] OBVIOUS
    <3>2. "Divergence" \in Stops BY DEF Stops
    <3>3. m \in RunRec BY <3>1, <3>2, ZenonT(60) DEF RunRec
    <3>4. LocalOK(m) BY <1>2, <1>5, <3>1 DEF RunRec, LocalOK, Calling
    <3>5. m.pc = "synth" /\ m.kind = me.kind /\ m.goal = me.goal /\ m.passed = me.passed
          /\ m.last = me.last
      BY <3>1 DEF RunRec
    <3>6. run' = [run EXCEPT ![r] = m] BY <2>1, <2>3, <3>1
    <3> QED BY <1>1, <1>2, <1>3, <1>4, <3>3, <3>4, <3>5, <3>6, InsideStep
  <2> QED BY <2>2, <2>3
<1>6. CASE ~(me.flat > FlatTurns /\ me.nudged)
  <2>1. PICK warns \in BOOLEAN, asks \in BOOLEAN :
          /\ warns = (me.flat >= FlatTurns /\ ~me.nudged)
          /\ asks = ("ask" \in run[r].did /\ asked)
    OBVIOUS
  <2>2. PICK nudged \in BOOLEAN, told \in BOOLEAN :
          nudged = (me.nudged \/ warns) /\ told = (me.told \/ warns)
    OBVIOUS
  <2>3. PICK t \in Texts : t = IF warns THEN Append(me.tail, "sys") ELSE me.tail
    BY AppendText DEF RunRec, Marks
  <2>4. PICK m : m = [me EXCEPT !.nudged = nudged, !.told = told, !.tail = t] OBVIOUS
  <2>5. m \in RunRec BY <2>4, ZenonT(60) DEF RunRec
  <2>6. m.pc = "top" /\ m.kind = me.kind /\ m.goal = me.goal /\ m.passed = me.passed
        /\ m.last = me.last /\ m.tail = t
    BY <1>2, <2>4 DEF RunRec
  <2>7. LocalOK(m)
    <3>1. (me.latch => me.told) /\ (me.nudged => me.told) BY <1>2 DEF LocalOK
    <3>2. /\ m.latch = me.latch /\ m.nudged = nudged /\ m.told = told /\ m.pc = me.pc
          /\ m.reprompts = me.reprompts /\ m.again = me.again
      BY <2>4 DEF RunRec
    <3> QED BY <1>2, <2>2, <2>6, <3>1, <3>2 DEF LocalOK, Calling
  <2>8. m = [me EXCEPT !.nudged = @ \/ warns, !.told = @ \/ warns,
                       !.tail = IF warns THEN Append(@, "sys") ELSE @]
    BY <2>2, <2>3, <2>4
  <2>9. run' = [run EXCEPT ![r] = IF asks THEN Ended(m, "AwaitingInput", m.tail) ELSE m]
    BY <1>2, <1>6, <2>1, <2>8 DEF Landed
  <2>10. CASE asks
    <3>1. PICK end : end = Ended(m, "AwaitingInput", t) OBVIOUS
    <3>2. "AwaitingInput" \in Stops BY DEF Stops
    <3>3. /\ end \in RunRec /\ LocalOK(end) /\ end.pc = "idle" /\ end.stop = "AwaitingInput"
          /\ end.kind = run[r].kind
      BY <1>2, <2>5, <2>6, <3>1, <3>2, EndedFacts
    <3>4. ~end.goal BY <3>1 DEF Ended, Fresh
    <3>5. run' = [run EXCEPT ![r] = end] BY <2>6, <2>9, <2>10, <3>1
    <3> QED BY <1>1, <1>3, <1>4, <3>3, <3>4, <3>5, InsideStep
  <2>11. CASE ~asks
    <3>1. run' = [run EXCEPT ![r] = m] BY <2>9, <2>11
    <3> QED BY <1>1, <1>2, <1>3, <1>4, <2>5, <2>6, <2>7, <3>1, InsideStep
  <2> QED BY <2>10, <2>11
<1> QED BY <1>5, <1>6

LEMMA SynthesizeStep ==
    ASSUME IInv, NEW r \in Runs, NEW answered \in BOOLEAN, Synthesize(r, answered) PROVE IInv'
<1>1. /\ run[r].pc = "synth" /\ Live(r) /\ run[r] \in RunRec /\ LocalOK(run[r])
      /\ UNCHANGED <<cancelled, late, shared, tree, sent, ghosts>>
  BY RunFacts DEF Synthesize, Live
<1>2. run[r].stop \in Stops \ {"Done"} BY <1>1 DEF LocalOK, Stops
<1>3. PICK tail \in Texts : Return(r, run[r].stop, tail)
  <2>1. <<>> \in Texts /\ run[r].tail \in Texts BY <1>1 DEF RunRec, Texts
  <2> QED BY <2>1 DEF Synthesize
<1> QED BY <1>1, <1>2, <1>3, SubSteps, ReturnStep

-----------------------------------------------------------------------------
(* The user, the REPL, and what happens beside the runs.                     *)

\* A step that changes the locals of no run.
LEMMA StillStep ==
    ASSUME IInv, RestOK', run' = run,
           \A r \in Runs : cancelled[r] => cancelled'[r],
           unseen \subseteq unseen',
           \A r \in Runs : good'[run[r].last] = good[run[r].last] \/ r \in unseen',
           \A r \in Runs : Live(r) /\ run[r].goal => goal', ClaimStands'
    PROVE  IInv'
<1>1. LocalInv' BY DEF IInv, LocalInv
<1>2. VerifyInv' BY DEF IInv, VerifyInv, JudgeOK, DoneOK, AttestOK, Edited, Live
<1>3. \A r, s \in Runs : Turn(r)' /\ Turn(s)' => r = s BY DEF IInv, GoalInv, Turn, Live
<1>4. \A r \in Runs : Live(r)' /\ run'[r].goal => goal' BY DEF Live
<1> QED BY <1>1, <1>2, <1>3, <1>4 DEF IInv, GoalInv

LEMMA StartStep == ASSUME IInv, NEW r \in Runs, NEW kind \in Kinds, Start(r, kind) PROVE IInv'
<1>1. PICK mode \in BOOLEAN : mode = (kind = "repl" /\ goal) BY DEF IInv, RestOK
<1>2. PICK left \in Upto(MaxIters + AutoExtendTo + MaxGoalSteps) :
        left = IF mode THEN MaxGoalSteps ELSE MaxIters
  BY Budgets DEF Upto
<1>3. PICK me : me = [Fresh EXCEPT !.pc = "top", !.kind = kind, !.goal = mode,
                                   !.tail = <<"user">>, !.left = left]
  OBVIOUS
<1>4. run' = [run EXCEPT ![r] = me]
  <2>1. me = [Fresh EXCEPT !.pc = "top", !.kind = kind, !.goal = kind = "repl" /\ goal,
                !.tail = <<"user">>,
                !.left = IF kind = "repl" /\ goal THEN MaxGoalSteps ELSE MaxIters]
    BY <1>1, <1>2, <1>3
  <2> QED BY <2>1 DEF Start
<1>5. me \in RunRec
  <2>1. <<"user">> \in Texts BY DEF Texts, Marks
  <2> QED BY <1>3, <2>1, FreshFacts, ZenonT(60) DEF RunRec
<1>6. /\ me.pc = "top" /\ me.kind = kind /\ me.goal = mode /\ ~me.passed
      /\ ~me.latch /\ ~me.nudged /\ ~me.again /\ me.reprompts = 0
  BY <1>3 DEF Fresh
<1>7. LocalOK(me) BY <1>1, <1>6 DEF LocalOK, Calling
<1>8. RestOK'
  <2>1. /\ cancelled' \in [Runs -> BOOLEAN] /\ late' \in [Runs -> BOOLEAN]
        /\ mail' \in BOOLEAN /\ unseen' \subseteq Runs
    BY DEF Start, IInv, RestOK
  <2>2. UNCHANGED <<goal, claim, open, asked, good, moved, goals, refuted, claimOf>>
    BY DEF Start, ghosts
  <2> QED BY <2>1, <2>2 DEF IInv, RestOK
<1>9. run'[r] = me BY <1>4 DEF IInv, LocalInv
<1>10. JudgeOK(r)' /\ DoneOK(r)' /\ AttestOK(r)'
  BY <1>6, <1>9 DEF JudgeOK, DoneOK, AttestOK
<1>11. /\ \A s \in Runs \ {r} : cancelled'[s] = cancelled[s]
       /\ unseen \ {r} \subseteq unseen' /\ good' = good /\ goal' = goal
  BY DEF Start, IInv, RestOK
<1>12. ClaimStands' BY DEF Start, ghosts, IInv, GoalInv, ClaimStands
<1>13. (me.kind = "repl" => NoTurn) /\ (me.goal => goal')
  <2>1. kind = "repl" => NoTurn BY DEF Start
  <2>2. mode => goal BY <1>1
  <2> QED BY <1>6, <1>11, <2>1, <2>2
<1> QED BY <1>4, <1>5, <1>6, <1>7, <1>8, <1>10, <1>11, <1>12, <1>13, RunStep

LEMMA SetGoalStep == ASSUME IInv, NEW on \in BOOLEAN, SetGoal(on) PROVE IInv'
<1>1. UNCHANGED <<run, cancelled, late, open, asked, mail, good, moved, unseen, claimOf, refuted>>
  BY DEF SetGoal, tree, ghosts
<1>2. goal' = on /\ claim' = FALSE BY DEF SetGoal, ArmedClaim
<1>3. goals' \in 0..MaxGoals BY Budgets DEF SetGoal, IInv, RestOK
<1>4. RestOK' BY <1>1, <1>2, <1>3 DEF IInv, RestOK
<1>5. \A r \in Runs : ~(Live(r) /\ run[r].goal)
  BY RunFacts DEF SetGoal, NoTurn, LocalOK
<1>6. ClaimStands' BY <1>2 DEF ClaimStands
<1> QED BY <1>1, <1>4, <1>5, <1>6, StillStep

LEMMA DropStep == ASSUME IInv, NEW r \in Runs, Drop(r) PROVE IInv'
<1>1. "Dropped" \in Stops \ {"Done"} /\ <<>> \in Texts BY DEF Stops, Texts
<1>2. Live(r) BY DEF Drop, Awaits, Live
<1>3. /\ Return(r, "Dropped", <<>>)
      /\ UNCHANGED <<cancelled, late, shared, tree, sent, ghosts>>
  BY DEF Drop
<1> QED BY <1>1, <1>2, <1>3, SubSteps, ReturnStep

LEMMA EscStep == ASSUME IInv, NEW r \in Runs, Esc(r) \/ Expire(r) PROVE IInv'
<1>1. UNCHANGED <<run, goal, claim, open, asked, mail, good, moved, unseen, goals, claimOf, refuted>>
  BY DEF Esc, Expire, shared, tree, sent, ghosts
<1>2. /\ cancelled' \in [Runs -> BOOLEAN] /\ late' \in [Runs -> BOOLEAN]
      /\ \A s \in Runs : cancelled[s] => cancelled'[s]
  BY DEF Esc, Expire, IInv, RestOK
<1>3. RestOK' BY <1>1, <1>2 DEF IInv, RestOK
<1>4. ClaimStands' /\ \A s \in Runs : Live(s) /\ run[s].goal => goal'
  BY <1>1 DEF IInv, GoalInv, ClaimStands
<1> QED BY <1>1, <1>2, <1>3, <1>4, StillStep

LEMMA SteerStep == ASSUME IInv, Steer PROVE IInv'
<1>1. UNCHANGED <<run, cancelled, late, goal, claim, open, asked, good, moved, unseen, goals,
                  claimOf, refuted>> /\ mail' = TRUE
  BY DEF Steer, tree, sent, ghosts
<1>2. RestOK' BY <1>1 DEF IInv, RestOK
<1>3. ClaimStands' /\ \A s \in Runs : Live(s) /\ run[s].goal => goal'
  BY <1>1 DEF IInv, GoalInv, ClaimStands
<1> QED BY <1>1, <1>2, <1>3, StillStep

LEMMA MeddleStep == ASSUME IInv, NEW p \in Projects, Meddle(p) PROVE IInv'
<1>1. /\ UNCHANGED <<run, cancelled, late, goal, claim, open, asked, mail, goals, claimOf, refuted>>
      /\ unseen' = unseen \cup At(p) /\ unseen' \subseteq Runs /\ Change(p)
  BY DEF Meddle, shared, sent, IInv, RestOK, At
<1>2. /\ RestOK'
      /\ \A r \in Runs : good'[run[r].last] = good[run[r].last] \/ r \in unseen'
  BY <1>1, ChangeFacts DEF IInv, RestOK
<1>3. ClaimStands' /\ \A s \in Runs : Live(s) /\ run[s].goal => goal'
  BY <1>1 DEF IInv, GoalInv, ClaimStands
<1> QED BY <1>1, <1>2, <1>3, StillStep

LEMMA IdleStep == ASSUME IInv, UNCHANGED vars PROVE IInv'
<1>1. UNCHANGED <<run, cancelled, late, goal, claim, open, asked, mail, good, moved, unseen, goals,
                  claimOf, refuted>>
  BY DEF vars, shared, tree, sent, ghosts
<1>2. RestOK' BY <1>1 DEF IInv, RestOK
<1>3. ClaimStands' /\ \A s \in Runs : Live(s) /\ run[s].goal => goal'
  BY <1>1 DEF IInv, GoalInv, ClaimStands
<1> QED BY <1>1, <1>2, <1>3, StillStep

-----------------------------------------------------------------------------
LEMMA InitInv == Init => IInv
<1> SUFFICES ASSUME Init PROVE IInv OBVIOUS
<1>1. RestOK
  <2>1. /\ cancelled \in [Runs -> BOOLEAN] /\ late \in [Runs -> BOOLEAN]
        /\ {goal, claim, open, asked, mail, refuted} \subseteq BOOLEAN
        /\ good \in [Projects -> BOOLEAN]
    BY DEF Init
  <2>2. goals \in 0..MaxGoals /\ claimOf \in 0..MaxGoals BY Budgets DEF Init
  <2>3. moved \subseteq Runs /\ unseen \subseteq Runs BY DEF Init
  <2> QED BY <2>1, <2>2, <2>3 DEF RestOK
<1>2. run \in [Runs -> RunRec] /\ \A r \in Runs : run[r] = Fresh BY FreshFacts DEF Init
<1>3. LocalInv BY <1>2, FreshFacts DEF LocalInv
<1>4. VerifyInv BY <1>2, FreshFacts DEF VerifyInv, JudgeOK, DoneOK, AttestOK, Unverified, Live
<1>5. GoalInv BY <1>2, FreshFacts DEF Init, GoalInv, Turn, Live, ClaimStands
<1> QED BY <1>1, <1>3, <1>4, <1>5 DEF IInv

LEMMA LoopStep == ASSUME IInv, NEW r \in Runs, Loop(r) PROVE IInv'
<1>1. CASE \E full \in BOOLEAN : Top(r, full) BY <1>1, TopStep
<1>2. CASE Abandon(r) BY <1>2, AbandonStep
<1>3. CASE Resume(r) BY <1>3, ResumeStep
<1>4. CASE \E what \in {"empty", "transient", "permanent"} : Retry(r, what) BY <1>4, RetryStep
<1>5. CASE \E shrinks \in BOOLEAN : Overflow(r, shrinks) BY <1>5, OverflowStep
<1>6. CASE \E empty \in BOOLEAN : Claim(r, empty) BY <1>6, ClaimStep
<1>7. CASE \E repeated, same \in BOOLEAN : Calls(r, repeated, same) BY <1>7, CallsStep
<1>8. CASE NoVerdict(r) BY <1>8, NoVerdictStep
<1>9. CASE \E exit \in BOOLEAN : Verdict(r, exit) BY <1>9, VerdictStep
<1>10. CASE \E blocking \in BOOLEAN : Judge(r, blocking) BY <1>10, JudgeStep
<1>11. CASE \E learned, progress, spiked \in BOOLEAN : Landed(r, learned, progress, spiked)
  BY <1>11, LandedStep
<1>12. CASE \E answered \in BOOLEAN : Synthesize(r, answered) BY <1>12, SynthesizeStep
<1> QED BY <1>1, <1>2, <1>3, <1>4, <1>5, <1>6, <1>7, <1>8, <1>9, <1>10, <1>11, <1>12 DEF Loop, Advance

LEMMA NextStep == ASSUME IInv, [Next]_vars PROVE IInv'
<1>1. CASE \E r \in Runs : Loop(r) BY <1>1, LoopStep
<1>2. CASE World
  <2>1. CASE \E r \in Runs : \E kind \in Kinds : Start(r, kind) BY <2>1, StartStep
  <2>2. CASE \E r \in Runs : Esc(r) \/ Expire(r) BY <2>2, EscStep
  <2>3. CASE \E r \in Runs : Drop(r) BY <2>3, DropStep
  <2>4. CASE \E r \in Runs : \E a \in Acts, p \in Projects : Effect(r, a, p) BY <2>4, EffectStep
  <2>5. CASE \E on \in BOOLEAN : SetGoal(on) BY <2>5, SetGoalStep
  <2>6. CASE Steer BY <2>6, SteerStep
  <2>7. CASE \E p \in Projects : Meddle(p) BY <2>7, MeddleStep
  <2> QED BY <1>2, <2>1, <2>2, <2>3, <2>4, <2>5, <2>6, <2>7 DEF World
<1>3. CASE UNCHANGED vars BY <1>3, IdleStep
<1> QED BY <1>1, <1>2, <1>3 DEF Next

(* The inductive invariant holds, of any number of runs with any budgets.    *)
THEOREM AgentInvariant == Spec => []IInv
<1>1. IInv /\ [Next]_vars => IInv' BY NextStep
<1> QED BY InitInv, <1>1, PTL DEF Spec

(* agent/mod.rs:1732-1865: while a passed verification is latched the project *)
(* of the last edit verifies, unless what the loop does not count changed it  *)
(* since; and a run that edited is Done behind such a latch, or when the gate *)
(* had no verdict on that very claim.                                         *)
THEOREM AgentVerified == Spec => []Verified
<1>1. IInv => TypeOK
  <2>1. ASSUME IInv, NEW r \in Runs
        PROVE  /\ run[r].last \in Projects
               /\ run[r].pc \in {"idle", "top", "wait", "backoff", "gate", "judge",
                                 "batch", "synth"}
               /\ run[r].stop \in Stops /\ run[r].kind \in Kinds \cup {"repl"}
               /\ run[r].left \in 0..(MaxIters + AutoExtendTo + MaxGoalSteps)
               /\ run[r].conts \in 0..MaxContinuations
               /\ run[r].recoveries \in 0..MaxRecoveries /\ run[r].pokes \in 0..MaxPokes
               /\ run[r].attempts \in 0..MaxVerify
               /\ run[r].tail \in Seq(Marks) /\ run[r].base \in Seq(Marks)
               /\ run[r].did \subseteq Acts
    <3>1. run[r] \in RunRec BY <2>1, RunFacts
    <3> QED BY <3>1 DEF RunRec, Upto, Texts, Deeds
  <2> QED BY <2>1 DEF TypeOK, IInv, RestOK
<1>2. IInv => Verified
  <2> SUFFICES ASSUME IInv PROVE Verified OBVIOUS
  <2>1. Attested BY <1>1 DEF IInv, VerifyInv, AttestOK, Attested
  <2>2. DoneVerified
    BY DEF IInv, VerifyInv, DoneOK, Unverified, DoneVerified, Live, Verify
  <2> QED BY <2>1, <2>2 DEF Verified
<1> QED BY AgentInvariant, <1>2, PTL

(* agent/goal.rs:71-72, mod.rs:1800-1808: a pending claim is about the goal  *)
(* that stands, and no verification of a goal run has failed since.          *)
THEOREM AgentClaimStands == Spec => []ClaimStands
<1>1. IInv => ClaimStands BY DEF IInv, GoalInv
<1> QED BY AgentInvariant, <1>1, PTL

(* agent/mod.rs:3900-3901, 3957-3961: a run is cut off as going nowhere only *)
(* when it was told so, in this episode, and has gone on as before.          *)
THEOREM AgentWarned == Spec => []Warned
<1>1. IInv => Warned BY RunFacts DEF LocalOK, Warned
<1> QED BY AgentInvariant, <1>1, PTL

-----------------------------------------------------------------------------
(* What a call that ends its run leaves of the history.                      *)

\* A run has its locals to itself.
LEMMA Elsewhere ==
    ASSUME IInv, NEW s \in Runs, NEW r \in Runs \ {s},
           Loop(s) \/ (\E kind \in Kinds : Start(s, kind)) \/ Drop(s)
           \/ (\E a \in Acts, p \in Projects : Effect(s, a, p))
    PROVE  run'[r] = run[r]
<1>1. \E me : run' = [run EXCEPT ![s] = me]
  <2>1. CASE \E full \in BOOLEAN : Top(s, full) BY <2>1 DEF Top, Return
  <2>2. CASE Abandon(s) BY <2>2 DEF Abandon, GiveUp, Return
  <2>3. CASE Resume(s) BY <2>3 DEF Resume, Attempt
  <2>4. CASE \E what \in {"empty", "transient", "permanent"} : Retry(s, what)
    BY <2>4 DEF Retry, GiveUp, Return
  <2>5. CASE \E shrinks \in BOOLEAN : Overflow(s, shrinks)
    BY <2>5 DEF Overflow, GiveUp, Return, Attempt
  <2>6. CASE \E empty \in BOOLEAN : Claim(s, empty) BY <2>6 DEF Claim
  <2>7. CASE \E repeated, same \in BOOLEAN : Calls(s, repeated, same) BY <2>7 DEF Calls
  <2>8. CASE NoVerdict(s) BY <2>8 DEF NoVerdict, Goto
  <2>9. CASE \E exit \in BOOLEAN : Verdict(s, exit) BY <2>9 DEF Verdict
  <2>10. CASE \E blocking \in BOOLEAN : Judge(s, blocking) BY <2>10 DEF Judge, Return
  <2>11. CASE \E learned, progress, spiked \in BOOLEAN : Landed(s, learned, progress, spiked)
    BY <2>11 DEF Landed
  <2>12. CASE \E answered \in BOOLEAN : Synthesize(s, answered) BY <2>12 DEF Synthesize, Return
  <2>13. CASE \E kind \in Kinds : Start(s, kind) BY <2>13 DEF Start
  <2>14. CASE Drop(s) BY <2>14 DEF Drop, Return
  <2>15. CASE \E a \in Acts, p \in Projects : Effect(s, a, p) BY <2>15 DEF Effect
  <2> QED BY <2>1, <2>2, <2>3, <2>4, <2>5, <2>6, <2>7, <2>8, <2>9, <2>10, <2>11, <2>12, <2>13,
             <2>14, <2>15 DEF Loop, Advance
<1> QED BY <1>1 DEF IInv, LocalInv

\* The history a run of this stop reason is left with.
Left(r, stop) == IF stop = "Err" THEN AfterError(run[r], run[r].base) ELSE run[r].base

LEMMA EndedTail ==
    ASSUME NEW r, NEW me, NEW stop, NEW tail
    PROVE  Ended(me, stop, tail).tail = tail /\ Ended(me, stop, tail).stop = stop
BY DEF Ended, Fresh

LEMMA GiveUpLeaves ==
    ASSUME IInv, NEW r \in Runs, Calling(run[r]), NEW stop, GiveUp(r, stop)
    PROVE  run'[r].stop = stop /\ run'[r].tail = Left(r, stop)
<1>1. Rollback(run[r]) = run[r].base BY RunFacts, RollbackBase
<1>2. run' = [run EXCEPT ![r] = Ended(run[r], stop, Left(r, stop))]
  BY <1>1 DEF GiveUp, Return, Left
<1>3. run'[r] = Ended(run[r], stop, Left(r, stop)) BY <1>2 DEF IInv, LocalInv
<1> QED BY <1>3, EndedTail

LEMMA AttemptLeaves ==
    ASSUME IInv, NEW r \in Runs, NEW me \in RunRec, LocalOK(me), Calling(me),
           me.base = run[r].base, Attempt(r, me), ~Live(r)'
    PROVE  run'[r].stop = "Deadline" /\ run'[r].tail = run[r].base
<1>1. Rollback(me) = run[r].base BY RollbackBase
<1>2. CASE late[r]
  <2>1. run' = [run EXCEPT ![r] = Ended(me, "Deadline", run[r].base)] BY <1>1, <1>2 DEF Attempt
  <2>2. run'[r] = Ended(me, "Deadline", run[r].base) BY <2>1 DEF IInv, LocalInv
  <2> QED BY <2>2, EndedTail
<1>3. CASE ~late[r]
  <2>1. PICK m : m = [me EXCEPT !.pc = "wait"] OBVIOUS
  <2>2. run' = [run EXCEPT ![r] = m] BY <1>3, <2>1 DEF Attempt
  <2>3. m.pc = "wait" BY <2>1 DEF RunRec
  <2>4. run'[r] = m BY <2>2 DEF IInv, LocalInv
  <2> QED BY <2>3, <2>4 DEF Live
<1> QED BY <1>2, <1>3

LEMMA LoopLeaves ==
    ASSUME IInv, NEW r \in Runs, Calling(run[r]), Loop(r), ~Live(r)'
    PROVE  run'[r].tail = Left(r, run'[r].stop)
<1>1. run[r] \in RunRec /\ LocalOK(run[r]) /\ DOMAIN run = Runs
  BY RunFacts DEF IInv, LocalInv
<1>2. run[r].pc \in {"wait", "backoff"} BY DEF Calling
<1>3. CASE Abandon(r)
  <2>1. GiveUp(r, "Cancelled") BY <1>3 DEF Abandon
  <2> QED BY <2>1, GiveUpLeaves
<1>4. CASE Resume(r)
  <2>1. run[r].pc = "backoff" BY <1>4 DEF Resume
  <2>2. CASE run[r].again
    <3>1. PICK me \in RunRec :
            /\ me = [run[r] EXCEPT !.again = FALSE, !.reprompts = 1, !.tail = Append(@, "user")]
            /\ LocalOK(me) /\ me.pc = "backoff" /\ me.base = run[r].base
      BY <2>1, <2>2, ResumedFacts
    <3>2. Attempt(r, me) BY <1>4, <2>2, <3>1 DEF Resume
    <3>3. run'[r].stop = "Deadline" /\ run'[r].tail = run[r].base
      BY <3>1, <3>2, AttemptLeaves DEF Calling
    <3> QED BY <3>3 DEF Left
  <2>3. CASE ~run[r].again
    <3>1. Attempt(r, run[r]) BY <1>4, <2>3 DEF Resume
    <3>2. run'[r].stop = "Deadline" /\ run'[r].tail = run[r].base
      BY <1>1, <3>1, AttemptLeaves
    <3> QED BY <3>2 DEF Left
  <2> QED BY <2>2, <2>3
<1>5. ASSUME NEW what \in {"empty", "transient", "permanent"}, Retry(r, what)
      PROVE  run'[r].tail = Left(r, run'[r].stop)
  <2>1. CASE GiveUp(r, "Err") BY <2>1, GiveUpLeaves
  <2>2. CASE ~GiveUp(r, "Err")
    <3>1. run'[r].pc = "backoff" BY <1>1, <1>5, <2>2, ZenonT(60) DEF Retry, RunRec
    <3> QED BY <3>1 DEF Live
  <2> QED BY <2>1, <2>2
<1>6. ASSUME NEW shrinks \in BOOLEAN, Overflow(r, shrinks)
      PROVE  run'[r].tail = Left(r, run'[r].stop)
  <2>1. CASE GiveUp(r, "Err") BY <2>1, GiveUpLeaves
  <2>2. CASE ~GiveUp(r, "Err")
    <3>1. PICK me : me = [run[r] EXCEPT !.shrunk = TRUE] OBVIOUS
    <3>2. me \in RunRec BY <1>1, <3>1, ZenonT(60) DEF RunRec
    <3>3. LocalOK(me) BY <1>1, <3>1 DEF RunRec, LocalOK, Calling, Grown
    <3>4. me.base = run[r].base /\ me.pc = run[r].pc BY <1>1, <3>1 DEF RunRec
    <3>5. Attempt(r, me) BY <1>6, <2>2, <3>1 DEF Overflow
    <3>6. run'[r].stop = "Deadline" /\ run'[r].tail = run[r].base
      BY <3>2, <3>3, <3>4, <3>5, AttemptLeaves DEF Calling
    <3> QED BY <3>6 DEF Left
  <2> QED BY <2>1, <2>2
<1>7. ASSUME NEW empty \in BOOLEAN, Claim(r, empty) PROVE Live(r)'
  <2>1. PICK a \in RunRec : a = Answered(run[r])
    BY <1>1, <1>7, AnsweredFacts DEF Claim
  <2>2. run'[r].pc \in {"gate", "judge"} BY <1>1, <1>7, <2>1 DEF Claim, RunRec
  <2> QED BY <2>2 DEF Live
<1>8. ASSUME NEW repeated \in BOOLEAN, NEW same \in BOOLEAN, Calls(r, repeated, same)
      PROVE  Live(r)'
  <2>1. PICK a \in RunRec : a = Answered(run[r])
    BY <1>1, <1>8, AnsweredFacts DEF Calls
  <2>2. run'[r].pc \in {"synth", "batch"} BY <1>1, <1>8, <2>1 DEF Calls, RunRec
  <2> QED BY <2>2 DEF Live
<1>9. ~(\E full \in BOOLEAN : Top(r, full)) BY <1>2 DEF Top
<1>10. /\ ~NoVerdict(r) /\ ~(\E exit \in BOOLEAN : Verdict(r, exit))
       /\ ~(\E blocking \in BOOLEAN : Judge(r, blocking))
       /\ ~(\E answered \in BOOLEAN : Synthesize(r, answered))
  BY <1>2 DEF NoVerdict, Verdict, Judge, Synthesize
<1>11. ~(\E learned, progress, spiked \in BOOLEAN : Landed(r, learned, progress, spiked))
  <2>1. ASSUME NEW learned, NEW progress, NEW spiked, Landed(r, learned, progress, spiked)
        PROVE  run[r].pc = "batch"
    BY <2>1, Zenon DEF Landed
  <2> QED BY <1>2, <2>1
<1> QED BY <1>3, <1>4, <1>5, <1>6, <1>7, <1>8, <1>9, <1>10, <1>11 DEF Loop, Advance

LEMMA StepLeaves ==
    ASSUME IInv, [Next]_vars, NEW r \in Runs, Calling(run[r]), ~Live(r)', run'[r].stop # "Dropped"
    PROVE  run'[r].tail = Left(r, run'[r].stop)
<1>1. Live(r) BY DEF Calling, Live
<1>2. CASE run' = run BY <1>1, <1>2 DEF Live
<1>3. ASSUME NEW s \in Runs,
             Loop(s) \/ (\E kind \in Kinds : Start(s, kind)) \/ Drop(s)
             \/ (\E a \in Acts, p \in Projects : Effect(s, a, p))
      PROVE  run'[r].tail = Left(r, run'[r].stop)
  <2>1. CASE s # r
    <3>1. run'[r] = run[r] BY <1>3, <2>1, Elsewhere
    <3> QED BY <1>1, <3>1 DEF Live
  <2>2. CASE s = r /\ Loop(r) BY <2>2, LoopLeaves
  <2>3. CASE s = r /\ \E kind \in Kinds : Start(r, kind) BY <1>1, <2>3 DEF Start
  <2>4. CASE s = r /\ Drop(r)
    <3>1. run'[r] = Ended(run[r], "Dropped", <<>>) BY <2>4 DEF Drop, Return, IInv, LocalInv
    <3> QED BY <3>1, EndedTail
  <2>5. CASE s = r /\ \E a \in Acts, p \in Projects : Effect(r, a, p) BY <2>5 DEF Effect, Calling
  <2> QED BY <1>3, <2>1, <2>2, <2>3, <2>4, <2>5
<1>4. (\E s \in Runs : Esc(s) \/ Expire(s)) \/ (\E on \in BOOLEAN : SetGoal(on)) \/ Steer
        \/ (\E p \in Projects : Meddle(p)) => run' = run
  BY DEF Esc, Expire, SetGoal, Steer, Meddle
<1>5. UNCHANGED vars => run' = run BY DEF vars
<1> QED BY <1>2, <1>3, <1>4, <1>5 DEF Next, World

(* agent/mod.rs:1326-1328, 1522-1531: a call that fails, is cancelled or runs *)
(* out of time leaves no nudge or re-prompt of its own in the history, and    *)
(* takes nothing else with it.                                                *)
THEOREM AgentNothingStranded == Spec => NothingStranded
<1>1. IInv /\ [Next]_vars => [\A r \in Runs :
          run[r].pc \in {"wait", "backoff"} /\ ~Live(r)' /\ run'[r].stop # "Dropped"
              => run'[r].tail = IF run'[r].stop = "Err" THEN AfterError(run[r], run[r].base)
                                ELSE run[r].base]_vars
  <2>1. ASSUME IInv, [Next]_vars, NEW r \in Runs, run[r].pc \in {"wait", "backoff"},
               ~Live(r)', run'[r].stop # "Dropped"
        PROVE  run'[r].tail = IF run'[r].stop = "Err" THEN AfterError(run[r], run[r].base)
                              ELSE run[r].base
    <3>1. run'[r].tail = Left(r, run'[r].stop) BY <2>1, StepLeaves DEF Calling
    <3> QED BY <3>1 DEF Left
  <2> QED BY <2>1
<1> QED BY AgentInvariant, <1>1, PTL DEF Spec, NothingStranded
=============================================================================
