--------------------------------- MODULE Coop ---------------------------------
(***************************************************************************)
(* Several windows work in one worktree and another one commits what each    *)
(* of them did (features/coop.rs): a turn writes between its pre-edit        *)
(* checkpoint and its end, the seal measures what it changed, enters it in   *)
(* the manifest of the session and claims the paths; a coordinator plans,    *)
(* stages, reviews and commits the work of one session, and reconstructs the *)
(* files two sessions changed.                                               *)
(*                                                                         *)
(* The content of a file is the set of the edits in it; an edit is named by  *)
(* its session and the checkpoint its turn began with.  Edits that touch the  *)
(* same lines are the conflicts a reconstruction may meet.  WorkspaceLease    *)
(* models how the lease is had.                                              *)
(***************************************************************************)
EXTENDS Integers, Sequences

CONSTANTS Sessions,          \* windows with a conversation, each a process
          Coords,            \* processes that run /team commit
          Paths,
          MaxTurns,          \* bound: turns of all sessions
          Nobody

ASSUME CoopConstants ==
    /\ MaxTurns \in Nat /\ Sessions \cap Coords = {}
    /\ Nobody \notin Sessions \cup Coords

VARIABLES
    tree, index, head,       \* what the files, the git index and the last commit hold
    ckpts,                   \* the pre-edit checkpoints, in order
    lease,                   \* who has the workspace writer lease
    pc, turn,                \* a session's step; base and changed paths of its seal
    man,                     \* its manifest, as published
    owners, overlaps,        \* shared.json: the last claim; pairs that changed a path
    committed,
    coord,                   \* a coordinator's step, plan and review
    torn,                    \* ghost: sessions a seal of which was not finished
    missed,                  \* ghost: <<session, path>> the last claim of which was lost
    loose                    \* ghost: a coordinator went on without the lease

files  == <<tree, index, head, ckpts>>
shared == <<owners, overlaps, committed>>
vars   == <<files, lease, pc, turn, man, shared, coord, torn, missed, loose>>

Edits   == Sessions \X (1..MaxTurns)
Content == [Paths -> SUBSET Edits]
Own(s)  == {e \in Edits : e[1] = s}

Fresh  == [ready |-> FALSE, base |-> 0, files |-> [p \in Paths |-> {}]]
NoTurn == [base |-> 0, changed |-> {}]
NoPlan == [pc |-> "idle", of |-> Nobody, paths |-> {}, shared |-> {},
           seen |-> [p \in Paths |-> {}]]

Init ==
    /\ tree = [p \in Paths |-> {}] /\ index = tree /\ head = tree /\ ckpts = <<>>
    /\ lease = Nobody
    /\ pc = [s \in Sessions |-> "idle"] /\ turn = [s \in Sessions |-> NoTurn]
    /\ man = [s \in Sessions |-> Fresh]
    /\ owners = [p \in Paths |-> Nobody] /\ overlaps = {} /\ committed = {}
    /\ coord = [c \in Coords |-> NoPlan]
    /\ torn = {} /\ missed = {} /\ loose = FALSE

Released(a) == IF lease = a THEN Nobody ELSE lease

---------------------------------------------------------------------------
(* A turn of a session.                                                     *)

\* The first writing tool: the lease, the checkpoint and note_turn_base.  Without
\* the lease the call is refused.  (A turn that writes nothing leaves no trace.)
FirstWrite(s) ==
    /\ pc[s] = "idle" /\ lease = Nobody /\ lease' = s
    /\ Len(ckpts) < MaxTurns /\ ckpts' = Append(ckpts, tree)
    /\ man' = [man EXCEPT ![s].ready = FALSE, ![s].base = Len(ckpts) + 1]
    /\ pc' = [pc EXCEPT ![s] = "write"]
    /\ UNCHANGED <<tree, index, head, turn, shared, coord, torn, missed, loose>>

Write(s, p) ==
    /\ pc[s] = "write"
    /\ tree' = [tree EXCEPT ![p] = @ \cup {<<s, man[s].base>>}]
    /\ UNCHANGED <<index, head, ckpts, lease, pc, turn, man, shared, coord, torn, missed, loose>>

\* However it ends, the turn drops the lease before the seal asks for it again.
EndTurn(s) ==
    /\ pc[s] = "write" /\ lease' = Released(s)
    /\ pc' = [pc EXCEPT ![s] = "seal"]
    /\ UNCHANGED <<files, turn, man, shared, coord, torn, missed, loose>>

---------------------------------------------------------------------------
(* seal_turn.                                                               *)

\* The state a turn leaves behind, once it is sealed: idle, or failed.
Settled(m) == {[m EXCEPT !.ready = failed] : failed \in BOOLEAN}

\* The base of the turn is taken out of the manifest.
Seal(s) ==
    /\ pc[s] = "seal" /\ pc' = [pc EXCEPT ![s] = "wait"]
    /\ man' = [man EXCEPT ![s].base = 0]
    /\ turn' = [turn EXCEPT ![s].base = man[s].base]
    /\ UNCHANGED <<files, lease, shared, coord, torn, missed, loose>>

\* The lease is waited for a few seconds; the seal goes on without it.
SealLease(s) ==
    /\ pc[s] = "wait" /\ lease' = (IF lease = Nobody THEN s ELSE lease)
    /\ pc' = [pc EXCEPT ![s] = "measure"]
    /\ UNCHANGED <<files, turn, man, shared, coord, torn, missed, loose>>

MergeLatest(m, base, changed) ==
    [m EXCEPT !.files = [p \in Paths |-> IF p \in changed THEN {base} ELSE @[p]]]
\* merge_touched: every turn that touched a path is remembered.
Merge(m, base, changed) ==
    [m EXCEPT !.files = [p \in Paths |-> IF p \in changed THEN @[p] \cup {base} ELSE @[p]]]

\* The diff from the base to the working tree, and its paths into the manifest.
Measure(s) ==
    /\ pc[s] = "measure"
    /\ LET base == turn[s].base
           changed == {p \in Paths : tree[p] # ckpts[base][p]}
           m == Merge(man[s], base, changed)
       IN IF changed = {}
          THEN /\ \E new \in Settled(m) : man' = [man EXCEPT ![s] = new]
               /\ pc' = [pc EXCEPT ![s] = "idle"] /\ lease' = Released(s)
               /\ turn' = [turn EXCEPT ![s] = NoTurn]
          ELSE /\ man' = [man EXCEPT ![s] = m]
               /\ pc' = [pc EXCEPT ![s] = "claim"] /\ UNCHANGED lease
               /\ turn' = [turn EXCEPT ![s].changed = changed]
    /\ UNCHANGED <<files, shared, coord, torn, missed, loose>>

\* The seal is over.
Sealed(s) ==
    /\ \E new \in Settled(man[s]) : man' = [man EXCEPT ![s] = new]
    /\ pc' = [pc EXCEPT ![s] = "idle"] /\ turn' = [turn EXCEPT ![s] = NoTurn]
    /\ lease' = Released(s)

\* The diff fails: the turn is not attributed.
Unmeasured(s) ==
    /\ pc[s] = "measure" /\ Sealed(s) /\ torn' = torn \cup {s}
    /\ UNCHANGED <<files, shared, coord, missed, loose>>

Overlap(p, a, b) == [path |-> p, by |-> {a, b}]

NewOverlapsLive(s, changed) ==
    {Overlap(p, owners[p], s) : p \in {q \in changed :
        owners[q] \notin {Nobody, s} /\ pc[owners[q]] # "gone"}}
NewOverlaps(s, changed) ==
    {Overlap(p, owners[p], s) : p \in {q \in changed : owners[q] \notin {Nobody, s}}}

\* claim_paths, under the lock of shared.json; the claim moves to the last writer.
Claim(s) ==
    /\ pc[s] = "claim" /\ Sealed(s)
    /\ overlaps' = overlaps \cup NewOverlaps(s, turn[s].changed)
    /\ owners' = [p \in Paths |-> IF p \in turn[s].changed THEN s ELSE owners[p]]
    /\ missed' = missed \ ({s} \X turn[s].changed)
    /\ UNCHANGED <<files, committed, coord, torn, loose>>

\* The lock is not had in five seconds, or shared.json is not saved: the seal goes on
\* as if there was nothing to warn of.
ClaimLost(s) ==
    /\ pc[s] = "claim" /\ Sealed(s)
    /\ missed' = missed \cup ({s} \X turn[s].changed)
    /\ UNCHANGED <<files, shared, coord, torn, loose>>

\* /team done.
Done(s) ==
    /\ pc[s] = "idle" /\ ~man[s].ready /\ man' = [man EXCEPT ![s].ready = TRUE]
    /\ UNCHANGED <<files, lease, pc, turn, shared, coord, torn, missed, loose>>

\* A clean exit between turns.
Clear(s) ==
    /\ pc[s] = "idle" /\ pc' = [pc EXCEPT ![s] = "gone"]
    /\ man' = [man EXCEPT ![s].ready = TRUE]
    /\ UNCHANGED <<files, lease, turn, shared, coord, torn, missed, loose>>

\* The system releases the locks; the manifest stays as it was written last.
Crash(s) ==
    /\ pc[s] \notin {"idle", "gone"} /\ pc' = [pc EXCEPT ![s] = "gone"]
    /\ lease' = Released(s)
    /\ torn' = IF pc[s] \in {"wait", "measure", "claim"} THEN torn \cup {s} ELSE torn
    /\ UNCHANGED <<files, turn, man, shared, coord, missed, loose>>

---------------------------------------------------------------------------
(* A coordinator: plan, stage, review, commit.                              *)

Touched(s) == {p \in Paths : man[s].files[p] # {}}
Overlapping(s) == {p \in Paths : \E o \in overlaps : o.path = p /\ s \in o.by}
Ready(s) == pc[s] = "gone" \/ man[s].ready

\* plan_commit finds no blocker (--force is not modelled).
Plan(c, s) ==
    /\ coord[c].pc = "idle" /\ Ready(s) /\ s \notin committed /\ Touched(s) # {}
    /\ coord' = [coord EXCEPT ![c] = [NoPlan EXCEPT
                    !.pc = "add", !.of = s, !.paths = Touched(s),
                    !.shared = Touched(s) \cap Overlapping(s)]]
    /\ UNCHANGED <<files, lease, pc, turn, man, shared, torn, missed, loose>>

\* coordinator_lease: waited for, then done without.
CoordinatorLease(c) ==
    /\ lease' = IF lease = Nobody THEN c ELSE lease
    /\ loose' = (loose \/ lease # Nobody)

\* stage_plan: git add of all paths, as the disk has them.
Add(c) ==
    /\ coord[c].pc = "add" /\ CoordinatorLease(c)
    /\ index' = [p \in Paths |-> IF p \in coord[c].paths THEN tree[p] ELSE index[p]]
    /\ coord' = [coord EXCEPT ![c].pc = "split"]
    /\ UNCHANGED <<tree, head, ckpts, pc, turn, man, shared, torn, missed>>

\* turn_boundaries: the turns the manifests know of, those under way included.
BoundariesOfSealed ==
    UNION {UNION {man[z].files[q] : q \in Paths} : z \in Sessions}
Boundaries ==
    (UNION {UNION {man[z].files[q] : q \in Paths} : z \in Sessions})
    \cup {man[z].base : z \in {y \in Sessions : man[y].base # 0}}

\* The tree at the end of the turn that began with checkpoint b.
After(b) ==
    LET later == {x \in Boundaries : x > b}
    IN IF later = {} THEN tree ELSE ckpts[CHOOSE x \in later : \A y \in later : x <= y]

\* split_shared: the turns of s, and no others, replayed on the last commit.
Split(s, p) == head[p] \cup UNION {After(b)[p] \ ckpts[b][p] : b \in man[s].files[p]}

Unstaged(c) == [p \in Paths |-> IF p \in coord[c].paths THEN head[p] ELSE index[p]]

\* The shared paths are staged as reconstructed; if one cannot be, nothing is.
Separate(c, usable) ==
    /\ coord[c].pc = "split" /\ (coord[c].shared = {} => usable)
    /\ LET s == coord[c].of
           new == [p \in Paths |-> IF p \in coord[c].shared THEN Split(s, p) ELSE index[p]]
       IN IF usable
          THEN /\ index' = new
               /\ coord' = [coord EXCEPT ![c].pc = "review", ![c].seen = new]
          ELSE index' = Unstaged(c) /\ coord' = [coord EXCEPT ![c] = NoPlan]
    /\ lease' = Released(c)
    /\ UNCHANGED <<tree, head, ckpts, pc, turn, man, shared, torn, missed, loose>>

\* The review is abandoned.
Unstage(c) ==
    /\ coord[c].pc = "review" /\ index' = Unstaged(c)
    /\ coord' = [coord EXCEPT ![c] = NoPlan] /\ loose' = (loose \/ lease # Nobody)
    /\ UNCHANGED <<tree, head, ckpts, lease, pc, turn, man, shared, torn, missed>>

PinsNothing(c) == index # head
Pinned(c) == index = coord[c].seen /\ index # head

\* commit_staged: the index is compared with the reviewed one, under the lease.
Check(c) ==
    /\ coord[c].pc = "review"
    /\ IF Pinned(c)
       THEN CoordinatorLease(c) /\ coord' = [coord EXCEPT ![c].pc = "commit"]
       ELSE /\ coord' = [coord EXCEPT ![c] = NoPlan]
            /\ loose' = (loose \/ lease # Nobody) /\ UNCHANGED lease
    /\ UNCHANGED <<files, pc, turn, man, shared, torn, missed>>

\* git commit, and the claims of the session are spent (shared.json is taken to be
\* written here).
Commit(c) ==
    /\ coord[c].pc = "commit" /\ head' = index
    /\ LET s == coord[c].of IN
       /\ committed' = committed \cup {s}
       /\ owners' = [p \in Paths |-> IF p \in coord[c].paths /\ owners[p] = s
                                     THEN Nobody ELSE owners[p]]
       /\ overlaps' = {o \in overlaps : s \notin o.by}
    /\ coord' = [coord EXCEPT ![c] = NoPlan] /\ lease' = Released(c)
    /\ UNCHANGED <<tree, index, ckpts, pc, turn, man, torn, missed, loose>>

---------------------------------------------------------------------------

Next ==
    \/ \E s \in Sessions :
        \/ FirstWrite(s) \/ EndTurn(s)
        \/ Seal(s) \/ SealLease(s) \/ Measure(s) \/ Unmeasured(s) \/ Claim(s) \/ ClaimLost(s)
        \/ Done(s) \/ Clear(s) \/ Crash(s)
        \/ \E p \in Paths : Write(s, p)
    \/ \E c \in Coords :
        \/ Add(c) \/ Unstage(c) \/ Check(c) \/ Commit(c)
        \/ \E s \in Sessions : Plan(c, s)
        \/ \E usable \in BOOLEAN : Separate(c, usable)

Spec == Init /\ [][Next]_vars

---------------------------------------------------------------------------
Steps == {"idle", "write", "seal", "wait", "measure", "claim", "gone"}
Bases == 1..Len(ckpts)

\* Every variable keeps its type, and every base names a checkpoint.
TypeOK ==
    /\ {tree, index, head} \subseteq Content /\ ckpts \in Seq(Content)
    /\ lease \in Sessions \cup Coords \cup {Nobody}
    /\ pc \in [Sessions -> Steps]
    /\ turn \in [Sessions -> [base : {0} \cup Bases, changed : SUBSET Paths]]
    /\ man \in [Sessions -> [ready : BOOLEAN, base : {0} \cup Bases,
                             files : [Paths -> SUBSET Bases]]]
    /\ owners \in [Paths -> Sessions \cup {Nobody}] /\ committed \subseteq Sessions
    /\ \A o \in overlaps : o.path \in Paths /\ o.by \subseteq Sessions
    /\ coord \in [Coords -> [pc : {"idle", "add", "split", "review", "commit"},
                             of : Sessions \cup {Nobody}, paths : SUBSET Paths,
                             shared : SUBSET Paths, seen : Content]]
    /\ torn \subseteq Sessions /\ missed \subseteq Sessions \X Paths /\ loose \in BOOLEAN

\* A seal of s has taken the base from the manifest and not yet entered the paths.
Open(s) == pc[s] \in {"wait", "measure"}

\* coop.rs:496-498: the turn an edit was made in, however it ended, is listed for its
\* path once it is sealed, or it is the one the manifest has under way: the list
\* forgets nothing, over later turns, crashes, and seals that come late.
Accounted == TypeOK /\ \A p \in Paths : \A e \in tree[p] :
    LET s == e[1] IN
    e[2] \in man[s].files[p] \cup {man[s].base} \/ (Open(s) /\ e[2] = turn[s].base) \/ s \in torn

\* s has listed p and the claim of it was neither cut short nor lost.
Claimed(s, p) == p \in Touched(s) \ turn[s].changed /\ s \notin torn /\ <<s, p>> \notin missed

\* coop.rs:658-659: until the first commit, sessions that list and claimed the
\* same path both see it as overlapping, however their seals and claims interleave, and
\* whatever claims before and between were lost.
OverlapKnown == committed = {} => \A a, b \in Sessions, p \in Paths :
    a # b /\ Claimed(a, p) /\ Claimed(b, p) => p \in Overlapping(a) \cap Overlapping(b)

\* coop.rs:1110-1126: a separated file is the last commit and the sealed edits of the
\* session, all of them and no others, whatever was sealed late or edited meanwhile;
\* unless a seal is open, or was never finished: its turn is no boundary.
SplitOwn == [][\A c \in Coords :
    coord[c].pc = "split" /\ coord'[c].pc = "review"
      /\ (\A z \in Sessions : ~Open(z) /\ z \notin torn)
        => \A p \in coord[c].shared :
             index'[p] = head[p] \cup {e \in tree[p] : e[1] = coord[c].of
                                                       /\ e[2] # man[e[1]].base}]_vars

\* coop.rs:1399-1401, 1503-1507: a commit is the index somebody has reviewed; as long
\* as no coordinator went on without the lease.
Reviewed == [][head' # head /\ ~loose
    => \E c \in Coords : coord[c].pc = "commit" /\ head' = coord[c].seen]_vars
=============================================================================
