------------------------------- MODULE FileTools -------------------------------
(***************************************************************************)
(* The file tools of several windows on one worktree (agent/builtin.rs), on *)
(* the durable bytes of core/persist.rs: file_read, file_edit, file_write  *)
(* and file_move, and the ledger of what a window last saw                 *)
(* (core/read_ledger.rs), which keeps a whole-file write from burying the  *)
(* work of another window.                                                 *)
(*                                                                         *)
(* The content of a file is the set of the edits in it.  An agent has an   *)
(* idea of each file from what its tools have shown it; a whole-file write *)
(* is computed from that idea, an edit from a fresh read.  A tool body is  *)
(* a job; Esc drops the turn and its lease, but not the job that runs.     *)
(* Coop models the seal and its claims, WorkspaceLease the lease.          *)
(***************************************************************************)
EXTENDS Integers

CONSTANTS Windows,           \* processes, each with a conversation
          Paths,
          Jobs,              \* bound: tool bodies of a window at the same time
          MaxEdits,          \* bound: edits of all windows and programs
          MaxCalls,          \* bound: calls of all windows
          MaxEscs,           \* bound: turns that are dropped, processes that die
          Movers,            \* bound: the windows that move files,
          LastMove,          \* bound: and among which first calls
          Deletes,           \* an editor may also delete a file
          NoFile, Unseen, Nobody

Content == SUBSET (1..MaxEdits)
Value   == Content \cup {NoFile}
Bodies  == Windows \X Jobs

ASSUME FileConstants ==
    /\ {MaxEdits, MaxCalls, MaxEscs, LastMove} \subseteq Nat /\ Deletes \in BOOLEAN
    /\ Nobody \notin Windows \cup Paths
    /\ NoFile # Unseen /\ \A c \in Content : c # NoFile /\ c # Unseen

VARIABLES
    file,                    \* the files
    seen,                    \* SEEN: what a window's tools last recorded of a path
    idea,                    \* what its conversation was last told of it
    job,                     \* the tool bodies
    phase, wrote,            \* a window's turn; the paths it has written in it
    lease, owners,           \* the workspace writer lease; the claims of sealed turns
    author,                  \* ghost: who put an edit into a file; Nobody for other programs
    calls, escs, edits,      \* calls, turns dropped or processes dead, edits so far
    left,                    \* ghost: what a window's last write left in a file
    hidden                   \* ghost: what it recorded as seen and was not told

turns  == <<phase, wrote, lease, owners>>
ghosts == <<left, hidden>>
bounds == <<calls, escs, edits>>
fileVars   == <<file, seen, idea, job, turns, author, bounds, ghosts>>

NoJob == [tool |-> "none", path |-> Nobody, to |-> Nobody, pc |-> "none",
          live |-> FALSE, was |-> NoFile, next |-> NoFile, aside |-> NoFile,
          sealing |-> {}, claim |-> Nobody, blind |-> FALSE, own |-> FALSE, disturbed |-> FALSE]

Nothing == [p \in Paths |-> Unseen]

FilesInit ==
    /\ file \in [Paths -> {NoFile, {}}]
    /\ seen = [w \in Windows |-> Nothing] /\ idea = seen
    /\ job = [j \in Bodies |-> NoJob]
    /\ phase = [w \in Windows |-> "turn"] /\ wrote = [w \in Windows |-> {}]
    /\ lease = Nobody /\ owners = [p \in Paths |-> Nobody]
    /\ author = [p \in Paths |-> [x \in 1..MaxEdits |-> Nobody]]
    /\ calls = 0 /\ escs = 0 /\ edits = 0
    /\ left = seen /\ hidden = [w \in Windows |-> [p \in Paths |-> {}]]

Known(x)     == IF x \in {NoFile, Unseen} THEN {} ELSE x
Running(w)      == {i \in Jobs : job[<<w, i>>].live}
Goto(j, pc)  == job' = [job EXCEPT ![j].pc = pc]
Over(j)      == job' = [job EXCEPT ![j] = NoJob]
Released(w)  == IF lease = w THEN Nobody ELSE lease

---------------------------------------------------------------------------
(* Turns, and what happens beside them.                                     *)

EndTurn(w) ==
    /\ phase[w] = "turn" /\ Running(w) = {}
    /\ phase' = [phase EXCEPT ![w] = "seal"] /\ lease' = Released(w)
    /\ UNCHANGED <<file, seen, idea, job, wrote, owners, author, bounds, ghosts>>

\* The turn is dropped: its bodies run on, without the lease and with nobody to tell.
Esc(w) ==
    /\ phase[w] = "turn" /\ Running(w) # {} /\ escs < MaxEscs /\ escs' = escs + 1
    /\ phase' = [phase EXCEPT ![w] = "seal"] /\ lease' = Released(w)
    /\ job' = [j \in Bodies |-> IF j[1] = w THEN [job[j] EXCEPT !.live = FALSE] ELSE job[j]]
    /\ UNCHANGED <<file, seen, idea, wrote, owners, author, calls, edits, ghosts>>

\* seal_turn claims the paths of the turn; the next one begins.
Seal(w) ==
    /\ phase[w] = "seal" /\ phase' = [phase EXCEPT ![w] = "turn"]
    /\ owners' = [p \in Paths |-> IF p \in wrote[w] THEN w ELSE owners[p]]
    /\ wrote' = [wrote EXCEPT ![w] = {}]
    /\ UNCHANGED <<file, seen, idea, job, lease, author, bounds, ghosts>>

\* The memory of the process is gone; what a move has set aside stays on disk.
Crash(w) ==
    /\ phase[w] # "gone" /\ escs < MaxEscs /\ escs' = escs + 1
    /\ phase' = [phase EXCEPT ![w] = "gone"] /\ lease' = Released(w)
    /\ job' = [j \in Bodies |-> IF j[1] # w THEN job[j] ELSE IF job[j].aside = NoFile THEN NoJob
                                ELSE [job[j] EXCEPT !.live = FALSE]]
    /\ seen' = [seen EXCEPT ![w] = Nothing] /\ idea' = [idea EXCEPT ![w] = Nothing]
    /\ left' = [left EXCEPT ![w] = Nothing]
    /\ hidden' = [hidden EXCEPT ![w] = [p \in Paths |-> {}]]
    /\ wrote' = [wrote EXCEPT ![w] = {}]
    /\ UNCHANGED <<file, owners, author, calls, edits>>

\* A write or a deletion by anybody else, as the moves under way see it.
Disturbed(paths) ==
    [k \in Bodies |-> IF {job[k].path, job[k].to} \cap paths # {}
                      THEN [job[k] EXCEPT !.disturbed = job[k].tool = "move"] ELSE job[k]]

\* A step of body j that changes files.
Writes(j, body, paths) == job' = [Disturbed(paths) EXCEPT ![j] = body]

NewEdit == edits < MaxEdits /\ edits' = edits + 1
Signs(p, new, who) == author' = [author EXCEPT ![p] =
    [x \in 1..MaxEdits |-> IF x \in new THEN who ELSE author[p][x]]]

\* An editor, a shell or a build honours no lock.
Outside(p) ==
    /\ \/ /\ NewEdit /\ file' = [file EXCEPT ![p] = Known(@) \cup {edits'}]
          /\ Signs(p, {edits'}, Nobody)
       \/ /\ Deletes /\ file[p] # NoFile /\ file' = [file EXCEPT ![p] = NoFile]
          /\ UNCHANGED <<author, edits>>
    /\ job' = Disturbed({p})
    /\ UNCHANGED <<seen, idea, turns, calls, escs, ghosts>>

\* live_peer_claim: the claim of a window that still runs.
Claimed(w, p) == owners[p] \notin {Nobody, w} /\ phase[owners[p]] # "gone"

Quiet == UNCHANGED <<file, turns, author, bounds>>
\* Whoever looks at something else than its last write is told of it.
Record(w, p, x) == /\ seen' = [seen EXCEPT ![w][p] = x]
                   /\ left' = [left EXCEPT ![w][p] = IF @ = x THEN x ELSE Unseen]

---------------------------------------------------------------------------
(* A call, up to the read of the file.  Reads run side by side; a writing    *)
(* tool runs alone, and the first of a turn takes the lease.                 *)

Body(tool, p, pc) ==
    [NoJob EXCEPT !.tool = tool, !.path = p, !.pc = pc, !.was = file[p], !.live = TRUE]

\* The call begins as this body; or it is over at once.
Call(w, i, body) ==
    /\ phase[w] = "turn" /\ job[<<w, i>>] = NoJob
    /\ calls < MaxCalls /\ calls' = calls + 1
    /\ job' = [job EXCEPT ![<<w, i>>] = body]
    /\ UNCHANGED <<file, idea, phase, wrote, owners, author, escs, hidden>>

UnderLease(w) == Running(w) = {} /\ lease \in {Nobody, w} /\ lease' = w

Read(w, i, p) ==
    /\ (\A k \in Running(w) : job[<<w, k>>].tool = "read") /\ file[p] # NoFile
    /\ Call(w, i, Body("read", p, "note")) /\ UNCHANGED <<seen, left, lease, edits>>

\* A whole file, from the idea the agent has of it ...
Write(w, i, p) ==
    /\ UnderLease(w) /\ NewEdit
    /\ Call(w, i, [Body("write", p, "guard") EXCEPT
                      !.next = Known(idea[w][p]) \cup {edits'}])
    /\ UNCHANGED <<seen, left>>

\* ... or what is there already: no file is touched, but it is a look at it.
Rewrite(w, i, p) ==
    /\ UnderLease(w) /\ file[p] # NoFile /\ idea[w][p] = file[p]
    /\ Call(w, i, NoJob) /\ Record(w, p, file[p]) /\ UNCHANGED edits

\* The old text is looked for in a fresh read (an edit that misses changes nothing).
EditText(w, i, p) ==
    /\ UnderLease(w) /\ NewEdit /\ file[p] # NoFile
    /\ Call(w, i, [Body("edit", p, "compare") EXCEPT !.next = file[p] \cup {edits'}])
    /\ UNCHANGED <<seen, left>>

\* With an empty old text, a new file.
EditNew(w, i, p) ==
    /\ UnderLease(w) /\ NewEdit /\ file[p] = NoFile
    /\ Call(w, i, [Body("create", p, "compare") EXCEPT !.next = {edits'}])
    /\ UNCHANGED <<seen, left>>

---------------------------------------------------------------------------
(* The bodies: guard, compare and write, note.                               *)

Stands(j, pc) == job[j].pc = pc /\ phase[j[1]] # "gone"

StaleUnread(w, p, found) == seen[w][p] = Unseen /\ Claimed(w, p)
\* overwrite_conflict: changed since this window looked, or never looked at and
\* claimed by another one.
Stale(w, p, found) ==
    IF seen[w][p] # Unseen THEN seen[w][p] # found ELSE Claimed(w, p)

Guard(j) ==
    /\ Stands(j, "guard")
    /\ LET w == j[1]  p == job[j].path IN
       IF job[j].was # NoFile /\ Stale(w, p, job[j].was) THEN Over(j)
       ELSE job' = [job EXCEPT ![j] = [@ EXCEPT
                       !.pc = "compare", !.blind = (seen[w][p] = Unseen),
                       !.claim = owners[p], !.sealing = {x \in Windows : p \in wrote[x]}]]
    /\ Quiet /\ UNCHANGED <<seen, idea, ghosts>>

\* compare_and_atomic_write: the comparison ...
Compare(j) ==
    /\ Stands(j, "compare")
    /\ IF file[job[j].path] # job[j].was THEN Over(j)
       ELSE Goto(j, IF job[j].was = NoFile THEN "create" ELSE "land")
    /\ Quiet /\ UNCHANGED <<seen, idea, ghosts>>

\* A write after Esc may or may not be in time for the seal.
Counted(j, paths) ==
    \/ wrote' = [wrote EXCEPT ![j[1]] = @ \cup paths]
    \/ ~job[j].live /\ UNCHANGED wrote

\* What is put there without the lease is nobody's.
Signer(j) == IF job[j].live THEN j[1] ELSE Nobody

\* ... and the rename.
Replace(j) ==
    /\ Stands(j, "land")
    /\ LET p == job[j].path IN
       /\ file' = [file EXCEPT ![p] = job[j].next] /\ Counted(j, {p})
       /\ left' = [left EXCEPT ![j[1]][p] = job[j].next]
       /\ Writes(j, [job[j] EXCEPT !.pc = "note"], {p})
       /\ Signs(p, job[j].next \ Known(file[p]), Signer(j))
    /\ UNCHANGED <<seen, idea, phase, lease, owners, bounds, hidden>>

\* A new file is created in place and then filled.
Create(j) ==
    /\ Stands(j, "create")
    /\ LET p == job[j].path IN
       IF file[p] # NoFile THEN Over(j) /\ UNCHANGED <<file, wrote>>
       ELSE /\ file' = [file EXCEPT ![p] = {}] /\ Counted(j, {p})
            /\ Writes(j, [job[j] EXCEPT !.pc = "fill"], {p})
    /\ UNCHANGED <<seen, idea, phase, lease, owners, author, bounds, ghosts>>

\* If the file was replaced meanwhile, the bytes go where nobody finds them.
Fill(j) ==
    /\ Stands(j, "fill")
    /\ LET p == job[j].path  there == file[p] = {} IN
       /\ IF there THEN /\ file' = [file EXCEPT ![p] = job[j].next] /\ Counted(j, {p})
                        /\ Signs(p, job[j].next, Signer(j))
                   ELSE UNCHANGED <<file, wrote, author>>
       /\ IF job[j].tool = "create" THEN Writes(j, NoJob, {p}) /\ UNCHANGED left
          ELSE /\ Writes(j, [job[j] EXCEPT !.pc = "note"], {p})
               /\ left' = IF there THEN [left EXCEPT ![j[1]][p] = job[j].next] ELSE left
    /\ UNCHANGED <<seen, idea, phase, lease, owners, bounds, hidden>>

\* What the agent knows of a file when it is told the result: all of it after a
\* read or a whole write, after an edit the part it changed.
Told(j) ==
    LET b == job[j] IN
    IF ~b.live THEN idea[j[1]][b.path]
    ELSE IF b.tool = "edit" THEN Known(idea[j[1]][b.path]) \cup (b.next \ b.was)
    ELSE IF b.tool = "read" THEN b.was ELSE b.next

NotesEdit(j) == job[j].tool = "write"
Notes(j) == job[j].tool # "read"

\* read_ledger::note, and the result.
Note(j) ==
    /\ Stands(j, "note")
    /\ LET w == j[1]  p == job[j].path
           x == IF job[j].tool = "read" THEN job[j].was ELSE job[j].next IN
       /\ IF job[j].tool = "read" \/ Notes(j) THEN Record(w, p, x) ELSE UNCHANGED <<seen, left>>
       /\ idea' = [idea EXCEPT ![w][p] = Told(j)]
       /\ hidden' = [hidden EXCEPT ![w][p] =
              (x \cup IF job[j].live THEN {} ELSE @) \ Known(Told(j))]
    /\ Over(j) /\ Quiet

---------------------------------------------------------------------------
(* file_move.                                                               *)

Movable(w, p, q) == file[p] # NoFile /\ (file[q] # NoFile =>
                                             seen[w][q] # Unseen \/ ~Claimed(w, q))

\* A destination that exists is overwritten only on request.
Move(w, i, p, q) ==
    /\ w \in Movers /\ calls < LastMove /\ p # q /\ UnderLease(w) /\ Movable(w, p, q)
    /\ Call(w, i, [Body("move", p, IF file[q] = NoFile THEN "move" ELSE "stash") EXCEPT
                      !.to = q, !.next = file[q], !.own = q \in wrote[w]])
    /\ UNCHANGED <<seen, left, edits>>

StashNothing(j) == NoFile
\* What stands at the destination is renamed, not deleted.
Stash(j) == file[job[j].to]

SetAside(j) ==
    /\ Stands(j, "stash")
    /\ IF file[job[j].to] = NoFile THEN Over(j) /\ UNCHANGED file
       ELSE /\ Writes(j, [job[j] EXCEPT !.aside = Stash(j), !.pc = "move"], {job[j].to})
            /\ file' = [file EXCEPT ![job[j].to] = NoFile]
    /\ UNCHANGED <<seen, idea, turns, author, bounds, ghosts>>

Onward(j, pc) == Writes(j, [job[j] EXCEPT !.pc = pc], {job[j].path, job[j].to})
\* What comes with the move; what the old destination had too keeps its author.
Carried(j) == Known(file[job[j].path]) \ IF job[j].live THEN Known(job[j].aside) ELSE {}

\* A rename; between file systems a copy, and then the source is removed.
Rename(j, copies) ==
    /\ Stands(j, "move") /\ file[job[j].path] # NoFile
    /\ LET p == job[j].path  q == job[j].to IN
       IF copies
       THEN /\ Onward(j, "copy") /\ Counted(j, {q}) /\ UNCHANGED author
            /\ file' = [file EXCEPT ![q] = {}]
       ELSE /\ Onward(j, "clean") /\ Counted(j, {p, q}) /\ Signs(q, Carried(j), Signer(j))
            /\ file' = [file EXCEPT ![q] = file[p], ![p] = NoFile]
    /\ UNCHANGED <<seen, idea, phase, lease, owners, bounds, ghosts>>

Copy(j) ==
    /\ Stands(j, "copy") /\ file[job[j].path] # NoFile /\ Onward(j, "remove")
    /\ LET p == job[j].path  q == job[j].to IN
       /\ file' = [file EXCEPT ![q] = file[p]]
       /\ Counted(j, {q}) /\ Signs(q, Carried(j), Signer(j))
    /\ UNCHANGED <<seen, idea, phase, lease, owners, bounds, ghosts>>

Remove(j) ==
    /\ Stands(j, "remove") /\ file[job[j].path] # NoFile /\ Onward(j, "clean")
    /\ file' = [file EXCEPT ![job[j].path] = NoFile] /\ Counted(j, {job[j].path})
    /\ UNCHANGED <<seen, idea, phase, lease, owners, author, bounds, ghosts>>

\* Each of them may fail (no permission, no space, the source is gone).
Fail(j) ==
    /\ \E pc \in {"move", "copy", "remove"} : Stands(j, pc)
    /\ Goto(j, "undo") /\ Quiet /\ UNCHANGED <<seen, idea, ghosts>>

\* The old destination is put back, if there was one; then nothing was written there.
Undo(j) ==
    /\ Stands(j, "undo") /\ Writes(j, NoJob, {job[j].to})
    /\ LET q == job[j].to IN
       /\ file' = IF job[j].aside = NoFile THEN file ELSE [file EXCEPT ![q] = job[j].aside]
       /\ \/ wrote' = IF file'[q] = job[j].next /\ ~job[j].own
                      THEN [wrote EXCEPT ![j[1]] = @ \ {q}] ELSE wrote
          \/ ~job[j].live /\ Counted(j, {q})
       /\ IF job[j].live THEN UNCHANGED author ELSE Signs(q, 1..MaxEdits, Nobody)
    /\ UNCHANGED <<seen, idea, phase, lease, owners, bounds, ghosts>>

\* What was set aside goes, and both paths are forgotten.
Clean(j) ==
    /\ Stands(j, "clean") /\ Over(j)
    /\ LET w == j[1]  p == job[j].path  q == job[j].to IN
       /\ seen' = [seen EXCEPT ![w][p] = Unseen, ![w][q] = Unseen]
       /\ idea' = IF job[j].live THEN [idea EXCEPT ![w][q] = idea[w][p], ![w][p] = Unseen]
                                 ELSE idea
       /\ left' = [left EXCEPT ![w][p] = Unseen, ![w][q] = Unseen]
       /\ hidden' = IF job[j].live THEN [hidden EXCEPT ![w][q] = hidden[w][p], ![w][p] = {}]
                                   ELSE hidden
    /\ Quiet

---------------------------------------------------------------------------

FilesNext ==
    \/ \E w \in Windows :
        \/ EndTurn(w) \/ Esc(w) \/ Seal(w) \/ Crash(w)
        \/ \E i \in Jobs, p \in Paths :
            \/ Read(w, i, p) \/ Write(w, i, p) \/ Rewrite(w, i, p)
            \/ EditText(w, i, p) \/ EditNew(w, i, p)
            \/ \E q \in Paths : Move(w, i, p, q)
    \/ \E p \in Paths : Outside(p)
    \/ \E j \in Bodies :
        \/ Guard(j) \/ Compare(j) \/ Replace(j) \/ Create(j) \/ Fill(j) \/ Note(j)
        \/ SetAside(j) \/ Copy(j) \/ Remove(j) \/ Fail(j) \/ Undo(j) \/ Clean(j)
        \/ \E copies \in BOOLEAN : Rename(j, copies)

FilesSpec == FilesInit /\ [][FilesNext]_fileVars

---------------------------------------------------------------------------
Job == [tool : {"none", "read", "write", "edit", "create", "move"},
        path : Paths \cup {Nobody}, to : Paths \cup {Nobody},
        pc : {"none", "guard", "compare", "land", "create", "fill", "note", "stash", "move",
              "copy", "remove", "undo", "clean"},
        live : BOOLEAN, was : Value, next : Value, aside : Value, sealing : SUBSET Windows,
        claim : Windows \cup {Nobody}, blind : BOOLEAN, own : BOOLEAN, disturbed : BOOLEAN]

Typed ==
    /\ file \in [Paths -> Value]
    /\ {seen, idea, left} \subseteq [Windows -> [Paths -> Content \cup {Unseen}]]
    /\ hidden \in [Windows -> [Paths -> Content]]
    /\ phase \in [Windows -> {"turn", "seal", "gone"}]
    /\ wrote \in [Windows -> SUBSET Paths]
    /\ lease \in Windows \cup {Nobody} /\ owners \in [Paths -> Windows \cup {Nobody}]
    /\ author \in [Paths -> [1..MaxEdits -> Windows \cup {Nobody}]] /\ job \in [Bodies -> Job]
    /\ calls \in 0..MaxCalls /\ escs \in 0..MaxEscs /\ edits \in 0..MaxEdits

LeaseHeld == \A j \in Bodies : job[j].live /\ job[j].tool \notin {"none", "read"} => lease = j[1]

\* Every variable keeps its type, and one window writes under the lease.
FilesTypeOK == Typed /\ LeaseHeld

\* A whole-file write of a running turn takes away what another running window put
\* there under the lease.
Buries(j, x) ==
    LET p == job[j].path  by == author[p][x] IN
    /\ job[j].pc = "land" /\ job'[j].pc = "note" /\ job[j].live /\ job[j].tool = "write"
    /\ x \in Known(file[p]) \ job[j].next
    /\ by \notin {Nobody, j[1]} /\ phase[by] # "gone"

\* Its tools have recorded it without its being told (an edit's own read, a read cut
\* short by Esc).
Unshown(j, x) == x \in hidden[j[1]][job[j].path]

\* When it asked, the other window had not sealed its turn yet, or its claim had been
\* followed by that of a third.
Unclaimed(j, x) == LET by == author[job[j].path][x] IN
    by \in job[j].sealing \/ job[j].claim \notin {Nobody, by}

\* read_ledger.rs:6-16, 92-95: if this window has looked at the file, such work is only
\* what it recorded unseen; if it never looked, what no claim told it of.
Survives == [][\A j \in Bodies, x \in 1..MaxEdits :
    Buries(j, x) => IF job[j].blind THEN Unclaimed(j, x) ELSE Unshown(j, x)]_fileVars

\* read_ledger.rs:44-46: what this window wrote last and has neither moved nor seen
\* otherwise since is not taken for the work of somebody else; unless a body of a
\* dropped turn has recorded something older, or the file was created by file_edit.
OwnWorkKnown == [][\A j \in Bodies :
    job[j].pc = "guard" /\ job'[j].pc = "none" /\ phase'[j[1]] # "gone" /\ escs = 0
        => job[j].was # left[j[1]][job[j].path]]_fileVars

\* Both files of an undisturbed move are somewhere.
BothKept == \A j \in Bodies : LET b == job[j] IN
    b.tool = "move" /\ ~b.disturbed =>
        /\ b.was \in {file[b.path], file[b.to]}
        /\ b.next \in {NoFile, file[b.to], b.aside}
             \/ (file[b.to] = b.was /\ file[b.path] = NoFile)

\* builtin.rs:2585-2589: a move that nobody interferes with loses neither file, at
\* any step of it, whether it fails or the process dies; and one that fails has put
\* back the file it was to replace.
MoveSafe == [][FilesTypeOK' /\ BothKept' /\ \A j \in Bodies : LET b == job[j] IN
    b.pc = "undo" /\ job'[j].pc = "none" /\ phase'[j[1]] # "gone" /\ ~b.disturbed
        => file'[b.path] = b.was /\ b.next \in {NoFile, file'[b.to]}]_fileVars
=============================================================================
