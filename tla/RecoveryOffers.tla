---------------------------- MODULE RecoveryOffers ----------------------------
(* The recovery directory shared by several aizen processes                  *)
(* (core/recovery.rs): each owns one lease directory, and any of them scans, *)
(* quarantines, accepts, discards and sweeps the directories it finds.  The  *)
(* lock is on a file INSIDE the directory, the manifest is found by path,    *)
(* and acquiring a lock creates the directory when it is missing: a          *)
(* directory is therefore an object with an identity, and a path leads to    *)
(* whatever object is there now.  How one lease writes its own files is in   *)
(* RecoveryLease; here a commit is one step.                                 *)
EXTENDS Naturals, FiniteSets

CONSTANTS
    Procs,      \* processes; each has its own run id
    Dirs,       \* bound: directory objects ever created
    MaxGen,     \* bound: commits of one process
    Nobody, Nothing

ASSUME OffersAssumption ==
    /\ MaxGen \in Nat
    /\ Nobody \notin Procs /\ Nothing \notin Dirs

VARIABLES
    st,         \* the process: off, made, open, running, unprotected, gone
    own,        \* the directory whose lock file begin() opened
    gen,        \* ActiveLease.manifest.sidecar_generation
    dir,        \* the directory objects
    task,       \* what the process is doing in somebody's directory
    offer,      \* the RecoveryOffer it has in hand
    left,       \* history: consumed directories whose removal failed
    twice,      \* history: directories consumed a second time
    settled,    \* history: runs accepted, discarded or swept after a week
    robbed      \* history: runs accepted while their process had its lock

proc   == <<st, own, gen>>
ghosts == <<left, twice, settled, robbed>>
vars   == <<st, own, gen, dir, task, offer, left, twice, settled, robbed>>

(* kind: its name is <run>, consumed-<run>-<time>, quarantine-<run>, or it   *)
(* was removed; man: the generation of its manifest, if it has one; age: old *)
(* after a week without a commit, renewed once a commit ends that.           *)
Absent  == [kind |-> "none", run |-> Nobody, man |-> Nothing, lock |-> Nobody, age |-> "fresh"]
Empty(p) == [kind |-> "lease", run |-> p, man |-> Nothing, lock |-> Nobody, age |-> "fresh"]
There(d) == dir[d].kind \in {"lease", "consumed", "quarantine"}

(* A path is a run's own directory or the timed name of a residue.           *)
Lease(p)    == [run |-> p, dir |-> Nothing]
PathOf(d)   == IF dir[d].kind = "lease" THEN Lease(dir[d].run)
               ELSE [run |-> dir[d].run, dir |-> d]
Leads(path, d) == There(d) /\ PathOf(d) = path
Missing(path)  == \A d \in Dirs : ~Leads(path, d)
Fresh          == {d \in Dirs : dir[d] = Absent}

Free(p) == st[p] \in {"running", "unprotected"} /\ task[p] = Nothing

Doing(p, what, at) == task[p] # Nothing /\ task[p].do = what /\ task[p].at = at
Finish(p) == task' = [task EXCEPT ![p] = Nothing]

Init ==
    /\ st = [p \in Procs |-> "off"]
    /\ own = [p \in Procs |-> Nothing]
    /\ gen = [p \in Procs |-> 0]
    /\ dir = [d \in Dirs |-> Absent]
    /\ task = [p \in Procs |-> Nothing]
    /\ offer = [p \in Procs |-> Nothing]
    /\ left = {} /\ twice = {} /\ settled = {} /\ robbed = {}

-----------------------------------------------------------------------------
(* create_dir_all, and opening the lock file in what is there.               *)
Ensure(path, d) ==
    \/ Leads(path, d) /\ UNCHANGED dir
    \/ /\ Missing(path) /\ d \in Fresh /\ path.dir = Nothing
       /\ dir' = [dir EXCEPT ![d] = Empty(path.run)]

Locked(f, d, p) == [f EXCEPT ![d].lock = p]
Unlocked(f, p)  == [d \in Dirs |-> IF f[d].lock = p THEN [f[d] EXCEPT !.lock = Nobody]
                                   ELSE f[d]]
(* The lock a process holds for a task, its own lease's lock aside.          *)
Released(f, p)  == [f EXCEPT ![task[p].fd].lock = Nobody]

(* begin(): directory, lock, first manifest.                                 *)
MakeDir(p) ==
    /\ st[p] = "off" /\ \E d \in Dirs : Ensure(Lease(p), d)
    /\ st' = [st EXCEPT ![p] = "made"]
    /\ UNCHANGED <<own, gen, task, offer, ghosts>>

OpenLease(p) ==
    /\ st[p] = "made"
    /\ \E d \in Dirs : Ensure(Lease(p), d) /\ own' = [own EXCEPT ![p] = d]
    /\ st' = [st EXCEPT ![p] = "open"]
    /\ UNCHANGED <<gen, task, offer, ghosts>>

(* The manifest's directory is created again when it is gone.                *)
WriteManifest(f, p, g) ==
    \E d \in Dirs :
        /\ Leads(Lease(p), d) \/ (Missing(Lease(p)) /\ d \in Fresh)
        /\ dir' = [f EXCEPT ![d] = [kind |-> "lease", run |-> p, man |-> g,
                                    lock |-> f[d].lock,
                                    age |-> IF f[d].age = "fresh" THEN "fresh" ELSE "renewed"]]

TakeLease(p) ==
    /\ st[p] = "open" /\ dir[own[p]].lock = Nobody
    /\ st' = [st EXCEPT ![p] = "running"]
    /\ WriteManifest(Locked(dir, own[p], p), p, 0)
    /\ UNCHANGED <<own, gen, task, offer, ghosts>>

(* Busy for a second, or the manifest could not be written.                  *)
NoLease(p) ==
    /\ st[p] = "open"
    /\ st' = [st EXCEPT ![p] = "unprotected"]
    /\ UNCHANGED <<own, gen, dir, task, offer, ghosts>>

Commit(p) ==
    /\ st[p] = "running" /\ task[p] = Nothing /\ gen[p] < MaxGen
    /\ gen' = [gen EXCEPT ![p] = @ + 1]
    /\ WriteManifest(dir, p, gen[p] + 1)
    /\ UNCHANGED <<st, own, task, offer, ghosts>>

Remove(f, d) == [f EXCEPT ![d].kind = "removed", ![d].man = Nothing]
RemoveAt(f, path) ==
    [d \in Dirs |-> IF Leads(path, d) THEN [f[d] EXCEPT !.kind = "removed", !.man = Nothing]
                    ELSE f[d]]

(* clear() on a clean exit; the kernel drops the locks of whatever dies.     *)
Exit(p) ==
    /\ Free(p)
    /\ dir' = Unlocked(IF st[p] = "running" THEN RemoveAt(dir, Lease(p)) ELSE dir, p)
    /\ st' = [st EXCEPT ![p] = "gone"]
    /\ gen' = [gen EXCEPT ![p] = 0]
    /\ UNCHANGED <<own, task, offer, ghosts>>

Consuming(p) == IF Doing(p, "consume", "remove") THEN {task[p].path.dir} ELSE {}
Crash(p) ==
    /\ st[p] \notin {"off", "gone"}
    /\ dir' = Unlocked(dir, p)
    /\ st' = [st EXCEPT ![p] = "gone"]
    /\ task' = [task EXCEPT ![p] = Nothing]
    /\ left' = left \cup Consuming(p)
    /\ UNCHANGED <<own, gen, offer, twice, settled, robbed>>

-----------------------------------------------------------------------------
(* The shared front of scan, accept, discard and sweep: open the lock file   *)
(* by path, then lock it or give up.                                         *)
Enter(p, what, path) ==
    \E d \in Dirs :
        /\ Ensure(path, d)
        /\ task' = [task EXCEPT ![p] = [do |-> what, at |-> "lock", path |-> path, fd |-> d]]

(* readdir skips the process's own directory; any other name can be visited. *)
Look(p) ==
    /\ Free(p) /\ offer[p] = Nothing
    /\ \E d \in Dirs : /\ There(d)
                       /\ st[p] = "running" => PathOf(d) # Lease(p)
                       /\ Enter(p, "look", PathOf(d))
    /\ UNCHANGED <<proc, offer, ghosts>>

Recover(p) ==
    /\ Free(p) /\ offer[p] # Nothing
    /\ \E what \in {"accept", "discard"} : Enter(p, what, offer[p].path)
    /\ UNCHANGED <<proc, offer, ghosts>>

AnyAge(d)  == TRUE
Expired(d) == dir[d].age = "old"
Sweep(p) ==
    /\ Free(p)
    /\ \E d \in Dirs : /\ There(d) /\ Expired(d)
                       /\ st[p] = "running" => PathOf(d) # Lease(p)
                       /\ Enter(p, "sweep", PathOf(d))
    /\ UNCHANGED <<proc, offer, ghosts>>

TryUnlocked(p) ==
    /\ task[p] # Nothing /\ task[p].at = "lock"
    /\ task' = [task EXCEPT ![p].at = "read"]
    /\ UNCHANGED <<proc, dir, offer, ghosts>>

TryLock(p) ==
    /\ task[p] # Nothing /\ task[p].at = "lock"
    /\ dir[task[p].fd].lock = Nobody
    /\ dir' = Locked(dir, task[p].fd, p)
    /\ task' = [task EXCEPT ![p].at = "read"]
    /\ UNCHANGED <<proc, offer, ghosts>>

BusyGoesOn(p) ==
    /\ task[p] # Nothing /\ task[p].at = "lock" /\ dir[task[p].fd].lock # Nobody
    /\ task' = [task EXCEPT ![p].at = "remove"]
    /\ UNCHANGED <<proc, dir, offer, ghosts>>

(* Still busy at the deadline; accept and discard drop their offer, since    *)
(* /recover scans anew each time.                                            *)
Busy(p) ==
    /\ task[p] # Nothing /\ task[p].at = "lock"
    /\ dir[task[p].fd].lock # Nobody
    /\ Finish(p) /\ offer' = [offer EXCEPT ![p] = Nothing]
    /\ UNCHANGED <<proc, dir, ghosts>>

(* scan_stale: what the manifest at the path says.  A residue that is set    *)
(* aside again keeps its name here.                                          *)
Unreadable(path) == \A d \in Dirs : Leads(path, d) => dir[d].man = Nothing
Renamed(f, path, kind) ==
    [d \in Dirs |-> IF Leads(path, d) THEN [f[d] EXCEPT !.kind = kind] ELSE f[d]]
Offerable(g)   == g # 0

Inspect(p) ==
    /\ Doing(p, "look", "read")
    /\ LET path == task[p].path IN
       IF Unreadable(path)
       THEN /\ dir' = Released(Renamed(dir, path, "quarantine"), p)
            /\ UNCHANGED offer
       ELSE \E d \in Dirs :
                /\ Leads(path, d)
                /\ dir' = Released(dir, p)
                /\ IF Offerable(dir[d].man)
                   THEN offer' = [offer EXCEPT ![p] = [path |-> path, gen |-> dir[d].man]]
                   ELSE UNCHANGED offer
    /\ Finish(p)
    /\ UNCHANGED <<proc, ghosts>>

(* accept, discard: re-read under the lock, compare, rename away.  Only      *)
(* accept compares the generation; updated_unix tells commits apart too      *)
(* unless they fall into one second.                                         *)
Matches(p, d) == dir[d].man \notin {Nothing, 0} /\ dir[d].man = offer[p].gen
Consumable(p) == {d \in Dirs : Leads(task[p].path, d) /\ Matches(p, d)}

(* The lock p holds is on a directory another process set aside before       *)
(* begin() had it: p writes in a new directory that nobody has locked.       *)
Displaced(p) == own[p] # Nothing /\ dir[own[p]].kind = "quarantine"
Robbed(p)    == IF st[p] = "running" /\ ~Displaced(p) THEN {p} ELSE {}

Consume(p) ==
    /\ Doing(p, "accept", "read") \/ Doing(p, "discard", "read")
    /\ \E d \in Consumable(p) :
        /\ dir' = [dir EXCEPT ![d].kind = "consumed"]
        /\ task' = [task EXCEPT ![p] = [do |-> "consume", at |-> "remove",
                                        path |-> [run |-> dir[d].run, dir |-> d],
                                        fd |-> task[p].fd]]
        /\ twice' = IF dir[d].kind = "consumed" THEN twice \cup {d} ELSE twice
        /\ settled' = settled \cup {dir[d].run}
        /\ robbed' = robbed \cup Robbed(dir[d].run)
    /\ offer' = [offer EXCEPT ![p] = Nothing]
    /\ UNCHANGED <<proc, left>>

Changed(p) ==
    /\ Doing(p, "accept", "read") \/ Doing(p, "discard", "read")
    /\ Consumable(p) = {}
    /\ dir' = Released(dir, p) /\ Finish(p)
    /\ offer' = [offer EXCEPT ![p] = Nothing]
    /\ UNCHANGED <<proc, ghosts>>

RemoveConsumed(p) ==
    /\ Doing(p, "consume", "remove")
    /\ \E fails \in BOOLEAN :
        /\ dir' = Released(IF fails THEN dir ELSE RemoveAt(dir, task[p].path), p)
        /\ left' = IF fails THEN left \cup Consuming(p) ELSE left
    /\ Finish(p)
    /\ UNCHANGED <<proc, offer, twice, settled, robbed>>

(* sweep_expired: the lock is dropped BEFORE the directory is removed.       *)
SweepUnlock(p) ==
    /\ Doing(p, "sweep", "read")
    /\ dir' = Released(dir, p)
    /\ task' = [task EXCEPT ![p].at = "remove"]
    /\ UNCHANGED <<proc, offer, ghosts>>

SweepRemove(p) ==
    /\ Doing(p, "sweep", "remove")
    /\ settled' = settled \cup
           {dir[d].run : d \in {d \in Dirs : Leads(task[p].path, d) /\ dir[d].age # "fresh"}}
    /\ dir' = RemoveAt(dir, task[p].path)
    /\ Finish(p)
    /\ UNCHANGED <<proc, offer, left, twice, robbed>>

(* A week passes without a commit to the directory; begin() takes a second.  *)
Age(d) ==
    /\ There(d) /\ dir[d].age # "old" /\ st[dir[d].run] \notin {"made", "open"}
    /\ dir' = [dir EXCEPT ![d].age = "old"]
    /\ UNCHANGED <<proc, task, offer, ghosts>>

Next ==
    \/ \E p \in Procs :
        \/ MakeDir(p) \/ OpenLease(p) \/ TakeLease(p) \/ NoLease(p)
        \/ Commit(p) \/ Exit(p) \/ Crash(p)
        \/ Look(p) \/ Recover(p) \/ Sweep(p) \/ TryLock(p) \/ Busy(p)
        \/ Inspect(p) \/ Consume(p) \/ Changed(p) \/ RemoveConsumed(p)
        \/ SweepUnlock(p) \/ SweepRemove(p)
    \/ \E d \in Dirs : Age(d)

Spec == Init /\ [][Next]_vars

-----------------------------------------------------------------------------
Path  == [run : Procs, dir : Dirs \cup {Nothing}]
Tasks == [do : {"look", "accept", "discard", "consume", "sweep"},
          at : {"lock", "read", "remove"}, path : Path, fd : Dirs]

ASSUME NothingAssumption == Nothing \notin Nat \cup Tasks

(* Every variable keeps its type.                                            *)
TypeOK ==
    /\ st \in [Procs -> {"off", "made", "open", "running", "unprotected", "gone"}]
    /\ own \in [Procs -> Dirs \cup {Nothing}]
    /\ gen \in [Procs -> 0 .. MaxGen]
    /\ dir \in [Dirs -> [kind : {"none", "lease", "consumed", "quarantine", "removed"},
                         run : Procs \cup {Nobody}, man : (0 .. MaxGen) \cup {Nothing},
                         lock : Procs \cup {Nobody}, age : {"fresh", "old", "renewed"}]]
    /\ task \in [Procs -> Tasks \cup {Nothing}]
    /\ offer \in [Procs -> [path : Path, gen : 1 .. MaxGen] \cup {Nothing}]
    /\ left \subseteq Dirs /\ twice \subseteq Dirs
    /\ settled \subseteq Procs /\ robbed \subseteq Procs

(* "Consume the lease directory exactly once" (accept): two windows that     *)
(* were offered the same crashed session do not both restore it.  That is as *)
(* good as the removal that follows the rename, which is best effort: what   *)
(* it leaves is offered again under its new name.                            *)
ConsumedOnce == twice \subseteq left

(* The lock is the liveness test: a session is taken from its own running    *)
(* process only if another process quarantined its directory before begin()  *)
(* had the lock, so that the lock it holds protects nothing.                 *)
LiveNotTaken == robbed = {}

(* A session is taken from a dead process and by one window only (accept,    *)
(* with the lock as liveness test and the manifest re-read under it).        *)
TakenOnce == TypeOK /\ ConsumedOnce /\ LiveNotTaken

(* What a dead process committed is still somewhere in the recovery          *)
(* directory until somebody accepts, discards or sweeps it.                  *)
NothingLost ==
    \A p \in Procs :
        st[p] = "gone" /\ gen[p] > 0 /\ p \notin settled =>
            \E d \in Dirs : There(d) /\ dir[d].run = p /\ dir[d].man = gen[p]

(* An owner whose lock is on its own directory keeps both: no scan, sweep or *)
(* recovery of another process moves or removes it.                          *)
Holds(p) == dir[own[p]].lock = p /\ Leads(Lease(p), own[p])
OwnerKeepsDir ==
    [][\A p \in Procs :
         st[p] = "running" /\ st'[p] = "running" /\ Holds(p) => Holds(p)']_vars
=============================================================================
