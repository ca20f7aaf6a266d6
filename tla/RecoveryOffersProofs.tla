------------------------- MODULE RecoveryOffersProofs -------------------------
(* Proofs about the recovery directory shared by processes, for any number   *)
(* of processes, directories and commits: a crashed session is taken once, a *)
(* live one keeps its directory, and nothing committed disappears unsettled. *)
EXTENDS RecoveryOffers, TLAPS

-----------------------------------------------------------------------------
(* The inductive invariant, part by part.                                    *)

Started(p) == st[p] \notin {"off", "made", "open"}
Ran(p)     == st[p] \in {"running", "gone"}
Written(d) == dir[d].man \notin {Nothing, 0}

(* A directory belongs to a process that has begun; its manifest is of a     *)
(* generation that process has committed, and only a directory that was set  *)
(* aside has none: what is consumed had one that could be offered.           *)
DirOK(d) ==
    /\ dir[d].kind # "none" => dir[d].run \in Procs /\ st[dir[d].run] # "off"
    /\ dir[d].kind \in {"none", "quarantine", "removed"} => dir[d].man = Nothing
    /\ dir[d].kind = "consumed" => Written(d)
    /\ Written(d) => /\ Ran(dir[d].run)
                     /\ st[dir[d].run] = "gone" \/ dir[d].man <= gen[dir[d].run]
    /\ dir[d].age = "old" => dir[d].kind # "none" /\ Started(dir[d].run)
DirInv == \A d \in Dirs : DirOK(d)

(* A run has one directory of its own.                                       *)
IsLease(d, p) == dir[d].kind = "lease" /\ dir[d].run = p
UniqueInv == \A p \in Procs, d, e \in Dirs : IsLease(d, p) /\ IsLease(e, p) => d = e

(* A process that runs has the lock of the directory it opened, which has a  *)
(* manifest unless it was set aside before the lock was had.                 *)
ProcOK(p) ==
    /\ gen[p] > 0 => Ran(p)
    /\ task[p] # Nothing => st[p] \in {"running", "unprotected"}
    /\ st[p] \in {"open", "running"} =>
          own[p] \in Dirs /\ dir[own[p]].run = p /\ dir[own[p]].kind \in {"lease", "quarantine"}
    /\ st[p] = "running" => /\ dir[own[p]].lock = p
                            /\ dir[own[p]].kind = "lease" => dir[own[p]].man # Nothing
ProcInv == \A p \in Procs : ProcOK(p)

(* A task at a residue is on that residue; past the lock it has the lock.    *)
Locking(t)  == t.at = "read" \/ t.do = "consume"
PlaceOK(q) == task[q] # Nothing =>
    /\ task[q].path.dir # Nothing =>
          /\ task[q].fd = task[q].path.dir /\ dir[task[q].fd].run = task[q].path.run
          /\ dir[task[q].fd].kind \in {"consumed", "quarantine", "removed"}
    /\ task[q].do = "consume" => /\ task[q].at = "remove" /\ task[q].path.dir # Nothing
                                 /\ dir[task[q].fd].kind # "quarantine"
    /\ Locking(task[q]) => /\ dir[task[q].fd].lock = q
                           /\ st[q] = "running" => task[q].fd # own[q]
PlaceInv == \A q \in Procs : PlaceOK(q)

(* What is offered was committed by a process that runs or has run.          *)
OfferOK(q) == offer[q] # Nothing =>
    /\ Started(offer[q].path.run)
    /\ st[offer[q].path.run] = "gone" \/ offer[q].gen <= gen[offer[q].path.run]
OfferInv == \A q \in Procs : OfferOK(q)

Taking(t)  == t.do \in {"accept", "discard"}
Ending(t)  == t.do \in {"accept", "discard", "sweep"}

(* Who takes or sweeps a running process's own directory waits for its lock; *)
(* who takes a lease has the lock of the one directory that can match.       *)
TakeOK(q) == task[q] # Nothing =>
    /\ Ending(task[q]) =>
          /\ Started(task[q].path.run)
          /\ \A r \in Procs : st[r] = "running" /\ Leads(task[q].path, own[r])
                => task[q].fd = own[r] /\ task[q].at = "lock"
    /\ Taking(task[q]) =>
          /\ offer[q] # Nothing /\ offer[q].path = task[q].path
          /\ task[q].path.dir = Nothing => \A d \in Dirs \ {task[q].fd} :
                IsLease(d, task[q].path.run) /\ Written(d) => dir[d].man > offer[q].gen
    /\ task[q].do = "sweep" /\ task[q].path.dir = Nothing /\ task[q].path.run \notin settled =>
          \A d \in Dirs : IsLease(d, task[q].path.run) /\ dir[d].man # Nothing
                => dir[d].age # "fresh"
TakeInv == \A q \in Procs : TakeOK(q)

(* A consumed directory is being removed, or its removal failed; and its     *)
(* process does not run with a lock that protects it.                        *)
ConsumedOK(d) == dir[d].kind = "consumed" =>
    /\ d \in left \/ \E q \in Procs : task[q] # Nothing /\ task[q].do = "consume" /\ task[q].fd = d
    /\ st[dir[d].run] = "running" => Displaced(dir[d].run)
ConsumedInv == twice \subseteq left /\ robbed = {} /\ \A d \in Dirs : ConsumedOK(d)

(* A process that runs has its last commit in its own directory, and so has  *)
(* a dead one that committed, until somebody settles it.                     *)
KeptOK(p) == Ran(p) /\ p \notin settled /\ (st[p] = "gone" => gen[p] > 0) =>
    \E d \in Dirs : IsLease(d, p) /\ dir[d].man = gen[p]
KeptInv == \A p \in Procs : KeptOK(p)

IInv == TypeOK /\ DirInv /\ UniqueInv /\ ProcInv /\ PlaceInv /\ OfferInv /\ TakeInv
        /\ ConsumedInv /\ KeptInv

-----------------------------------------------------------------------------
(* What a path leads to, and what each helper leaves of each directory.      *)
DirRecs == [kind : {"none", "lease", "consumed", "quarantine", "removed"},
            run : Procs \cup {Nobody}, man : (0 .. MaxGen) \cup {Nothing},
            lock : Procs \cup {Nobody}, age : {"fresh", "old", "renewed"}]
Residue(d) == dir[d].kind \in {"consumed", "quarantine"}

LEMMA LeadsMeans ==
    ASSUME TypeOK, NEW path \in Path, NEW d \in Dirs
    PROVE  Leads(path, d) <=> \/ path.dir = Nothing /\ IsLease(d, path.run)
                              \/ path.dir = d /\ Residue(d) /\ dir[d].run = path.run
<1>1. path = [run |-> path.run, dir |-> path.dir] BY DEF Path
<1>2. dir[d].kind = "lease" => PathOf(d) = [run |-> dir[d].run, dir |-> Nothing]
  BY DEF PathOf, Lease
<1>3. Residue(d) => PathOf(d) = [run |-> dir[d].run, dir |-> d] BY DEF PathOf, Residue
<1>4. d # Nothing /\ (There(d) <=> dir[d].kind = "lease" \/ Residue(d))
  BY OffersAssumption DEF There, Residue
<1>5. ~(dir[d].kind = "lease" /\ Residue(d)) BY DEF Residue
<1>6. CASE dir[d].kind = "lease"
  <2>1. Leads(path, d) <=> path = [run |-> dir[d].run, dir |-> Nothing]
    BY <1>2, <1>4, <1>6 DEF Leads
  <2> QED BY <1>1, <1>5, <1>6, <2>1 DEF IsLease
<1>7. CASE Residue(d)
  <2>1. Leads(path, d) <=> path = [run |-> dir[d].run, dir |-> d]
    BY <1>3, <1>4, <1>7 DEF Leads
  <2> QED BY <1>1, <1>4, <1>5, <1>7, <2>1 DEF IsLease
<1> QED BY <1>4, <1>6, <1>7 DEF Leads, IsLease, Residue

LEMMA PathType == ASSUME TypeOK, DirInv, NEW d \in Dirs, There(d) PROVE PathOf(d) \in Path
BY DEF PathOf, Path, Lease, There, DirInv, DirOK

LEMMA LeaseType == ASSUME NEW p \in Procs
                   PROVE  Lease(p) \in Path /\ Lease(p).run = p /\ Lease(p).dir = Nothing
BY DEF Lease, Path

\* A step that creates a directory where the path leads nowhere.
Created(path, d) ==
    /\ dir[d] = Absent /\ path.dir = Nothing /\ \A e \in Dirs : ~IsLease(e, path.run)
    /\ dir' = [dir EXCEPT ![d] = Empty(path.run)]

LEMMA EnsureEffect ==
    ASSUME TypeOK, NEW path \in Path, NEW d \in Dirs, Ensure(path, d)
    PROVE  (dir' = dir /\ Leads(path, d)) \/ Created(path, d)
<1>1. Missing(path) /\ path.dir = Nothing => \A e \in Dirs : ~IsLease(e, path.run)
  BY LeadsMeans DEF Missing
<1> QED BY <1>1 DEF Ensure, Created, Fresh

\* A step that writes a manifest, in the run's directory or in a new one.
Wrote(p, g, d) ==
    /\ IsLease(d, p) \/ (dir[d] = Absent /\ \A e \in Dirs : ~IsLease(e, p))
    /\ dir'[d].kind = "lease" /\ dir'[d].run = p /\ dir'[d].man = g
    /\ dir'[d].age = (IF dir[d].age = "fresh" THEN "fresh" ELSE "renewed")
    /\ \A e \in Dirs \ {d} : /\ dir'[e].kind = dir[e].kind /\ dir'[e].run = dir[e].run
                             /\ dir'[e].man = dir[e].man /\ dir'[e].age = dir[e].age

LEMMA WriteEffect ==
    ASSUME TypeOK, NEW f \in [Dirs -> DirRecs], NEW p \in Procs, NEW g \in 0 .. MaxGen,
           \A d \in Dirs : /\ f[d].kind = dir[d].kind /\ f[d].run = dir[d].run
                           /\ f[d].man = dir[d].man /\ f[d].age = dir[d].age,
           WriteManifest(f, p, g)
    PROVE  /\ dir' \in [Dirs -> DirRecs] /\ \A d \in Dirs : dir'[d].lock = f[d].lock
           /\ \E d \in Dirs : Wrote(p, g, d)
<1>1. Lease(p) \in Path /\ Lease(p).run = p /\ Lease(p).dir = Nothing BY LeaseType
<1>2. \A d \in Dirs : Leads(Lease(p), d) <=> IsLease(d, p)
  BY <1>1, LeadsMeans, OffersAssumption
<1>3. PICK d \in Dirs :
        /\ Leads(Lease(p), d) \/ (Missing(Lease(p)) /\ d \in Fresh)
        /\ dir' = [f EXCEPT ![d] = [kind |-> "lease", run |-> p, man |-> g,
                                    lock |-> f[d].lock,
                                    age |-> IF f[d].age = "fresh" THEN "fresh" ELSE "renewed"]]
  BY DEF WriteManifest
<1>4. IsLease(d, p) \/ (dir[d] = Absent /\ \A e \in Dirs : ~IsLease(e, p))
  BY <1>2, <1>3 DEF Missing, Fresh
<1>5. [kind |-> "lease", run |-> p, man |-> g, lock |-> f[d].lock,
       age |-> IF f[d].age = "fresh" THEN "fresh" ELSE "renewed"] \in DirRecs
  BY DEF DirRecs
<1>6. dir' \in [Dirs -> DirRecs] BY <1>3, <1>5
<1>7. Wrote(p, g, d) BY <1>3, <1>4 DEF Wrote
<1>8. \A e \in Dirs : dir'[e].lock = f[e].lock BY <1>3
<1> QED BY <1>6, <1>7, <1>8

LEMMA RemoveAtEffect ==
    ASSUME TypeOK, NEW path \in Path
    PROVE  /\ RemoveAt(dir, path) \in [Dirs -> DirRecs]
           /\ \A d \in Dirs :
                /\ RemoveAt(dir, path)[d].run = dir[d].run
                /\ RemoveAt(dir, path)[d].lock = dir[d].lock
                /\ RemoveAt(dir, path)[d].age = dir[d].age
                /\ Leads(path, d) => /\ RemoveAt(dir, path)[d].kind = "removed"
                                     /\ RemoveAt(dir, path)[d].man = Nothing
                /\ ~Leads(path, d) => RemoveAt(dir, path)[d] = dir[d]
<1>1. \A d \in Dirs : dir[d] \in DirRecs BY DEF TypeOK, DirRecs
<1>2. \A d \in Dirs : [dir[d] EXCEPT !.kind = "removed", !.man = Nothing] \in DirRecs
  BY <1>1 DEF DirRecs
<1> QED BY <1>1, <1>2 DEF RemoveAt, DirRecs

LEMMA UnlockedEffect ==
    ASSUME NEW f \in [Dirs -> DirRecs], NEW p \in Procs
    PROVE  /\ Unlocked(f, p) \in [Dirs -> DirRecs]
           /\ \A d \in Dirs :
                /\ Unlocked(f, p)[d].kind = f[d].kind /\ Unlocked(f, p)[d].run = f[d].run
                /\ Unlocked(f, p)[d].man = f[d].man /\ Unlocked(f, p)[d].age = f[d].age
                /\ f[d].lock # p => Unlocked(f, p)[d].lock = f[d].lock
BY DEF Unlocked, DirRecs

LEMMA ReleasedEffect ==
    ASSUME NEW f \in [Dirs -> DirRecs], NEW p \in Procs, task[p].fd \in Dirs
    PROVE  /\ Released(f, p) \in [Dirs -> DirRecs]
           /\ \A d \in Dirs :
                /\ Released(f, p)[d].kind = f[d].kind /\ Released(f, p)[d].run = f[d].run
                /\ Released(f, p)[d].man = f[d].man /\ Released(f, p)[d].age = f[d].age
                /\ d # task[p].fd => Released(f, p)[d].lock = f[d].lock
<1>1. Released(f, p) = [f EXCEPT ![task[p].fd] = [f[task[p].fd] EXCEPT !.lock = Nobody]]
  BY DEF Released
<1>2. [f[task[p].fd] EXCEPT !.lock = Nobody] \in DirRecs BY DEF DirRecs
<1>3. \A d \in Dirs : f[d] \in DirRecs OBVIOUS
<1> QED BY <1>1, <1>2, <1>3 DEF DirRecs

-----------------------------------------------------------------------------
(* A step of a task leaves every directory what it holds, or ends one that   *)
(* no running process relies on.                                             *)
Same(d) == /\ dir'[d].kind = dir[d].kind /\ dir'[d].run = dir[d].run
           /\ dir'[d].man = dir[d].man /\ dir'[d].age = dir[d].age
Ends(d) ==
    /\ There(d) /\ dir'[d].run = dir[d].run /\ dir'[d].age = dir[d].age
    /\ \/ dir'[d].kind = "consumed" /\ dir'[d].man = dir[d].man /\ Written(d)
       \/ dir'[d].kind \in {"quarantine", "removed"} /\ dir'[d].man = Nothing
    /\ dir[d].kind = "consumed" => dir'[d].kind # "quarantine"
    /\ dir'[d].kind = "consumed" /\ st[dir[d].run] = "running" => Displaced(dir[d].run)
    /\ dir[d].kind = "lease" /\ dir[d].man # Nothing => dir[d].run \in settled'
    /\ \A r \in Procs : own[r] = d =>
          st[r] # "running" /\ (st[r] = "open" => dir'[d].kind = "quarantine")

Consumes(t, d) == t # Nothing /\ t.do = "consume" /\ t.fd = d

LEMMA TaskStep ==
    ASSUME IInv, TypeOK', NEW p \in Procs, UNCHANGED proc,
           \A d \in Dirs : Same(d) \/ Ends(d),
           \A d \in Dirs : dir[d].lock \notin {p, Nobody} => dir'[d].lock = dir[d].lock,
           st[p] = "running" => dir'[own[p]].lock = dir[own[p]].lock,
           \A q \in Procs \ {p} : task'[q] = task[q] /\ offer'[q] = offer[q],
           task'[p] # Nothing => st[p] \in {"running", "unprotected"},
           PlaceOK(p)', OfferOK(p)', TakeOK(p)',
           settled \subseteq settled', left \subseteq left', twice' \subseteq left', robbed' = {},
           \A d \in Dirs : dir'[d].kind = "consumed"
                /\ (dir[d].kind # "consumed" \/ Consumes(task[p], d))
                => d \in left' \/ Consumes(task'[p], d)
    PROVE  IInv'
<1>1. DirInv'
  <2> SUFFICES ASSUME NEW d \in Dirs PROVE DirOK(d)' BY DEF DirInv
  <2>1. DirOK(d) BY DEF IInv, DirInv
  <2>2. CASE Same(d) BY <2>1, <2>2 DEF Same, DirOK, Written, Ran, Started, proc
  <2>3. CASE Ends(d) BY <2>1, <2>3 DEF Ends, There, DirOK, Written, Ran, Started, proc
  <2> QED BY <2>2, <2>3
<1>2. \A d \in Dirs, r \in Procs : IsLease(d, r)' => IsLease(d, r) /\ Same(d)
  BY DEF IsLease, Same, Ends
<1>3. UniqueInv' BY <1>2 DEF UniqueInv, IInv
<1>4. \A r \in Procs : st[r] = "running" => Same(own[r]) /\ dir'[own[r]].lock = r
                                            /\ own[r] \in Dirs
  <2> SUFFICES ASSUME NEW r \in Procs, st[r] = "running"
               PROVE  Same(own[r]) /\ dir'[own[r]].lock = r /\ own[r] \in Dirs
    OBVIOUS
  <2>1. ProcOK(r) BY DEF IInv, ProcInv
  <2>2. own[r] \in Dirs /\ dir[own[r]].lock = r BY <2>1 DEF ProcOK
  <2>3. r # Nobody BY OffersAssumption
  <2> QED BY <2>2, <2>3 DEF Ends
<1>5. ProcInv'
  <2> SUFFICES ASSUME NEW r \in Procs PROVE ProcOK(r)' BY DEF ProcInv
  <2>1. ProcOK(r) BY DEF IInv, ProcInv
  <2>2. task'[r] # Nothing => st[r] \in {"running", "unprotected"} BY <2>1 DEF ProcOK
  <2>3. st[r] = "open" =>
          own[r] \in Dirs /\ dir'[own[r]].run = r /\ dir'[own[r]].kind \in {"lease", "quarantine"}
    BY <2>1 DEF ProcOK, Same, Ends
  <2> QED BY <1>4, <2>1, <2>2, <2>3 DEF ProcOK, Same, Ran, proc
<1>6. PlaceInv'
  <2> SUFFICES ASSUME NEW q \in Procs, q # p, task[q] # Nothing PROVE PlaceOK(q)'
    BY DEF PlaceInv, PlaceOK
  <2>1. PlaceOK(q) /\ task[q].fd \in Dirs BY DEF IInv, PlaceInv, TypeOK, Tasks
  <2>2. dir'[task[q].fd].run = dir[task[q].fd].run BY <2>1 DEF Same, Ends
  <2>3. dir[task[q].fd].kind \in {"consumed", "quarantine", "removed"} =>
           dir'[task[q].fd].kind \in {"consumed", "quarantine", "removed"}
    BY <2>1 DEF Same, Ends
  <2>4. dir[task[q].fd].kind \in {"consumed", "removed"} => dir'[task[q].fd].kind # "quarantine"
    BY <2>1 DEF Same, Ends, There
  <2>5. q # Nobody BY OffersAssumption
  <2>6. dir[task[q].fd].lock = q => dir'[task[q].fd].lock = q BY <2>1, <2>5
  <2> QED BY <2>1, <2>2, <2>3, <2>4, <2>6 DEF PlaceOK, Locking, proc
<1>7. OfferInv' BY DEF OfferInv, OfferOK, IInv, proc, Started
<1>8. TakeInv'
  <2> SUFFICES ASSUME NEW q \in Procs, q # p, task[q] # Nothing PROVE TakeOK(q)'
    BY DEF TakeInv, TakeOK
  <2>1. TakeOK(q) /\ task[q].path \in Path /\ task'[q] = task[q] /\ offer'[q] = offer[q]
    BY DEF IInv, TakeInv, TypeOK, Tasks
  <2>2. \A r \in Procs : st[r] = "running" =>
           (Leads(task[q].path, own[r])' <=> Leads(task[q].path, own[r]))
    BY <1>4, <2>1 DEF Leads, There, PathOf, Lease, Same, proc
  <2>3. \A d \in Dirs, r \in Procs : IsLease(d, r)' /\ dir'[d].man \notin {Nothing, 0}
           => IsLease(d, r) /\ dir'[d].man = dir[d].man /\ Written(d)
    BY <1>2 DEF Same, Written
  <2>4. \A d \in Dirs, r \in Procs : IsLease(d, r)' /\ dir'[d].man # Nothing
           => IsLease(d, r) /\ dir[d].man # Nothing /\ dir'[d].age = dir[d].age
    BY <1>2 DEF Same
  <2>5. task[q].path.run \in Procs BY <2>1 DEF Path
  <2>6. Ending(task[q]) => /\ Started(task[q].path.run)'
                           /\ \A r \in Procs : st'[r] = "running" /\ Leads(task[q].path, own[r])'
                                => task[q].fd = own[r] /\ task[q].at = "lock"
    BY <2>1, <2>2 DEF TakeOK, Started, proc
  <2>7. Taking(task[q]) =>
          /\ offer[q] # Nothing /\ offer[q].path = task[q].path
          /\ task[q].path.dir = Nothing => \A d \in Dirs \ {task[q].fd} :
                IsLease(d, task[q].path.run)' /\ Written(d)' => dir'[d].man > offer[q].gen
    BY <2>1, <2>3, <2>5 DEF TakeOK, Written
  <2>8. task[q].do = "sweep" /\ task[q].path.dir = Nothing /\ task[q].path.run \notin settled'
          => \A d \in Dirs : IsLease(d, task[q].path.run)' /\ dir'[d].man # Nothing
                => dir'[d].age # "fresh"
    BY <2>1, <2>4, <2>5 DEF TakeOK
  <2> QED BY <2>1, <2>6, <2>7, <2>8 DEF TakeOK, proc
<1>9. ConsumedInv'
  <2> SUFFICES ASSUME NEW d \in Dirs, dir'[d].kind = "consumed"
               PROVE  /\ d \in left' \/ \E q \in Procs : Consumes(task'[q], d)
                      /\ (st[dir[d].run] = "running" => Displaced(dir[d].run))'
    BY DEF ConsumedInv, ConsumedOK, Consumes, proc
  <2>1. d \in left' \/ \E q \in Procs : Consumes(task'[q], d)
    <3>1. dir[d].kind = "consumed" => d \in left \/ \E q \in Procs : Consumes(task[q], d)
      BY DEF IInv, ConsumedInv, ConsumedOK, Consumes
    <3> QED BY <3>1 DEF Consumes
  <2>2. dir'[d].run = dir[d].run /\ dir[d].run \in Procs
    BY DEF Same, Ends, There, IInv, DirInv, DirOK
  <2>3. st[dir[d].run] = "running" => Displaced(dir[d].run)
    BY DEF Same, Ends, IInv, ConsumedInv, ConsumedOK
  <2>4. st[dir[d].run] = "running" /\ Displaced(dir[d].run) => Displaced(dir[d].run)'
    BY <1>4, <2>2 DEF Displaced, Same, proc
  <2> QED BY <2>1, <2>2, <2>3, <2>4 DEF proc
<1>10. KeptInv'
  <2> SUFFICES ASSUME NEW r \in Procs, Ran(r), r \notin settled', st[r] = "gone" => gen[r] > 0
               PROVE  \E d \in Dirs : IsLease(d, r)' /\ dir'[d].man = gen[r]
    BY DEF KeptInv, KeptOK, Ran, proc
  <2>1. PICK d \in Dirs : IsLease(d, r) /\ dir[d].man = gen[r]
    BY DEF IInv, KeptInv, KeptOK
  <2>2. gen[r] # Nothing BY NothingAssumption DEF IInv, TypeOK
  <2>3. Same(d) BY <2>1, <2>2 DEF Ends, IsLease
  <2> QED BY <2>1, <2>3 DEF Same, IsLease
<1> QED BY <1>1, <1>3, <1>5, <1>6, <1>7, <1>8, <1>9, <1>10 DEF IInv

-----------------------------------------------------------------------------
(* A step that begins a process or a task, and may create a directory.       *)
Advances(r) ==
    \/ st'[r] = st[r]
    \/ st[r] = "off" /\ st'[r] = "made"
    \/ st[r] = "made" /\ st'[r] = "open"
    \/ st[r] = "open" /\ st'[r] = "unprotected"

LEMMA CreateStep ==
    ASSUME IInv, TypeOK', NEW path \in Path, NEW d \in Dirs, dir' = dir \/ Created(path, d),
           st'[path.run] # "off", UNCHANGED <<gen, offer, ghosts>>,
           \A r \in Procs : /\ Advances(r)
                            /\ st'[r] # "open" => own'[r] = own[r]
                            /\ st'[r] = "open" => \/ own'[r] = own[r] /\ st[r] = "open"
                                                  \/ own'[r] \in Dirs /\ IsLease(own[r], r)',
           \A q \in Procs : \/ task'[q] = task[q]
                            \/ /\ task[q] = Nothing /\ st'[q] \in {"running", "unprotected"}
                               /\ PlaceOK(q)' /\ TakeOK(q)'
    PROVE  IInv'
<1>0. /\ \A r \in Procs : ProcOK(r) /\ PlaceOK(r) /\ OfferOK(r) /\ TakeOK(r) /\ KeptOK(r)
      /\ \A e \in Dirs : DirOK(e) /\ ConsumedOK(e)
  BY DEF IInv, ProcInv, PlaceInv, OfferInv, TakeInv, KeptInv, DirInv, ConsumedInv
<1>1. \A e \in Dirs : \/ dir'[e] = dir[e]
                      \/ /\ e = d /\ dir[e] = Absent /\ dir'[e] = Empty(path.run)
                         /\ \A x \in Dirs : ~IsLease(x, path.run)
  BY DEF Created, IInv, TypeOK
<1>2. path.run \in Procs BY DEF Path
<1>3. \A r \in Procs : /\ st'[r] = "off" => st[r] = "off"
                       /\ st'[r] = "running" <=> st[r] = "running"
                       /\ st'[r] = "gone" <=> st[r] = "gone"
                       /\ Started(r) => Started(r)'
                       /\ Ran(r)' <=> Ran(r)
  BY DEF Advances, Started, Ran
<1>4. DirInv'
  <2> SUFFICES ASSUME NEW e \in Dirs PROVE DirOK(e)' BY DEF DirInv
  <2>1. CASE dir'[e] = dir[e] BY <1>0, <1>3, <2>1 DEF DirOK, Written
  <2>2. CASE dir'[e] = Empty(path.run) BY <1>2, <2>2 DEF DirOK, Empty, Written
  <2> QED BY <1>1, <2>1, <2>2
<1>5. \A e \in Dirs, r \in Procs : IsLease(e, r)' =>
          \/ IsLease(e, r) /\ dir'[e] = dir[e]
          \/ r = path.run /\ e = d /\ dir'[e].man = Nothing /\ \A x \in Dirs : ~IsLease(x, r)
  BY <1>1 DEF IsLease, Empty
<1>6. UniqueInv' BY <1>5 DEF UniqueInv, IInv
<1>7. \A e \in Dirs : dir[e].kind # "none" \/ dir[e].lock # Nobody => dir'[e] = dir[e]
  BY <1>1 DEF Absent
<1>8. \A r \in Procs : st[r] = "running" =>
          own'[r] = own[r] /\ own[r] \in Dirs /\ dir'[own[r]] = dir[own[r]]
  BY <1>0, <1>3, <1>7 DEF ProcOK
<1>9. ProcInv'
  <2> SUFFICES ASSUME NEW r \in Procs PROVE ProcOK(r)' BY DEF ProcInv
  <2>1. gen'[r] > 0 => Ran(r)' BY <1>0, <1>3 DEF ProcOK
  <2>2. task'[r] # Nothing => st'[r] \in {"running", "unprotected"}
    BY <1>0 DEF ProcOK, Advances
  <2>3. st'[r] = "open" => own'[r] \in Dirs /\ dir'[own'[r]].run = r
                           /\ dir'[own'[r]].kind \in {"lease", "quarantine"}
    BY <1>0, <1>7 DEF ProcOK, IsLease
  <2> QED BY <1>0, <1>3, <1>8, <2>1, <2>2, <2>3 DEF ProcOK
<1>10. PlaceInv'
  <2> SUFFICES ASSUME NEW q \in Procs, task'[q] = task[q], task[q] # Nothing PROVE PlaceOK(q)'
    BY DEF PlaceInv, PlaceOK
  <2>1. task[q].fd \in Dirs /\ q # Nobody BY OffersAssumption DEF IInv, TypeOK, Tasks
  <2>2. task[q].path.dir # Nothing => dir'[task[q].fd] = dir[task[q].fd]
    BY <1>0, <1>7, <2>1 DEF PlaceOK
  <2>3. Locking(task[q]) => dir'[task[q].fd] = dir[task[q].fd]
    BY <1>0, <1>7, <2>1 DEF PlaceOK
  <2> QED BY <1>0, <1>3, <1>8, <2>2, <2>3 DEF PlaceOK
<1>11. OfferInv'
  <2>1. \A q \in Procs : offer[q] # Nothing => offer[q].path.run \in Procs
    BY DEF IInv, TypeOK, Path
  <2> QED BY <1>0, <1>3, <2>1 DEF OfferInv, OfferOK
<1>12. TakeInv'
  <2> SUFFICES ASSUME NEW q \in Procs, task'[q] = task[q], task[q] # Nothing PROVE TakeOK(q)'
    BY DEF TakeInv, TakeOK
  <2>1. TakeOK(q) /\ task[q].path \in Path /\ task[q].path.run \in Procs
    BY <1>0 DEF IInv, TypeOK, Tasks, Path
  <2>2. \A r \in Procs : st[r] = "running" =>
           (Leads(task[q].path, own[r])' <=> Leads(task[q].path, own[r]))
    BY <1>8, <2>1 DEF Leads, There, PathOf, Lease
  <2>3. \A e \in Dirs, r \in Procs : IsLease(e, r)' /\ dir'[e].man # Nothing
           => IsLease(e, r) /\ dir'[e] = dir[e]
    BY <1>5
  <2>4. Ending(task[q]) => /\ Started(task[q].path.run)'
                           /\ \A r \in Procs : st'[r] = "running" /\ Leads(task[q].path, own[r])'
                                => task[q].fd = own[r] /\ task[q].at = "lock"
    BY <1>3, <2>1, <2>2 DEF TakeOK
  <2>5. Taking(task[q]) =>
          /\ offer[q] # Nothing /\ offer[q].path = task[q].path
          /\ task[q].path.dir = Nothing => \A e \in Dirs \ {task[q].fd} :
                IsLease(e, task[q].path.run)' /\ Written(e)' => dir'[e].man > offer[q].gen
    BY <2>1, <2>3 DEF TakeOK, Written
  <2>6. task[q].do = "sweep" /\ task[q].path.dir = Nothing /\ task[q].path.run \notin settled
          => \A e \in Dirs : IsLease(e, task[q].path.run)' /\ dir'[e].man # Nothing
                => dir'[e].age # "fresh"
    BY <2>1, <2>3 DEF TakeOK
  <2>7. \A r \in Procs : st[r] = "running" => own'[r] = own[r] BY <1>8
  <2> QED BY <1>3, <2>1, <2>4, <2>5, <2>6, <2>7 DEF TakeOK, ghosts
<1>13. ConsumedInv'
  <2>1. \A e \in Dirs : dir'[e].kind = "consumed" => dir'[e] = dir[e] BY <1>1 DEF Empty
  <2>2. \A e \in Dirs, q \in Procs : Consumes(task[q], e) => Consumes(task'[q], e)
    BY DEF Consumes
  <2>3. \A r \in Procs : st[r] = "running" /\ Displaced(r) => Displaced(r)'
    BY <1>8 DEF Displaced
  <2>4. ASSUME NEW e \in Dirs, dir'[e].kind = "consumed"
        PROVE  /\ e \in left' \/ \E q \in Procs : Consumes(task'[q], e)
               /\ (st[dir[e].run] = "running" => Displaced(dir[e].run))'
    <3>1. dir'[e] = dir[e] /\ dir[e].run \in Procs BY <1>0, <2>1, <2>4 DEF DirOK
    <3>2. e \in left \/ \E q \in Procs : Consumes(task[q], e)
      BY <1>0, <2>4, <3>1 DEF ConsumedOK, Consumes
    <3>3. st[dir[e].run] = "running" => Displaced(dir[e].run)
      BY <1>0, <2>4, <3>1 DEF ConsumedOK
    <3> QED BY <1>3, <2>2, <2>3, <3>1, <3>2, <3>3 DEF ghosts
  <2> QED BY <2>4 DEF ConsumedInv, ConsumedOK, Consumes, IInv, ghosts
<1>14. KeptInv'
  <2> SUFFICES ASSUME NEW r \in Procs, Ran(r)', r \notin settled, st'[r] = "gone" => gen[r] > 0
               PROVE  \E e \in Dirs : IsLease(e, r)' /\ dir'[e].man = gen[r]
    BY DEF KeptInv, KeptOK, ghosts
  <2>1. PICK e \in Dirs : IsLease(e, r) /\ dir[e].man = gen[r] BY <1>0, <1>3 DEF KeptOK
  <2>2. dir'[e] = dir[e] BY <1>7, <2>1 DEF IsLease
  <2> QED BY <2>1, <2>2 DEF IsLease
<1> QED BY <1>4, <1>6, <1>9, <1>10, <1>11, <1>12, <1>13, <1>14 DEF IInv

LEMMA CreateType ==
    ASSUME TypeOK, NEW path \in Path, NEW d \in Dirs, dir' = dir \/ Created(path, d)
    PROVE  dir' \in [Dirs -> DirRecs]
BY DEF TypeOK, DirRecs, Created, Empty, Path

LEMMA MakeDirStep == ASSUME IInv, NEW p \in Procs, MakeDir(p) PROVE IInv'
<1>1. PICK d \in Dirs : Ensure(Lease(p), d) BY DEF MakeDir
<1>2. Lease(p) \in Path /\ Lease(p).run = p BY LeaseType
<1>3. dir' = dir \/ Created(Lease(p), d) BY <1>1, <1>2, EnsureEffect DEF IInv
<1>4. st[p] = "off" /\ st' = [st EXCEPT ![p] = "made"] /\ UNCHANGED <<own, gen, task, offer, ghosts>>
  BY DEF MakeDir
<1>5. TypeOK' BY <1>2, <1>3, <1>4, CreateType DEF IInv, TypeOK, DirRecs, ghosts
<1>6. \A r \in Procs : Advances(r) /\ (st'[r] = "open" => st[r] = "open")
  BY <1>4 DEF Advances, IInv, TypeOK
<1>7. \A r \in Procs : st[r] = "open" => own[r] \in Dirs BY DEF IInv, ProcInv, ProcOK
<1>8. st'[p] # "off" BY <1>4 DEF IInv, TypeOK
<1> QED BY <1>2, <1>3, <1>4, <1>5, <1>6, <1>7, <1>8, CreateStep

LEMMA OpenLeaseStep == ASSUME IInv, NEW p \in Procs, OpenLease(p) PROVE IInv'
<1>1. PICK d \in Dirs : Ensure(Lease(p), d) /\ own' = [own EXCEPT ![p] = d] BY DEF OpenLease
<1>2. Lease(p) \in Path /\ Lease(p).run = p /\ Lease(p).dir = Nothing BY LeaseType
<1>3. (dir' = dir /\ Leads(Lease(p), d)) \/ Created(Lease(p), d)
  BY <1>1, <1>2, EnsureEffect DEF IInv
<1>4. /\ st[p] = "made" /\ st' = [st EXCEPT ![p] = "open"]
      /\ UNCHANGED <<gen, task, offer, ghosts>>
  BY DEF OpenLease
<1>5. dir' \in [Dirs -> DirRecs] BY <1>2, <1>3, CreateType DEF IInv
<1>6. TypeOK' BY <1>1, <1>4, <1>5 DEF IInv, TypeOK, DirRecs, ghosts
<1>7. IsLease(d, p)'
  <2>1. Leads(Lease(p), d) => IsLease(d, p)
    BY <1>2, LeadsMeans, OffersAssumption DEF IInv
  <2>2. Created(Lease(p), d) => dir'[d] = Empty(p) BY <1>2 DEF Created, IInv, TypeOK
  <2> QED BY <1>3, <2>1, <2>2 DEF IsLease, Empty
<1>8. \A r \in Procs : Advances(r) BY <1>4 DEF Advances, IInv, TypeOK
<1>9. \A r \in Procs \ {p} : own'[r] = own[r] /\ st'[r] = st[r] BY <1>1, <1>4 DEF IInv, TypeOK
<1>10. st'[p] = "open" /\ own'[p] = d BY <1>1, <1>4 DEF IInv, TypeOK
<1>11. \A r \in Procs : st[r] = "open" => own[r] \in Dirs BY DEF IInv, ProcInv, ProcOK
<1>12. own'[p] \in Dirs /\ IsLease(own[p], p)' BY <1>7, <1>10 DEF IsLease
<1> QED BY <1>2, <1>3, <1>4, <1>6, <1>8, <1>9, <1>10, <1>11, <1>12, CreateStep

LEMMA NoLeaseStep == ASSUME IInv, NEW p \in Procs, NoLease(p) PROVE IInv'
<1>1. st[p] = "open" /\ st' = [st EXCEPT ![p] = "unprotected"]
      /\ UNCHANGED <<own, gen, dir, task, offer, ghosts>>
  BY DEF NoLease
<1>2. TypeOK' BY <1>1 DEF IInv, TypeOK, ghosts
<1>3. \A r \in Procs : Advances(r) /\ (st'[r] = "open" => st[r] = "open")
  BY <1>1 DEF Advances, IInv, TypeOK
<1>4. own[p] \in Dirs /\ \A r \in Procs : st[r] = "open" => own[r] \in Dirs
  BY <1>1 DEF IInv, ProcInv, ProcOK
<1>5. Lease(p) \in Path /\ Lease(p).run = p BY LeaseType
<1>6. st'[p] # "off" BY <1>1 DEF IInv, TypeOK
<1> QED BY <1>1, <1>2, <1>3, <1>4, <1>5, <1>6, CreateStep

\* The front of a look, an acceptance, a discard or a sweep.
LEMMA EnterStep ==
    ASSUME IInv, NEW p \in Procs, NEW what \in {"look", "accept", "discard", "sweep"},
           NEW path \in Path, Free(p), UNCHANGED <<proc, offer, ghosts>>, Enter(p, what, path),
           what \in {"accept", "discard"} => offer[p] # Nothing /\ offer[p].path = path,
           what = "look" => \E d \in Dirs : Leads(path, d),
           what = "sweep" => \E d \in Dirs : Leads(path, d) /\ dir[d].age = "old"
    PROVE  IInv'
<1>1. PICK d \in Dirs :
        /\ Ensure(path, d)
        /\ task' = [task EXCEPT ![p] = [do |-> what, at |-> "lock", path |-> path, fd |-> d]]
  BY DEF Enter
<1> DEFINE t == [do |-> what, at |-> "lock", path |-> path, fd |-> d]
<1>2. t \in Tasks BY DEF Tasks
<1>3. task'[p] = t /\ \A q \in Procs \ {p} : task'[q] = task[q]
  BY <1>1 DEF IInv, TypeOK
<1>4. (dir' = dir /\ Leads(path, d)) \/ Created(path, d) BY <1>1, EnsureEffect DEF IInv
<1>5. dir' \in [Dirs -> DirRecs] BY <1>4, CreateType DEF IInv
<1>6. TypeOK' BY <1>1, <1>2, <1>5 DEF IInv, TypeOK, DirRecs, proc, ghosts
<1>7. \A e \in Dirs : Leads(path, e) <=> \/ path.dir = Nothing /\ IsLease(e, path.run)
                                         \/ path.dir = e /\ Residue(e) /\ dir[e].run = path.run
  BY LeadsMeans DEF IInv
<1>8. path.run \in Procs BY DEF Path
<1>9. \A e \in Dirs : Leads(path, e) => dir' = dir /\ e = d
  <2>1. \A e \in Dirs : Leads(path, e) => ~Created(path, d)
    BY <1>7, OffersAssumption DEF Created
  <2>2. \A e \in Dirs : Leads(path, e) /\ Leads(path, d) => e = d
    BY <1>7, <1>8, OffersAssumption DEF UniqueInv, IInv
  <2> QED BY <1>4, <2>1, <2>2
<1>10. st[path.run] # "off" /\ (what # "look" => Started(path.run))
  <2>1. \A e \in Dirs : DirOK(e) BY DEF IInv, DirInv
  <2>2. \A e \in Dirs : Leads(path, e) => dir[e].kind # "none" /\ dir[e].run = path.run
    BY <1>7 DEF IsLease, Residue
  <2>3. what \in {"accept", "discard"} => Started(path.run) BY DEF IInv, OfferInv, OfferOK
  <2> QED BY <2>1, <2>2, <2>3 DEF DirOK, Started
<1>11. PlaceOK(p)'
  <2>1. path.dir # Nothing => Leads(path, d) /\ dir' = dir
    BY <1>4 DEF Created
  <2>2. path.dir # Nothing => d = path.dir /\ dir'[d].run = path.run /\ Residue(d)
    BY <1>7, <2>1
  <2> QED BY <1>3, <2>1, <2>2 DEF PlaceOK, Locking, Residue
<1>12. \A e \in Dirs : \/ dir'[e] = dir[e]
                       \/ e = d /\ dir[e] = Absent /\ dir'[e] = Empty(path.run)
  BY <1>4 DEF Created, IInv, TypeOK
<1>13. \A r \in Procs : st[r] = "running" /\ Leads(path, own[r])' => d = own[r]
  <2>1. \A r \in Procs : st[r] = "running" => own[r] \in Dirs /\ dir[own[r]].kind # "none"
    BY DEF IInv, ProcInv, ProcOK
  <2>2. \A r \in Procs : st[r] = "running" => dir'[own[r]] = dir[own[r]]
    BY <1>12, <2>1 DEF Absent
  <2>3. \A r \in Procs : st[r] = "running" /\ Leads(path, own[r])' => Leads(path, own[r])
    BY <2>2 DEF Leads, There, PathOf, Lease, proc
  <2> QED BY <1>9, <2>1, <2>3
<1>14. \A e \in Dirs \ {d} : ~(path.dir = Nothing /\ IsLease(e, path.run)')
  BY <1>4, <1>7, <1>9, <1>12 DEF IsLease, Created
<1>15. what = "sweep" => dir' = dir /\ dir[d].age # "fresh" BY <1>9
<1>16. TakeOK(p)'
  <2>1. Ending(t) => /\ Started(t.path.run)'
                     /\ \A r \in Procs : st'[r] = "running" /\ Leads(t.path, own[r])'
                          => t.fd = own'[r] /\ t.at = "lock"
    BY <1>10, <1>13 DEF Ending, Started, proc
  <2>2. Taking(t) =>
          /\ offer'[p] # Nothing /\ offer'[p].path = t.path
          /\ t.path.dir = Nothing => \A e \in Dirs \ {t.fd} : ~IsLease(e, t.path.run)'
    BY <1>14 DEF Taking
  <2>3. t.do = "sweep" /\ t.path.dir = Nothing
          => \A e \in Dirs : IsLease(e, t.path.run)' => dir'[e].age # "fresh"
    BY <1>14, <1>15
  <2> HIDE DEF t
  <2> QED BY <1>3, <2>1, <2>2, <2>3 DEF TakeOK
<1>17. task[p] = Nothing /\ st[p] \in {"running", "unprotected"} BY DEF Free
<1>18. \A r \in Procs : Advances(r) /\ own'[r] = own[r] /\ (st'[r] = "open" => st[r] = "open")
  BY DEF Advances, proc
<1>19. \A r \in Procs : st[r] = "open" => own[r] \in Dirs BY DEF IInv, ProcInv, ProcOK
<1>20. \A q \in Procs : \/ task'[q] = task[q]
                        \/ /\ task[q] = Nothing /\ st'[q] \in {"running", "unprotected"}
                           /\ PlaceOK(q)' /\ TakeOK(q)'
  BY <1>3, <1>11, <1>16, <1>17 DEF proc
<1>21. st'[path.run] # "off" /\ UNCHANGED <<gen, offer, ghosts>> BY <1>10 DEF proc
<1> HIDE DEF t
<1> QED BY <1>4, <1>6, <1>18, <1>19, <1>20, <1>21, CreateStep

LEMMA LookStep == ASSUME IInv, NEW p \in Procs, Look(p) PROVE IInv'
<1>1. PICK d \in Dirs : There(d) /\ Enter(p, "look", PathOf(d)) BY DEF Look
<1>2. PathOf(d) \in Path /\ Leads(PathOf(d), d) BY <1>1, PathType DEF IInv, Leads
<1> QED BY <1>1, <1>2, EnterStep DEF Look

LEMMA RecoverStep == ASSUME IInv, NEW p \in Procs, Recover(p) PROVE IInv'
<1>1. PICK what \in {"accept", "discard"} : Enter(p, what, offer[p].path) BY DEF Recover
<1>2. offer[p] # Nothing /\ offer[p].path \in Path BY DEF Recover, IInv, TypeOK
<1> QED BY <1>1, <1>2, EnterStep DEF Recover

LEMMA SweepStep == ASSUME IInv, NEW p \in Procs, Sweep(p) PROVE IInv'
<1>1. PICK d \in Dirs : There(d) /\ dir[d].age = "old" /\ Enter(p, "sweep", PathOf(d))
  BY DEF Sweep, Expired
<1>2. PathOf(d) \in Path /\ Leads(PathOf(d), d) BY <1>1, PathType DEF IInv, Leads
<1> QED BY <1>1, <1>2, EnterStep DEF Sweep

-----------------------------------------------------------------------------
(* The steps of a task past its front.                                       *)
LEMMA TaskFacts ==
    ASSUME IInv, NEW p \in Procs, task[p] # Nothing
    PROVE  /\ task[p] \in Tasks /\ task[p].path \in Path /\ task[p].fd \in Dirs
           /\ dir \in [Dirs -> DirRecs] /\ p # Nobody
           /\ ProcOK(p) /\ PlaceOK(p) /\ TakeOK(p) /\ OfferOK(p)
           /\ st[p] \in {"running", "unprotected"}
           /\ twice \subseteq left /\ robbed = {}
           /\ \A d \in Dirs : DirOK(d) /\ ConsumedOK(d)
           /\ \A r \in Procs : ProcOK(r) /\ PlaceOK(r)
           /\ \A d \in Dirs : Leads(task[p].path, d) <=>
                 \/ task[p].path.dir = Nothing /\ IsLease(d, task[p].path.run)
                 \/ task[p].path.dir = d /\ Residue(d) /\ dir[d].run = task[p].path.run
<1>1. task[p] \in Tasks /\ dir \in [Dirs -> DirRecs] BY DEF IInv, TypeOK, DirRecs
<1>2. task[p].path \in Path /\ task[p].fd \in Dirs BY <1>1 DEF Tasks
<1>3. \A d \in Dirs : Leads(task[p].path, d) <=>
                 \/ task[p].path.dir = Nothing /\ IsLease(d, task[p].path.run)
                 \/ task[p].path.dir = d /\ Residue(d) /\ dir[d].run = task[p].path.run
  BY <1>2, LeadsMeans DEF IInv
<1>4. ProcOK(p) BY DEF IInv, ProcInv
<1> QED BY <1>1, <1>2, <1>3, <1>4, OffersAssumption
        DEF IInv, ProcInv, PlaceInv, TakeInv, OfferInv, ProcOK, DirInv, ConsumedInv

\* The step of a task that only gives up its lock, if it has it, and its offer.
LEMMA ReleaseStep ==
    ASSUME IInv, NEW p \in Procs, task[p] # Nothing, UNCHANGED <<proc, twice, settled, robbed>>,
           dir' = dir \/ (Locking(task[p]) /\ dir' = Released(dir, p)),
           \A q \in Procs \ {p} : offer'[q] = offer[q],
           offer' \in [Procs -> [path : Path, gen : 1 .. MaxGen] \cup {Nothing}],
           OfferOK(p)', left \subseteq left', left' \subseteq Dirs,
           task' \in [Procs -> Tasks \cup {Nothing}], \A q \in Procs \ {p} : task'[q] = task[q],
           PlaceOK(p)', TakeOK(p)',
           \A d \in Dirs : Consumes(task[p], d) => d \in left'
    PROVE  IInv'
<1>1. /\ task[p].fd \in Dirs /\ dir \in [Dirs -> DirRecs] /\ ProcOK(p) /\ PlaceOK(p)
      /\ st[p] \in {"running", "unprotected"} /\ twice \subseteq left /\ robbed = {}
  BY TaskFacts
<1>2. /\ dir' \in [Dirs -> DirRecs] /\ \A d \in Dirs : Same(d)
      /\ \A d \in Dirs : d # task[p].fd \/ ~Locking(task[p]) => dir'[d].lock = dir[d].lock
  BY <1>1, ReleasedEffect DEF Same
<1>3. \A d \in Dirs : dir[d].lock \notin {p, Nobody} => dir'[d].lock = dir[d].lock
  BY <1>1, <1>2 DEF PlaceOK
<1>4. st[p] = "running" => dir'[own[p]].lock = dir[own[p]].lock
  BY <1>1, <1>2 DEF PlaceOK, ProcOK
<1>5. TypeOK' BY <1>2 DEF IInv, TypeOK, DirRecs, proc
<1>6. \A d \in Dirs : dir'[d].kind = "consumed"
                /\ (dir[d].kind # "consumed" \/ Consumes(task[p], d))
                => d \in left' \/ Consumes(task'[p], d)
  BY <1>2 DEF Same
<1>7. twice' \subseteq left' /\ robbed' = {} /\ settled \subseteq settled' BY <1>1
<1>8. UNCHANGED proc OBVIOUS
<1> QED BY <1>1, <1>2, <1>3, <1>4, <1>5, <1>6, <1>7, <1>8, TaskStep

LEMMA BusyStep == ASSUME IInv, NEW p \in Procs, Busy(p) PROVE IInv'
<1>1. /\ task[p] # Nothing /\ task[p].at = "lock" /\ task' = [task EXCEPT ![p] = Nothing]
      /\ offer' = [offer EXCEPT ![p] = Nothing] /\ UNCHANGED <<proc, dir, ghosts>>
  BY DEF Busy, Finish
<1>2. task'[p] = Nothing /\ offer'[p] = Nothing BY <1>1 DEF IInv, TypeOK
<1>3. PlaceOK(p)' /\ TakeOK(p)' /\ OfferOK(p)' BY <1>2 DEF PlaceOK, TakeOK, OfferOK
<1>4. \A d \in Dirs : ~Consumes(task[p], d) BY <1>1, TaskFacts DEF PlaceOK, Consumes
<1> QED BY <1>1, <1>3, <1>4, ReleaseStep DEF IInv, TypeOK, ghosts

LEMMA ChangedStep == ASSUME IInv, NEW p \in Procs, Changed(p) PROVE IInv'
<1>1. /\ task[p] # Nothing /\ task[p].at = "read" /\ task[p].do # "consume"
      /\ task' = [task EXCEPT ![p] = Nothing] /\ dir' = Released(dir, p)
      /\ offer' = [offer EXCEPT ![p] = Nothing] /\ UNCHANGED <<proc, ghosts>>
  BY DEF Changed, Finish, Doing
<1>2. task'[p] = Nothing /\ offer'[p] = Nothing BY <1>1 DEF IInv, TypeOK
<1>3. PlaceOK(p)' /\ TakeOK(p)' /\ OfferOK(p)' BY <1>2 DEF PlaceOK, TakeOK, OfferOK
<1>4. \A d \in Dirs : ~Consumes(task[p], d) BY <1>1 DEF Consumes
<1>5. Locking(task[p]) BY <1>1 DEF Locking
<1> QED BY <1>1, <1>3, <1>4, <1>5, ReleaseStep DEF IInv, TypeOK, ghosts

LEMMA SweepUnlockStep == ASSUME IInv, NEW p \in Procs, SweepUnlock(p) PROVE IInv'
<1>1. /\ task[p] # Nothing /\ task[p].at = "read" /\ task[p].do = "sweep"
      /\ task' = [task EXCEPT ![p].at = "remove"] /\ dir' = Released(dir, p)
      /\ UNCHANGED <<proc, offer, ghosts>>
  BY DEF SweepUnlock, Doing
<1>2. /\ task[p] \in Tasks /\ task[p].path \in Path /\ task[p].fd \in Dirs
      /\ dir \in [Dirs -> DirRecs] /\ PlaceOK(p) /\ TakeOK(p) /\ OfferOK(p)
      /\ \A r \in Procs : ProcOK(r)
  BY <1>1, TaskFacts
<1>a. [task[p] EXCEPT !.at = "remove"] \in Tasks BY <1>1, <1>2 DEF Tasks
<1>b. PICK t \in Tasks : t = [task[p] EXCEPT !.at = "remove"] BY <1>a
<1>3. /\ t.at = "remove" /\ t.do = "sweep" /\ t.path = task[p].path /\ t.fd = task[p].fd
  BY <1>1, <1>2, <1>b DEF Tasks
<1>4. task' = [task EXCEPT ![p] = t] BY <1>1, <1>b
<1>5. task'[p] = t /\ task' \in [Procs -> Tasks \cup {Nothing}] BY <1>3, <1>4 DEF IInv, TypeOK
<1>6. \A d \in Dirs : Same(d) BY <1>1, <1>2, ReleasedEffect DEF Same
<1>7. PlaceOK(p)' BY <1>1, <1>2, <1>3, <1>5, <1>6 DEF PlaceOK, Same, Locking
<1>8. TakeOK(p)'
  <2>1. \A r \in Procs : st[r] = "running" => ~Leads(t.path, own[r])
    BY <1>1, <1>2, <1>3 DEF TakeOK, Ending
  <2>2. \A r \in Procs : st[r] = "running" => ~Leads(t.path, own[r])'
    BY <1>1, <1>2, <1>6, <2>1 DEF Leads, There, PathOf, Lease, Same, proc, ProcOK
  <2>3. t.path.dir = Nothing /\ t.path.run \notin settled =>
          \A d \in Dirs : IsLease(d, t.path.run)' /\ dir'[d].man # Nothing => dir'[d].age # "fresh"
    BY <1>1, <1>2, <1>3, <1>6 DEF TakeOK, IsLease, Same
  <2>4. Started(t.path.run)' BY <1>1, <1>2, <1>3 DEF TakeOK, Ending, Started, proc
  <2>5. ~Taking(t) BY <1>3 DEF Taking
  <2> QED BY <1>1, <1>5, <2>2, <2>3, <2>4, <2>5 DEF TakeOK, proc, ghosts
<1>9. OfferOK(p)' BY <1>1, <1>2 DEF OfferOK, Started, proc
<1>10. \A d \in Dirs : ~Consumes(task[p], d) BY <1>1 DEF Consumes
<1>11. Locking(task[p]) BY <1>1 DEF Locking
<1>12. \A q \in Procs \ {p} : task'[q] = task[q] BY <1>4 DEF IInv, TypeOK
<1> QED BY <1>1, <1>5, <1>7, <1>8, <1>9, <1>10, <1>11, <1>12, ReleaseStep DEF IInv, TypeOK, ghosts

LEMMA TryLockStep == ASSUME IInv, NEW p \in Procs, TryLock(p) PROVE IInv'
<1>1. /\ task[p] # Nothing /\ task[p].at = "lock" /\ dir[task[p].fd].lock = Nobody
      /\ task' = [task EXCEPT ![p].at = "read"] /\ dir' = [dir EXCEPT ![task[p].fd].lock = p]
      /\ UNCHANGED <<proc, offer, ghosts>>
  BY DEF TryLock, Locked
<1>2. /\ task[p] \in Tasks /\ task[p].path \in Path /\ task[p].fd \in Dirs
      /\ dir \in [Dirs -> DirRecs] /\ PlaceOK(p) /\ TakeOK(p) /\ OfferOK(p) /\ p # Nobody
      /\ twice \subseteq left /\ robbed = {} /\ st[p] \in {"running", "unprotected"}
      /\ \A r \in Procs : ProcOK(r)
  BY <1>1, TaskFacts
<1> DEFINE o == [dir[task[p].fd] EXCEPT !.lock = p]
<1>b. [task[p] EXCEPT !.at = "read"] \in Tasks BY <1>1, <1>2 DEF Tasks
<1>c. PICK t \in Tasks : t = [task[p] EXCEPT !.at = "read"] BY <1>b
<1>3. /\ t.at = "read" /\ t.do = task[p].do /\ t.path = task[p].path /\ t.fd = task[p].fd
  BY <1>1, <1>2, <1>c DEF Tasks
<1>4. task' = [task EXCEPT ![p] = t] /\ dir' = [dir EXCEPT ![task[p].fd] = o] BY <1>1, <1>c
<1>a. o \in DirRecs /\ o.lock = p /\ \A d \in Dirs : d = task[p].fd =>
         o.kind = dir[d].kind /\ o.run = dir[d].run /\ o.man = dir[d].man /\ o.age = dir[d].age
  BY <1>2 DEF DirRecs
<1> HIDE DEF o
<1>5. task'[p] = t /\ task' \in [Procs -> Tasks \cup {Nothing}]
      /\ \A q \in Procs \ {p} : task'[q] = task[q]
  BY <1>3, <1>4 DEF IInv, TypeOK
<1>6. /\ \A d \in Dirs : Same(d) /\ (d # task[p].fd => dir'[d].lock = dir[d].lock)
      /\ dir' \in [Dirs -> DirRecs] /\ dir'[task[p].fd].lock = p
  BY <1>2, <1>4, <1>a DEF Same
<1>7. \A r \in Procs : st[r] = "running" => own[r] \in Dirs /\ task[p].fd # own[r]
  BY <1>1, <1>2, OffersAssumption DEF ProcOK
<1>8. PlaceOK(p)' BY <1>1, <1>2, <1>3, <1>5, <1>6, <1>7 DEF PlaceOK, Same, Locking, proc
<1>9. TakeOK(p)'
  <2>1. \A r \in Procs : Ending(t) /\ st[r] = "running" => ~Leads(t.path, own[r])
    BY <1>1, <1>2, <1>3, <1>7 DEF TakeOK, Ending
  <2>2. \A r \in Procs : Ending(t) /\ st[r] = "running" => ~Leads(t.path, own[r])'
    BY <1>1, <1>6, <1>7, <2>1 DEF Leads, There, PathOf, Lease, Same, proc
  <2>3. t.do = "sweep" /\ t.path.dir = Nothing /\ t.path.run \notin settled =>
          \A d \in Dirs : IsLease(d, t.path.run)' /\ dir'[d].man # Nothing => dir'[d].age # "fresh"
    BY <1>1, <1>2, <1>3, <1>6 DEF TakeOK, IsLease, Same
  <2>4. Ending(t) => Started(t.path.run)' BY <1>1, <1>2, <1>3 DEF TakeOK, Ending, Started, proc
  <2>5. Taking(t) =>
          /\ offer[p] # Nothing /\ offer[p].path = t.path
          /\ t.path.dir = Nothing => \A d \in Dirs \ {t.fd} :
                IsLease(d, t.path.run)' /\ Written(d)' => dir'[d].man > offer[p].gen
    BY <1>1, <1>2, <1>3, <1>6 DEF TakeOK, Taking, IsLease, Same, Written
  <2> QED BY <1>1, <1>5, <2>2, <2>3, <2>4, <2>5 DEF TakeOK, proc, ghosts
<1>10. OfferOK(p)' BY <1>1, <1>2 DEF OfferOK, Started, proc
<1>11. \A d \in Dirs : ~Consumes(task[p], d) BY <1>1, <1>2 DEF Consumes, PlaceOK
<1>12. \A d \in Dirs : dir[d].lock \notin {p, Nobody} => dir'[d].lock = dir[d].lock
  BY <1>1, <1>6
<1>13. st[p] = "running" => dir'[own[p]].lock = dir[own[p]].lock BY <1>6, <1>7
<1>14. TypeOK' BY <1>1, <1>5, <1>6 DEF IInv, TypeOK, DirRecs, proc, ghosts
<1>15. \A d \in Dirs : ~(dir'[d].kind = "consumed"
                         /\ (dir[d].kind # "consumed" \/ Consumes(task[p], d)))
  BY <1>6, <1>11 DEF Same
<1> QED BY <1>1, <1>2, <1>5, <1>6, <1>8, <1>9, <1>10, <1>12, <1>13, <1>14, <1>15, TaskStep
        DEF ghosts

LEMMA RemoveConsumedStep == ASSUME IInv, NEW p \in Procs, RemoveConsumed(p) PROVE IInv'
<1>1. /\ task[p] # Nothing /\ task[p].do = "consume" /\ Consuming(p) = {task[p].path.dir}
      /\ task' = [task EXCEPT ![p] = Nothing]
      /\ UNCHANGED <<proc, offer, twice, settled, robbed>>
  BY DEF RemoveConsumed, Doing, Finish, Consuming
<1>2. /\ task[p] \in Tasks /\ task[p].path \in Path /\ task[p].fd \in Dirs
      /\ dir \in [Dirs -> DirRecs] /\ PlaceOK(p) /\ OfferOK(p) /\ p # Nobody
      /\ twice \subseteq left /\ robbed = {} /\ ProcOK(p)
      /\ \A r \in Procs : ProcOK(r)
  BY <1>1, TaskFacts
<1>3. /\ task[p].fd = task[p].path.dir /\ dir[task[p].fd].run = task[p].path.run
      /\ dir[task[p].fd].kind \in {"consumed", "removed"} /\ Locking(task[p])
      /\ st[p] = "running" => own[p] \in Dirs /\ task[p].fd # own[p]
  BY <1>1, <1>2 DEF PlaceOK, Locking, ProcOK
<1>4. /\ task'[p] = Nothing /\ task' \in [Procs -> Tasks \cup {Nothing}]
      /\ \A q \in Procs \ {p} : task'[q] = task[q]
  BY <1>1 DEF IInv, TypeOK
<1>5. PlaceOK(p)' /\ TakeOK(p)' BY <1>4 DEF PlaceOK, TakeOK
<1>6. OfferOK(p)' BY <1>1, <1>2 DEF OfferOK, Started, proc
<1>7. CASE dir' = Released(dir, p) /\ left' = left \cup {task[p].path.dir}
  <2>1. \A d \in Dirs : Consumes(task[p], d) => d \in left' BY <1>3, <1>7 DEF Consumes
  <2>2. left' \subseteq Dirs /\ left \subseteq left' BY <1>2, <1>3, <1>7 DEF IInv, TypeOK
  <2> QED BY <1>1, <1>3, <1>4, <1>5, <1>6, <1>7, <2>1, <2>2, ReleaseStep DEF IInv, TypeOK
<1>8. CASE dir' = Released(RemoveAt(dir, task[p].path), p) /\ left' = left
  <2> DEFINE f == RemoveAt(dir, task[p].path)
  <2>1. /\ f \in [Dirs -> DirRecs]
        /\ \A d \in Dirs : /\ f[d].run = dir[d].run /\ f[d].lock = dir[d].lock
                           /\ f[d].age = dir[d].age
                           /\ Leads(task[p].path, d) => f[d].kind = "removed" /\ f[d].man = Nothing
                           /\ ~Leads(task[p].path, d) => f[d] = dir[d]
    BY <1>2, RemoveAtEffect DEF IInv
  <2> HIDE DEF f
  <2>2. /\ dir' \in [Dirs -> DirRecs]
        /\ \A d \in Dirs : /\ dir'[d].kind = f[d].kind /\ dir'[d].run = f[d].run
                           /\ dir'[d].man = f[d].man /\ dir'[d].age = f[d].age
                           /\ d # task[p].fd => dir'[d].lock = f[d].lock
    BY <1>2, <1>8, <2>1, ReleasedEffect DEF f
  <2>3. \A d \in Dirs : Leads(task[p].path, d) <=> d = task[p].fd /\ dir[d].kind = "consumed"
    <3>1. task[p].path.dir # Nothing BY <1>2, <1>3, OffersAssumption
    <3>2. \A d \in Dirs : Leads(task[p].path, d) <=>
             \/ task[p].path.dir = Nothing /\ IsLease(d, task[p].path.run)
             \/ task[p].path.dir = d /\ Residue(d) /\ dir[d].run = task[p].path.run
      BY <1>1, TaskFacts
    <3> QED BY <1>3, <3>1, <3>2 DEF Residue
  <2>4. \A d \in Dirs \ {task[p].fd} : Same(d) BY <2>1, <2>2, <2>3 DEF Same
  <2>5. Same(task[p].fd) \/ Ends(task[p].fd)
    <3>1. CASE dir[task[p].fd].kind # "consumed" BY <1>2, <2>1, <2>2, <2>3, <3>1 DEF Same
    <3>2. CASE dir[task[p].fd].kind = "consumed"
      <4>1. \A r \in Procs : own[r] = task[p].fd => st[r] \notin {"open", "running"}
        BY <1>2, <3>2 DEF ProcOK
      <4>2. dir'[task[p].fd].kind = "removed" /\ dir'[task[p].fd].man = Nothing
            /\ dir'[task[p].fd].run = dir[task[p].fd].run
            /\ dir'[task[p].fd].age = dir[task[p].fd].age
        BY <1>2, <2>1, <2>2, <2>3, <3>2
      <4> QED BY <3>2, <4>1, <4>2 DEF Ends, There
    <3> QED BY <3>1, <3>2
  <2>6. \A d \in Dirs : dir[d].lock \notin {p, Nobody} => dir'[d].lock = dir[d].lock
    BY <1>1, <1>2, <1>3, <2>1, <2>2 DEF PlaceOK
  <2>7. st[p] = "running" => dir'[own[p]].lock = dir[own[p]].lock BY <1>3, <2>1, <2>2
  <2>8. TypeOK' BY <1>1, <1>4, <1>8, <2>2 DEF IInv, TypeOK, DirRecs, proc
  <2>9. ASSUME NEW d \in Dirs, dir'[d].kind = "consumed"
        PROVE  dir[d].kind = "consumed" /\ ~Consumes(task[p], d)
    <3>1. dir[d].kind = "consumed" BY <2>1, <2>2, <2>9
    <3>2. d # task[p].fd BY <2>1, <2>2, <2>3, <2>9, <3>1
    <3> QED BY <3>1, <3>2 DEF Consumes
  <2>10. twice' \subseteq left' /\ robbed' = {} /\ settled \subseteq settled' /\ left \subseteq left'
    BY <1>1, <1>2, <1>8
  <2>11. UNCHANGED proc /\ \A q \in Procs \ {p} : task'[q] = task[q] /\ offer'[q] = offer[q]
    BY <1>1, <1>4
  <2> QED BY <1>4, <1>5, <1>6, <2>4, <2>5, <2>6, <2>7, <2>8, <2>9, <2>10, <2>11, TaskStep
<1> QED BY <1>1, <1>7, <1>8 DEF RemoveConsumed

LEMMA SweepRemoveStep == ASSUME IInv, NEW p \in Procs, SweepRemove(p) PROVE IInv'
<1> DEFINE path == task[p].path
<1>1. /\ task[p] # Nothing /\ task[p].do = "sweep" /\ task[p].at = "remove"
      /\ settled' = settled \cup
           {dir[d].run : d \in {d \in Dirs : Leads(path, d) /\ dir[d].age # "fresh"}}
      /\ dir' = RemoveAt(dir, path) /\ task' = [task EXCEPT ![p] = Nothing]
      /\ UNCHANGED <<proc, offer, left, twice, robbed>>
  BY DEF SweepRemove, Doing, Finish
<1>2. /\ path \in Path /\ dir \in [Dirs -> DirRecs] /\ TakeOK(p) /\ OfferOK(p)
      /\ twice \subseteq left /\ robbed = {} /\ \A r \in Procs : ProcOK(r)
      /\ \A d \in Dirs : DirOK(d)
      /\ \A d \in Dirs : Leads(path, d) <=>
             \/ path.dir = Nothing /\ IsLease(d, path.run)
             \/ path.dir = d /\ Residue(d) /\ dir[d].run = path.run
  BY <1>1, TaskFacts
<1>3. /\ dir' \in [Dirs -> DirRecs]
      /\ \A d \in Dirs : /\ dir'[d].run = dir[d].run /\ dir'[d].lock = dir[d].lock
                         /\ dir'[d].age = dir[d].age
                         /\ Leads(path, d) => dir'[d].kind = "removed" /\ dir'[d].man = Nothing
                         /\ ~Leads(path, d) => dir'[d] = dir[d]
  BY <1>1, <1>2, RemoveAtEffect DEF IInv
<1>4. /\ task'[p] = Nothing /\ task' \in [Procs -> Tasks \cup {Nothing}]
      /\ \A q \in Procs \ {p} : task'[q] = task[q]
  BY <1>1 DEF IInv, TypeOK
<1>5. PlaceOK(p)' /\ TakeOK(p)' BY <1>4 DEF PlaceOK, TakeOK
<1>6. OfferOK(p)' BY <1>1, <1>2 DEF OfferOK, Started, proc
<1>7. /\ Started(path.run)
      /\ \A r \in Procs : st[r] = "running" => ~Leads(path, own[r])
      /\ path.dir = Nothing /\ path.run \notin settled =>
            \A d \in Dirs : IsLease(d, path.run) /\ dir[d].man # Nothing => dir[d].age # "fresh"
  BY <1>1, <1>2 DEF TakeOK, Ending
<1> HIDE DEF path
<1>8. ASSUME NEW d \in Dirs, Leads(path, d) PROVE Ends(d)
  <2>1. dir[d].run = path.run /\ There(d) BY <1>2, <1>8 DEF Leads, IsLease, Residue
  <2>2. \A r \in Procs : own[r] = d => st[r] # "running" BY <1>7, <1>8
  <2>3. \A r \in Procs : own[r] = d => st[r] # "open" BY <1>2, <1>7, <2>1 DEF ProcOK, Started
  <2>4. ASSUME dir[d].kind = "lease", dir[d].man # Nothing PROVE dir[d].run \in settled'
    <3>1. path.dir = Nothing /\ IsLease(d, path.run) BY <1>2, <1>8, <2>4 DEF Residue
    <3>2. path.run \in settled \/ dir[d].age # "fresh" BY <1>7, <2>4, <3>1
    <3> QED BY <1>1, <1>8, <2>1, <3>2 DEF path
  <2> QED BY <1>3, <1>8, <2>1, <2>2, <2>3, <2>4 DEF Ends
<1>9. \A d \in Dirs : Same(d) \/ Ends(d) BY <1>3, <1>8 DEF Same
<1>10. settled' \subseteq Procs
  <2>1. \A d \in Dirs : Leads(path, d) => dir[d].run \in Procs
    BY <1>2 DEF DirOK, Leads, There
  <2> QED BY <1>1, <2>1 DEF IInv, TypeOK, path
<1>11. TypeOK' BY <1>1, <1>3, <1>4, <1>10 DEF IInv, TypeOK, DirRecs, proc
<1>12. \A d \in Dirs : dir'[d].kind = "consumed" => dir[d].kind = "consumed" BY <1>3
<1>13. \A d \in Dirs : ~Consumes(task[p], d) BY <1>1 DEF Consumes
<1>14. twice' \subseteq left' /\ robbed' = {} /\ settled \subseteq settled' /\ left \subseteq left'
  BY <1>1, <1>2
<1>15. st[p] = "running" => dir'[own[p]].lock = dir[own[p]].lock BY <1>2, <1>3 DEF ProcOK
<1>16. UNCHANGED proc /\ \A q \in Procs \ {p} : task'[q] = task[q] /\ offer'[q] = offer[q]
  BY <1>1, <1>4
<1> QED BY <1>3, <1>4, <1>5, <1>6, <1>9, <1>11, <1>12, <1>13, <1>14, <1>15, <1>16, TaskStep

LEMMA InspectStep == ASSUME IInv, NEW p \in Procs, Inspect(p) PROVE IInv'
<1> DEFINE path == task[p].path
<1>1. /\ task[p] # Nothing /\ task[p].do = "look" /\ task[p].at = "read"
      /\ task' = [task EXCEPT ![p] = Nothing] /\ UNCHANGED <<proc, ghosts>>
  BY DEF Inspect, Doing, Finish
<1>2. /\ task[p] \in Tasks /\ path \in Path /\ task[p].fd \in Dirs
      /\ dir \in [Dirs -> DirRecs] /\ PlaceOK(p) /\ OfferOK(p) /\ p # Nobody
      /\ twice \subseteq left /\ robbed = {} /\ ProcOK(p)
      /\ \A r \in Procs : ProcOK(r)
      /\ \A d \in Dirs : DirOK(d)
      /\ \A d \in Dirs : Leads(path, d) <=>
             \/ path.dir = Nothing /\ IsLease(d, path.run)
             \/ path.dir = d /\ Residue(d) /\ dir[d].run = path.run
  BY <1>1, TaskFacts
<1>3. /\ Locking(task[p]) /\ dir[task[p].fd].lock = p
      /\ st[p] = "running" => own[p] \in Dirs /\ task[p].fd # own[p]
  BY <1>1, <1>2 DEF PlaceOK, Locking, ProcOK
<1>4. /\ task'[p] = Nothing /\ task' \in [Procs -> Tasks \cup {Nothing}]
      /\ \A q \in Procs \ {p} : task'[q] = task[q]
  BY <1>1 DEF IInv, TypeOK
<1>5. PlaceOK(p)' /\ TakeOK(p)' BY <1>4 DEF PlaceOK, TakeOK
<1>6. \A d \in Dirs : ~Consumes(task[p], d) BY <1>1 DEF Consumes
\* The directory has no manifest: it is set aside.
<1>7. CASE Unreadable(path)
  <2> DEFINE f == Renamed(dir, path, "quarantine")
  <2>1. dir' = Released(f, p) /\ offer' = offer BY <1>7 DEF Inspect
  <2>2. /\ f \in [Dirs -> DirRecs]
        /\ \A d \in Dirs : /\ f[d].run = dir[d].run /\ f[d].lock = dir[d].lock
                           /\ f[d].age = dir[d].age /\ f[d].man = dir[d].man
                           /\ Leads(path, d) => f[d].kind = "quarantine"
                           /\ ~Leads(path, d) => f[d] = dir[d]
    <3>1. \A d \in Dirs : [dir[d] EXCEPT !.kind = "quarantine"] \in DirRecs
      BY <1>2 DEF DirRecs
    <3>2. f = [d \in Dirs |-> IF Leads(path, d) THEN [dir[d] EXCEPT !.kind = "quarantine"]
                              ELSE dir[d]]
      BY DEF Renamed
    <3> HIDE DEF f, path
    <3> QED BY <1>2, <3>1, <3>2 DEF DirRecs
  <2> HIDE DEF f
  <2>3. /\ dir' \in [Dirs -> DirRecs]
        /\ \A d \in Dirs : /\ dir'[d].kind = f[d].kind /\ dir'[d].run = f[d].run
                           /\ dir'[d].man = f[d].man /\ dir'[d].age = f[d].age
                           /\ d # task[p].fd => dir'[d].lock = f[d].lock
    BY <1>2, <2>1, <2>2, ReleasedEffect
  <2>4. ASSUME NEW d \in Dirs, Leads(path, d), dir[d].kind # "quarantine" PROVE Ends(d)
    <3>1. dir[d].man = Nothing /\ There(d) BY <1>7, <2>4 DEF Unreadable, Leads
    <3>2. dir[d].kind = "lease" BY <1>2, <2>4, <3>1 DEF There, DirOK, Written
    <3>3. \A r \in Procs : own[r] = d => st[r] # "running" BY <1>2, <3>1, <3>2 DEF ProcOK
    <3>4. dir'[d].kind = "quarantine" /\ dir'[d].man = Nothing /\ dir'[d].run = dir[d].run
          /\ dir'[d].age = dir[d].age
      BY <2>2, <2>3, <2>4, <3>1
    <3> QED BY <3>1, <3>2, <3>3, <3>4 DEF Ends
  <2>5. \A d \in Dirs : Same(d) \/ Ends(d)
    <3> SUFFICES ASSUME NEW d \in Dirs, ~Leads(path, d) \/ dir[d].kind = "quarantine"
                 PROVE  Same(d)
      BY <2>4
    <3> QED BY <2>2, <2>3 DEF Same
  <2>6. \A d \in Dirs : dir[d].lock \notin {p, Nobody} => dir'[d].lock = dir[d].lock
    BY <1>3, <2>2, <2>3
  <2>7. st[p] = "running" => dir'[own[p]].lock = dir[own[p]].lock BY <1>3, <2>2, <2>3
  <2>8. TypeOK' BY <1>1, <1>4, <2>1, <2>3 DEF IInv, TypeOK, DirRecs, proc, ghosts
  <2>9. \A d \in Dirs : dir'[d].kind = "consumed" => dir[d].kind = "consumed"
    BY <2>2, <2>3
  <2>10. OfferOK(p)' BY <1>1, <1>2, <2>1 DEF OfferOK, Started, proc
  <2>11. UNCHANGED proc /\ \A q \in Procs \ {p} : task'[q] = task[q] /\ offer'[q] = offer[q]
    BY <1>1, <1>4, <2>1
  <2> QED BY <1>1, <1>2, <1>4, <1>5, <1>6, <2>5, <2>6, <2>7, <2>8, <2>9, <2>10, <2>11, TaskStep
          DEF ghosts
\* What it committed is offered.
<1>8. CASE ~Unreadable(path)
  <2>1. PICK d \in Dirs :
           /\ Leads(path, d) /\ dir' = Released(dir, p)
           /\ IF Offerable(dir[d].man)
              THEN offer' = [offer EXCEPT ![p] = [path |-> path, gen |-> dir[d].man]]
              ELSE UNCHANGED offer
    BY <1>8 DEF Inspect
  <2>2. dir[d].man # Nothing
    <3>1. PICK e \in Dirs : Leads(path, e) /\ dir[e].man # Nothing BY <1>8 DEF Unreadable
    <3>2. path.run \in Procs BY <1>2 DEF Path
    <3>3. e = d BY <1>2, <2>1, <3>1, <3>2, OffersAssumption DEF IInv, UniqueInv
    <3> QED BY <3>1, <3>3
  <2>3. dir[d].run = path.run BY <1>2, <2>1 DEF IsLease, Residue
  <2>4. CASE dir[d].man # 0
    <3>1. dir[d].man \in 1 .. MaxGen BY <1>2, <2>2, <2>4 DEF DirRecs
    <3>2. [path |-> path, gen |-> dir[d].man] \in [path : Path, gen : 1 .. MaxGen]
      BY <1>2, <3>1
    <3>3. offer' = [offer EXCEPT ![p] = [path |-> path, gen |-> dir[d].man]]
      BY <2>1, <2>4 DEF Offerable
    <3>4. Written(d) BY <2>2, <2>4 DEF Written
    <3>5. OfferOK(p)'
      <4>1. offer'[p] = [path |-> path, gen |-> dir[d].man] BY <3>3 DEF IInv, TypeOK
      <4>2. offer'[p].path.run = dir[d].run /\ offer'[p].gen = dir[d].man BY <2>3, <4>1
      <4>3. Ran(dir[d].run) /\ (st[dir[d].run] = "gone" \/ dir[d].man <= gen[dir[d].run])
        BY <1>2, <3>4 DEF DirOK
      <4> QED BY <1>1, <4>2, <4>3 DEF OfferOK, Started, Ran, proc
    <3>6. /\ offer' \in [Procs -> [path : Path, gen : 1 .. MaxGen] \cup {Nothing}]
          /\ \A q \in Procs \ {p} : offer'[q] = offer[q]
      BY <3>2, <3>3 DEF IInv, TypeOK
    <3> HIDE DEF path
    <3> QED BY <1>1, <1>3, <1>4, <1>5, <1>6, <2>1, <3>5, <3>6, ReleaseStep DEF IInv, TypeOK, ghosts
  <2>5. CASE dir[d].man = 0
    <3>1. offer' = offer BY <2>1, <2>5 DEF Offerable
    <3>2. OfferOK(p)' BY <1>1, <1>2, <3>1 DEF OfferOK, Started, proc
    <3> QED BY <1>1, <1>3, <1>4, <1>5, <1>6, <2>1, <3>1, <3>2, ReleaseStep DEF IInv, TypeOK, ghosts
  <2> QED BY <2>4, <2>5
<1> QED BY <1>7, <1>8

\* What a process finds under the lock, and may take.
LEMMA ConsumableFacts ==
    ASSUME IInv, NEW p \in Procs, task[p] # Nothing, Taking(task[p]), task[p].at = "read",
           NEW d \in Consumable(p)
    PROVE  /\ d = task[p].fd /\ Written(d) /\ dir[d].kind \in {"lease", "consumed"}
           /\ dir[d].run = task[p].path.run /\ dir[d].run \in Procs /\ dir[d].lock = p
           /\ dir[d].kind = "consumed" => d \in left
           /\ st[dir[d].run] = "running" => Displaced(dir[d].run)
           /\ \A r \in Procs : own[r] = d => st[r] \notin {"open", "running"}
<1>1. /\ task[p].path \in Path /\ task[p].fd \in Dirs /\ dir \in [Dirs -> DirRecs]
      /\ PlaceOK(p) /\ TakeOK(p) /\ \A r \in Procs : ProcOK(r) /\ PlaceOK(r)
      /\ \A e \in Dirs : DirOK(e) /\ ConsumedOK(e)
      /\ \A e \in Dirs : Leads(task[p].path, e) <=>
             \/ task[p].path.dir = Nothing /\ IsLease(e, task[p].path.run)
             \/ task[p].path.dir = e /\ Residue(e) /\ dir[e].run = task[p].path.run
  BY TaskFacts
<1>2. d \in Dirs /\ Leads(task[p].path, d) /\ Written(d) /\ dir[d].man = offer[p].gen
  BY DEF Consumable, Matches, Written
<1>3. dir[d].run = task[p].path.run /\ dir[d].run \in Procs
  BY <1>1, <1>2 DEF IsLease, Residue, Path
<1>4. dir[d].kind \in {"lease", "consumed"} BY <1>1, <1>2 DEF Leads, There, DirOK, Written
<1>5. d = task[p].fd
  <2>1. CASE task[p].path.dir = Nothing
    <3>1. dir[d].man \in Nat BY <1>1, <1>2 DEF DirRecs, Written
    <3>2. ~(dir[d].man > offer[p].gen) BY <1>2, <3>1
    <3>3. IsLease(d, task[p].path.run) BY <1>1, <1>2, <2>1, OffersAssumption
    <3> QED BY <1>1, <1>2, <2>1, <3>2, <3>3 DEF TakeOK
  <2>2. CASE task[p].path.dir # Nothing BY <1>1, <1>2, <2>2 DEF PlaceOK
  <2> QED BY <2>1, <2>2
<1>6. dir[d].lock = p BY <1>1, <1>5 DEF PlaceOK, Locking
<1>7. ASSUME dir[d].kind = "consumed" PROVE d \in left
  <2>1. SUFFICES ASSUME NEW q \in Procs, task[q] # Nothing, task[q].do = "consume", task[q].fd = d
                 PROVE  FALSE
    BY <1>1, <1>2, <1>7 DEF ConsumedOK
  <2>2. dir[d].lock = q BY <1>1, <2>1 DEF PlaceOK, Locking
  <2> QED BY <1>6, <2>1, <2>2 DEF Taking
<1>8. \A r \in Procs : st[r] = "running" => ~Leads(task[p].path, own[r])
  BY <1>1 DEF TakeOK, Taking, Ending
<1>9. ASSUME st[dir[d].run] = "running" PROVE Displaced(dir[d].run)
  <2>1. CASE dir[d].kind = "consumed" BY <1>1, <1>2, <1>9, <2>1 DEF ConsumedOK
  <2>2. CASE dir[d].kind = "lease"
    <3> DEFINE r == dir[d].run
    <3>1. own[r] \in Dirs /\ dir[own[r]].run = r /\ dir[own[r]].kind \in {"lease", "quarantine"}
      BY <1>1, <1>3, <1>9 DEF ProcOK
    <3>2. ~IsLease(own[r], r)
      BY <1>2, <1>3, <1>8, <1>9, <2>2, <3>1 DEF IInv, UniqueInv, IsLease
    <3> QED BY <3>1, <3>2, OffersAssumption DEF Displaced, IsLease
  <2> QED BY <1>4, <2>1, <2>2
<1>10. \A r \in Procs : own[r] = d => st[r] \notin {"open", "running"}
  <2>1. \A r \in Procs : own[r] = d => st[r] # "running" BY <1>2, <1>8
  <2>2. \A r \in Procs : own[r] = d => st[r] # "open" BY <1>1, <1>2 DEF ProcOK, DirOK, Ran
  <2> QED BY <2>1, <2>2
<1> QED BY <1>2, <1>3, <1>4, <1>5, <1>6, <1>7, <1>9, <1>10

LEMMA ConsumeStep == ASSUME IInv, NEW p \in Procs, Consume(p) PROVE IInv'
<1>1. /\ task[p] # Nothing /\ Taking(task[p]) /\ task[p].at = "read"
      /\ offer' = [offer EXCEPT ![p] = Nothing] /\ UNCHANGED <<proc, left>>
  BY DEF Consume, Doing, Taking
<1>2. PICK d \in Consumable(p) :
        /\ dir' = [dir EXCEPT ![d].kind = "consumed"]
        /\ task' = [task EXCEPT ![p] = [do |-> "consume", at |-> "remove",
                                        path |-> [run |-> dir[d].run, dir |-> d],
                                        fd |-> task[p].fd]]
        /\ twice' = IF dir[d].kind = "consumed" THEN twice \cup {d} ELSE twice
        /\ settled' = settled \cup {dir[d].run}
        /\ robbed' = robbed \cup Robbed(dir[d].run)
  BY DEF Consume
<1>3. /\ d = task[p].fd /\ Written(d) /\ dir[d].kind \in {"lease", "consumed"}
      /\ dir[d].run = task[p].path.run /\ dir[d].run \in Procs /\ dir[d].lock = p
      /\ dir[d].kind = "consumed" => d \in left
      /\ st[dir[d].run] = "running" => Displaced(dir[d].run)
      /\ \A r \in Procs : own[r] = d => st[r] \notin {"open", "running"}
  BY <1>1, ConsumableFacts
<1>4. /\ d \in Dirs /\ dir \in [Dirs -> DirRecs] /\ PlaceOK(p) /\ twice \subseteq left
      /\ robbed = {} /\ ProcOK(p) /\ st[p] \in {"running", "unprotected"}
  BY <1>1, <1>3, TaskFacts
<1>5. PICK t : t = [do |-> "consume", at |-> "remove",
                    path |-> [run |-> dir[d].run, dir |-> d], fd |-> d]
  OBVIOUS
<1>6. t \in Tasks /\ t # Nothing BY <1>3, <1>4, <1>5, NothingAssumption DEF Tasks, Path
<1>7. task' = [task EXCEPT ![p] = t] BY <1>2, <1>3, <1>5
<1>8. /\ task'[p] = t /\ task' \in [Procs -> Tasks \cup {Nothing}]
      /\ \A q \in Procs \ {p} : task'[q] = task[q]
  BY <1>6, <1>7 DEF IInv, TypeOK
<1>9. /\ dir' \in [Dirs -> DirRecs] /\ \A e \in Dirs \ {d} : dir'[e] = dir[e]
      /\ dir'[d].kind = "consumed" /\ dir'[d].run = dir[d].run /\ dir'[d].man = dir[d].man
      /\ dir'[d].age = dir[d].age /\ dir'[d].lock = dir[d].lock
  <2>1. dir[d] \in DirRecs BY <1>4
  <2>2. [dir[d] EXCEPT !.kind = "consumed"] \in DirRecs BY <2>1 DEF DirRecs
  <2>3. dir' = [dir EXCEPT ![d] = [dir[d] EXCEPT !.kind = "consumed"]] BY <1>2
  <2> QED BY <1>4, <2>1, <2>2, <2>3 DEF DirRecs
<1>10. Same(d) \/ Ends(d)
  <2>1. dir[d].kind = "consumed" => Same(d) BY <1>9 DEF Same
  <2>2. dir[d].kind = "lease" => Ends(d) BY <1>2, <1>3, <1>9 DEF Ends, There
  <2> QED BY <1>3, <2>1, <2>2
<1>11. \A e \in Dirs : Same(e) \/ Ends(e) BY <1>9, <1>10 DEF Same
<1>12. \A e \in Dirs : dir'[e].lock = dir[e].lock BY <1>9
<1>13. PlaceOK(p)'
  <2>1. st[p] = "running" => d # own[p] BY <1>3
  <2>2. t.fd = d /\ t.path.dir = d /\ t.path.run = dir[d].run /\ t.at = "remove"
    BY <1>5
  <2> QED BY <1>1, <1>3, <1>4, <1>8, <1>9, <2>1, <2>2, OffersAssumption DEF PlaceOK, proc
<1>14. TakeOK(p)'
  <2>1. t.do = "consume" BY <1>5
  <2> QED BY <1>8, <2>1 DEF TakeOK, Taking, Ending
<1>15. offer'[p] = Nothing /\ \A q \in Procs \ {p} : offer'[q] = offer[q]
  BY <1>1 DEF IInv, TypeOK
<1>16. OfferOK(p)' BY <1>15 DEF OfferOK
<1>17. twice' \subseteq left' /\ robbed' = {} /\ settled \subseteq settled' /\ left \subseteq left'
  BY <1>1, <1>2, <1>3, <1>4, SMTT(30) DEF Robbed
<1>18. TypeOK'
  BY <1>1, <1>2, <1>3, <1>4, <1>8, <1>9, <1>17 DEF IInv, TypeOK, DirRecs, proc
<1>19. \A e \in Dirs : dir'[e].kind = "consumed" /\ dir[e].kind # "consumed"
          => Consumes(task'[p], e)
  <2>1. Consumes(t, d) BY <1>5, <1>6 DEF Consumes
  <2> QED BY <1>8, <1>9, <2>1
<1>20. \A e \in Dirs : ~Consumes(task[p], e) BY <1>1 DEF Consumes, Taking
<1>21. UNCHANGED proc BY <1>1
<1> HIDE DEF Consumes
<1> QED BY <1>4, <1>8, <1>11, <1>12, <1>13, <1>14, <1>15, <1>16, <1>17, <1>18, <1>19, <1>20,
           <1>21, TaskStep DEF ProcOK

-----------------------------------------------------------------------------
(* A process writes its manifest, ends, or lets a week pass.                 *)
LEMMA WriteStep ==
    ASSUME IInv, TypeOK', NEW p \in Procs, NEW g \in 0 .. MaxGen, NEW d \in Dirs, Wrote(p, g, d),
           \/ st[p] = "open" /\ g = 0 /\ dir[own[p]].lock = Nobody
           \/ st[p] = "running" /\ g = gen[p] + 1,
           task[p] = Nothing, g >= gen[p],
           st' = [st EXCEPT ![p] = "running"], gen' = [gen EXCEPT ![p] = g],
           UNCHANGED <<own, task, offer, ghosts>>,
           \A e \in Dirs : dir'[e].lock = IF e = own[p] THEN p ELSE dir[e].lock
    PROVE  IInv'
<1>0. /\ \A r \in Procs : ProcOK(r) /\ PlaceOK(r) /\ OfferOK(r) /\ TakeOK(r) /\ KeptOK(r)
      /\ \A e \in Dirs : DirOK(e) /\ ConsumedOK(e)
      /\ \A e \in Dirs : dir[e] \in DirRecs
      /\ \A r \in Procs : gen[r] \in Nat
  BY DEF IInv, ProcInv, PlaceInv, OfferInv, TakeInv, KeptInv, DirInv, ConsumedInv, TypeOK, DirRecs
<1>1. /\ st'[p] = "running" /\ gen'[p] = g
      /\ \A r \in Procs \ {p} : st'[r] = st[r] /\ gen'[r] = gen[r]
  BY DEF IInv, TypeOK
<1>2. \A e \in Dirs \ {d} : Same(e) BY DEF Wrote, Same
<1>3. dir'[d].kind = "lease" /\ dir'[d].run = p /\ dir'[d].man = g
      /\ dir'[d].age = (IF dir[d].age = "fresh" THEN "fresh" ELSE "renewed")
      /\ dir[d].kind \in {"none", "lease"}
      /\ (IsLease(d, p) \/ (dir[d].kind = "none" /\ \A e \in Dirs : ~IsLease(e, p)))
  BY DEF Wrote, IsLease, Absent
<1>4. \A r \in Procs : /\ Started(r) => Started(r)'
                       /\ Ran(r) => Ran(r)' /\ gen[r] <= gen'[r]
                       /\ st'[r] = "gone" <=> st[r] = "gone"
                       /\ st'[r] = "off" => st[r] = "off"
  BY <1>0, <1>1 DEF Started, Ran
<1>5. \A e \in Dirs, r \in Procs : IsLease(e, r)' =>
         (IsLease(e, r) /\ Same(e) /\ e # d) \/ (r = p /\ e = d)
  BY <1>2, <1>3 DEF IsLease, Same
<1>6. DirInv'
  <2> SUFFICES ASSUME NEW e \in Dirs PROVE DirOK(e)' BY DEF DirInv
  <2>1. CASE e = d BY <1>1, <1>3, <2>1 DEF DirOK, Written, Ran
  <2>2. CASE e # d
    <3>1. /\ dir'[e].kind = dir[e].kind /\ dir'[e].run = dir[e].run
          /\ dir'[e].man = dir[e].man /\ dir'[e].age = dir[e].age /\ DirOK(e) /\ dir[e] \in DirRecs
      BY <1>0, <1>2, <2>2 DEF Same
    <3>2. dir[e].kind # "none" => dir[e].run \in Procs BY <3>1 DEF DirOK
    <3>3. Written(e) => dir[e].man \in Nat /\ dir[e].kind # "none" BY <3>1 DEF Written, DirRecs, DirOK
    <3>4. Written(e) => st'[dir[e].run] = "gone" \/ dir[e].man <= gen'[dir[e].run]
      BY <1>0, <1>1, <1>4, <3>1, <3>2, <3>3 DEF DirOK
    <3> QED BY <1>4, <3>1, <3>2, <3>3, <3>4 DEF DirOK, Written
  <2> QED BY <2>1, <2>2
<1>7. UniqueInv'
  <2>1. ASSUME NEW r \in Procs, NEW x \in Dirs, NEW y \in Dirs, IsLease(x, r)', IsLease(y, r)'
        PROVE  x = y
    <3>1. \A z \in Dirs : IsLease(z, p) => z = d
      BY <1>3 DEF IInv, UniqueInv
    <3> QED BY <1>5, <2>1, <3>1 DEF IInv, UniqueInv
  <2> QED BY <2>1 DEF UniqueInv
<1>8. own[p] \in Dirs /\ dir[own[p]].run = p /\ dir[own[p]].kind \in {"lease", "quarantine"}
  BY <1>0 DEF ProcOK
<1>9. IF own[p] = d THEN IsLease(d, p) ELSE dir[own[p]].kind = "quarantine" /\ Same(own[p])
  <2>1. IsLease(own[p], p) => own[p] = d BY <1>3, <1>8 DEF IInv, UniqueInv
  <2>2. own[p] # d => Same(own[p]) BY <1>2, <1>8
  <2> QED BY <1>3, <1>8, <2>1, <2>2 DEF IsLease
<1>10. \A r \in Procs \ {p} : st[r] \in {"open", "running"} =>
          own[r] \in Dirs /\ own[r] # d /\ own[r] # own[p] /\ Same(own[r])
          /\ dir'[own[r]].lock = dir[own[r]].lock
  <2>1. \A r \in Procs \ {p} : st[r] \in {"open", "running"} =>
           own[r] \in Dirs /\ own[r] # d /\ own[r] # own[p]
    BY <1>0, <1>3, <1>8 DEF ProcOK, IsLease
  <2> QED BY <1>2, <2>1
<1>11. ProcInv'
  <2> SUFFICES ASSUME NEW r \in Procs PROVE ProcOK(r)' BY DEF ProcInv
  <2>1. CASE r = p
    <3>1. g # Nothing BY NothingAssumption
    <3>2. dir'[own[p]].run = p /\ dir'[own[p]].kind \in {"lease", "quarantine"}
          /\ dir'[own[p]].lock = p /\ (dir'[own[p]].kind = "lease" => dir'[own[p]].man = g)
      BY <1>3, <1>8, <1>9 DEF Same
    <3> QED BY <1>1, <1>8, <2>1, <3>1, <3>2 DEF ProcOK, Ran
  <2>2. CASE r # p BY <1>0, <1>1, <1>10, <2>2 DEF ProcOK, Same, Ran
  <2> QED BY <2>1, <2>2
<1>12. PlaceInv'
  <2> SUFFICES ASSUME NEW q \in Procs, task[q] # Nothing PROVE PlaceOK(q)'
    BY DEF PlaceInv, PlaceOK
  <2>1. PlaceOK(q) /\ q # p /\ task[q].fd \in Dirs /\ q # Nobody
    BY <1>0, OffersAssumption DEF IInv, TypeOK, Tasks
  <2>2. task[q].path.dir # Nothing => task[q].fd # d /\ Same(task[q].fd)
    BY <1>2, <1>3, <2>1 DEF PlaceOK
  <2>3. Locking(task[q]) => dir'[task[q].fd].lock = q
    <3>1. dir[own[p]].lock \in {p, Nobody} BY <1>0 DEF ProcOK
    <3> QED BY <2>1, <3>1 DEF PlaceOK
  <2> QED BY <1>1, <2>1, <2>2, <2>3 DEF PlaceOK, Same
<1>13. OfferInv'
  <2> SUFFICES ASSUME NEW q \in Procs, offer[q] # Nothing PROVE OfferOK(q)'
    BY DEF OfferInv, OfferOK
  <2>1. offer[q].path.run \in Procs /\ offer[q].gen \in Nat BY DEF IInv, TypeOK, Path
  <2>2. gen'[offer[q].path.run] \in Nat BY <1>0, <1>1, <2>1
  <2> QED BY <1>0, <1>4, <2>1, <2>2 DEF OfferOK
<1>14. TakeInv'
  <2> SUFFICES ASSUME NEW q \in Procs, task[q] # Nothing PROVE TakeOK(q)'
    BY DEF TakeInv, TakeOK
  <2>1. TakeOK(q) /\ q # p /\ task[q].path \in Path /\ task[q].path.run \in Procs
    BY <1>0 DEF IInv, TypeOK, Tasks, Path
  <2>2. Ending(task[q]) => Started(task[q].path.run)' BY <1>4, <2>1 DEF TakeOK
  <2>3. ASSUME Ending(task[q]), NEW r \in Procs, st'[r] = "running", Leads(task[q].path, own[r])'
        PROVE  task[q].fd = own[r] /\ task[q].at = "lock"
    <3>1. CASE st[r] = "running"
      <4>1. dir'[own[r]].kind = dir[own[r]].kind /\ dir'[own[r]].run = dir[own[r]].run
        BY <1>3, <1>8, <1>9, <1>10, <3>1 DEF Same, IsLease
      <4>2. Leads(task[q].path, own[r]) BY <2>3, <4>1 DEF Leads, There, PathOf, Lease
      <4> QED BY <2>1, <2>3, <3>1, <4>2 DEF TakeOK
    <3>2. CASE st[r] # "running"
      <4>1. r = p /\ st[p] = "open" BY <1>1, <2>3, <3>2
      <4>2. dir'[own[p]].run = p BY <1>3, <1>8, <1>9 DEF Same
      <4>3. PathOf(own[r])'.run = p BY <4>1, <4>2 DEF PathOf, Lease
      <4>4. task[q].path.run = p BY <2>3, <4>3 DEF Leads
      <4> QED BY <2>1, <2>3, <4>1, <4>4 DEF TakeOK, Started
    <3> QED BY <3>1, <3>2
  <2>4. ASSUME Taking(task[q]), task[q].path.dir = Nothing, NEW e \in Dirs \ {task[q].fd},
               IsLease(e, task[q].path.run)', Written(e)'
        PROVE  dir'[e].man > offer[q].gen
    <3>1. CASE e # d
      <4>1. IsLease(e, task[q].path.run) /\ Same(e) BY <1>5, <2>1, <2>4, <3>1
      <4> QED BY <2>1, <2>4, <4>1 DEF TakeOK, Written, Same
    <3>2. CASE e = d
      <4>1. task[q].path.run = p /\ dir'[e].man = g /\ g # 0
        BY <1>3, <2>4, <3>2 DEF IsLease, Written
      <4>2. st[p] = "running" /\ g = gen[p] + 1 BY <4>1
      <4>3. offer[q] # Nothing /\ offer[q].path.run = p BY <2>1, <2>4, <4>1 DEF TakeOK
      <4>4. offer[q].gen <= gen[p] /\ offer[q].gen \in Nat
        BY <1>0, <4>2, <4>3 DEF OfferOK, IInv, TypeOK
      <4> QED BY <1>0, <4>1, <4>2, <4>4
    <3> QED BY <3>1, <3>2
  <2>5. ASSUME task[q].do = "sweep", task[q].path.dir = Nothing, task[q].path.run \notin settled,
               NEW e \in Dirs, IsLease(e, task[q].path.run)', dir'[e].man # Nothing
        PROVE  dir'[e].age # "fresh"
    <3>1. CASE e # d
      <4>1. IsLease(e, task[q].path.run) /\ Same(e) BY <1>5, <2>1, <2>5, <3>1
      <4> QED BY <2>1, <2>5, <4>1 DEF TakeOK, Same
    <3>2. CASE e = d
      <4>1. task[q].path.run = p BY <1>3, <2>5, <3>2 DEF IsLease
      <4>2. st[p] = "running" BY <2>1, <2>5, <4>1 DEF TakeOK, Ending, Started
      <4>3. PICK x \in Dirs : IsLease(x, p) /\ dir[x].man = gen[p]
        BY <1>0, <2>5, <4>1, <4>2 DEF KeptOK, Ran
      <4>4. x = d /\ gen[p] # Nothing
        BY <1>0, <1>3, <4>3, NothingAssumption DEF IInv, UniqueInv
      <4>5. dir[d].age # "fresh" BY <2>1, <2>5, <4>1, <4>3, <4>4 DEF TakeOK
      <4> QED BY <1>3, <3>2, <4>5
    <3> QED BY <3>1, <3>2
  <2>6. Taking(task[q]) => offer[q] # Nothing /\ offer[q].path = task[q].path
    BY <2>1 DEF TakeOK
  <2> QED BY <2>2, <2>3, <2>4, <2>5, <2>6 DEF TakeOK, ghosts
<1>15. ConsumedInv'
  <2>1. ASSUME NEW e \in Dirs, dir'[e].kind = "consumed"
        PROVE  /\ e \in left' \/ \E q \in Procs : Consumes(task'[q], e)
               /\ (st[dir[e].run] = "running" => Displaced(dir[e].run))'
    <3>1. e # d /\ Same(e) BY <1>2, <1>3, <2>1
    <3>2. ConsumedOK(e) /\ dir[e].kind = "consumed" /\ dir[e].run \in Procs /\ Ran(dir[e].run)
      BY <1>0, <2>1, <3>1 DEF Same, DirOK
    <3>3. e \in left' \/ \E q \in Procs : Consumes(task'[q], e)
      BY <3>2 DEF ConsumedOK, Consumes, ghosts
    <3> DEFINE r == dir[e].run
    <3>4. st'[r] = "running" => st[r] = "running" BY <1>1, <3>2 DEF Ran
    <3>5. st[r] = "running" => own[r] \in Dirs /\ dir[own[r]].kind = "quarantine"
      BY <1>0, <3>2 DEF ConsumedOK, Displaced, ProcOK
    <3>6. st[r] = "running" => dir'[own[r]].kind = "quarantine"
      BY <1>2, <1>3, <3>5 DEF Same
    <3>7. dir'[e].run = r BY <3>1 DEF Same
    <3> HIDE DEF r
    <3>8. st'[r] = "running" => own'[r] # Nothing /\ dir'[own'[r]].kind = "quarantine"
      BY <3>4, <3>5, <3>6, OffersAssumption
    <3> QED BY <3>3, <3>7, <3>8 DEF Displaced
  <2> QED BY <2>1 DEF ConsumedInv, ConsumedOK, Consumes, IInv, ghosts
<1>16. KeptInv'
  <2> SUFFICES ASSUME NEW r \in Procs, Ran(r)', r \notin settled, st'[r] = "gone" => gen'[r] > 0
               PROVE  \E e \in Dirs : IsLease(e, r)' /\ dir'[e].man = gen'[r]
    BY DEF KeptInv, KeptOK, ghosts
  <2>1. CASE r = p BY <1>1, <1>3, <2>1 DEF IsLease
  <2>2. CASE r # p
    <3>1. PICK e \in Dirs : IsLease(e, r) /\ dir[e].man = gen[r]
      BY <1>0, <1>1, <2>2 DEF KeptOK, Ran
    <3>2. e # d BY <1>3, <2>2, <3>1 DEF IsLease
    <3> QED BY <1>1, <1>2, <2>2, <3>1, <3>2 DEF IsLease, Same
  <2> QED BY <2>1, <2>2
<1> QED BY <1>6, <1>7, <1>11, <1>12, <1>13, <1>14, <1>15, <1>16 DEF IInv

LEMMA TakeLeaseStep == ASSUME IInv, NEW p \in Procs, TakeLease(p) PROVE IInv'
<1> DEFINE f == Locked(dir, own[p], p)
<1>1. /\ st[p] = "open" /\ dir[own[p]].lock = Nobody /\ st' = [st EXCEPT ![p] = "running"]
      /\ WriteManifest(f, p, 0) /\ UNCHANGED <<own, gen, task, offer, ghosts>>
  BY DEF TakeLease
<1>2. gen[p] = 0 /\ task[p] = Nothing /\ own[p] \in Dirs
  BY <1>1 DEF IInv, ProcInv, ProcOK, Ran, TypeOK
<1>3. /\ f \in [Dirs -> DirRecs]
      /\ \A d \in Dirs : /\ f[d].kind = dir[d].kind /\ f[d].run = dir[d].run
                         /\ f[d].man = dir[d].man /\ f[d].age = dir[d].age
                         /\ f[d].lock = IF d = own[p] THEN p ELSE dir[d].lock
  <2>1. \A d \in Dirs : dir[d] \in DirRecs BY DEF IInv, TypeOK, DirRecs
  <2>2. [dir[own[p]] EXCEPT !.lock = p] \in DirRecs BY <1>2, <2>1 DEF DirRecs
  <2>3. f = [dir EXCEPT ![own[p]] = [dir[own[p]] EXCEPT !.lock = p]] BY DEF Locked
  <2>4. dir \in [Dirs -> DirRecs] BY DEF IInv, TypeOK, DirRecs
  <2> HIDE DEF f
  <2> QED BY <1>2, <2>1, <2>2, <2>3, <2>4 DEF DirRecs
<1> HIDE DEF f
<1>4. 0 \in 0 .. MaxGen BY OffersAssumption
<1>5. /\ dir' \in [Dirs -> DirRecs] /\ \A d \in Dirs : dir'[d].lock = f[d].lock
      /\ \E d \in Dirs : Wrote(p, 0, d)
  BY <1>1, <1>3, <1>4, WriteEffect DEF IInv
<1>6. PICK d \in Dirs : Wrote(p, 0, d) BY <1>5
<1>7. TypeOK' BY <1>1, <1>5 DEF IInv, TypeOK, DirRecs, ghosts
<1>8. gen' = [gen EXCEPT ![p] = 0] BY <1>1, <1>2 DEF IInv, TypeOK
<1>9. \A e \in Dirs : dir'[e].lock = IF e = own[p] THEN p ELSE dir[e].lock BY <1>3, <1>5
<1>10. 0 >= gen[p] BY <1>2
<1>11. UNCHANGED <<own, task, offer, ghosts>> BY <1>1
<1> HIDE DEF f
<1> QED BY <1>1, <1>2, <1>4, <1>6, <1>7, <1>8, <1>9, <1>10, <1>11, WriteStep

LEMMA CommitStep == ASSUME IInv, NEW p \in Procs, Commit(p) PROVE IInv'
<1>1. /\ st[p] = "running" /\ task[p] = Nothing /\ gen[p] < MaxGen
      /\ gen' = [gen EXCEPT ![p] = gen[p] + 1] /\ WriteManifest(dir, p, gen[p] + 1)
      /\ UNCHANGED <<st, own, task, offer, ghosts>>
  BY DEF Commit
<1>2. gen[p] + 1 \in 0 .. MaxGen /\ gen[p] + 1 >= gen[p]
  BY <1>1, OffersAssumption DEF IInv, TypeOK
<1>3. dir \in [Dirs -> DirRecs] BY DEF IInv, TypeOK, DirRecs
<1>4. /\ dir' \in [Dirs -> DirRecs] /\ \A d \in Dirs : dir'[d].lock = dir[d].lock
      /\ \E d \in Dirs : Wrote(p, gen[p] + 1, d)
  BY <1>1, <1>2, <1>3, WriteEffect DEF IInv
<1>5. PICK d \in Dirs : Wrote(p, gen[p] + 1, d) BY <1>4
<1>6. TypeOK' BY <1>1, <1>2, <1>4 DEF IInv, TypeOK, DirRecs, ghosts
<1>7. dir[own[p]].lock = p BY <1>1 DEF IInv, ProcInv, ProcOK
<1>8. st' = [st EXCEPT ![p] = "running"] BY <1>1 DEF IInv, TypeOK
<1> QED BY <1>1, <1>2, <1>4, <1>5, <1>6, <1>7, <1>8, WriteStep

LEMMA EndStep ==
    ASSUME IInv, TypeOK', NEW p \in Procs, st[p] \notin {"off", "gone"},
           st' = [st EXCEPT ![p] = "gone"], UNCHANGED <<own, offer, twice, settled, robbed>>,
           \A r \in Procs \ {p} : gen'[r] = gen[r] /\ task'[r] = task[r],
           gen'[p] = gen[p] \/ gen'[p] = 0, task'[p] = Nothing,
           left \subseteq left', \A d \in Dirs : Consumes(task[p], d) => d \in left',
           \A d \in Dirs : /\ dir'[d].run = dir[d].run /\ dir'[d].age = dir[d].age
                           /\ dir[d].lock # p => dir'[d].lock = dir[d].lock
                           /\ \/ dir'[d].kind = dir[d].kind /\ dir'[d].man = dir[d].man
                              \/ /\ IsLease(d, p) /\ gen'[p] = 0
                                 /\ dir'[d].kind = "removed" /\ dir'[d].man = Nothing
    PROVE  IInv'
<1>0. /\ \A r \in Procs : ProcOK(r) /\ PlaceOK(r) /\ OfferOK(r) /\ TakeOK(r) /\ KeptOK(r)
      /\ \A e \in Dirs : DirOK(e) /\ ConsumedOK(e)
  BY DEF IInv, ProcInv, PlaceInv, OfferInv, TakeInv, KeptInv, DirInv, ConsumedInv
<1>1. st'[p] = "gone" /\ \A r \in Procs \ {p} : st'[r] = st[r] BY DEF IInv, TypeOK
<1>2. \A e \in Dirs : ~IsLease(e, p) => Same(e) BY DEF Same
<1>3. \A e \in Dirs, r \in Procs : IsLease(e, r)' => IsLease(e, r) /\ Same(e)
  BY DEF IsLease, Same
<1>4. \A r \in Procs : /\ Started(r) => Started(r)'
                       /\ Ran(r) => Ran(r)'
                       /\ st'[r] = "off" => st[r] = "off"
                       /\ st'[r] \in {"open", "running"} => r # p /\ st[r] = st'[r]
  BY <1>1 DEF Started, Ran
<1>5. \A r \in Procs : st'[r] \in {"open", "running"} =>
          own[r] \in Dirs /\ Same(own[r]) /\ (dir[own[r]].lock = r => dir'[own[r]].lock = r)
  BY <1>0, <1>2, <1>4 DEF ProcOK, IsLease
<1>6. DirInv'
  <2> SUFFICES ASSUME NEW e \in Dirs PROVE DirOK(e)' BY DEF DirInv
  <2>1. DirOK(e) BY <1>0
  <2>2. dir[e].run \in Procs \ {p} => st'[dir[e].run] = st[dir[e].run]
                                     /\ gen'[dir[e].run] = gen[dir[e].run]
    BY <1>1
  <2>3. (st'[dir[e].run] = "gone" \/ dir[e].man <= gen'[dir[e].run])
        \/ ~(st[dir[e].run] = "gone" \/ dir[e].man <= gen[dir[e].run])
        \/ dir[e].run \notin Procs
    BY <1>1, <2>2
  <2>4. dir[e].kind = "none" \/ dir[e].run \in Procs BY <2>1 DEF DirOK
  <2> QED BY <1>4, <2>1, <2>3, <2>4 DEF DirOK, Written, IsLease
<1>7. UniqueInv' BY <1>3 DEF UniqueInv, IInv
<1>8. ProcInv'
  <2> SUFFICES ASSUME NEW r \in Procs PROVE ProcOK(r)' BY DEF ProcInv
  <2>1. CASE r = p BY <1>1, <2>1 DEF ProcOK, Ran
  <2>2. CASE r # p BY <1>0, <1>1, <1>5, <2>2 DEF ProcOK, Same, Ran
  <2> QED BY <2>1, <2>2
<1>9. PlaceInv'
  <2> SUFFICES ASSUME NEW q \in Procs, q # p, task[q] # Nothing PROVE PlaceOK(q)'
    BY DEF PlaceInv, PlaceOK
  <2>1. PlaceOK(q) /\ task[q].fd \in Dirs BY <1>0 DEF IInv, TypeOK, Tasks
  <2>2. task[q].path.dir # Nothing => Same(task[q].fd) BY <1>2, <2>1 DEF PlaceOK, IsLease
  <2>3. dir[task[q].fd].lock = q => dir'[task[q].fd].lock = q BY <2>1
  <2> QED BY <1>1, <2>1, <2>2, <2>3 DEF PlaceOK, Same
<1>10. OfferInv'
  <2> SUFFICES ASSUME NEW q \in Procs, offer[q] # Nothing PROVE OfferOK(q)'
    BY DEF OfferInv, OfferOK
  <2>1. offer[q].path.run \in Procs BY DEF IInv, TypeOK, Path
  <2> QED BY <1>0, <1>1, <1>4, <2>1 DEF OfferOK
<1>11. TakeInv'
  <2> SUFFICES ASSUME NEW q \in Procs, q # p, task[q] # Nothing PROVE TakeOK(q)'
    BY DEF TakeInv, TakeOK
  <2>1. TakeOK(q) /\ task[q].path.run \in Procs BY <1>0 DEF IInv, TypeOK, Tasks, Path
  <2>2. \A r \in Procs : st'[r] = "running" =>
           (Leads(task[q].path, own[r])' <=> Leads(task[q].path, own[r]))
    BY <1>5 DEF Leads, There, PathOf, Lease, Same
  <2>3. Ending(task[q]) => /\ Started(task[q].path.run)'
                           /\ \A r \in Procs : st'[r] = "running" /\ Leads(task[q].path, own[r])'
                                => task[q].fd = own[r] /\ task[q].at = "lock"
    BY <1>4, <2>1, <2>2 DEF TakeOK
  <2>4. Taking(task[q]) =>
          /\ offer[q] # Nothing /\ offer[q].path = task[q].path
          /\ task[q].path.dir = Nothing => \A e \in Dirs \ {task[q].fd} :
                IsLease(e, task[q].path.run)' /\ Written(e)' => dir'[e].man > offer[q].gen
    BY <1>3, <2>1 DEF TakeOK, Written, Same
  <2>5. task[q].do = "sweep" /\ task[q].path.dir = Nothing /\ task[q].path.run \notin settled
          => \A e \in Dirs : IsLease(e, task[q].path.run)' /\ dir'[e].man # Nothing
                => dir'[e].age # "fresh"
    BY <1>3, <2>1 DEF TakeOK, Same
  <2> QED BY <2>1, <2>3, <2>4, <2>5 DEF TakeOK
<1>12. ConsumedInv'
  <2>1. ASSUME NEW e \in Dirs, dir'[e].kind = "consumed"
        PROVE  /\ e \in left' \/ \E q \in Procs : Consumes(task'[q], e)
               /\ (st[dir[e].run] = "running" => Displaced(dir[e].run))'
    <3>1. dir[e].kind = "consumed" /\ dir'[e].run = dir[e].run /\ dir[e].run \in Procs
      BY <1>0, <2>1 DEF DirOK
    <3>2. e \in left \/ \E q \in Procs : Consumes(task[q], e)
      BY <1>0, <3>1 DEF ConsumedOK, Consumes
    <3>3. e \in left' \/ \E q \in Procs : Consumes(task'[q], e)
      BY <3>2 DEF Consumes
    <3> DEFINE r == dir[e].run
    <3>4. st'[r] = "running" => Displaced(r) /\ Same(own[r])
      BY <1>0, <1>4, <1>5, <3>1 DEF ConsumedOK
    <3>5. st'[r] = "running" => own'[r] # Nothing /\ dir'[own'[r]].kind = "quarantine"
      BY <3>4 DEF Displaced, Same
    <3> HIDE DEF r
    <3>6. dir'[e].run = r BY <3>1 DEF r
    <3> QED BY <3>3, <3>5, <3>6 DEF Displaced
  <2>2. twice' \subseteq left' /\ robbed' = {} BY DEF IInv, ConsumedInv
  <2> QED BY <2>1, <2>2 DEF ConsumedInv, ConsumedOK, Consumes
<1>13. KeptInv'
  <2> SUFFICES ASSUME NEW r \in Procs, Ran(r)', r \notin settled, st'[r] = "gone" => gen'[r] > 0
               PROVE  \E e \in Dirs : IsLease(e, r)' /\ dir'[e].man = gen'[r]
    BY DEF KeptInv, KeptOK
  <2>1. CASE r # p
    <3>1. PICK e \in Dirs : IsLease(e, r) /\ dir[e].man = gen[r]
      BY <1>0, <1>1, <2>1 DEF KeptOK, Ran
    <3>2. ~IsLease(e, p) BY <2>1, <3>1 DEF IsLease
    <3> QED BY <1>2, <2>1, <3>1, <3>2 DEF IsLease, Same
  <2>2. CASE r = p
    <3>1. gen'[p] = gen[p] /\ gen'[p] # 0 /\ gen[p] > 0 BY <1>1, <2>2
    <3>2. PICK e \in Dirs : IsLease(e, p) /\ dir[e].man = gen[p]
      BY <1>0, <2>2, <3>1 DEF KeptOK, ProcOK
    <3> QED BY <2>2, <3>1, <3>2 DEF IsLease
  <2> QED BY <2>1, <2>2
<1> QED BY <1>6, <1>7, <1>8, <1>9, <1>10, <1>11, <1>12, <1>13 DEF IInv

LEMMA ExitStep == ASSUME IInv, NEW p \in Procs, Exit(p) PROVE IInv'
<1> DEFINE f == IF st[p] = "running" THEN RemoveAt(dir, Lease(p)) ELSE dir
<1>1. /\ st[p] \in {"running", "unprotected"} /\ task[p] = Nothing
      /\ dir' = Unlocked(f, p) /\ st' = [st EXCEPT ![p] = "gone"]
      /\ gen' = [gen EXCEPT ![p] = 0] /\ UNCHANGED <<own, task, offer, ghosts>>
  BY DEF Exit, Free
<1>2. TypeOK /\ dir \in [Dirs -> DirRecs] BY DEF IInv, TypeOK, DirRecs
<1>3. Lease(p) \in Path /\ \A d \in Dirs : Leads(Lease(p), d) <=> IsLease(d, p)
  BY <1>2, LeaseType, LeadsMeans, OffersAssumption
<1>4. /\ f \in [Dirs -> DirRecs]
      /\ \A d \in Dirs : /\ f[d].run = dir[d].run /\ f[d].age = dir[d].age
                         /\ f[d].lock = dir[d].lock
                         /\ \/ f[d].kind = dir[d].kind /\ f[d].man = dir[d].man
                            \/ IsLease(d, p) /\ f[d].kind = "removed" /\ f[d].man = Nothing
  <2>1. CASE st[p] = "running" BY <1>2, <1>3, <2>1, RemoveAtEffect
  <2>2. CASE st[p] # "running" BY <1>2, <2>2
  <2> QED BY <2>1, <2>2
<1> HIDE DEF f
<1>5. /\ dir' \in [Dirs -> DirRecs]
      /\ \A d \in Dirs : /\ dir'[d].kind = f[d].kind /\ dir'[d].run = f[d].run
                         /\ dir'[d].man = f[d].man /\ dir'[d].age = f[d].age
                         /\ f[d].lock # p => dir'[d].lock = f[d].lock
  BY <1>1, <1>4, UnlockedEffect
<1>6. gen'[p] = 0 /\ \A r \in Procs \ {p} : gen'[r] = gen[r] BY <1>1, <1>2 DEF TypeOK
<1>7. \A d \in Dirs : /\ dir'[d].run = dir[d].run /\ dir'[d].age = dir[d].age
                      /\ dir[d].lock # p => dir'[d].lock = dir[d].lock
                      /\ \/ dir'[d].kind = dir[d].kind /\ dir'[d].man = dir[d].man
                         \/ /\ IsLease(d, p) /\ gen'[p] = 0
                            /\ dir'[d].kind = "removed" /\ dir'[d].man = Nothing
  BY <1>4, <1>5, <1>6
<1>8. TypeOK' BY <1>1, <1>2, <1>5, OffersAssumption DEF TypeOK, DirRecs, ghosts
<1>9. UNCHANGED <<own, offer, twice, settled, robbed>> /\ left' = left /\ task' = task
  BY <1>1 DEF ghosts
<1>10. \A d \in Dirs : ~Consumes(task[p], d) BY <1>1 DEF Consumes
<1>11. st[p] \notin {"off", "gone"} BY <1>1
<1> HIDE DEF Consumes
<1> QED BY <1>1, <1>6, <1>7, <1>8, <1>9, <1>10, <1>11, EndStep

LEMMA CrashStep == ASSUME IInv, NEW p \in Procs, Crash(p) PROVE IInv'
<1>1. /\ st[p] \notin {"off", "gone"} /\ dir' = Unlocked(dir, p)
      /\ st' = [st EXCEPT ![p] = "gone"] /\ task' = [task EXCEPT ![p] = Nothing]
      /\ left' = left \cup Consuming(p) /\ UNCHANGED <<own, gen, offer, twice, settled, robbed>>
  BY DEF Crash
<1>2. TypeOK /\ dir \in [Dirs -> DirRecs] BY DEF IInv, TypeOK, DirRecs
<1>3. /\ dir' \in [Dirs -> DirRecs]
      /\ \A d \in Dirs : /\ dir'[d].kind = dir[d].kind /\ dir'[d].run = dir[d].run
                         /\ dir'[d].man = dir[d].man /\ dir'[d].age = dir[d].age
                         /\ dir[d].lock # p => dir'[d].lock = dir[d].lock
  BY <1>1, <1>2, UnlockedEffect
<1>4. \A d \in Dirs : Consumes(task[p], d) => d \in Consuming(p)
  BY DEF Consumes, Consuming, Doing, IInv, PlaceInv, PlaceOK
<1>5. Consuming(p) \subseteq Dirs
  BY DEF Consuming, Doing, IInv, PlaceInv, PlaceOK, TypeOK, Tasks
<1>6. TypeOK' BY <1>1, <1>2, <1>3, <1>5 DEF TypeOK, DirRecs
<1>7. task'[p] = Nothing /\ \A r \in Procs \ {p} : gen'[r] = gen[r] /\ task'[r] = task[r]
  BY <1>1, <1>2 DEF TypeOK
<1>8. left \subseteq left' /\ \A d \in Dirs : Consumes(task[p], d) => d \in left'
  BY <1>1, <1>4
<1>9. gen'[p] = gen[p] /\ UNCHANGED <<own, offer, twice, settled, robbed>> BY <1>1
<1>10. \A d \in Dirs : /\ dir'[d].run = dir[d].run /\ dir'[d].age = dir[d].age
                       /\ dir[d].lock # p => dir'[d].lock = dir[d].lock
                       /\ \/ dir'[d].kind = dir[d].kind /\ dir'[d].man = dir[d].man
                          \/ /\ IsLease(d, p) /\ gen'[p] = 0
                             /\ dir'[d].kind = "removed" /\ dir'[d].man = Nothing
  BY <1>3
<1>11. st[p] \notin {"off", "gone"} BY <1>1
<1>12. st' = [st EXCEPT ![p] = "gone"] BY <1>1
<1> HIDE DEF Consumes, Consuming
<1> QED BY <1>6, <1>7, <1>8, <1>9, <1>10, <1>11, <1>12, EndStep

LEMMA AgeStep == ASSUME IInv, NEW d \in Dirs, Age(d) PROVE IInv'
<1>0. /\ \A r \in Procs : ProcOK(r) /\ PlaceOK(r) /\ TakeOK(r) /\ KeptOK(r)
      /\ \A e \in Dirs : DirOK(e) /\ ConsumedOK(e)
  BY DEF IInv, ProcInv, PlaceInv, TakeInv, KeptInv, DirInv, ConsumedInv
<1>1. /\ There(d) /\ st[dir[d].run] \notin {"made", "open"}
      /\ dir' = [dir EXCEPT ![d].age = "old"] /\ UNCHANGED <<proc, task, offer, ghosts>>
  BY DEF Age
<1>2. dir \in [Dirs -> DirRecs] BY DEF IInv, TypeOK, DirRecs
<1>3. /\ dir' \in [Dirs -> DirRecs]
      /\ \A e \in Dirs : /\ dir'[e].kind = dir[e].kind /\ dir'[e].run = dir[e].run
                         /\ dir'[e].man = dir[e].man /\ dir'[e].lock = dir[e].lock
                         /\ dir'[e].age = IF e = d THEN "old" ELSE dir[e].age
  <2>1. [dir[d] EXCEPT !.age = "old"] \in DirRecs BY <1>2 DEF DirRecs
  <2>2. dir' = [dir EXCEPT ![d] = [dir[d] EXCEPT !.age = "old"]] BY <1>1
  <2>3. dir[d] \in DirRecs BY <1>2
  <2> QED BY <1>2, <2>1, <2>2, <2>3 DEF DirRecs
<1>4. TypeOK' BY <1>1, <1>3 DEF IInv, TypeOK, DirRecs, proc, ghosts
<1>5. UNCHANGED <<st, own, gen, task, offer, left, twice, settled, robbed>>
  BY <1>1 DEF proc, ghosts
<1>6. DirInv'
  <2>1. Started(dir[d].run) BY <1>0, <1>1 DEF There, DirOK, Started
  <2> QED BY <1>0, <1>1, <1>3, <1>5, <2>1 DEF DirInv, DirOK, There, Written, Ran, Started
<1>7. UniqueInv' BY <1>3 DEF IInv, UniqueInv, IsLease
<1>8. ProcInv' BY <1>0, <1>3, <1>5 DEF ProcInv, ProcOK, Ran
<1>9. PlaceInv'
  <2>1. \A q \in Procs : task[q] # Nothing => task[q].fd \in Dirs BY DEF IInv, TypeOK, Tasks
  <2> QED BY <1>0, <1>3, <1>5, <2>1 DEF PlaceInv, PlaceOK
<1>10. OfferInv' BY <1>5 DEF IInv, OfferInv, OfferOK, Started
<1>11. TakeInv'
  <2> SUFFICES ASSUME NEW q \in Procs, task[q] # Nothing PROVE TakeOK(q)'
    BY <1>5 DEF TakeInv, TakeOK
  <2>1. \A r \in Procs : st[r] = "running" =>
           (Leads(task[q].path, own[r])' <=> Leads(task[q].path, own[r]))
    BY <1>0, <1>3, <1>5 DEF ProcOK, Leads, There, PathOf, Lease
  <2>2. \A e \in Dirs, r \in Procs : IsLease(e, r)' <=> IsLease(e, r) BY <1>3 DEF IsLease
  <2>3. task[q].path.run \in Procs BY DEF IInv, TypeOK, Tasks, Path
  <2> QED BY <1>0, <1>3, <1>5, <2>1, <2>2, <2>3 DEF TakeOK, Started, Written
<1>12. ConsumedInv'
  <2>1. \A r \in Procs : st[r] = "running" /\ Displaced(r) => Displaced(r)'
    BY <1>0, <1>3, <1>5 DEF ProcOK, Displaced
  <2>2. \A e \in Dirs : dir[e].kind = "consumed" => dir[e].run \in Procs BY <1>0 DEF DirOK
  <2>3. twice' \subseteq left' /\ robbed' = {} BY <1>5 DEF IInv, ConsumedInv
  <2> QED BY <1>0, <1>3, <1>5, <2>1, <2>2, <2>3 DEF ConsumedInv, ConsumedOK
<1>13. KeptInv' BY <1>0, <1>3, <1>5 DEF KeptInv, KeptOK, Ran, IsLease
<1> QED BY <1>4, <1>6, <1>7, <1>8, <1>9, <1>10, <1>11, <1>12, <1>13 DEF IInv

LEMMA StutterStep == ASSUME IInv, UNCHANGED vars PROVE IInv'
<1>1. TypeOK' /\ DirInv' /\ UniqueInv' /\ ProcInv' /\ OfferInv'
  BY DEF vars, IInv, TypeOK, DirInv, DirOK, UniqueInv, IsLease, ProcInv, ProcOK, OfferInv, OfferOK,
         Written, Ran, Started
<1>2. PlaceInv' BY DEF vars, IInv, PlaceInv, PlaceOK
<1>3. TakeInv'
  BY DEF vars, IInv, TakeInv, TakeOK, Started, Written, IsLease, Leads, There, PathOf
<1>4. ConsumedInv' /\ KeptInv'
  BY DEF vars, IInv, ConsumedInv, ConsumedOK, Displaced, KeptInv, KeptOK, Ran, IsLease
<1> QED BY <1>1, <1>2, <1>3, <1>4 DEF IInv

LEMMA InitInv == Init => IInv
<1> SUFFICES ASSUME Init PROVE IInv OBVIOUS
<1>1. \A d \in Dirs : dir[d] = Absent BY DEF Init
<1>2. \A r \in Procs : st[r] = "off" /\ gen[r] = 0 /\ task[r] = Nothing /\ offer[r] = Nothing
  BY DEF Init
<1>3. TypeOK
  <2>1. 0 \in 0 .. MaxGen BY OffersAssumption
  <2>2. Absent \in DirRecs BY DEF Absent, DirRecs
  <2> QED BY <2>1, <2>2 DEF Init, TypeOK, DirRecs
<1>4. DirInv /\ UniqueInv BY <1>1 DEF DirInv, DirOK, Written, UniqueInv, IsLease, Absent
<1>5. ProcInv /\ PlaceInv /\ OfferInv /\ TakeInv /\ KeptInv
  BY <1>2 DEF ProcInv, ProcOK, PlaceInv, PlaceOK, OfferInv, OfferOK, TakeInv, TakeOK, KeptInv,
              KeptOK, Ran
<1>6. ConsumedInv BY <1>1 DEF Init, ConsumedInv, ConsumedOK, Absent
<1> QED BY <1>3, <1>4, <1>5, <1>6 DEF IInv

(* Every step of a process or of the clock keeps the invariant.              *)
LEMMA NextStep == ASSUME IInv, [Next]_vars PROVE IInv'
<1>1. ASSUME NEW p \in Procs, MakeDir(p) \/ OpenLease(p) \/ TakeLease(p) \/ NoLease(p)
                               \/ Commit(p) \/ Exit(p) \/ Crash(p)
      PROVE  IInv'
  BY <1>1, MakeDirStep, OpenLeaseStep, TakeLeaseStep, NoLeaseStep, CommitStep, ExitStep, CrashStep
<1>2. ASSUME NEW p \in Procs, Look(p) \/ Recover(p) \/ Sweep(p) \/ TryLock(p) \/ Busy(p)
                               \/ Inspect(p) \/ Consume(p) \/ Changed(p)
      PROVE  IInv'
  BY <1>2, LookStep, RecoverStep, SweepStep, TryLockStep, BusyStep, InspectStep, ConsumeStep,
     ChangedStep
<1>3. ASSUME NEW p \in Procs, RemoveConsumed(p) \/ SweepUnlock(p) \/ SweepRemove(p)
      PROVE  IInv'
  BY <1>3, RemoveConsumedStep, SweepUnlockStep, SweepRemoveStep
<1>4. ASSUME NEW d \in Dirs, Age(d) PROVE IInv' BY <1>4, AgeStep
<1> QED BY <1>1, <1>2, <1>3, <1>4, StutterStep DEF Next

-----------------------------------------------------------------------------
(* Only a directory without a manifest is set aside, so never one that a     *)
(* process runs in; and a process that runs does not change its directory.   *)
Aside(d) == dir'[d].kind = "quarantine" => dir[d].kind = "quarantine" \/ dir[d].man = Nothing

LEMMA AsideEnsure ==
    ASSUME IInv, NEW path, NEW x \in Dirs, Ensure(path, x), NEW d \in Dirs PROVE Aside(d)
BY DEF Ensure, Empty, Aside, IInv, TypeOK

LEMMA AsideWrite ==
    ASSUME NEW f \in [Dirs -> DirRecs], NEW p, NEW g, WriteManifest(f, p, g), NEW d \in Dirs,
           f[d].kind = dir[d].kind
    PROVE  Aside(d)
BY DEF WriteManifest, Aside

LEMMA AsideStep == ASSUME IInv, [Next]_vars, NEW d \in Dirs PROVE Aside(d)
<1>0. /\ TypeOK /\ dir \in [Dirs -> DirRecs] /\ dir[d] \in DirRecs
      /\ \A q \in Procs : task[q] # Nothing =>
            task[q].path \in Path /\ task[q].fd \in Dirs
  BY DEF IInv, TypeOK, DirRecs, Tasks
<1>1. ASSUME NEW p \in Procs, MakeDir(p) \/ OpenLease(p) \/ Look(p) \/ Recover(p) \/ Sweep(p)
      PROVE  Aside(d)
  BY <1>1, AsideEnsure DEF MakeDir, OpenLease, Look, Recover, Sweep, Enter
<1>2. ASSUME NEW p \in Procs, NoLease(p) \/ Busy(p) PROVE Aside(d)
  BY <1>2 DEF NoLease, Busy, Aside
<1>3. ASSUME NEW p \in Procs, TakeLease(p) PROVE Aside(d)
  <2>1. own[p] \in Dirs BY <1>3 DEF TakeLease, IInv, ProcInv, ProcOK
  <2>2. PICK f : f = Locked(dir, own[p], p) OBVIOUS
  <2>3. [dir[own[p]] EXCEPT !.lock = p] \in DirRecs BY <1>0, <2>1 DEF DirRecs
  <2>4. f = [dir EXCEPT ![own[p]] = [dir[own[p]] EXCEPT !.lock = p]] BY <2>2 DEF Locked
  <2>5. f \in [Dirs -> DirRecs] BY <1>0, <2>3, <2>4
  <2>6. f[d].kind = dir[d].kind BY <1>0, <2>1, <2>4 DEF DirRecs
  <2>7. WriteManifest(f, p, 0) BY <1>3, <2>2 DEF TakeLease
  <2> QED BY <2>5, <2>6, <2>7, AsideWrite
<1>4. ASSUME NEW p \in Procs, Commit(p) PROVE Aside(d)
  BY <1>0, <1>4, AsideWrite DEF Commit
<1>5. ASSUME NEW p \in Procs, Exit(p) PROVE Aside(d)
  BY <1>0, <1>5 DEF Exit, Unlocked, RemoveAt, Aside, DirRecs
<1>6. ASSUME NEW p \in Procs, Crash(p) PROVE Aside(d)
  BY <1>0, <1>6 DEF Crash, Unlocked, Aside, DirRecs
<1>7. ASSUME NEW p \in Procs, TryLock(p) PROVE Aside(d)
  BY <1>0, <1>7 DEF TryLock, Locked, Aside, DirRecs
<1>8. ASSUME NEW p \in Procs, Changed(p) \/ SweepUnlock(p) PROVE Aside(d)
  <2>1. dir' = Released(dir, p) /\ task[p] # Nothing
    BY <1>8 DEF Changed, SweepUnlock, Doing
  <2> QED BY <1>0, <2>1, ReleasedEffect DEF Aside
<1>9. ASSUME NEW p \in Procs, Inspect(p) PROVE Aside(d)
  <2>1. task[p] # Nothing BY <1>9 DEF Inspect, Doing
  <2>2. CASE ~Unreadable(task[p].path)
    <3>1. dir' = Released(dir, p) BY <1>9, <2>2 DEF Inspect
    <3> QED BY <1>0, <2>1, <3>1, ReleasedEffect DEF Aside
  <2>3. CASE Unreadable(task[p].path)
    <3> DEFINE f == Renamed(dir, task[p].path, "quarantine")
    <3>1. dir' = Released(f, p) BY <1>9, <2>3 DEF Inspect
    <3>2. \A e \in Dirs : [dir[e] EXCEPT !.kind = "quarantine"] \in DirRecs
      BY <1>0 DEF DirRecs
    <3>3. f \in [Dirs -> DirRecs] /\ (~Leads(task[p].path, d) => f[d] = dir[d])
      BY <1>0, <3>2 DEF Renamed
    <3> HIDE DEF f
    <3>4. dir'[d].kind = f[d].kind BY <1>0, <2>1, <3>1, <3>3, ReleasedEffect
    <3> QED BY <2>3, <3>3, <3>4 DEF Unreadable, Aside
  <2> QED BY <2>2, <2>3
<1>10. ASSUME NEW p \in Procs, Consume(p) PROVE Aside(d)
  BY <1>0, <1>10 DEF Consume, Aside, DirRecs
<1>11. ASSUME NEW p \in Procs, RemoveConsumed(p) PROVE Aside(d)
  <2>1. task[p] # Nothing BY <1>11 DEF RemoveConsumed, Doing
  <2>2. PICK f \in {dir, RemoveAt(dir, task[p].path)} : dir' = Released(f, p)
    BY <1>11 DEF RemoveConsumed
  <2>3. f \in [Dirs -> DirRecs] /\ (f[d].kind = "quarantine" => f[d] = dir[d])
    BY <1>0, <2>1, <2>2, RemoveAtEffect
  <2> QED BY <1>0, <2>1, <2>2, <2>3, ReleasedEffect DEF Aside
<1>12. ASSUME NEW p \in Procs, SweepRemove(p) PROVE Aside(d)
  <2>1. task[p] # Nothing /\ dir' = RemoveAt(dir, task[p].path)
    BY <1>12 DEF SweepRemove, Doing
  <2> QED BY <1>0, <2>1, RemoveAtEffect DEF Aside
<1>13. ASSUME NEW e \in Dirs, Age(e) PROVE Aside(d)
  BY <1>0, <1>13 DEF Age, Aside, DirRecs
<1>14. CASE UNCHANGED vars BY <1>14 DEF vars, Aside
<1> QED BY <1>1, <1>2, <1>3, <1>4, <1>5, <1>6, <1>7, <1>8, <1>9, <1>10, <1>11, <1>12, <1>13,
           <1>14 DEF Next

LEMMA OwnStep == ASSUME IInv, [Next]_vars, NEW p \in Procs, st[p] = "running" PROVE own'[p] = own[p]
<1>1. ASSUME NEW q \in Procs, OpenLease(q) PROVE own'[p] = own[p]
  BY <1>1 DEF OpenLease, IInv, TypeOK
<1> QED BY <1>1 DEF Next, MakeDir, TakeLease, NoLease, Commit, Exit, Crash, Look, Recover, Sweep,
        TryLock, Busy, Inspect, Consume, Changed, RemoveConsumed, SweepUnlock, SweepRemove, Age,
        proc, vars

-----------------------------------------------------------------------------
(* The inductive invariant holds of every behaviour.                         *)
THEOREM OffersInvariant == Spec => []IInv
<1>1. Init => IInv BY InitInv
<1>2. IInv /\ [Next]_vars => IInv' BY NextStep
<1> QED BY <1>1, <1>2, PTL DEF Spec

(* A crashed session is consumed once, unless the removal that follows       *)
(* accept's rename failed, and a session whose process runs and holds the    *)
(* lock of its directory is never taken: accept's lock, its re-reading of    *)
(* the manifest and its comparison of generations suffice, however many      *)
(* windows look, accept, discard and sweep at once.                          *)
THEOREM OffersTakenOnce == Spec => []TakenOnce
<1>1. IInv => TakenOnce BY DEF IInv, TakenOnce, ConsumedInv, ConsumedOnce, LiveNotTaken
<1> QED BY <1>1, OffersInvariant, PTL

(* What a dead process committed stays in its directory until someone        *)
(* accepts, discards or sweeps it after a week: neither scan_stale's         *)
(* quarantine nor a sweep that lost its lock to another window drops it.     *)
THEOREM OffersNothingLost == Spec => []NothingLost
<1>1. IInv => NothingLost
  <2> SUFFICES ASSUME IInv, NEW p \in Procs, st[p] = "gone", gen[p] > 0, p \notin settled
               PROVE  \E d \in Dirs : There(d) /\ dir[d].run = p /\ dir[d].man = gen[p]
    BY DEF NothingLost
  <2>1. PICK d \in Dirs : IsLease(d, p) /\ dir[d].man = gen[p]
    BY DEF IInv, KeptInv, KeptOK, Ran
  <2> QED BY <2>1 DEF IsLease, There
<1> QED BY <1>1, OffersInvariant, PTL

(* A running process that holds the lock of its own directory keeps both     *)
(* through every step of the others: what they scan has a manifest and is    *)
(* not set aside, and what they take or sweep they had to lock first.        *)
THEOREM OffersOwnerKeepsDir == Spec => OwnerKeepsDir
<1> DEFINE Keeps == \A p \in Procs :
               st[p] = "running" /\ st'[p] = "running" /\ Holds(p) => Holds(p)'
<1>1. IInv /\ IInv' /\ [Next]_vars => Keeps
  <2> SUFFICES ASSUME IInv, IInv', [Next]_vars, NEW p \in Procs, st[p] = "running",
                      st'[p] = "running", Holds(p)
               PROVE  Holds(p)'
    OBVIOUS
  <2>1. /\ Lease(p) \in Path /\ Lease(p).run = p /\ Lease(p).dir = Nothing
        /\ ProcOK(p) /\ ProcOK(p)' /\ own'[p] = own[p]
    BY LeaseType, OwnStep DEF IInv, ProcInv
  <2>2. own[p] \in Dirs BY <2>1 DEF ProcOK
  <2>3. IsLease(own[p], p) BY <2>1, <2>2, LeadsMeans, OffersAssumption DEF Holds, IInv
  <2>4. dir[own[p]].man # Nothing BY <2>1, <2>3 DEF ProcOK, IsLease
  <2>5. dir'[own[p]].kind # "quarantine" BY <2>2, <2>3, <2>4, AsideStep DEF Aside, IsLease
  <2>6. dir'[own[p]].kind = "lease" /\ dir'[own[p]].run = p /\ dir'[own[p]].lock = p
    BY <2>1, <2>5 DEF ProcOK
  <2> QED BY <2>1, <2>6 DEF Holds, Leads, There, PathOf, Lease
<1>2. IInv /\ IInv' /\ [Next]_vars => [Keeps]_vars BY <1>1
<1> QED BY <1>2, OffersInvariant, PTL DEF OwnerKeepsDir, Spec
=============================================================================
