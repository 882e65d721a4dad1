----------------------------- MODULE WorkerLock -----------------------------
(***************************************************************************)
(* The worker lock of packages/worker: a file `worker.lock` that holds the *)
(* pid of the process that created it, and a second file                   *)
(* `worker.lock.reclaim` (the reclaim mutex) that a process takes before   *)
(* it removes the lock file of a crashed holder.                           *)
(*                                                                         *)
(* Each system call of Lock.acquire and Lock.release is a step, since any  *)
(* other process may run between two of them.  A process may die at any    *)
(* step; what it wrote stays.                                              *)
(*                                                                         *)
(* The code leaves four windows open in time.  `Windows` names those that  *)
(* the modelled machine may fall into:                                     *)
(*   "settle"  an empty lock file is read for PID_SETTLE_TRIES times while *)
(*             the process that created (or truncated) it is still alive   *)
(*             and about to write (or unlink) it;                          *)
(*   "age"     the reclaim mutex of a live process reaches                 *)
(*             RECLAIM_MUTEX_STALE_MS;                                     *)
(*   "swap"    the mutex that is unlinked as stale is not the one that was *)
(*             measured: another reclaimer replaced it in between;         *)
(*   "reread"  a lock file appears between a reclaimer's last look, which  *)
(*             left nothing at the path, and its unlink of that path;      *)
(*   "probe"   the process that the re-read found has released the lock    *)
(*             and exited by the time a signal asks for it, and another    *)
(*             lock file is at the path by then.                           *)
(***************************************************************************)
EXTENDS FiniteSets

CONSTANTS
  Procs,      \* processes that run the worker, a tick or a review command
  None,       \* no process
  Windows     \* the timing windows that can be hit

ASSUME NoneAssumption == None \notin Procs
ASSUME WindowsAssumption == Windows \subseteq {"settle", "age", "swap", "reread",
                                         "probe"}

VARIABLES
  lock,       \* the lock file: who created it, and what it holds
  mutex,      \* the reclaim mutex file, likewise
  age,        \* "stale": the mutex is older than RECLAIM_MUTEX_STALE_MS
  live,       \* processes that are running
  pc,         \* next step of each process inside acquire / release
  won,        \* in the reclaim section, their exclusive create succeeded
  seen,       \* whose lock file each process saw when it last looked
  alone       \* history: no other live process was at the lock in their call

vars == <<lock, mutex, age, live, pc, won, seen, alone>>

File == [by : Procs \cup {None}, text : {"empty", "pid"}]
NoFile == [by |-> None, text |-> "empty"]
Exists(f) == f.by # None

\* Steps inside the `try` that the reclaim mutex guards, and the clean-up.
Section == {"mutexWrite", "reread", "reprobe", "check", "unlink", "recreate",
            "rewrite", "cleanup", "clear"}
Label == Section \cup {"idle", "write", "settle", "probe", "mutex", "stat",
                       "mutexUnlink", "mutexCreate", "held", "truncated"}

TypeOK ==
  /\ lock \in File
  /\ mutex \in File
  /\ age \in {"young", "stale"}
  /\ live \subseteq Procs
  /\ pc \in [Procs -> Label]
  /\ won \subseteq Procs
  /\ seen \in [Procs -> Procs \cup {None}]
  /\ alone \subseteq live

Init ==
  /\ lock = NoFile
  /\ mutex = NoFile
  /\ age = "young"
  /\ live = Procs
  /\ pc = [p \in Procs |-> "idle"]
  /\ won = {}
  /\ seen = [p \in Procs |-> None]
  /\ alone = {}

Goto(p, from, to) ==
  /\ p \in live
  /\ pc[p] = from
  /\ pc' = [pc EXCEPT ![p] = to]

SomeoneAt(label) == \E q \in live : pc[q] = label

-----------------------------------------------------------------------------
(* Reading and creating the two files.                                     *)

\* createExclusive's open "wx": it fails when the path exists.
CreatedBy(p) == [by |-> p, text |-> "empty"]

\* process.kill(pid, 0) on the pid that was read.
PidAlive(p) == seen[p] \in live

See(p, who) == seen' = [seen EXCEPT ![p] = who]

\* An empty lock file whose live creator or releaser has a system call to go.
Unsettled ==
  /\ lock.text = "empty"
  /\ lock.by \in live /\ pc[lock.by] \in {"write", "rewrite", "truncated"}

\* settledPid gives up on an empty file only after it re-read it for 50ms.
CanSettle == Unsettled => "settle" \in Windows

\* Reclaimer p will unlink whatever is at the path by then: the process it is
\* about to ask for is dead, or its last look left nothing there.
Condemns(p) ==
  /\ p \in live
  /\ \/ pc[p] = "reprobe" /\ seen[p] \notin live
     \/ pc[p] \in {"check", "unlink"} /\ seen[p] = None

\* A file appears at the lock path, perhaps under a reclaimer's nose.
LockMayAppear ==
  \A p \in Procs : Condemns(p) =>
    (IF pc[p] = "reprobe" THEN "probe" ELSE "reread") \in Windows

\* q exits after a reclaimer read its pid, with another's file at the path.
MayExit(q) ==
  (\E p \in live : pc[p] = "reprobe" /\ seen[p] = q /\ lock.by \notin {None, q})
    => "probe" \in Windows

MutexMayAppear == "swap" \in Windows \/ ~SomeoneAt("mutexUnlink")

-----------------------------------------------------------------------------
(* acquire: the fast path.                                                 *)

CreateLock(p) ==
  /\ ~Exists(lock) /\ LockMayAppear
  /\ Goto(p, "idle", "write")
  /\ lock' = CreatedBy(p)
  /\ UNCHANGED <<mutex, age, live, won, seen>>

LockExists(p) ==
  /\ Exists(lock)
  /\ Goto(p, "idle", "settle")
  /\ UNCHANGED <<lock, mutex, age, live, won, seen>>

\* Fault: what is written is not a pid that readPid can parse.
WritePidUnparsed(f, p) == IF f.by = p THEN [f EXCEPT !.text = "text"] ELSE f

\* The descriptor still names the created file when the path does not.
WritePid(f, p) == IF f.by = p THEN [f EXCEPT !.text = "pid"] ELSE f

WriteLock(p) ==
  /\ Goto(p, "write", "held")
  /\ lock' = WritePid(lock, p)
  /\ UNCHANGED <<mutex, age, live, won, seen>>

\* settledPid: a pid is asked for in a step of its own.
Settle(p) ==
  /\ CanSettle
  /\ IF lock.text = "pid"
       THEN Goto(p, "settle", "probe") /\ See(p, lock.by)
       ELSE Goto(p, "settle", "mutex") /\ seen' = seen
  /\ UNCHANGED <<lock, mutex, age, live, won>>

\* Fault: a lock file that names a pid is held, whether or not it is alive.
ProbeSkipped(p) ==
  /\ Goto(p, "probe", "idle")
  /\ See(p, None)
  /\ UNCHANGED <<lock, mutex, age, live, won>>

\* A holder that is alive refuses the lock.
Probe(p) ==
  /\ Goto(p, "probe", IF PidAlive(p) THEN "idle" ELSE "mutex")
  /\ See(p, None)
  /\ UNCHANGED <<lock, mutex, age, live, won>>

-----------------------------------------------------------------------------
(* takeReclaimMutex.                                                       *)

TakeMutex(p, from) ==
  /\ ~Exists(mutex) /\ MutexMayAppear
  /\ Goto(p, from, "mutexWrite")
  /\ mutex' = CreatedBy(p)
  /\ age' = "young"
  /\ UNCHANGED <<lock, live, won, seen>>

MutexExists(p) ==
  /\ Exists(mutex)
  /\ Goto(p, "mutex", "stat")
  /\ UNCHANGED <<lock, mutex, age, live, won, seen>>

\* Fault: an old mutex is never seen as stale.
StatMutexYoung(p) ==
  /\ Exists(mutex)
  /\ Goto(p, "stat", "idle")
  /\ UNCHANGED <<lock, mutex, age, live, won, seen>>

\* A young mutex refuses the lock; a vanished one is created in one more try
\* (TakeMutex from "stat").
StatMutex(p) ==
  /\ Exists(mutex)
  /\ Goto(p, "stat", IF age = "stale" THEN "mutexUnlink" ELSE "idle")
  /\ UNCHANGED <<lock, mutex, age, live, won, seen>>

UnlinkMutex(p) ==
  /\ Goto(p, "mutexUnlink", "mutexCreate")
  /\ mutex' = NoFile
  /\ age' = "young"
  /\ UNCHANGED <<lock, live, won, seen>>

\* The last exclusive create of takeReclaimMutex lost.
LoseMutex(p) ==
  /\ Exists(mutex)
  /\ Goto(p, "mutexCreate", "idle")
  /\ UNCHANGED <<lock, mutex, age, live, won, seen>>

WriteMutex(p) ==
  /\ Goto(p, "mutexWrite", "reread")
  /\ mutex' = WritePid(mutex, p)
  /\ age' = IF mutex.by = p THEN "young" ELSE age
  /\ UNCHANGED <<lock, live, won, seen>>

-----------------------------------------------------------------------------
(* acquire: the reclaim section.                                           *)

\* Fault: the holder is not looked at again under the mutex.
RereadSkipped(p) ==
  /\ Goto(p, "reread", "check")
  /\ UNCHANGED <<lock, mutex, age, live, won, seen>>

Reread(p) ==
  /\ CanSettle
  /\ Goto(p, "reread", IF lock.text = "pid" THEN "reprobe" ELSE "check")
  /\ See(p, lock.by)
  /\ UNCHANGED <<lock, mutex, age, live, won>>

Reprobe(p) ==
  /\ Goto(p, "reprobe", IF PidAlive(p) THEN "cleanup" ELSE "check")
  /\ See(p, IF PidAlive(p) THEN None ELSE lock.by)
  /\ UNCHANGED <<lock, mutex, age, live, won>>

OwnMutex(p) == mutex = [by |-> p, text |-> "pid"]

CheckMutex(p) ==
  /\ Goto(p, "check", IF OwnMutex(p) THEN "unlink" ELSE "cleanup")
  /\ See(p, IF OwnMutex(p) THEN seen[p] ELSE None)
  /\ UNCHANGED <<lock, mutex, age, live, won>>

\* unlinkSync(path) removes whatever file is there by now.
UnlinkLock(p) ==
  /\ Goto(p, "unlink", "recreate")
  /\ lock' = NoFile
  /\ See(p, None)
  /\ UNCHANGED <<mutex, age, live, won>>

\* Fault: the reclaimer's create is not exclusive.
RecreateOver(p) ==
  /\ Goto(p, "recreate", "rewrite")
  /\ lock' = CreatedBy(p)
  /\ UNCHANGED <<mutex, age, live, won, seen>>

Recreate(p) ==
  /\ IF Exists(lock)
       THEN Goto(p, "recreate", "cleanup") /\ lock' = lock
       ELSE LockMayAppear /\ Goto(p, "recreate", "rewrite") /\ lock' = CreatedBy(p)
  /\ UNCHANGED <<mutex, age, live, won, seen>>

Rewrite(p) ==
  /\ Goto(p, "rewrite", "cleanup")
  /\ lock' = WritePid(lock, p)
  /\ won' = won \cup {p}
  /\ UNCHANGED <<mutex, age, live, seen>>

Outcome(p) == IF p \in won THEN "held" ELSE "idle"

\* The `finally`: only a mutex that still names this process is cleared.
CleanUp(p) ==
  /\ Goto(p, "cleanup", IF OwnMutex(p) THEN "clear" ELSE Outcome(p))
  /\ won' = IF OwnMutex(p) THEN won ELSE won \ {p}
  /\ UNCHANGED <<lock, mutex, age, live, seen>>

ClearMutex(p) ==
  /\ Goto(p, "clear", Outcome(p))
  /\ mutex' = NoFile
  /\ age' = "young"
  /\ won' = won \ {p}
  /\ UNCHANGED <<lock, live, seen>>

-----------------------------------------------------------------------------
(* release, and what happens to processes and clocks.                      *)

\* writeFileSync(path, "") empties the file at the path, or creates one.
Truncate(p) ==
  /\ Goto(p, "held", "truncated")
  /\ lock' = IF Exists(lock) THEN [lock EXCEPT !.text = "empty"] ELSE CreatedBy(p)
  /\ UNCHANGED <<mutex, age, live, won, seen>>

Release(p) ==
  /\ Goto(p, "truncated", "idle")
  /\ lock' = NoFile
  /\ UNCHANGED <<mutex, age, live, won, seen>>

Crash(p) ==
  /\ p \in live /\ MayExit(p)
  /\ live' = live \ {p}
  /\ UNCHANGED <<lock, mutex, age, pc, won, seen>>

\* 60 seconds pass since the mutex was last written.
AgeMutex ==
  /\ Exists(mutex) /\ age = "young"
  /\ mutex.by \in live => "age" \in Windows
  /\ age' = "stale"
  /\ UNCHANGED <<lock, mutex, live, pc, won, seen>>

Acquire(p) ==
  \/ CreateLock(p) \/ LockExists(p) \/ WriteLock(p) \/ Settle(p) \/ Probe(p)

Reclaim(p) ==
  \/ TakeMutex(p, "mutex") \/ TakeMutex(p, "stat") \/ TakeMutex(p, "mutexCreate")
  \/ MutexExists(p) \/ StatMutex(p) \/ UnlinkMutex(p) \/ LoseMutex(p)
  \/ WriteMutex(p) \/ Reread(p) \/ Reprobe(p) \/ CheckMutex(p) \/ UnlinkLock(p)
  \/ Recreate(p) \/ Rewrite(p) \/ CleanUp(p) \/ ClearMutex(p)

\* p stays alone at the lock as long as every other live process is outside.
NoteAlone ==
  alone' = {p \in live' :
              /\ pc'[p] # "idle" /\ (pc[p] = "idle" \/ p \in alone)
              /\ \A q \in live' \ {p} : pc'[q] = "idle"}

Proceed(p) == Acquire(p) \/ Reclaim(p) \/ Truncate(p) \/ Release(p)

Next ==
  /\ \/ \E p \in Procs : Proceed(p) \/ Crash(p)
     \/ AgeMutex
  /\ NoteAlone

Spec == Init /\ [][Next]_vars

\* A scheduled process takes its next step, every poll of the worker loop
\* tries the lock again, and time passes.
Fairness ==
  /\ \A p \in Procs : WF_vars(Proceed(p) /\ NoteAlone)
  /\ WF_vars(AgeMutex /\ NoteAlone)

FairSpec == Spec /\ Fairness

-----------------------------------------------------------------------------
Holders == {p \in live : pc[p] = "held"}

\* At most one live process is between a successful acquire and its release
\* (withLock runs one critical section at a time).
MutualExclusion == \A p, q \in Holders : p = q

\* "A live lock must never be unlinked" (comment in acquire): the file of a
\* live holder leaves the path only by that holder's own release.
LiveLockStays ==
  [][\A p \in Holders : lock.by = p => lock'.by = p]_vars

\* A leftover of a crashed process never blocks everyone: while some process
\* is alive and trying, the lock file of a dead process goes away.
LeftoverReclaimed ==
  (Exists(lock) /\ lock.by \notin live) ~>
     (~Exists(lock) \/ lock.by \in live \/ live = {})

\* LockHeld has a cause (acquire, takeReclaimMutex): a process whose call no
\* other live process overlapped is refused only for the mutex of a reclaimer
\* that died less than RECLAIM_MUTEX_STALE_MS ago ("one skipped worker run").
RefusedForCause ==
  [][\A p \in alone \cap live' :
       pc'[p] = "idle" => pc[p] = "truncated" \/ (mutex.by \in Procs \ live /\ age = "young")]_vars

-----------------------------------------------------------------------------
(* Why it works when no window is hit.                                     *)

\* p created the lock file and has not given it up.
Owns(p) == pc[p] \in {"write", "rewrite", "held", "truncated"} \/ p \in won

\* The file at the lock path is that of its live owner, with its pid except
\* between create and write, and between truncate and unlink.
OwnerHasFile ==
  \A p \in live : Owns(p) =>
    /\ lock.by = p
    /\ lock.text = IF pc[p] \in {"write", "rewrite", "truncated"} THEN "empty" ELSE "pid"

LiveFileHasOwner == lock.by \in live => Owns(lock.by)

\* Live processes in the reclaim section hold the mutex, so there is one.
SectionHasMutex ==
  \A p \in live : pc[p] \in Section =>
    /\ mutex.by = p
    /\ mutex.text = IF pc[p] = "mutexWrite" THEN "empty" ELSE "pid"

WonInSection == \A p \in won : pc[p] \in {"cleanup", "clear"}

\* Only the mutex of a dead process is old, and a process about to unlink the
\* mutex has that one, or none, in front of it.
StaleIsDead == age = "stale" => mutex.by \notin live \cup {None}
UnlinksStaleMutex ==
  \A p \in live : pc[p] = "mutexUnlink" => ~Exists(mutex) \/ age = "stale"

\* Only the reclaimers of the section keep a mutex.
LiveMutexInSection == mutex.by \in live => pc[mutex.by] \in Section

\* What a reclaimer is going to unlink is nothing, or a dead process's file.
UnlinksDeadLock ==
  \A p \in live :
    /\ pc[p] \in {"check", "unlink"} => lock.by = seen[p] /\ seen[p] \notin live
    /\ pc[p] = "reprobe" /\ ~PidAlive(p) => lock.by \notin live

IndInv ==
  /\ TypeOK
  /\ OwnerHasFile
  /\ LiveFileHasOwner
  /\ SectionHasMutex
  /\ WonInSection
  /\ StaleIsDead
  /\ UnlinksStaleMutex
  /\ LiveMutexInSection
  /\ UnlinksDeadLock

\* Who is alone meets no trace of another live process.
Unhindered(p) ==
  /\ \A q \in live : q # p => pc[q] = "idle"
  /\ pc[p] \in {"probe", "reprobe"} => ~PidAlive(p)
  /\ pc[p] = "mutexCreate" => ~Exists(mutex)
  /\ pc[p] = "recreate" => ~Exists(lock)
  /\ pc[p] \in {"cleanup", "clear"} => p \in won

AloneUnhindered == \A p \in alone : pc[p] # "idle" /\ Unhindered(p)
=============================================================================
