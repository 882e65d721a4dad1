-------------------------- MODULE WorkerLockProofs --------------------------
(***************************************************************************)
(* When no timing window is hit, the worker lock excludes any number of    *)
(* processes, never loses the file of a live holder and refuses nobody who *)
(* is alone without a cause, wherever processes die.                       *)
(***************************************************************************)
EXTENDS WorkerLock, TLAPS

-----------------------------------------------------------------------------
(* The types of the lock file, the mutex and the processes, whatever       *)
(* windows are hit: one lemma for each part of the protocol.               *)

\* The fast path of Lock.acquire: create the lock file and write the pid.
LEMMA AcquireKeepsTypes ==
  ASSUME TypeOK, NEW p \in Procs, Acquire(p), alone' \subseteq live'
  PROVE  TypeOK'
BY DEF TypeOK, File, NoFile, Label, Section, Goto, CreatedBy, WritePid,
   Acquire, CreateLock, LockExists, WriteLock, Settle, Probe, See

\* The way to the reclaim mutex, and the removal of one that is old.
LEMMA TakeMutexKeepsTypes ==
  ASSUME TypeOK, NEW p \in Procs,
         \/ \E from \in {"mutex", "stat", "mutexCreate"} : TakeMutex(p, from)
         \/ MutexExists(p) \/ StatMutex(p) \/ UnlinkMutex(p) \/ LoseMutex(p)
         \/ WriteMutex(p),
         alone' \subseteq live'
  PROVE  TypeOK'
<1> USE DEF TypeOK, File, NoFile, Label, Section, Goto, CreatedBy, WritePid
<1>1. CASE \E from \in {"mutex", "stat", "mutexCreate"} : TakeMutex(p, from)
  BY <1>1 DEF TakeMutex
<1>2. CASE WriteMutex(p) \/ LoseMutex(p)
  BY <1>2 DEF WriteMutex, LoseMutex
<1>3. CASE MutexExists(p) \/ StatMutex(p) \/ UnlinkMutex(p)
  BY <1>3 DEF MutexExists, StatMutex, UnlinkMutex
<1>4. QED
  BY <1>1, <1>2, <1>3

\* The section the mutex guards, up to the attempt that follows it.
LEMMA ReclaimKeepsTypes ==
  ASSUME TypeOK, NEW p \in Procs,
         \/ Reread(p) \/ Reprobe(p) \/ CheckMutex(p) \/ UnlinkLock(p)
         \/ Recreate(p) \/ Rewrite(p) \/ CleanUp(p) \/ ClearMutex(p),
         alone' \subseteq live'
  PROVE  TypeOK'
<1> USE DEF TypeOK, File, NoFile, Label, Section, Goto, CreatedBy, WritePid
<1>1. CASE Reread(p) \/ Reprobe(p) \/ CheckMutex(p) \/ UnlinkLock(p)
  BY <1>1 DEF Reread, Reprobe, CheckMutex, UnlinkLock, See
<1>2. CASE Recreate(p) \/ Rewrite(p)
  BY <1>2 DEF Recreate, Rewrite
<1>3. CASE CleanUp(p) \/ ClearMutex(p)
  BY <1>3 DEF CleanUp, ClearMutex, Outcome, OwnMutex
<1>4. QED
  BY <1>1, <1>2, <1>3

\* Lock.release, a death, and a mutex that grows old.
LEMMA ReleaseKeepsTypes ==
  ASSUME TypeOK, alone' \subseteq live',
         AgeMutex \/ \E p \in Procs : Truncate(p) \/ Release(p) \/ Crash(p)
  PROVE  TypeOK'
<1> USE DEF TypeOK, File, NoFile, Label, Section
<1>1. CASE AgeMutex
  BY <1>1 DEF AgeMutex
<1>2. CASE \E p \in Procs : Truncate(p) \/ Release(p) \/ Crash(p)
  BY <1>2 DEF Truncate, Release, Crash, Goto, CreatedBy, Exists
<1>3. QED
  BY <1>1, <1>2

\* The lock file, the mutex and every process are of their types in every
\* state (all of Lock.acquire and Lock.release, windows hit or not).
THEOREM WellTyped == Spec => []TypeOK
<1> DEFINE Same == UNCHANGED vars
<1>1. TypeOK /\ Same => TypeOK'
  BY DEF vars, TypeOK
<1>2. NoteAlone => alone' \subseteq live'
  BY DEF NoteAlone
<1>3. TypeOK /\ Next => TypeOK'
  BY <1>2, AcquireKeepsTypes, TakeMutexKeepsTypes, ReclaimKeepsTypes, ReleaseKeepsTypes
     DEF Next, Proceed, Reclaim
<1>4. Init => TypeOK
  BY DEF Init, TypeOK, File, NoFile, Label, Section
<1>5. QED
  BY <1>1, <1>3, <1>4, PTL DEF Spec

-----------------------------------------------------------------------------
(* The inductive invariant: one lemma for each part of the protocol.       *)

USE DEF NoFile, Exists, Goto, CreatedBy

\* The fast path: a created file has one live owner, its creator.
LEMMA AcquireKeepsInv ==
  ASSUME Windows = {}, IndInv, TypeOK', NEW p \in Procs, Acquire(p)
  PROVE  IndInv'
<1> USE NoneAssumption DEF IndInv, TypeOK, File, OwnerHasFile, LiveFileHasOwner,
        SectionHasMutex, WonInSection, StaleIsDead, UnlinksStaleMutex,
        LiveMutexInSection, UnlinksDeadLock, PidAlive, Owns, Section, Label
<1>1. CASE CreateLock(p)
  BY <1>1 DEF CreateLock, LockMayAppear, Condemns
<1>2. CASE LockExists(p)
  BY <1>2 DEF LockExists
<1>3. CASE WriteLock(p)
  BY <1>3 DEF WriteLock, WritePid
<1>4. CASE Settle(p)
  BY <1>4 DEF Settle, See
<1>5. CASE Probe(p)
  BY <1>5 DEF Probe, See
<1>6. QED
  BY <1>1, <1>2, <1>3, <1>4, <1>5 DEF Acquire

\* Taking the reclaim mutex: only a dead process's mutex is removed.
LEMMA TakeMutexKeepsInv ==
  ASSUME Windows = {}, IndInv, TypeOK', NEW p \in Procs,
         \/ TakeMutex(p, "mutex") \/ TakeMutex(p, "stat") \/ TakeMutex(p, "mutexCreate")
         \/ MutexExists(p) \/ StatMutex(p) \/ UnlinkMutex(p) \/ LoseMutex(p)
         \/ WriteMutex(p)
  PROVE  IndInv'
<1> USE NoneAssumption DEF IndInv, TypeOK, File, OwnerHasFile, LiveFileHasOwner,
        SectionHasMutex, WonInSection, StaleIsDead, UnlinksStaleMutex,
        LiveMutexInSection, UnlinksDeadLock, PidAlive, Owns, Section, Label
<1>1. ASSUME NEW from \in {"mutex", "stat", "mutexCreate"}, TakeMutex(p, from)
      PROVE  IndInv'
  BY <1>1 DEF TakeMutex, MutexMayAppear, SomeoneAt
<1>2. CASE MutexExists(p) \/ LoseMutex(p)
  BY <1>2 DEF MutexExists, LoseMutex
<1>3. CASE StatMutex(p)
  BY <1>3 DEF StatMutex
<1>4. CASE UnlinkMutex(p)
  BY <1>4 DEF UnlinkMutex
<1>5. CASE WriteMutex(p)
  BY <1>5 DEF WriteMutex, WritePid
<1>6. QED
  BY <1>1, <1>2, <1>3, <1>4, <1>5

\* The section the mutex guards: what is unlinked belongs to nobody alive.
LEMMA ReclaimKeepsInv ==
  ASSUME Windows = {}, IndInv, TypeOK', NEW p \in Procs,
         \/ Reread(p) \/ Reprobe(p) \/ CheckMutex(p) \/ UnlinkLock(p)
         \/ Recreate(p) \/ Rewrite(p) \/ CleanUp(p) \/ ClearMutex(p)
  PROVE  IndInv'
<1> USE NoneAssumption DEF IndInv, TypeOK, File, OwnerHasFile, LiveFileHasOwner,
        SectionHasMutex, WonInSection, StaleIsDead, UnlinksStaleMutex,
        LiveMutexInSection, UnlinksDeadLock, PidAlive, Owns, Section, Label
<1>1. CASE Reread(p)
  BY <1>1 DEF Reread, CanSettle, Unsettled, See
<1>2. CASE Reprobe(p)
  BY <1>2 DEF Reprobe, See
<1>3. CASE CheckMutex(p)
  BY <1>3 DEF CheckMutex, OwnMutex, See
<1>4. CASE UnlinkLock(p)
  BY <1>4 DEF UnlinkLock, See
<1>5. CASE Recreate(p)
  BY <1>5 DEF Recreate, LockMayAppear
<1>6. CASE Rewrite(p)
  BY <1>6 DEF Rewrite, WritePid
<1>7. CASE CleanUp(p)
  BY <1>7 DEF CleanUp, OwnMutex, Outcome
<1>8. CASE ClearMutex(p)
  BY <1>8 DEF ClearMutex, Outcome
<1>9. QED
  BY <1>1, <1>2, <1>3, <1>4, <1>5, <1>6, <1>7, <1>8

\* Releasing removes the releaser's own file; a death or the passing of time
\* turns live files into leftovers and never the other way round.
LEMMA ReleaseKeepsInv ==
  ASSUME Windows = {}, IndInv, TypeOK', NEW p \in Procs,
         Truncate(p) \/ Release(p) \/ Crash(p) \/ AgeMutex
  PROVE  IndInv'
<1> USE NoneAssumption DEF IndInv, TypeOK, File, OwnerHasFile, LiveFileHasOwner,
        SectionHasMutex, WonInSection, StaleIsDead, UnlinksStaleMutex,
        LiveMutexInSection, UnlinksDeadLock, PidAlive, Owns, Section, Label
<1>1. CASE Truncate(p)
  BY <1>1 DEF Truncate
<1>2. CASE Release(p)
  BY <1>2 DEF Release
<1>3. CASE Crash(p)
  BY <1>3 DEF Crash, MayExit
<1>4. CASE AgeMutex
  BY <1>4 DEF AgeMutex
<1>5. QED
  BY <1>1, <1>2, <1>3, <1>4

\* Every reachable state of the protocol satisfies the inductive invariant.
THEOREM Invariance == Windows = {} /\ Spec => []IndInv
<1> SUFFICES ASSUME Windows = {} PROVE Spec => []IndInv
  OBVIOUS
<1>1. Init => IndInv
  <2>1. Init => TypeOK
    BY DEF Init, TypeOK, File, Label, Section
  <2>2. QED
    BY <2>1, NoneAssumption
    DEF Init, IndInv, TypeOK, OwnerHasFile, LiveFileHasOwner, SectionHasMutex,
        WonInSection, StaleIsDead, UnlinksStaleMutex, LiveMutexInSection,
        UnlinksDeadLock, Owns, Section
<1>2. IndInv /\ TypeOK' /\ [Next]_vars => IndInv'
  <2> SUFFICES ASSUME IndInv, TypeOK', Next \/ UNCHANGED vars PROVE IndInv'
    OBVIOUS
  <2> DEFINE ends(p) == Truncate(p) \/ Release(p) \/ Crash(p)
  <2>1. CASE Procs = {} \/ UNCHANGED vars
    BY <2>1 DEF Next, AgeMutex, vars, IndInv, TypeOK, File, OwnerHasFile, LiveFileHasOwner,
       SectionHasMutex, WonInSection, StaleIsDead, UnlinksStaleMutex, LiveMutexInSection,
       UnlinksDeadLock, PidAlive, Owns
  <2>2. ASSUME NEW p \in Procs, Acquire(p) \/ Reclaim(p) PROVE IndInv'
    BY <2>2, AcquireKeepsInv, TakeMutexKeepsInv, ReclaimKeepsInv DEF Reclaim
  <2>3. ASSUME NEW p \in Procs, AgeMutex \/ ends(p) PROVE IndInv'
    BY <2>3, ReleaseKeepsInv
  <2>4. QED
    BY <2>1, <2>2, <2>3 DEF Next, Proceed
<1>3. QED
  BY <1>1, <1>2, WellTyped, PTL DEF Spec

\* Two live processes are never both inside withLock: each holder's pid is in
\* the one file at the path.
LEMMA OneHolder == IndInv => MutualExclusion
BY DEF IndInv, TypeOK, OwnerHasFile, Owns, MutualExclusion, Holders

\* withLock runs one critical section at a time, for any number of processes.
THEOREM Exclusion == Windows = {} /\ Spec => []MutualExclusion
BY Invariance, OneHolder, PTL

\* The file of a live holder stays until that holder releases it.
THEOREM NoLiveUnlink == Windows = {} /\ Spec => LiveLockStays
<1>1. IndInv /\ [Next]_vars => [\A p \in Holders : lock.by = p => lock'.by = p]_vars
  <2> SUFFICES ASSUME IndInv, Next, NEW p \in Holders, lock.by = p PROVE lock'.by = p
    BY DEF vars
  <2> USE NoneAssumption DEF IndInv, TypeOK, File, Holders
  <2>1. CASE UNCHANGED lock
    BY <2>1
  <2>2. CASE \E q \in Procs : CreateLock(q) \/ Recreate(q)
    BY <2>2 DEF CreateLock, Recreate
  <2>3. CASE \E q \in Procs : WriteLock(q) \/ Rewrite(q) \/ Truncate(q)
    BY <2>3 DEF WriteLock, Rewrite, Truncate, WritePid
  <2>4. CASE \E q \in Procs : UnlinkLock(q) \/ Release(q)
    BY <2>4 DEF UnlinkLock, UnlinksDeadLock, Release, OwnerHasFile, Owns
  <2>5. QED
    BY <2>1, <2>2, <2>3, <2>4
    DEF Next, Proceed, Acquire, Reclaim, LockExists, Settle, Probe, TakeMutex,
        MutexExists, StatMutex, UnlinkMutex, LoseMutex, WriteMutex, Reread, Reprobe,
        CheckMutex, CleanUp, ClearMutex, Crash, AgeMutex
<1>2. QED
  BY <1>1, Invariance, PTL DEF Spec, LiveLockStays

-----------------------------------------------------------------------------
(* A process that is alone meets no trace of a live one.                   *)

\* The lock file of a live process that is alone is its own, and so is a mutex.
LEMMA LonelyFiles ==
  ASSUME IndInv, NEW p \in live, \A q \in live : q # p => pc[q] = "idle"
  PROVE  /\ lock.by \in live => lock.by = p /\ Owns(p)
         /\ mutex.by \in live => mutex.by = p /\ pc[p] \in Section
BY DEF IndInv, TypeOK, LiveFileHasOwner, Owns, WonInSection, LiveMutexInSection, Section

\* A step of p leaves it unhindered if the others are outside.
LEMMA OwnStepUnhindered ==
  ASSUME IndInv, IndInv', NEW p \in Procs, Proceed(p), pc[p] = "idle" \/ Unhindered(p),
         pc'[p] # "idle", \A q \in live : q # p => pc[q] = "idle"
  PROVE  Unhindered(p)'
<1> USE NoneAssumption DEF Unhindered, PidAlive
<1>1. p \in live /\ live' = live /\ \A q \in live : q # p => pc'[q] = "idle"
  BY DEF IndInv, TypeOK, Proceed, Acquire, Reclaim, CreateLock, LockExists, WriteLock,
     Settle, Probe, TakeMutex, MutexExists, StatMutex, UnlinkMutex, LoseMutex, WriteMutex,
     Reread, Reprobe, CheckMutex, UnlinkLock, Recreate, Rewrite, CleanUp, ClearMutex,
     Truncate, Release
<1>2. /\ lock.by \in live => lock.by = p /\ Owns(p)
      /\ mutex.by \in live => mutex.by = p /\ pc[p] \in Section
  BY <1>1, LonelyFiles
<1> USE DEF IndInv, TypeOK, File
<1>3. CASE Acquire(p)
  BY <1>1, <1>2, <1>3
  DEF Acquire, CreateLock, LockExists, WriteLock, Settle, Probe, See, Owns, WonInSection
<1>4. CASE \/ \E from \in {"mutex", "stat", "mutexCreate"} : TakeMutex(p, from)
           \/ MutexExists(p) \/ StatMutex(p) \/ UnlinkMutex(p) \/ LoseMutex(p)
           \/ WriteMutex(p)
  BY <1>1, <1>4
  DEF TakeMutex, MutexExists, StatMutex, UnlinkMutex, LoseMutex, WriteMutex
<1>5. CASE Reread(p) \/ Reprobe(p)
  BY <1>1, <1>2, <1>5 DEF Reread, Reprobe, See, Owns, WonInSection
<1>6. CASE CheckMutex(p) \/ UnlinkLock(p)
  BY <1>1, <1>6 DEF CheckMutex, OwnMutex, UnlinkLock, See, SectionHasMutex, Section
<1>7. CASE Recreate(p) \/ Rewrite(p) \/ CleanUp(p) \/ ClearMutex(p)
  BY <1>1, <1>7 DEF Recreate, Rewrite, CleanUp, ClearMutex, Outcome
<1>8. CASE Truncate(p) \/ Release(p)
  BY <1>1, <1>8 DEF Truncate, Release
<1>9. QED
  BY <1>3, <1>4, <1>5, <1>6, <1>7, <1>8 DEF Proceed, Reclaim

\* Another process that stays outside, or dies, changes nothing for p.
LEMMA AloneKeeps ==
  ASSUME IndInv, IndInv', AloneUnhindered, Next
  PROVE  AloneUnhindered'
<1> SUFFICES ASSUME NEW p \in alone' PROVE (pc[p] # "idle" /\ Unhindered(p))'
  BY DEF AloneUnhindered
<1> USE DEF IndInv, TypeOK
<1>1. /\ p \in live' /\ pc'[p] # "idle"
      /\ pc[p] = "idle" \/ (p \in alone /\ Unhindered(p))
      /\ \A q \in live' : q # p => pc'[q] = "idle"
  BY DEF Next, NoteAlone, AloneUnhindered
<1>2. CASE Proceed(p)
  <2>1. \A q \in live : q # p => pc[q] = "idle"
    BY <1>1, <1>2
    DEF Proceed, Acquire, Reclaim, CreateLock, LockExists, WriteLock, Settle, Probe,
        TakeMutex, MutexExists, StatMutex, UnlinkMutex, LoseMutex, WriteMutex, Reread,
        Reprobe, CheckMutex, UnlinkLock, Recreate, Rewrite, CleanUp, ClearMutex,
        Truncate, Release
  <2>2. QED
    BY <1>1, <1>2, <2>1, OwnStepUnhindered
<1>3. ASSUME NEW q \in Procs, q # p, Proceed(q) PROVE FALSE
  <2>1. q \in live' /\ pc'[p] = pc[p] /\ pc[q] # pc'[q]
    BY <1>3
    DEF Proceed, Acquire, Reclaim, CreateLock, LockExists, WriteLock, Settle, Probe,
        TakeMutex, MutexExists, StatMutex, UnlinkMutex, LoseMutex, WriteMutex, Reread,
        Reprobe, CheckMutex, UnlinkLock, Recreate, Rewrite, CleanUp, ClearMutex, Outcome,
        Truncate, Release
  <2>2. pc[q] = "idle" /\ pc'[q] = "idle"
    BY <1>1, <1>3, <2>1
    DEF Unhindered, Proceed, Acquire, Reclaim, CreateLock, LockExists, WriteLock, Settle,
        Probe, TakeMutex, MutexExists, StatMutex, UnlinkMutex, LoseMutex, WriteMutex,
        Reread, Reprobe, CheckMutex, UnlinkLock, Recreate, Rewrite, CleanUp, ClearMutex,
        Truncate, Release
  <2>3. QED
    BY <2>1, <2>2
<1>4. CASE AgeMutex \/ \E q \in Procs : Crash(q)
  BY <1>1, <1>4 DEF AgeMutex, Crash, Unhindered, PidAlive
<1>5. QED
  BY <1>2, <1>3, <1>4 DEF Next

\* LockHeld has a cause: whoever is alone at the lock and is refused met the
\* young mutex of a dead reclaimer (takeReclaimMutex).
THEOREM RefusalHasCause == Windows = {} /\ Spec => RefusedForCause
<1> DEFINE Cause(p) == pc[p] = "truncated" \/ (mutex.by \in Procs \ live /\ age = "young")
<1>1. Init => AloneUnhindered
  BY DEF Init, AloneUnhindered
<1>2. IndInv /\ IndInv' /\ AloneUnhindered /\ [Next]_vars => AloneUnhindered'
  <2>1. AloneUnhindered /\ UNCHANGED vars => AloneUnhindered'
    BY DEF vars, AloneUnhindered, Unhindered, PidAlive
  <2>2. QED
    BY <2>1, AloneKeeps
<1>3. IndInv /\ AloneUnhindered /\ [Next]_vars
        => [\A p \in alone \cap live' : pc'[p] = "idle" => Cause(p)]_vars
  <2> SUFFICES ASSUME IndInv, AloneUnhindered, Next,
                      NEW p \in alone \cap live', pc'[p] = "idle"
               PROVE  Cause(p)
    BY DEF vars
  <2> USE DEF IndInv, TypeOK, File
  <2>1. pc[p] # "idle" /\ p \in live /\ Unhindered(p)
    BY DEF AloneUnhindered
  <2>2. /\ lock.by \in live => lock.by = p /\ Owns(p)
        /\ mutex.by \in live => mutex.by = p /\ pc[p] \in Section
    BY <2>1, LonelyFiles DEF Unhindered
  <2>3. Proceed(p)
    BY <2>1
    DEF Next, AgeMutex, Crash, Proceed, Acquire, Reclaim, CreateLock, LockExists,
        WriteLock, Settle, Probe, TakeMutex, MutexExists, StatMutex, UnlinkMutex,
        LoseMutex, WriteMutex, Reread, Reprobe, CheckMutex, UnlinkLock, Recreate,
        Rewrite, CleanUp, ClearMutex, Truncate, Release
  <2>4. CASE Acquire(p)
    BY <2>1, <2>4
    DEF Acquire, CreateLock, LockExists, WriteLock, Settle, Probe, Unhindered
  <2>5. CASE StatMutex(p)
    BY <2>1, <2>2, <2>5 DEF StatMutex, Section
  <2>6. CASE LoseMutex(p) \/ Release(p) \/ Truncate(p)
    BY <2>1, <2>6 DEF LoseMutex, Release, Truncate, Unhindered
  <2>7. CASE CleanUp(p) \/ ClearMutex(p)
    BY <2>1, <2>7 DEF CleanUp, ClearMutex, Outcome, Unhindered
  <2>8. QED
    BY <2>3, <2>4, <2>5, <2>6, <2>7
    DEF Proceed, Reclaim, TakeMutex, MutexExists, UnlinkMutex, WriteMutex, Reread,
        Reprobe, CheckMutex, UnlinkLock, Recreate, Rewrite
<1>4. QED
  BY <1>1, <1>2, <1>3, Invariance, PTL DEF Spec, RefusedForCause

=============================================================================
