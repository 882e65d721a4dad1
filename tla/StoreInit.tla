----------------------------- MODULE StoreInit -----------------------------
(***************************************************************************)
(* How the curation store comes to exist and how a process finds out       *)
(* whether it does (packages/store/src/curation/database.ts).  Under       *)
(* <dataDir>/curation there are an identity marker, the database and,      *)
(* while a process initializes, a guard file.  A process looks at one      *)
(* entry after the other, so another may have moved on in between; a       *)
(* process may die between any two steps, and then nobody takes its guard  *)
(* away: a human has to.                                                   *)
(*                                                                         *)
(* Each process makes one call.  An inspection (inspectCurationStore, or   *)
(* the open of a reader) only looks.  A join (openCurationStore with       *)
(* `initialize`) makes the store if there is none; a create (the open of a *)
(* mutation that expects an uninitialized store) must not find one.  The   *)
(* installation id a process would choose is named after the process.      *)
(***************************************************************************)
EXTENDS Naturals, FiniteSets

CONSTANTS
  Procs,      \* processes, and the installation ids they would choose
  None,       \* no entry, no id
  MaxCrashes  \* bound: processes that die

ASSUME CrashAssumption == MaxCrashes \in Nat
ASSUME NoneAssumption ==
  /\ None \notin Procs \cup {"empty"} \cup [id : Procs, state : {"initializing", "ready"}]
  /\ "empty" \notin Procs

Kinds == {"inspect", "join", "create"}

VARIABLES
  dir,     \* whether the directory exists
  marker,  \* None, or the identity in the marker and its state
  db,      \* None, "empty", or the installation id in the database
  guard,   \* None, or the process that made the guard file
  proc     \* what each process is doing

vars == <<dir, marker, db, guard, proc>>
disk == <<dir, marker, db, guard>>

Idle == [kind |-> "inspect", pc |-> "idle", stage |-> "first", seen |-> {},
         attempt |-> 0, id |-> None, late |-> FALSE, result |-> "none"]

Init ==
  /\ dir = FALSE /\ marker = None /\ db = None /\ guard = None
  /\ proc = [p \in Procs |-> Idle]

At(p, pc) == proc[p].pc = pc
Goto(p, pc) == proc' = [proc EXCEPT ![p].pc = pc]
Done(p, result) ==
  proc' = [proc EXCEPT ![p].pc = "done", ![p].result = result,
                       ![p].seen = {}, ![p].attempt = 0, ![p].stage = "first"]

Start(p, k) ==
  /\ At(p, "idle")
  /\ proc' = [proc EXCEPT ![p].kind = k, ![p].pc = "dir"]
  /\ UNCHANGED disk

-----------------------------------------------------------------------------
(* What a call does once an inspection ended.                              *)

\* An initializing open waits behind a guard, and behind an initializing
\* marker if a further look finds the guard.
FirstLook(p, found) ==
  CASE found = "uninitialized" -> Goto(p, "mkdir")
    [] found = "ready" ->
         IF proc[p].kind = "create" THEN Done(p, "mismatch") ELSE Goto(p, "open")
    [] found = "guard_held" -> Goto(p, "wait")
    [] found = "interrupted" -> Goto(p, "owned")
    [] OTHER -> Done(p, found)

\* Past the deadline: the state a strict inspection sees, or busy.
LastLook(p, found) ==
  Done(p, IF found \in {"uninitialized", "ready"} THEN "guard_held" ELSE found)

\* Fault: what the caller expects is not checked again under the guard.
LookUnderGuardAny(p, found) ==
  CASE found \in {"uninitialized", "guard_held"} -> Goto(p, "write")
    [] found = "ready" -> Goto(p, "release")
    [] OTHER -> proc' = [proc EXCEPT ![p].pc = "release", ![p].result = found]

\* Under its own guard, which does not count as held.
LookUnderGuard(p, found) ==
  CASE found \in {"uninitialized", "guard_held"} -> Goto(p, "write")
    [] found = "ready" /\ proc[p].kind = "join" -> Goto(p, "release")
    [] OTHER ->
         proc' = [proc EXCEPT ![p].pc = "release",
                    ![p].result = IF found = "ready" THEN "mismatch" ELSE found]

Found(p, found) ==
  IF proc[p].kind = "inspect" THEN Done(p, found)
  ELSE CASE proc[p].stage = "first" -> FirstLook(p, found)
         [] proc[p].stage = "under" -> LookUnderGuard(p, found)
         [] OTHER -> LastLook(p, found)

-----------------------------------------------------------------------------
(* inspectState, one look at a directory entry a step.                     *)

Sees(p, entry, there, next) ==
  proc' = [proc EXCEPT ![p].seen = IF there THEN @ \cup {entry} ELSE @ \ {entry},
                       ![p].pc = next]

LookDir(p) ==
  /\ At(p, "dir")
  /\ IF dir THEN Goto(p, "marker") ELSE Found(p, "uninitialized")
  /\ UNCHANGED disk

LookMarker(p) ==
  /\ At(p, "marker")
  /\ Sees(p, "marker", marker # None, "db")
  /\ UNCHANGED disk

LookDb(p) ==
  /\ At(p, "db")
  /\ Sees(p, "db", db # None, "guard")
  /\ UNCHANGED disk

LookGuard(p) ==
  /\ At(p, "guard")
  /\ Sees(p, "guard", guard # None,
          IF "marker" \in proc[p].seen THEN "read" ELSE "absent")
  /\ UNCHANGED disk

WithoutMarker(p) ==
  IF "db" \in proc[p].seen THEN "database_without_marker"
  ELSE IF "guard" \in proc[p].seen THEN "guard_held" ELSE "uninitialized"

\* Fault: the looks at the marker and at the rest are taken for one.
NoMarkerOnce(p) ==
  /\ At(p, "absent")
  /\ Found(p, WithoutMarker(p))
  /\ UNCHANGED disk

\* No marker at the first look: if one is there now, look again.
NoMarker(p) ==
  /\ At(p, "absent")
  /\ IF proc[p].seen # {} /\ proc[p].attempt < 2 /\ marker # None
     THEN proc' = [proc EXCEPT ![p].pc = "dir", ![p].attempt = @ + 1]
     ELSE Found(p, WithoutMarker(p))
  /\ UNCHANGED disk

ReadMarker(p) ==
  /\ At(p, "read")
  /\ IF marker = None THEN Found(p, "unreadable")
     ELSE IF marker.state = "initializing" THEN Found(p, "interrupted")
     ELSE proc' = [proc EXCEPT ![p].id = marker.id,
                     ![p].pc = IF "db" \in proc[p].seen THEN "verify" ELSE "redb"]
  /\ UNCHANGED disk

\* Fault: the look taken before the marker was read counts.
RelookNever(p) ==
  /\ At(p, "redb")
  /\ Found(p, "database_missing")
  /\ UNCHANGED disk

\* The database is judged by a look taken after reading "ready".
Relook(p) ==
  /\ At(p, "redb")
  /\ IF db = None THEN Found(p, "database_missing") ELSE Goto(p, "verify")
  /\ UNCHANGED disk

Verified(p) ==
  IF db \in {"empty", None} THEN "database_invalid"
  ELSE IF db = proc[p].id THEN "ready" ELSE "identity_mismatch"

Verify(p) ==
  /\ At(p, "verify")
  /\ Found(p, Verified(p))
  /\ UNCHANGED disk

Inspect(p) ==
  LookDir(p) \/ LookMarker(p) \/ LookDb(p) \/ LookGuard(p) \/ NoMarker(p)
    \/ ReadMarker(p) \/ Relook(p) \/ Verify(p)

-----------------------------------------------------------------------------
(* openCurationStoreWith and initialize.                                   *)

\* An initializing marker: wait while a guard stands, else report it.
LookOwned(p) ==
  /\ At(p, "owned")
  /\ IF guard # None THEN Goto(p, "wait") ELSE Done(p, "interrupted")
  /\ UNCHANGED disk

\* Fault: an opener keeps waiting behind the guard of a dead initializer.
WaitAlways(p) ==
  /\ At(p, "wait")
  /\ proc' = [proc EXCEPT ![p].pc = "dir", ![p].attempt = 0]
  /\ UNCHANGED disk

Wait(p) ==
  /\ At(p, "wait")
  /\ proc' = [proc EXCEPT ![p].pc = "dir", ![p].attempt = 0,
                ![p].stage = IF proc[p].late THEN "last" ELSE "first"]
  /\ UNCHANGED disk

\* GUARD_WAIT_MS have passed since the call began; only a waiter looks.
Deadline(p) ==
  /\ At(p, "wait") /\ ~proc[p].late
  /\ proc' = [proc EXCEPT ![p].late = TRUE]
  /\ UNCHANGED disk

EnsureDir(p) ==
  /\ At(p, "mkdir")
  /\ dir' = TRUE
  /\ Goto(p, "take")
  /\ UNCHANGED <<marker, db, guard>>

Guarded(p) == [proc EXCEPT ![p].pc = "dir", ![p].attempt = 0, ![p].stage = "under"]

\* Fault: a guard is taken for a dead one's and what is behind it removed.
TakeGuardClean(p) ==
  /\ At(p, "take")
  /\ guard' = p /\ proc' = Guarded(p)
  /\ marker' = IF guard = None THEN marker ELSE None
  /\ db' = IF guard = None THEN db ELSE None
  /\ UNCHANGED dir

\* Fault: the guard is written, not created exclusively.
TakeGuardAnyway(p) ==
  /\ At(p, "take")
  /\ guard' = p /\ proc' = Guarded(p)
  /\ UNCHANGED <<dir, marker, db>>

\* Fault: nothing is looked at again under the guard.
TakeGuardBlind(p) ==
  /\ At(p, "take")
  /\ IF guard # None THEN Goto(p, "wait") /\ UNCHANGED guard
     ELSE guard' = p /\ Goto(p, "write")
  /\ UNCHANGED <<dir, marker, db>>

\* tryAcquireGuard: an exclusive create.
TakeGuard(p) ==
  /\ At(p, "take")
  /\ IF guard # None THEN Goto(p, "wait") /\ UNCHANGED guard
     ELSE guard' = p /\ proc' = Guarded(p)
  /\ UNCHANGED <<dir, marker, db>>

WriteMarker(p) ==
  /\ At(p, "write")
  /\ marker' = [id |-> p, state |-> "initializing"]
  /\ Goto(p, "mkdb")
  /\ UNCHANGED <<dir, db, guard>>

CreateDb(p) ==
  /\ At(p, "mkdb")
  /\ db = None
  /\ db' = "empty"
  /\ Goto(p, "schema")
  /\ UNCHANGED <<dir, marker, guard>>

WriteSchema(p) ==
  /\ At(p, "schema")
  /\ db' = p
  /\ Goto(p, "ready")
  /\ UNCHANGED <<dir, marker, guard>>

WriteReady(p) ==
  /\ At(p, "ready")
  /\ marker' = [id |-> p, state |-> "ready"]
  /\ proc' = [proc EXCEPT ![p].pc = "release", ![p].id = p]
  /\ UNCHANGED <<dir, db, guard>>

\* Fault: the call ends without opening the store.
ReleaseAndStop(p) ==
  /\ At(p, "release")
  /\ guard' = None
  /\ Goto(p, "done")
  /\ UNCHANGED <<dir, marker, db>>

\* A call that failed under its guard has its result by now.
ReleaseGuard(p) ==
  /\ At(p, "release")
  /\ guard' = None
  /\ Goto(p, IF proc[p].result = "none" THEN "open" ELSE "done")
  /\ UNCHANGED <<dir, marker, db>>

OpenReady(p) ==
  /\ At(p, "open")
  /\ Done(p, Verified(p))
  /\ UNCHANGED disk

Step(p) ==
  Inspect(p) \/ LookOwned(p) \/ Wait(p) \/ EnsureDir(p) \/ TakeGuard(p) \/ WriteMarker(p)
    \/ CreateDb(p) \/ WriteSchema(p) \/ WriteReady(p) \/ ReleaseGuard(p) \/ OpenReady(p)

Dead == {p \in Procs : At(p, "dead")}

Crash(p) ==
  /\ proc[p].pc \notin {"idle", "done", "dead"}
  /\ Cardinality(Dead) < MaxCrashes
  /\ proc' = [proc EXCEPT ![p] = [Idle EXCEPT !.pc = "dead", !.kind = proc[p].kind]]
  /\ UNCHANGED disk

Next == \E p \in Procs :
  \/ \E k \in Kinds : Start(p, k)
  \/ Step(p) \/ Deadline(p) \/ Crash(p)

Spec == Init /\ [][Next]_vars

\* A process that runs goes on running, and one that waits again and again
\* finds the deadline past.
Fairness == \A p \in Procs : WF_vars(Step(p)) /\ SF_vars(Deadline(p))
FairSpec == Spec /\ Fairness

-----------------------------------------------------------------------------
Problems == {"guard_held", "interrupted", "unreadable", "database_without_marker",
             "database_missing", "database_invalid", "identity_mismatch"}

\* The files and the calls have the states they can have; the guard belongs
\* to a process, and a process that ended has an answer.
TypeOK ==
  /\ dir \in BOOLEAN
  /\ marker \in [id : Procs, state : {"initializing", "ready"}] \cup {None}
  /\ db \in Procs \cup {None, "empty"}
  /\ guard \in Procs \cup {None}
  /\ \A p \in Procs :
       /\ proc[p].kind \in Kinds /\ proc[p].id \in Procs \cup {None}
       /\ proc[p].seen \subseteq {"marker", "db", "guard"} /\ proc[p].attempt \in 0 .. 2
       /\ At(p, "done") => proc[p].result \in Problems \cup {"ready", "uninitialized", "mismatch"}

\* Only the process that made the guard works under it.
GuardOwned ==
  \A p \in Procs :
    (proc[p].stage = "under" /\ proc[p].pc \notin {"open", "done", "dead"}) => guard = p

\* The data directory has one installation: every process that was told the
\* store is ready was told the same id, whoever raced or died.
OneInstallation ==
  \A p, q \in Procs :
    (proc[p].result = "ready" /\ proc[q].result = "ready") => proc[p].id = proc[q].id

\* An identity once written is never replaced, and what a dead initializer
\* left unfinished is never finished by another.
IdentityStays ==
  [][marker # None => /\ marker' # None /\ marker'.id = marker.id
                      /\ marker.id \in Dead => marker' = marker]_vars

\* A create never opens a store that another process made.
CreateMakesItsOwn ==
  \A p \in Procs : proc[p].kind = "create" /\ proc[p].result = "ready" => proc[p].id = p

\* No call reports files that do not fit together, whoever died: neither a
\* live initializer seen between two of its steps nor what a dead one left is
\* taken for damage.
NoDamageSeen ==
  \A p \in Procs :
    proc[p].result \notin {"unreadable", "database_without_marker", "database_missing",
                           "database_invalid", "identity_mismatch"}

\* Every call of a process that lives ends, also behind the guard of a dead one.
EveryCallEnds ==
  \A p \in Procs : At(p, "dir") ~> proc[p].pc \in {"done", "dead"}
=============================================================================
