---------------------------- MODULE ReflectQueue ----------------------------
(***************************************************************************)
(* How a session's work reaches the critic: the Stop and SessionEnd hooks  *)
(* (apps/hook) write one queue entry per session under a per-session lock, *)
(* the worker (packages/worker) judges each pending entry, runs the critic *)
(* and moves the entry to a terminal bucket, and the operator commands     *)
(* `sil reflect` and `queue skip` touch the same files.  The worker holds  *)
(* the worker lock (module WorkerLock: one worker) but no session lock.    *)
(*                                                                         *)
(* A turn appends one line with one tool use to the transcript.  What an   *)
(* entry's `first_stop` is compared with is the time of the session's      *)
(* newest reflection, so it is kept as the number of reflections of the    *)
(* session written by then (its epoch); `last_stop` is kept as the number  *)
(* of the last turn whose Stop was queued.  The terminal buckets are kept  *)
(* as sets of sessions: nothing here reads what is in a terminal entry.    *)
(***************************************************************************)
EXTENDS Naturals, Sequences, SequencesExt

CONSTANTS
  Sessions,     \* session ids
  Foreign,      \* sessions of a world the configuration does not name
  Hooks,        \* hook processes that can run at once
  None,         \* no session, entry or process
  MinToolUses,  \* worker.min_tool_uses
  MaxAttempts,  \* MAX_ATTEMPTS
  MaxTurns,     \* bound: turns a session takes
  MaxEnds,      \* bound: SessionEnd events of a session
  MaxMishaps    \* bound: operator commands, deaths of processes and deleted
                \* transcripts, together

ASSUME BoundsAssumption ==
  /\ {MinToolUses, MaxTurns, MaxEnds, MaxMishaps} \subseteq Nat
  /\ MaxAttempts \in Nat \ {0}
  /\ Foreign \subseteq Sessions

VARIABLES
  \* the machine
  turns,        \* lines in the transcript of each session
  onDisk,       \* sessions whose transcript file exists
  pending,      \* the pending bucket: each session's entry or None
  done, failed, \* the sessions with an entry in a terminal bucket
  offset,       \* the scan offset in the session directory
  sdir,         \* sessions whose session directory exists
  slock,        \* holder of the lock directory inside it
  hook,         \* what each hook process is doing
  worker,       \* what the worker is doing
  operator,     \* what an operator command is doing
  used,         \* events counted against the bounds
  \* what happened
  reflections,  \* per session, the turns and the entry epoch each one covers
  history       \* per session, see History

vars == <<turns, onDisk, pending, done, failed, offset, sdir, slock, hook, worker,
          operator, used, reflections, history>>
buckets == <<pending, done, failed>>
env == <<turns, onDisk, used>>
seen == <<reflections, history>>

Entry == [epoch : Nat, last : Nat, stops : Nat, ended : BOOLEAN, tools : Nat,
          attempts : Nat]

ASSUME NoneAssumption == None \notin Entry \cup Sessions \cup Hooks

HookLabel == {"idle", "dir", "lock", "reclaim", "read", "write", "scan", "offset", "unlock"}
HookState == [at : HookLabel, kind : {"stop", "end"}, s : Sessions \cup {None},
              copy : Entry \cup {None}, upto : 0..MaxTurns]
IdleHook == [at |-> "idle", kind |-> "stop", s |-> None, copy |-> None, upto |-> 0]

WorkerLabel == {"idle", "next", "await", "copy", "remove", "reap"}
WorkerState == [at : WorkerLabel, list : [Sessions -> Entry \cup {None}],
                s : Sessions \cup {None}, upto : 0..MaxTurns, to : {"done", "failed"},
                broken : BOOLEAN]
IdleWorker == [at |-> "idle", list |-> [s \in Sessions |-> None], s |-> None,
               upto |-> 0, to |-> "done", broken |-> FALSE]

OperatorLabel == {"idle", "mark", "copy", "remove", "reap"}
OperatorState == [at : OperatorLabel, s : Sessions \cup {None}, copy : Entry \cup {None}]
IdleOperator == [at |-> "idle", s |-> None, copy |-> None]

\* tries: critic calls that failed in passing since a hook or a command last
\* wrote the entry; stops: Stops queued since the worker or a command last wrote
\* or removed the entry; torn: the lock directory was removed while it was held.
History == [tries : Nat, stops : Nat, torn : BOOLEAN]

TypeOK ==
  /\ turns \in [Sessions -> 0..MaxTurns]
  /\ onDisk \subseteq Sessions
  /\ pending \in [Sessions -> Entry \cup {None}]
  /\ done \subseteq Sessions /\ failed \subseteq Sessions
  /\ offset \in [Sessions -> 0..MaxTurns]
  /\ sdir \subseteq Sessions
  /\ slock \in [Sessions -> Hooks \cup {None}]
  /\ hook \in [Hooks -> HookState]
  /\ worker \in WorkerState
  /\ operator \in OperatorState
  /\ used \in [ends : [Sessions -> 0..MaxEnds], mishaps : 0..MaxMishaps]
  /\ reflections \in [Sessions -> Seq([upto : 0..MaxTurns, epoch : Nat])]
  /\ history \in [Sessions -> History]

Init ==
  /\ turns = [s \in Sessions |-> 0]
  /\ onDisk = Sessions
  /\ pending = [s \in Sessions |-> None]
  /\ done = {}
  /\ failed = {}
  /\ offset = [s \in Sessions |-> 0]
  /\ sdir = {}
  /\ slock = [s \in Sessions |-> None]
  /\ hook = [h \in Hooks |-> IdleHook]
  /\ worker = IdleWorker
  /\ operator = IdleOperator
  /\ used = [ends |-> [s \in Sessions |-> 0], mishaps |-> 0]
  /\ reflections = [s \in Sessions |-> <<>>]
  /\ history = [s \in Sessions |-> [tries |-> 0, stops |-> 0, torn |-> FALSE]]

\* Reflections of s written so far: the clock an entry's first_stop is read from.
Written(s) == Len(reflections[s])

-----------------------------------------------------------------------------
(* The Stop and SessionEnd hooks.                                          *)

\* Claude Code ends a turn (or the session) and starts a hook process.
Deliver(h, s) ==
  /\ hook[h].at = "idle"
  /\ \/ /\ turns[s] < MaxTurns /\ s \in onDisk
        /\ turns' = [turns EXCEPT ![s] = @ + 1]
        /\ hook' = [hook EXCEPT ![h] = [IdleHook EXCEPT !.at = "dir", !.kind = "stop", !.s = s]]
        /\ used' = used
     \/ /\ turns[s] < MaxTurns /\ s \in onDisk  \* stop_hook_active: not queued
        /\ turns' = [turns EXCEPT ![s] = @ + 1]
        /\ UNCHANGED <<hook, used>>
     \/ /\ used.ends[s] < MaxEnds
        /\ used' = [used EXCEPT !.ends[s] = @ + 1]
        /\ hook' = [hook EXCEPT ![h] = [IdleHook EXCEPT !.at = "dir", !.kind = "end", !.s = s]]
        /\ turns' = turns
  /\ UNCHANGED <<onDisk, buckets, offset, sdir, slock, worker, operator, seen>>

InSection(h, s) == hook[h].s = s /\ hook[h].at \notin {"idle", "dir", "lock", "reclaim"}

\* The holder is a live process inside its locked section.
HeldByOther(h, s) ==
  LET o == slock[s] IN
  /\ o \notin {None, h}
  /\ InSection(o, s)

\* A live process is in its locked section, by its own lock directory.
Locked(s) == \E h \in Hooks : slock[s] = h /\ InSection(h, s)

\* Fault: the section is entered without a lock.
EnterUnlocked(h) ==
  /\ hook[h].at = "lock"
  /\ hook' = [hook EXCEPT ![h].at = "read"]
  /\ UNCHANGED <<env, buckets, offset, sdir, slock, worker, operator, seen>>

\* sessionLock makes the session directory.
MakeSessionDir(h) ==
  /\ hook[h].at = "dir"
  /\ sdir' = sdir \cup {hook[h].s}
  /\ hook' = [hook EXCEPT ![h].at = "lock"]
  /\ UNCHANGED <<env, buckets, offset, slock, worker, operator, seen>>

\* A reap has removed it by then: mkdir of the lock throws, the event is dropped.
NoSessionDir(h) ==
  /\ hook[h].at = "lock" /\ hook[h].s \notin sdir
  /\ hook' = [hook EXCEPT ![h] = IdleHook]
  /\ UNCHANGED <<env, buckets, offset, sdir, slock, worker, operator, seen>>

\* withDirLock: mkdir takes the lock when no directory is there.
SessionLock(h) ==
  LET s == hook[h].s IN
  /\ hook[h].at = "lock" /\ s \in sdir /\ ~HeldByOther(h, s)
  /\ slock' = IF slock[s] = None THEN [slock EXCEPT ![s] = h] ELSE slock
  /\ hook' = [hook EXCEPT ![h].at = IF slock[s] = None THEN "read" ELSE "reclaim"]
  /\ UNCHANGED <<env, buckets, offset, sdir, worker, operator, seen>>

\* The directory of a dead holder is removed, whoever made the one that is
\* there by now, and the loop tries again.
ReclaimLock(h) ==
  LET s == hook[h].s IN
  /\ hook[h].at = "reclaim"
  /\ slock' = [slock EXCEPT ![s] = None]
  /\ hook' = [hook EXCEPT ![h].at = "lock"]
  /\ history' = [history EXCEPT ![s].torn = @ \/ Locked(s)]
  /\ UNCHANGED <<env, buckets, offset, sdir, worker, operator, reflections>>

\* withDirLock gives up after its wait; the event is dropped.
LockTimeout(h) ==
  /\ hook[h].at = "lock" /\ HeldByOther(h, hook[h].s)
  /\ hook' = [hook EXCEPT ![h] = IdleHook]
  /\ UNCHANGED <<env, buckets, offset, sdir, slock, worker, operator, seen>>

\* hasTranscript, then the existing entry or a new one dated now.
NewEntry(s) == [epoch |-> Written(s), last |-> 0, stops |-> 0, ended |-> FALSE,
                tools |-> 0, attempts |-> 0]

ReadEntry(h) ==
  LET s == hook[h].s IN
  /\ hook[h].at = "read"
  /\ hook' = [hook EXCEPT ![h] =
       IF s \notin onDisk /\ pending[s] = None
         THEN [@ EXCEPT !.at = "unlock"]
         ELSE [@ EXCEPT !.at = "write",
                        !.copy = IF pending[s] = None THEN NewEntry(s) ELSE pending[s]]]
  /\ UNCHANGED <<env, buckets, offset, sdir, slock, worker, operator, seen>>

\* upsertStopQueue builds the entry anew, without an `attempts` field.
UpsertStop(h) ==
  LET s == hook[h].s  e == hook[h].copy IN
  /\ hook[h].at = "write" /\ hook[h].kind = "stop"
  /\ pending' = [pending EXCEPT ![s] =
       [e EXCEPT !.last = turns[s], !.stops = @ + 1, !.attempts = 0]]
  /\ hook' = [hook EXCEPT ![h].at = "scan", ![h].copy = None]
  /\ history' = [history EXCEPT ![s].tries = 0, ![s].stops = @ + 1]
  /\ UNCHANGED <<env, done, failed, offset, sdir, slock, worker, operator, reflections>>

\* markQueueEnded keeps every field of the entry it read.
MarkEnded(h) ==
  LET s == hook[h].s  e == hook[h].copy IN
  /\ hook[h].at = "write" /\ hook[h].kind = "end"
  /\ pending' = [pending EXCEPT ![s] = [e EXCEPT !.ended = TRUE]]
  /\ hook' = [hook EXCEPT ![h].at = "unlock", ![h].copy = None]
  /\ history' = [history EXCEPT ![s].tries = 0]
  /\ UNCHANGED <<env, done, failed, offset, sdir, slock, worker, operator, reflections>>

\* scanTranscript reads from the offset on and adds the tool uses it finds,
\* unless the entry is gone by now (bumpToolUses).
Scan(h) ==
  LET s == hook[h].s IN
  /\ hook[h].at = "scan"
  /\ IF s \notin onDisk
       THEN hook' = [hook EXCEPT ![h].at = "unlock"] /\ UNCHANGED pending
       ELSE /\ hook' = [hook EXCEPT ![h].at = "offset", ![h].upto = turns[s]]
            /\ pending' = IF pending[s] = None THEN pending
                          ELSE [pending EXCEPT ![s].tools = @ + turns[s] - offset[s]]
  /\ UNCHANGED <<env, done, failed, offset, sdir, slock, worker, operator, seen>>

WriteOffset(h) ==
  /\ hook[h].at = "offset"
  /\ offset' = [offset EXCEPT ![hook[h].s] = hook[h].upto]
  /\ sdir' = sdir \cup {hook[h].s}
  /\ hook' = [hook EXCEPT ![h].at = "unlock", ![h].upto = 0]
  /\ UNCHANGED <<env, buckets, slock, worker, operator, seen>>

\* The `finally` of withDirLock removes the directory, whoever made it.
SessionUnlock(h) ==
  /\ hook[h].at = "unlock"
  /\ slock' = [slock EXCEPT ![hook[h].s] = None]
  /\ hook' = [hook EXCEPT ![h] = IdleHook]
  /\ UNCHANGED <<env, buckets, offset, sdir, worker, operator, seen>>

HookStep(h) ==
  \/ MakeSessionDir(h) \/ NoSessionDir(h) \/ SessionLock(h) \/ ReclaimLock(h) \/ LockTimeout(h)
  \/ ReadEntry(h) \/ UpsertStop(h) \/ MarkEnded(h) \/ Scan(h) \/ WriteOffset(h) \/ SessionUnlock(h)

-----------------------------------------------------------------------------
(* The worker: reflectPending over one listing of the pending bucket.      *)

StartPass ==
  /\ worker.at = "idle" /\ \E s \in Sessions : pending[s] # None
  /\ worker' = [IdleWorker EXCEPT !.at = "next", !.list = pending]
  /\ UNCHANGED <<env, buckets, offset, sdir, slock, hook, operator, seen>>

\* Fault: no look at the reflections already written.
VerdictsUnguarded(s, e) ==
  IF s \notin onDisk THEN {"missing"} ELSE {"wait", "reflect"}

\* Fault: a short session is retired only when its transcript is old.
VerdictsUnlessEnded(s, e) ==
  IF s \notin onDisk THEN {"missing"}
  ELSE IF turns[s] < MinToolUses THEN IF e.ended THEN {"wait"} ELSE {"wait", "short"}
  ELSE IF Written(s) > e.epoch THEN {"exists"} ELSE {"reflect"}

\* eligible(): the transcript is gone, the session is not idle, or it is too
\* short, for now or for good.  Its age is the file's age, which only a session
\* that has not been marked ended waits for.
Verdicts(s, e) ==
  IF s \in Foreign THEN {"unknown"}
  ELSE IF s \notin onDisk THEN {"missing"}
  ELSE LET count == IF e.tools = 0 THEN turns[s] ELSE e.tools
           age == IF e.ended THEN {"ended"} ELSE {"fresh", "idle", "abandoned"} IN
       {CASE a = "fresh" -> "wait"
          [] a = "idle" /\ count < MinToolUses -> "wait"
          [] a \in {"ended", "abandoned"} /\ count < MinToolUses /\ turns[s] < MinToolUses -> "short"
          [] OTHER -> IF Written(s) > e.epoch THEN "exists" ELSE "reflect" : a \in age}

\* The entry leaves the pass, and the pass ends with the last one; the entry
\* stays in whatever bucket it is in.
Drop(s) ==
  IF \E other \in Sessions \ {s} : worker.list[other] # None
    THEN [worker EXCEPT !.at = "next", !.list[s] = None, !.s = None, !.upto = 0, !.to = "done"]
    ELSE IdleWorker

\* Fault: the entry is moved to the bucket it is in.
MoveNowhere(s, bucket) == [worker EXCEPT !.at = "copy", !.s = s, !.to = "pending"]

\* moveToTerminal begins, for the entry as it was listed.
MoveTo(s, bucket) == [worker EXCEPT !.at = "copy", !.s = s, !.to = bucket]

\* A world whose model is not configured is not tried again in this pass.
Judge(s) ==
  /\ worker.at = "next" /\ worker.list[s] # None
  /\ \E v \in Verdicts(s, worker.list[s]) :
       /\ worker' =
            IF v = "wait" \/ (worker.broken /\ v # "unknown") THEN Drop(s)
            ELSE IF v = "reflect" THEN [worker EXCEPT !.at = "await", !.s = s, !.upto = turns[s]]
            ELSE [MoveTo(s, IF v = "unknown" THEN "failed" ELSE "done")
                    EXCEPT !.upto = IF v = "exists" THEN Last(reflections[s]).upto ELSE turns[s]]
  /\ UNCHANGED <<env, buckets, offset, sdir, slock, hook, operator, seen>>

\* reflectSession returns.  A lesson is written to its file before anything
\* else happens to the entry.
Recorded(s, e) ==
  /\ reflections' = [reflections EXCEPT ![s] = Append(@, [upto |-> worker.upto, epoch |-> e.epoch])]
  /\ worker' = MoveTo(s, "done")
  /\ UNCHANGED <<pending, history>>

NotRecorded(s) ==
  /\ worker' = MoveTo(s, "done")
  /\ UNCHANGED <<pending, history, reflections>>

\* The entry that was listed goes back to pending, over what is there now.
PutBack(s, e) ==
  /\ pending' = [pending EXCEPT ![s] = e]
  /\ UNCHANGED reflections

\* Fault: off by one or two attempts.
MayRetryMore(e) == e.attempts <= MaxAttempts

MayRetry(e) == e.attempts + 1 < MaxAttempts

FailedInPassing(s, e) ==
  IF MayRetry(e)
    THEN /\ PutBack(s, [e EXCEPT !.attempts = @ + 1])
         /\ worker' = Drop(s)
         /\ history' = [history EXCEPT ![s].tries = @ + 1, ![s].stops = 0]
    ELSE /\ worker' = MoveTo(s, "failed")
         /\ history' = [history EXCEPT ![s].tries = @ + 1]
         /\ UNCHANGED <<pending, reflections>>

NotConfigured(s, e) ==
  /\ PutBack(s, e)
  /\ worker' = IF Drop(s) = IdleWorker THEN IdleWorker ELSE [Drop(s) EXCEPT !.broken = TRUE]
  /\ history' = [history EXCEPT ![s].stops = 0]

Broke(s) ==
  /\ worker' = MoveTo(s, "failed")
  /\ UNCHANGED <<pending, history, reflections>>

Answer(s) ==
  LET e == worker.list[s] IN
  /\ worker.at = "await" /\ worker.s = s
  /\ \/ Recorded(s, e) \/ NotRecorded(s) \/ FailedInPassing(s, e)
     \/ NotConfigured(s, e) \/ Broke(s)
  /\ UNCHANGED <<env, done, failed, offset, sdir, slock, hook, operator>>

\* moveEntry writes the terminal copy first and removes the pending file then.
\* reapSessionDir removes the offset file, the lock directory and all.
Copied(s, bucket) ==
  IF bucket = "done" THEN done' = done \cup {s} /\ UNCHANGED failed
                     ELSE failed' = failed \cup {s} /\ UNCHANGED done

Removed(s) ==
  /\ pending' = [pending EXCEPT ![s] = None]
  /\ history' = [history EXCEPT ![s].stops = 0]

Reaped(s) ==
  /\ offset' = [offset EXCEPT ![s] = 0]
  /\ sdir' = sdir \ {s}
  /\ slock' = [slock EXCEPT ![s] = None]
  /\ history' = [history EXCEPT ![s].torn = @ \/ Locked(s)]

\* Fault: the pending file goes although the terminal copy was not written.
CopyFails(s) ==
  /\ worker.at = "copy" /\ worker.s = s
  /\ worker' = [worker EXCEPT !.at = "remove"]
  /\ UNCHANGED <<env, buckets, offset, sdir, slock, hook, operator, seen>>

CopyEntry(s) ==
  /\ worker.at = "copy" /\ worker.s = s
  /\ Copied(s, worker.to)
  /\ worker' = [worker EXCEPT !.at = "remove"]
  /\ UNCHANGED <<env, pending, offset, sdir, slock, hook, operator, seen>>

RemoveEntry(s) ==
  /\ worker.at = "remove" /\ worker.s = s
  /\ Removed(s)
  /\ worker' = [worker EXCEPT !.at = "reap"]
  /\ UNCHANGED <<env, done, failed, offset, sdir, slock, hook, operator, reflections>>

ReapSessionDir(s) ==
  /\ worker.at = "reap" /\ worker.s = s
  /\ Reaped(s)
  /\ worker' = Drop(s)
  /\ UNCHANGED <<env, buckets, hook, operator, reflections>>

WorkerStep ==
  \/ StartPass
  \/ \E s \in Sessions : Judge(s) \/ CopyEntry(s) \/ RemoveEntry(s) \/ ReapSessionDir(s)

-----------------------------------------------------------------------------
(* Operator commands and the environment.                                  *)

Mishap ==
  /\ used.mishaps < MaxMishaps
  /\ used' = [used EXCEPT !.mishaps = @ + 1]

\* `sil reflect` and `queue skip` load the pending entry, under no lock.
StartCommand(s) ==
  /\ Mishap /\ operator.at = "idle" /\ pending[s] # None
  /\ \E at \in {"mark", "copy"} :
       operator' = [at |-> at, s |-> s, copy |-> pending[s]]
  /\ UNCHANGED <<turns, onDisk, buckets, offset, sdir, slock, hook, worker, seen>>

\* cmdReflect writes the entry it loaded back, marked ended.
CmdReflect(s) ==
  /\ operator.at = "mark" /\ operator.s = s
  /\ pending' = [pending EXCEPT ![s] = [operator.copy EXCEPT !.ended = TRUE]]
  /\ operator' = IdleOperator
  /\ history' = [history EXCEPT ![s].tries = 0, ![s].stops = 0]
  /\ UNCHANGED <<env, done, failed, offset, sdir, slock, hook, worker, reflections>>

\* skipSession: moveToTerminal of the entry it loaded.
SkipSession(s) ==
  /\ operator.s = s
  /\ \/ /\ operator.at = "copy" /\ Copied(s, "done")
        /\ operator' = [operator EXCEPT !.at = "remove"]
        /\ UNCHANGED <<pending, offset, sdir, slock, history>>
     \/ /\ operator.at = "remove" /\ Removed(s)
        /\ operator' = [operator EXCEPT !.at = "reap"]
        /\ UNCHANGED <<done, failed, offset, sdir, slock>>
     \/ /\ operator.at = "reap" /\ Reaped(s)
        /\ operator' = IdleOperator
        /\ UNCHANGED buckets
  /\ UNCHANGED <<env, hook, worker, reflections>>

\* Claude Code cleans an old transcript up.
TranscriptGoes(s) ==
  /\ Mishap /\ s \in onDisk
  /\ onDisk' = onDisk \ {s}
  /\ UNCHANGED <<turns, buckets, offset, sdir, slock, hook, worker, operator, seen>>

\* A process dies.  What it wrote stays, its lock directory too.
Crash ==
  /\ Mishap
  /\ \/ \E h \in Hooks : hook[h].at # "idle" /\ hook' = [hook EXCEPT ![h] = IdleHook]
                         /\ UNCHANGED <<worker, operator>>
     \/ worker.at # "idle" /\ worker' = IdleWorker /\ UNCHANGED <<hook, operator>>
     \/ operator.at # "idle" /\ operator' = IdleOperator /\ UNCHANGED <<hook, worker>>
  /\ UNCHANGED <<turns, onDisk, buckets, offset, sdir, slock, seen>>

Next ==
  \/ \E h \in Hooks : HookStep(h) \/ \E s \in Sessions : Deliver(h, s)
  \/ WorkerStep
  \/ \E s \in Sessions : Answer(s) \/ StartCommand(s) \/ CmdReflect(s) \/ SkipSession(s)
                          \/ TranscriptGoes(s)
  \/ Crash

Spec == Init /\ [][Next]_vars

\* Hook processes run to their end, the worker loop polls, the critic call
\* ends, a transcript nobody writes grows old, and a provider or configuration
\* that is down is fixed some day.
Fairness ==
  /\ \A h \in Hooks : WF_vars(HookStep(h))
  /\ WF_vars(WorkerStep)
  /\ \A s \in Sessions : /\ SF_vars(Judge(s) /\ worker'.at \in {"await", "copy"})
                          /\ SF_vars(Answer(s) /\ worker'.at = "copy")

FairSpec == Spec /\ Fairness

-----------------------------------------------------------------------------
InBooks(s) == pending[s] # None \/ s \in done \cup failed

\* A session that was queued never disappears from the books: it is pending or
\* it has a terminal entry, whatever dies in the middle of moveEntry.
EntryNeverVanishes == [][\A s \in Sessions : InBooks(s) => InBooks(s)']_vars

\* One queue entry yields at most one reflection, also when the worker dies
\* between the reflection and the move, or writes an old copy back (the guard
\* on reflectedSessions and first_stop in reflectPending).
OneReflectionPerEntry ==
  \A s \in Sessions : \A i, j \in DOMAIN reflections[s] :
    reflections[s][i].epoch = reflections[s][j].epoch => i = j

\* A provider that keeps failing is asked MAX_ATTEMPTS times for an entry that
\* nobody touches in between, over any number of passes, and once more for
\* each time the worker died before it could write the attempt down.
RetriesBounded ==
  \A s \in Sessions : history[s].tries <= MaxAttempts + used.mishaps

\* The session lock keeps every Stop: an entry counts at least the Stops
\* written since the worker or a command last wrote it, unless the lock
\* directory was removed under a hook that held it (by reapSessionDir, which
\* takes no lock, or by withDirLock's removal of a dead holder's directory).
StopsNotLost ==
  \A s \in Sessions :
    (pending[s] # None /\ ~history[s].torn) => pending[s].stops >= history[s].stops

\* A session that is over does not stay queued for ever.
EndedLeavesQueue ==
  \A s \in Sessions : (pending[s] # None /\ pending[s].ended) ~> pending[s] = None

\* "A resumed session keeps its id and earns new work, so `already reflected`
\* alone would throw that work away for ever" (reflectedSessions): a session
\* leaves the queue only after a verdict that saw every turn queued for it.
NoTurnThrownAway ==
  [][\A s \in Sessions :
       RemoveEntry(s) /\ pending[s] # None => pending[s].last <= worker.upto]_vars

-----------------------------------------------------------------------------
(* Why one entry gives one reflection, and why none vanishes.              *)

\* A process in the middle of something has a session in hand, and the copy of
\* its entry if it is about to write that back.
InHand ==
  /\ \A h \in Hooks : /\ hook[h].at # "idle" => hook[h].s \in Sessions
                      /\ hook[h].at = "write" => hook[h].copy # None
  /\ worker.at \notin {"idle", "next"} => worker.s \in Sessions
  /\ worker.at = "await" => worker.list[worker.s] # None
  /\ operator.at # "idle" => operator.s \in Sessions
  /\ operator.at = "mark" => operator.copy # None

\* No scan reads past the end of a transcript.
OffsetsBehind ==
  /\ \A s \in Sessions : offset[s] <= turns[s]
  /\ \A h \in Hooks : hook[h].at = "offset" => hook[h].upto <= turns[hook[h].s]

\* No entry, and no copy of one, is dated after the reflections there are.
Dated(s, e) == e # None => e.epoch <= Written(s)
EpochsPassed ==
  /\ \A s \in Sessions : Dated(s, pending[s]) /\ Dated(s, worker.list[s])
  /\ \A h \in Hooks : hook[h].at = "write" => Dated(hook[h].s, hook[h].copy)
  /\ operator.at = "mark" => Dated(operator.s, operator.copy)

\* The critic is asked about an entry that no reflection is later than, so each
\* reflection is of the epoch that its predecessors made.
AskedOnce ==
  worker.at = "await" => worker.list[worker.s].epoch = Written(worker.s)
EpochsInOrder ==
  \A s \in Sessions : \A i \in DOMAIN reflections[s] : reflections[s][i].epoch = i - 1

\* A pending file is removed only when its terminal copy is there.
CopiedFirst ==
  /\ worker.at = "remove" => worker.s \in done \cup failed
  /\ operator.at = "remove" => operator.s \in done

IndInv ==
  /\ TypeOK
  /\ InHand
  /\ OffsetsBehind
  /\ EpochsPassed
  /\ AskedOnce
  /\ EpochsInOrder
  /\ CopiedFirst
=============================================================================
